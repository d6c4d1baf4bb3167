----------------------------- MODULE MCWorkflow -----------------------------
(***************************************************************************)
(* The components that carry a workflow, side by side: the planner, the    *)
(* worktrees of its tasks, the approvals, replanning, what tasks hand to   *)
(* each other, and what is told of an agent at work.  They share no state  *)
(* in these modules, so a run looks at one of them at a time: focus names  *)
(* it, the others stay as they were, and the state spaces add up and do    *)
(* not multiply.  workflow.cfg makes each of them small.                   *)
(***************************************************************************)
EXTENDS Planner

CONSTANTS
    Tasks, RetryClasses, Policies, Cleanups, MaxCommits,     \* Worktrees
    MaxActs,
    Contexts, Uses, TTL, MaxRecords, MaxAudit, MaxTime,      \* Policy
    MaxUses,
    Cooldown, Limits, MaxVersions,                           \* Adaptive
    Handed, Deps, Findings, Grades, MaxArtifacts, MaxIds,    \* Artifacts
    MaxReports,
    Lines, ExitCodes, ActivityCapacity, TimelineCapacity,    \* AgentWork
    EVENT_CAPACITY, MaxLines, MaxRuns, MaxToggles

VARIABLES
    focus,
    wt_task, wt_rec, wt_known, wt_policy, wt_manager, wt_cleanup, wt_dirs,
    wt_branches, wt_tip, wt_head, wt_saved, wt_approved, wt_merges, wt_unsaved,
    wt_doubtful, wt_acts, wt_restarts,
    po_now, po_config, po_approvals, po_requested, po_audit, po_saved,
    po_granted, po_honored, po_acts, po_restarts,
    ad_now, ad_world, ad_registry, ad_signals, ad_count, ad_max, ad_reached,
    ad_escalations, ad_proposals, ad_versions, ad_invalidated, ad_paused,
    ad_planner, ad_saved, ad_made, ad_acts, ad_restarts,
    ar_task, ar_store, ar_reports, ar_invalid, ar_given, ar_made, ar_acts,
    ar_restarts,
    wk_pane, wk_agent, wk_stopping, wk_pump, wk_work, wk_events, wk_old, wk_prefs,
    wk_ui, wk_entered, wk_mixed, wk_count

wtVars == <<wt_task, wt_rec, wt_known, wt_policy, wt_manager, wt_cleanup, wt_dirs,
            wt_branches, wt_tip, wt_head, wt_saved, wt_approved, wt_merges,
            wt_unsaved, wt_doubtful, wt_acts, wt_restarts>>
poVars == <<po_now, po_config, po_approvals, po_requested, po_audit, po_saved,
            po_granted, po_honored, po_acts, po_restarts>>
adVars == <<ad_now, ad_world, ad_registry, ad_signals, ad_count, ad_max,
            ad_reached, ad_escalations, ad_proposals, ad_versions,
            ad_invalidated, ad_paused, ad_planner, ad_saved, ad_made, ad_acts,
            ad_restarts>>
arVars == <<ar_task, ar_store, ar_reports, ar_invalid, ar_given, ar_made, ar_acts,
            ar_restarts>>
wkVars == <<wk_pane, wk_agent, wk_stopping, wk_pump, wk_work, wk_events, wk_old,
            wk_prefs, wk_ui, wk_entered, wk_mixed, wk_count>>

-----------------------------------------------------------------------------
(* Two plans of two steps, one of them a cycle.                            *)
Step(n, deps) == [id |-> n, depends_on |-> deps]
MCProposals == {<<Step(1, {}), Step(2, {1})>>, <<Step(1, {2}), Step(2, {1})>>}

(* The worktree of a failed task is kept for the next try.                 *)
MCPolicies == {[retry |-> "Reuse", dirty |-> "RequireClean", max |-> 1]}
Trees == INSTANCE Worktrees WITH
    task <- wt_task, rec <- wt_rec, known <- wt_known, policy <- wt_policy,
    manager <- wt_manager, cleanup <- wt_cleanup, dirs <- wt_dirs,
    branches <- wt_branches, tip <- wt_tip, head <- wt_head, saved <- wt_saved,
    approvedTip <- wt_approved, merges <- wt_merges, unsaved <- wt_unsaved,
    doubtful <- wt_doubtful, acts <- wt_acts, restarts <- wt_restarts

(* One action asked for, and the same tried by another agent, in another   *)
(* workflow, and changed.                                                  *)
Action(workflow, agent, hash) == [workflow |-> workflow, agent |-> agent, hash |-> hash]
MCContexts == {Action("w1", "a1", "h1")}
MCUses == MCContexts \cup {Action("w1", "a2", "h1"), Action("w2", "a1", "h1"),
                           Action("w1", "None", "h2")}
Approvals == INSTANCE Policy WITH
    MaxActs <- MaxUses,
    now <- po_now, config <- po_config, approvals <- po_approvals,
    requested <- po_requested, audit <- po_audit, saved <- po_saved,
    granted <- po_granted, honored <- po_honored, acts <- po_acts,
    restarts <- po_restarts

(* Tasks that fail, block and recover; so many replans allowed, or none.   *)
Replans == INSTANCE Adaptive WITH
    now <- ad_now, world <- ad_world, registry <- ad_registry,
    signals <- ad_signals, replan_count <- ad_count, max_replans <- ad_max,
    limit_reached <- ad_reached, escalations <- ad_escalations,
    proposals <- ad_proposals, versions <- ad_versions,
    invalidated <- ad_invalidated, paused <- ad_paused, planner <- ad_planner,
    saved <- ad_saved, made <- ad_made, acts <- ad_acts, restarts <- ad_restarts

(* A task, one that depends on it and one that does not.                   *)
MCDeps == [x \in Handed |-> IF x = "b" THEN {"a"} ELSE {}]
Handover == INSTANCE Artifacts WITH
    Tasks <- Handed, MaxActs <- MaxUses,
    task <- ar_task, store <- ar_store, reports <- ar_reports,
    invalid <- ar_invalid, given <- ar_given, made <- ar_made, acts <- ar_acts,
    restarts <- ar_restarts

(* An agent that asks, edits and runs commands.                            *)
Line(hint, kind, command, file) ==
    [hint |-> hint, kind |-> kind, command |-> command, file |-> file]
MCLines == {Line("NeedsApproval", "none", "none", "none"),
            Line("none", "Editing", "none", "f1"),
            Line("none", "RunningCommand", "git", "none")}
Told == INSTANCE AgentWork WITH
    pane <- wk_pane, agent <- wk_agent, stopping <- wk_stopping, pump <- wk_pump,
    work <- wk_work, events <- wk_events, old <- wk_old, prefs <- wk_prefs,
    ui <- wk_ui, entered <- wk_entered, mixed <- wk_mixed, count <- wk_count

-----------------------------------------------------------------------------
WorkflowInit ==
    /\ focus \in {"planner", "worktrees", "approvals", "replans", "artifacts",
                 "work"}
    /\ Init /\ Trees!Init /\ Approvals!Init /\ Replans!Init /\ Handover!Init
    /\ Told!Init
    /\ cap = 2 \/ focus = "planner"     \* one initial state of those at rest
    /\ ad_max = 1 \/ focus = "replans"
    /\ wk_pane                         \* nothing is told of a headless agent

WorkflowNext ==
    \/ focus = "planner" /\ Next /\ UNCHANGED <<focus, wtVars, poVars, adVars, arVars, wkVars>>
    \/ focus = "worktrees" /\ Trees!Next /\ UNCHANGED <<focus, vars, poVars, adVars, arVars, wkVars>>
    \/ focus = "approvals" /\ Approvals!Next /\ UNCHANGED <<focus, vars, wtVars, adVars, arVars, wkVars>>
    \/ focus = "replans" /\ Replans!Next /\ UNCHANGED <<focus, vars, wtVars, poVars, arVars, wkVars>>
    \/ focus = "artifacts" /\ Handover!Next /\ UNCHANGED <<focus, vars, wtVars, poVars, adVars, wkVars>>
    \/ focus = "work" /\ Told!Next /\ UNCHANGED <<focus, vars, wtVars, poVars, adVars, arVars>>

allVars == <<focus, vars, wtVars, poVars, adVars, arVars, wkVars>>

WorkflowSpec == WorkflowInit /\ [][WorkflowNext]_allVars

-----------------------------------------------------------------------------
(* Properties: those of the components, one of each.                       *)

(* The state of the component in focus has its type.                       *)
TypesOK ==
    /\ focus = "planner" => TypeOK
    /\ focus = "worktrees" => Trees!TypeOK
    /\ focus = "approvals" => Approvals!TypeOK
    /\ focus = "replans" => Replans!TypeOK
    /\ focus = "artifacts" => Handover!TypeOK
    /\ focus = "work" => Told!TypeOK

(* What a task works in is its own and is found again after a crash at any *)
(* moment; what a human approved is what may be merged, with no agent in   *)
(* it; and the verdict a human gave a task is the one its worktree has     *)
(* (restore, scan, capture_worktree_result, merge).                        *)
IsolationHolds == Trees!OwnersKnown /\ Trees!ApprovedIsFrozen /\ Trees!VerdictReachesTree

(* An approval lets one action through, once, and the one that was asked   *)
(* for, after a human granted it, before it expired and wherever it was    *)
(* saved, restored and pruned; a level of autonomy decides only between    *)
(* running and asking; the trail is the recent history (honor, prune,      *)
(* autonomy_decision, AuditTrail::record).                                 *)
ApprovalsHold ==
    /\ []Approvals!HonoredOnce
    /\ Approvals!GrantIsHonest /\ Approvals!AutonomyOnlyAsks
    /\ Approvals!AuditIsRecentHistory

(* Plan versions form a chain with one end, and no mix of failures,        *)
(* reverts, changed limits and restarts makes more proposals than a limit  *)
(* that was set (replan_trigger, revert_workflow_to, restore).             *)
ReplanningHolds == Replans!HistoryIsAChain /\ Replans!ReplansBounded

(* What a task is given it declared, by its id or as a task downstream;    *)
(* store and graph agree on who made an artifact; and no report makes the  *)
(* verdict of the reviewers milder (can_access, register_task_artifacts,   *)
(* aggregate).                                                             *)
ArtifactsHold ==
    /\ [](Handover!GivenWasGranted /\ Handover!LineageIsTrue)
    /\ Handover!ConsensusOnlyWorsens

(* Of an agent at work: its record never repeats itself and ends as the    *)
(* session does, a user with its pane hears of every state that wants      *)
(* attention, once, and who follows its events ends up where it is         *)
(* (process_chunk, finish, stop, emit_agent_notifications).                *)
WorkHolds ==
    focus = "work" => /\ Told!ActivityIsNews /\ Told!VerdictIsOne
                      /\ Told!AttentionIsHeard /\ Told!WatcherAgrees
=============================================================================
