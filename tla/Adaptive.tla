------------------------------ MODULE Adaptive ------------------------------
(***************************************************************************)
(* Adaptive replanning: the signals the engine derives from the state of a *)
(* workflow, the cooldown and the limit they pass, the replans a user asks *)
(* for, their approval, and the history of plan versions.                  *)
(* crates/terminal-session/src/adaptive.rs and the "Phase 3E" calls of     *)
(* crates/terminal-workspace/src/engine.rs.                                *)
(*                                                                         *)
(* There is one workflow.  What the evaluator looks at is moved by the     *)
(* environment; a plan is known by the request that made it and by whether *)
(* it was edited since; the planner is reduced to the phases the calls     *)
(* here read and write (Planner.tla has the others).  Metrics that nothing *)
(* reads are left out.  Each call holds the engine's mutex, so it is one   *)
(* action.                                                                 *)
(***************************************************************************)
EXTENDS Integers, FiniteSets, Sequences

CONSTANTS
    Tasks,
    Cooldown,      \* ReplanLimits.replan_cooldown_seconds
    Limits,        \* the values given to ReplanLimits.max_replans
    MaxTime, MaxVersions, MaxActs, MaxRestarts   \* bounds

None == "None"
NoPlan == [of |-> 0, edited |-> FALSE]
Plans == [of : 1..MaxVersions, edited : BOOLEAN]
Conditions == {{}, {"failed"}, {"failed", "tests"}, {"failed", "retries"},
               {"failed", "tests", "retries"}, {"missing"}}
Phases == {"Idle", "NeedsApproval", "Approved", "Executing", "Done", "Rejected", "Failed"}

VARIABLES
    now,
    world,          \* what detect_replan_signals reads: cond of every task,
                    \* findings (critical ones so far), budget
    registry,       \* SignalRegistry.last_emitted
    signals,        \* the keys of adaptive.signals; replan_signals mirrors it
    replan_count, max_replans, limit_reached,
    escalations,    \* how many
    proposals,      \* adaptive.proposals: [id, plan]
    versions,       \* adaptive.plan_versions: [plan, superseded_by, approved]
    invalidated,    \* adaptive.task_invalidations: [task, approved]
    paused,         \* workflow_paused
    planner,        \* [phase, plan]
    saved,          \* what the state file holds of this
    made,           \* plans made so far
    acts, restarts

gateVars == <<registry, signals, limit_reached, escalations>>
planVars == <<replan_count, proposals, versions, planner, made>>
vars == <<now, world, registry, signals, limit_reached, escalations,
          replan_count, proposals, versions, planner, made,
          max_replans, invalidated, paused, saved, acts, restarts>>

Act == acts < MaxActs /\ acts' = acts + 1

adaptiveState == [signals |-> signals, versions |-> versions, proposals |-> proposals,
                  invalidated |-> invalidated, escalations |-> escalations,
                  max_replans |-> max_replans, count |-> replan_count,
                  limit_reached |-> limit_reached]

-----------------------------------------------------------------------------
(* From the state of the workflow to signals.                              *)

(* ReplanSignal.dedupe_key: severity and wording are not part of it.       *)
dedupe_key(trigger, task, evidence) ==
    [trigger |-> trigger, task |-> task, evidence |-> evidence]

(* The order WorkflowEvaluator.evaluate emits the triggers in.             *)
Rules == <<"TestsFailed", "RepeatedRetryFailure", "ArtifactMissing",
           "CriticalReviewFinding", "BudgetRisk", "TaskFailure">>
Rank(key) == CHOOSE i \in DOMAIN Rules : Rules[i] = key.trigger

covered(task) == {"tests", "retries"} \cap world.cond[task] # {}

(* WorkflowEvaluator.evaluate of the snapshot detect_replan_signals takes; *)
(* environment failures and merge conflicts are never part of that.        *)
evaluate ==
    {dedupe_key("TestsFailed", t, 0) : t \in {u \in Tasks : "tests" \in world.cond[u]}}
    \cup {dedupe_key("RepeatedRetryFailure", t, 0) :
              t \in {u \in Tasks : "retries" \in world.cond[u]}}
    \cup {dedupe_key("ArtifactMissing", t, 0) :
              t \in {u \in Tasks : "missing" \in world.cond[u]}}
    \cup {dedupe_key("CriticalReviewFinding", None, world.findings) :
              n \in {1 : m \in {world.findings} \ {0}}}
    \cup {dedupe_key("BudgetRisk", None, 0) : b \in {world.budget} \cap {"risk", "over"}}
    \cup {dedupe_key("TaskFailure", t, 0) :
              t \in {u \in Tasks : "failed" \in world.cond[u] /\ ~covered(u)}}

(* SignalRegistry.admit, which also notes the time.                        *)
admit(key) == registry[key] = -1 \/ now - registry[key] >= Cooldown

Keys == {dedupe_key(tr, t, 0) : t \in Tasks, tr \in
            {"TestsFailed", "RepeatedRetryFailure", "ArtifactMissing", "TaskFailure"}}
        \cup {dedupe_key("MergeConflict", t, 0) : t \in Tasks}
        \cup {dedupe_key("CriticalReviewFinding", None, n) : n \in 1..2}
        \cup {dedupe_key("BudgetRisk", None, 0)}
Manual == dedupe_key("ManualUserRequest", None, 0)

(* record_replan_signal of keys in turn: the first that is admitted once   *)
(* the limit is used up is turned into the escalation, if there was none.  *)
record_replan_signals(keys) ==
    LET through == {k \in keys : admit(k)}
        escalate == through # {} /\ replan_count >= max_replans /\ ~limit_reached
        first == {k \in through : \A j \in through : Rank(k) <= Rank(j)}
    IN /\ registry' = [k \in Keys |-> IF k \in through THEN now ELSE registry[k]]
       /\ limit_reached' = (limit_reached \/ escalate)
       /\ escalations' = escalations + (IF escalate THEN 1 ELSE 0)
       /\ \E lost \in IF escalate THEN {{k} : k \in first} ELSE {{}} :
            signals' = signals \cup (through \ lost)

(* publish_task_events ends with it.                                       *)
detect_replan_signals ==
    /\ record_replan_signals(evaluate)
    /\ UNCHANGED <<now, world, planVars, max_replans, invalidated, paused, saved,
                   acts, restarts>>

(* worktree_merge met a conflict in the task's worktree.                   *)
MergeConflict(t) ==
    /\ Act
    /\ LET key == dedupe_key("MergeConflict", t, 0)
           escalate == replan_count >= max_replans /\ ~limit_reached
       IN /\ admit(key)
          /\ registry' = [registry EXCEPT ![key] = now]
          /\ limit_reached' = (limit_reached \/ escalate)
          /\ escalations' = escalations + (IF escalate THEN 1 ELSE 0)
          /\ signals' = IF escalate THEN signals ELSE signals \cup {key}
    /\ UNCHANGED <<now, world, planVars, max_replans, invalidated, paused, saved, restarts>>

(* By a human, past every gate.                                            *)
signal_replan ==
    /\ Act
    /\ signals' = signals \cup {Manual}
    /\ UNCHANGED <<now, world, registry, limit_reached, escalations, planVars,
                   max_replans, invalidated, paused, saved, restarts>>

-----------------------------------------------------------------------------
(* Replans.                                                                *)

Superseded(vs, next) ==
    IF vs = <<>> THEN vs ELSE [vs EXCEPT ![Len(vs)].superseded_by = next]

(* Fault: the previous version is left current.                            *)
FaultUnlinked(vs, plan, approved) ==
    Append(vs, [plan |-> plan, superseded_by |-> 0, approved |-> approved])

NextVersion(vs, plan, approved) ==
    Append(Superseded(vs, Len(vs) + 1),
           [plan |-> plan, superseded_by |-> 0, approved |-> approved])

record_plan_version(plan) == versions' = NextVersion(versions, plan, FALSE)

(* The planner makes a plan that passes, one that does not, or none.       *)
(* Before it is asked the signals are gone, and a spent limit is told.     *)
replan_workflow(outcome) ==
    /\ ~paused /\ Len(versions) < MaxVersions
    /\ signals' = {}
    /\ IF replan_count >= max_replans
       THEN /\ limit_reached' = TRUE
            /\ escalations' = escalations + (IF limit_reached THEN 0 ELSE 1)
            /\ outcome = "none"
            /\ UNCHANGED planVars
       ELSE LET plan == [of |-> made + 1, edited |-> FALSE]
            IN /\ made < MaxVersions
               /\ IF outcome = "plan"
                  THEN /\ planner' = [phase |-> "NeedsApproval", plan |-> plan]
                       /\ record_plan_version(plan)
                       /\ proposals' = proposals \cup {[id |-> made + 1, plan |-> plan]}
                       /\ replan_count' = replan_count + 1
                       /\ made' = made + 1
                  ELSE /\ planner' = [phase |-> "Failed",
                                      plan |-> IF outcome = "invalid" THEN plan ELSE NoPlan]
                       /\ made' = IF outcome = "invalid" THEN made + 1 ELSE made
                       /\ UNCHANGED <<versions, proposals, replan_count>>
               /\ UNCHANGED <<limit_reached, escalations>>
    /\ UNCHANGED <<now, world, registry, max_replans, invalidated, paused, saved,
                   acts, restarts>>

Keep == UNCHANGED <<now, world, gateVars, max_replans, invalidated, paused, saved,
                    restarts>>

(* The proposal is looked up; what is approved is the planner's plan, and  *)
(* what is marked is the last version.  The proposal stays in the list.    *)
replan_approve(p) ==
    /\ p \in proposals
    /\ planner.phase = "NeedsApproval"
    /\ planner' = [planner EXCEPT !.phase = "Approved"]
    /\ versions' = [versions EXCEPT ![Len(versions)].approved = TRUE]
    /\ UNCHANGED <<proposals, replan_count, made, acts>> /\ Keep

(* Rejects what the planner has pending, whichever proposal is dropped.    *)
replan_reject(p) ==
    /\ p \in proposals
    /\ proposals' = proposals \ {p}
    /\ planner' = IF planner.phase \in {"NeedsApproval", "Approved"}
                  THEN [planner EXCEPT !.phase = "Rejected"] ELSE planner
    /\ UNCHANGED <<versions, replan_count, made, acts>> /\ Keep

(* The planner's plan is edited and validated; the proposal and its        *)
(* version keep the plan as it was.                                        *)
replan_edit(p, valid) ==
    /\ Act
    /\ p \in proposals
    /\ planner.phase \in {"NeedsApproval", "Approved"}
    /\ planner' = [phase |-> IF valid THEN planner.phase ELSE "Failed",
                   plan |-> [planner.plan EXCEPT !.edited = TRUE]]
    /\ UNCHANGED <<proposals, versions, replan_count, made>> /\ Keep

(* The current version is the newest that nothing superseded.  The new one *)
(* is approved if that is.                                                 *)
revert_workflow_to(v) ==
    /\ v \in DOMAIN versions /\ Len(versions) < MaxVersions
    /\ LET current == {w \in DOMAIN versions : versions[w].superseded_by = 0}
           newest == CHOOSE w \in current : \A x \in current : x <= w
       IN /\ v # newest
          /\ versions' = NextVersion(versions, versions[v].plan, versions[newest].approved)
    /\ UNCHANGED <<proposals, replan_count, planner, made, acts>> /\ Keep

(* The approved plan is executed and ends; a plan is asked for outside of  *)
(* replanning, or cancelled: calls of the planner made elsewhere.          *)
PlannerElsewhere(to) ==
    /\ Act
    /\ \/ planner.phase = "Approved" /\ to = "Executing"
       \/ planner.phase = "Executing" /\ to = "Done"
    /\ planner' = [planner EXCEPT !.phase = to]
    /\ UNCHANGED <<proposals, versions, replan_count, made>> /\ Keep

(* limit_reached stays as it is.                                           *)
set_adaptive_policy(n) ==
    /\ Act
    /\ n # max_replans /\ max_replans' = n
    /\ UNCHANGED <<now, world, gateVars, planVars, invalidated, paused, saved, restarts>>

set_workflow_paused(b) ==
    /\ Act
    /\ b # paused /\ paused' = b
    /\ UNCHANGED <<now, world, gateVars, planVars, max_replans, invalidated, saved, restarts>>

(* An approved invalidation fails the task where the transition table has  *)
(* that move (a completed one: no condition here); the record is kept.     *)
invalidate_task(t, approved) ==
    /\ Act
    /\ invalidated' = invalidated \cup {[task |-> t, approved |-> approved]}
    /\ UNCHANGED <<now, world, gateVars, planVars, max_replans, paused, saved, restarts>>

-----------------------------------------------------------------------------
(* The surroundings.                                                       *)

Observe(t, c) ==
    /\ Act
    /\ c # world.cond[t]
    /\ world' = [world EXCEPT !.cond[t] = c]
    /\ UNCHANGED <<now, gateVars, planVars, max_replans, invalidated, paused, saved, restarts>>

(* record_review_report with a critical finding.                           *)
FindCritical ==
    /\ Act
    /\ world.findings < 2
    /\ world' = [world EXCEPT !.findings = @ + 1]
    /\ UNCHANGED <<now, gateVars, planVars, max_replans, invalidated, paused, saved, restarts>>

BudgetMoves(b) ==
    /\ Act
    /\ b # world.budget
    /\ world' = [world EXCEPT !.budget = b]
    /\ UNCHANGED <<now, gateVars, planVars, max_replans, invalidated, paused, saved, restarts>>

Tick ==
    /\ now < MaxTime /\ now' = now + 1
    /\ UNCHANGED <<world, gateVars, planVars, max_replans, invalidated, paused, saved,
                   acts, restarts>>

Save ==
    /\ restarts < MaxRestarts
    /\ saved' = adaptiveState
    /\ UNCHANGED <<now, world, gateVars, planVars, max_replans, invalidated, paused,
                   acts, restarts>>

(* Fault: the counter of the process starts from nothing.                  *)
FaultRestart ==
    /\ restarts < MaxRestarts /\ restarts' = restarts + 1
    /\ registry' = [k \in Keys |-> -1]
    /\ planner' = [phase |-> "Idle", plan |-> NoPlan] /\ paused' = FALSE
    /\ signals' = saved.signals /\ versions' = saved.versions
    /\ proposals' = saved.proposals /\ invalidated' = saved.invalidated
    /\ escalations' = saved.escalations /\ max_replans' = saved.max_replans
    /\ replan_count' = 0 /\ limit_reached' = saved.limit_reached
    /\ UNCHANGED <<now, world, made, saved, acts>>

(* The process ends, and another restores the state: the registry and the  *)
(* planner's plan are not in it, and the pause is not either.              *)
Restart ==
    /\ restarts < MaxRestarts /\ restarts' = restarts + 1
    /\ registry' = [k \in Keys |-> -1]
    /\ planner' = [phase |-> "Idle", plan |-> NoPlan] /\ paused' = FALSE
    /\ signals' = saved.signals /\ versions' = saved.versions
    /\ proposals' = saved.proposals /\ invalidated' = saved.invalidated
    /\ escalations' = saved.escalations /\ max_replans' = saved.max_replans
    /\ replan_count' = saved.count /\ limit_reached' = saved.limit_reached
    /\ UNCHANGED <<now, world, made, saved, acts>>

Init ==
    /\ now = 0
    /\ world = [cond |-> [t \in Tasks |-> {}], findings |-> 0, budget |-> "within"]
    /\ registry = [k \in Keys |-> -1] /\ signals = {}
    /\ replan_count = 0 /\ max_replans \in Limits /\ limit_reached = FALSE
    /\ escalations = 0 /\ proposals = {} /\ versions = <<>> /\ invalidated = {}
    /\ paused = FALSE /\ planner = [phase |-> "Idle", plan |-> NoPlan]
    /\ made = 0 /\ acts = 0 /\ restarts = 0
    /\ saved = adaptiveState

Next ==
    \/ detect_replan_signals \/ signal_replan
    \/ \E outcome \in {"plan", "invalid", "none"} : replan_workflow(outcome)
    \/ \E p \in proposals : replan_approve(p)
    \/ \E p \in proposals : replan_reject(p)
    \/ \E p \in proposals, valid \in BOOLEAN : replan_edit(p, valid)
    \/ \E v \in DOMAIN versions : revert_workflow_to(v)
    \/ \E to \in {"Executing", "Done"} : PlannerElsewhere(to)
    \/ \E n \in Limits : set_adaptive_policy(n)
    \/ \E b \in BOOLEAN : set_workflow_paused(b)
    \/ \E t \in Tasks, b \in BOOLEAN : invalidate_task(t, b)
    \/ \E t \in Tasks : MergeConflict(t)
    \/ \E t \in Tasks, c \in Conditions : Observe(t, c)
    \/ \E b \in {"none", "within", "risk", "over"} : BudgetMoves(b)
    \/ FindCritical \/ Tick \/ Save \/ Restart

Spec == Init /\ [][Next]_vars

-----------------------------------------------------------------------------
(* Properties.                                                             *)

(* Every field holds a value of its kind.                                  *)
TypeOK ==
    /\ now \in 0..MaxTime /\ paused \in BOOLEAN /\ limit_reached \in BOOLEAN
    /\ world \in [cond : [Tasks -> Conditions], findings : 0..2,
                  budget : {"none", "within", "risk", "over"}]
    /\ registry \in [Keys -> -1..MaxTime] /\ signals \subseteq Keys \cup {Manual}
    /\ versions \in Seq([plan : Plans, superseded_by : 0..MaxVersions, approved : BOOLEAN])
    /\ proposals \subseteq [id : 1..MaxVersions, plan : Plans]
    /\ planner.phase \in Phases

(* The history of plan versions is a chain: every version but the last is  *)
(* superseded by the one after it, through replans, reverts and restarts,  *)
(* so that "the current version" is one plan (workflow_history,            *)
(* revert_workflow_to).                                                    *)
HistoryIsAChain ==
    \A v \in DOMAIN versions :
        versions[v].superseded_by = IF v = Len(versions) THEN 0 ELSE v + 1

(* No more proposals are made than the highest limit that was ever set     *)
(* allows, whatever the mix of failures, reverts, policies and restarts,   *)
(* and a human is told at most once that the limit is used up.             *)
ReplansBounded ==
    /\ Cardinality({versions[v].plan : v \in DOMAIN versions})
         <= CHOOSE n \in Limits : \A m \in Limits : m <= n
    /\ escalations = IF limit_reached THEN 1 ELSE 0

(* engine.rs 1683: "the reverted plan becomes a *new proposal* gated       *)
(* behind approval".  A plan version comes to be approved only in a step   *)
(* that takes the planner through its approval gate.                       *)
ApprovedByHuman ==
    [][\A v \in DOMAIN versions' :
          versions'[v].approved /\ ~(v \in DOMAIN versions /\ versions[v].approved) =>
              planner.phase = "NeedsApproval" /\ planner'.phase = "Approved"]_versions

=============================================================================
