------------------------------ MODULE Worktrees ------------------------------
(***************************************************************************)
(* Worktree isolation: the WorktreeManager of                              *)
(* crates/terminal-session/src/worktrees.rs, the engine calls that give a  *)
(* task its worktree and carry the scheduler's verdicts to it, the review, *)
(* merge and clean-up of its result, and what a restart finds again.       *)
(*                                                                         *)
(* One repository, which is a git repository; every task is isolated and   *)
(* its steps are TaskScheduler's, reduced to what moves a worktree.  A     *)
(* worktree is <<task, attempt>>: its id, its path and its branch are      *)
(* functions of the two.  Every engine call holds one mutex and publishes  *)
(* the scheduler's events before it returns, so a call is an action.       *)
(***************************************************************************)
EXTENDS Integers, FiniteSets

CONSTANTS
    Tasks,
    MaxRetries,    \* policy.retry.max_retries
    RetryClasses,  \* policy.retry.retry_classes
    Policies,      \* what set_task_policy may set: records [retry, dirty, max]
    Cleanups,      \* the clean-up policies of the manager
    MaxCommits,    \* bound: commits on a branch
    MaxActs,       \* bound: policies set, branches checked out, tasks imported again,
                   \* worktrees discarded or removed by hand
    MaxRestarts    \* bound: restarts, after a crash or not

None == "None"
NoWorktree == <<>>
Wt == Tasks \X (1..(MaxRetries + 1))
Branch == {"main", "other"}
DefaultPolicy == [retry |-> "Fresh", dirty |-> "AllowDirty", max |-> 32]

(* The manager's copy of what it needs of a policy.                        *)
Managed(p) == [dirty |-> p.dirty, max |-> p.max]

VARIABLES
    task,      \* the scheduler's tasks: status, attempt_count, worktree_id
    rec,       \* WorktreeManager.records by worktree
    known,     \* the repository is in WorktreeManager.repositories
    policy,    \* the scheduler's policy
    manager,   \* the manager's copy of the dirty policy and of the budget
    cleanup,   \* WorktreeManager.cleanup
    dirs,      \* the worktrees on disk
    branches,  \* the feature branches in the repository
    tip,       \* commits on each of them
    head,      \* the branch checked out in the repository itself
    saved,     \* the state file
    approvedTip, \* history: the commits a human approved
    merges,      \* history: what was merged, asked for and done
    unsaved,     \* history: the worktrees removed since the last save
    doubtful,    \* history: those a restart misread, see Restart
    acts, restarts

gitVars == <<dirs, branches, tip, head>>
managerVars == <<rec, known, policy, manager, cleanup>>
historyVars == <<approvedTip, merges, unsaved, doubtful, acts, restarts>>
vars == <<task, rec, known, policy, manager, cleanup, dirs, branches, tip,
          head, saved, approvedTip, merges, unsaved, doubtful, acts, restarts>>

Act == acts < MaxActs /\ acts' = acts + 1

NoRecord == [state |-> "None", base |-> FALSE, orphaned |-> FALSE, owner |-> None]
NoTask == [status |-> "None", attempt |-> 0, worktree |-> NoWorktree]

Init ==
    /\ task = [t \in Tasks |-> NoTask]
    /\ rec = [w \in Wt |-> NoRecord] /\ known = FALSE
    /\ policy = DefaultPolicy /\ manager = Managed(DefaultPolicy) /\ cleanup = "Keep"
    /\ dirs = {} /\ branches = {} /\ tip = [w \in Wt |-> 0] /\ head = "main"
    /\ saved = [task |-> task, rec |-> rec, policy |-> policy]  \* no file: nothing to restore
    /\ approvedTip = [w \in Wt |-> 0] /\ merges = {}
    /\ unsaved = {} /\ doubtful = {}
    /\ acts = 0 /\ restarts = 0

-----------------------------------------------------------------------------
(* The manager.                                                            *)

Recorded(r) == {w \in Wt : r[w] # NoRecord}
SetState(r, w, s) == [r EXCEPT ![w] = IF @ = NoRecord THEN @ ELSE [@ EXCEPT !.state = s]]

NewRecord(t) == [state |-> "Active", base |-> TRUE, orphaned |-> FALSE, owner |-> t]

(* Attempt 1 may reuse the task's worktree, a retry only if the policy     *)
(* says so, and never one that is gone from disk.                          *)
Reuses(t, attempt) ==
    LET w == task[t].worktree IN
    /\ w # NoWorktree
    /\ attempt = 1 \/ policy.retry = "Reuse"
    /\ w \in Recorded(rec) /\ w \in dirs

create_fails(w, dirty) ==
    \/ Cardinality(Recorded(rec)) >= manager.max
    \/ manager.dirty = "RequireClean" /\ dirty
    \/ w \in Recorded(rec)
    \/ w \in dirs
    \/ w \in branches

(* remove of a set of worktrees: record, directory and branch.             *)
Removed(W) ==
    /\ rec' = [w \in Wt |-> IF w \in W THEN NoRecord ELSE rec[w]]
    /\ dirs' = dirs \ W
    /\ branches' = branches \ W
    /\ tip' = [w \in Wt |-> IF w \in W THEN 0 ELSE tip[w]]
    /\ unsaved' = unsaved \cup W

Sweeps(state) ==
    \/ cleanup = "AfterMerge" /\ state = "Merged"
    \/ cleanup = "AfterReject" /\ state = "Rejected"
    \/ cleanup = "AfterCancel" /\ state \in {"Rejected", "Merged"}

-----------------------------------------------------------------------------
(* What the engine does to the worktree of a task when it publishes the    *)
(* task's events: r is the manager's records, w the task's worktree.       *)

(* Fault: no look at the state it is in.                                   *)
FaultCaptureDowngrades(r, w) ==
    IF w # NoWorktree /\ w \in dirs THEN SetState(r, w, "NeedsReview") ELSE r

(* A diff can be taken: against the base, in the directory.                *)
diff(r, w) == w \in Recorded(r) /\ w \in dirs /\ r[w].base

(* TaskCompleted and TaskNeedsReview.                                      *)
capture_worktree_result(r, w) ==
    IF /\ w # NoWorktree /\ diff(r, w)
       /\ r[w].state \in {"Created", "Active", "Completed"}
    THEN SetState(r, w, "NeedsReview")
    ELSE r

(* TaskFailed and TaskCancelled.                                           *)
preserve_worktree(r, w) == IF w = NoWorktree THEN r ELSE SetState(r, w, "Completed")

-----------------------------------------------------------------------------
(* The scheduler's steps.                                                  *)

TaskCreate(t) ==
    /\ task[t].status = "None"
    /\ task' = [task EXCEPT ![t] = [@ EXCEPT !.status = "Ready"]]
    /\ UNCHANGED <<managerVars, gitVars, saved, historyVars>>

(* plan_resume has removed the step's task and imports it again.           *)
Reimport(t) ==
    /\ Act
    /\ task[t].status \in {"Ready", "NeedsReview", "Interrupted", "Failed", "Cancelled"}
    /\ task' = [task EXCEPT ![t] = [NoTask EXCEPT !.status = "Ready"]]
    /\ UNCHANGED <<managerVars, gitVars, saved, approvedTip, merges, unsaved, doubtful, restarts>>

may_retry(class, attempts) == attempts <= MaxRetries /\ class \in RetryClasses

(* fail_task from a state the transition table lets fail: back into the    *)
(* queue, or failed for good and its worktree kept for a look.             *)
Fails(t, class, attempts, worktree, r) ==
    IF may_retry(class, attempts)
    THEN /\ task' = [task EXCEPT ![t] = [status |-> "Ready", attempt |-> attempts,
                                         worktree |-> worktree]]
         /\ rec' = r
    ELSE /\ task' = [task EXCEPT ![t] = [status |-> "Failed", attempt |-> attempts,
                                         worktree |-> worktree]]
         /\ rec' = preserve_worktree(r, worktree)

(* A ready task starts: the attempt counts, the environment is resolved    *)
(* and the agent spawned; either may fail, and the attempt is given back.  *)
SpawnIn(t, w, r) ==
    \/ /\ task' = [task EXCEPT ![t] = [status |-> "Running", attempt |-> @.attempt + 1,
                                       worktree |-> w]]
       /\ rec' = r
    \/ Fails(t, "Unknown", task[t].attempt, w, r)

Spawn(t) ==
    LET attempt == task[t].attempt + 1
        w == <<t, attempt>>
    IN
    /\ task[t].status = "Ready" /\ attempt <= MaxRetries + 1
    /\ \/ /\ Reuses(t, attempt)
          /\ SpawnIn(t, task[t].worktree, rec)
          /\ UNCHANGED <<known, gitVars>>
       \/ /\ ~Reuses(t, attempt)
          /\ \E dirty \in BOOLEAN :
               \/ /\ create_fails(w, dirty)
                  /\ Fails(t, "Unknown", task[t].attempt, task[t].worktree, rec)
                  /\ UNCHANGED <<known, gitVars>>
               \/ /\ ~create_fails(w, dirty)
                  /\ SpawnIn(t, w, [rec EXCEPT ![w] = NewRecord(t)])
                  /\ known' = TRUE
                  /\ dirs' = dirs \cup {w} /\ branches' = branches \cup {w}
                  /\ tip' = [tip EXCEPT ![w] = 0]
                  /\ UNCHANGED head
    /\ UNCHANGED <<policy, manager, cleanup, saved, historyVars>>

(* The agent works in the directory it was started in.                     *)
Commit(t) ==
    LET w == task[t].worktree IN
    /\ task[t].status = "Running" /\ w \in dirs /\ tip[w] < MaxCommits
    /\ tip' = [tip EXCEPT ![w] = @ + 1]
    /\ UNCHANGED <<task, managerVars, dirs, branches, head, saved, historyVars>>

(* Isolated work always lands in review.                                   *)
Complete(t) ==
    /\ task[t].status = "Running"
    /\ task' = [task EXCEPT ![t].status = "NeedsReview"]
    /\ rec' = capture_worktree_result(rec, task[t].worktree)
    /\ UNCHANGED <<known, policy, manager, cleanup, gitVars, saved, historyVars>>

Fail(t) ==
    /\ task[t].status = "Running"
    /\ \E class \in {"AgentCrash", "TaskFailure"} :
         Fails(t, class, task[t].attempt, task[t].worktree, rec)
    /\ UNCHANGED <<known, policy, manager, cleanup, gitVars, saved, historyVars>>

Cancel(t) ==
    /\ task[t].status \in {"Ready", "Running", "NeedsReview", "Interrupted"}
    /\ task' = [task EXCEPT ![t].status = "Cancelled"]
    /\ rec' = preserve_worktree(rec, task[t].worktree)
    /\ UNCHANGED <<known, policy, manager, cleanup, gitVars, saved, historyVars>>

(* A manual retry counts attempts from the beginning.                      *)
Retry(t) ==
    /\ task[t].status \in {"Failed", "Interrupted"}
    /\ task' = [task EXCEPT ![t] = [@ EXCEPT !.status = "Ready", !.attempt = 0]]
    /\ UNCHANGED <<managerVars, gitVars, saved, historyVars>>

-----------------------------------------------------------------------------
(* Review and integration.                                                 *)

(* resolve_task_review: the scheduler moves the task, the engine then      *)
(* marks the worktree, and only then publishes the task's event.           *)
Approve(t) ==
    LET w == task[t].worktree IN
    /\ task[t].status = "NeedsReview"
    /\ task' = [task EXCEPT ![t].status = "Completed"]
    /\ rec' = IF w = NoWorktree THEN rec
              ELSE capture_worktree_result(SetState(rec, w, "Approved"), w)
    /\ approvedTip' = IF w = NoWorktree THEN approvedTip ELSE [approvedTip EXCEPT ![w] = tip[w]]
    /\ UNCHANGED <<known, policy, manager, cleanup, gitVars, saved, merges, unsaved, doubtful, acts, restarts>>

Reject(t) ==
    LET w == task[t].worktree IN
    /\ task[t].status = "NeedsReview"
    /\ task' = [task EXCEPT ![t].status = "Failed"]
    /\ rec' = IF w = NoWorktree THEN rec
              ELSE preserve_worktree(SetState(rec, w, "Rejected"), w)
    /\ UNCHANGED <<known, policy, manager, cleanup, gitVars, saved, historyVars>>

(* Fault: no approval asked for.                                           *)
FaultMergeAnyState(w, target) ==
    /\ w \in Recorded(rec) \cap branches
    /\ rec' = SetState(rec, w, "Merged")
    /\ merges' = merges \cup {[worktree |-> w, target |-> target, into |-> head,
                               reviewed |-> tip[w] = approvedTip[w]]}
    /\ UNCHANGED <<task, known, policy, manager, cleanup, gitVars, saved,
                   approvedTip, unsaved, doubtful, acts, restarts>>

(* worktree_merge: only from Approved.  git merge integrates into whatever *)
(* is checked out; a conflict or an error of git changes nothing.          *)
Merge(w, target) ==
    /\ w \in Recorded(rec) \cap branches /\ rec[w].state = "Approved"
    /\ rec' = SetState(rec, w, "Merged")
    /\ merges' = merges \cup {[worktree |-> w, target |-> target, into |-> head,
                               reviewed |-> w \in doubtful \/ tip[w] = approvedTip[w]]}
    /\ UNCHANGED <<task, known, policy, manager, cleanup, gitVars, saved,
                   approvedTip, unsaved, doubtful, acts, restarts>>

Discard(w) ==
    /\ Act
    /\ w \in Recorded(rec)
    /\ Removed({w})
    /\ UNCHANGED <<task, known, policy, manager, cleanup, head, saved, approvedTip,
                   merges, doubtful, restarts>>

Cleanup ==
    /\ \E w \in Recorded(rec) : Sweeps(rec[w].state)
    /\ Removed({w \in Recorded(rec) : Sweeps(rec[w].state)})
    /\ UNCHANGED <<task, known, policy, manager, cleanup, head, saved, approvedTip,
                   merges, doubtful, acts, restarts>>

(* set_task_policy also sets the manager's copy.                           *)
SetTaskPolicy(p) ==
    /\ Act
    /\ policy # p
    /\ policy' = p /\ manager' = Managed(p)
    /\ UNCHANGED <<task, rec, known, cleanup, gitVars, saved, approvedTip, merges, unsaved, doubtful, restarts>>

SetCleanup(c) ==
    /\ Act
    /\ cleanup # c
    /\ cleanup' = c
    /\ UNCHANGED <<task, rec, known, policy, manager, gitVars, saved, approvedTip, merges, unsaved, doubtful, restarts>>

-----------------------------------------------------------------------------
(* The user's own git, outside of the application.                         *)

Checkout ==
    /\ Act
    /\ head' \in Branch \ {head}
    /\ UNCHANGED <<task, managerVars, dirs, branches, tip, saved, approvedTip, merges, unsaved, doubtful, restarts>>

RemovedByHand(w) ==
    /\ Act
    /\ w \in dirs
    /\ dirs' = dirs \ {w}
    /\ UNCHANGED <<task, managerVars, branches, tip, head, saved, approvedTip, merges, unsaved, doubtful, restarts>>

-----------------------------------------------------------------------------
(* The state file and restarts.                                            *)

Save ==
    /\ restarts < MaxRestarts
    /\ saved' = [task |-> task, rec |-> rec, policy |-> policy]
    /\ unsaved' = {}
    /\ UNCHANGED <<task, managerVars, gitVars, approvedTip, merges, doubtful, acts, restarts>>

(* import_persisted: what ran is interrupted.                              *)
Imported(t) == IF t.status = "Running" THEN [t EXCEPT !.status = "Interrupted"] ELSE t

(* Fault: an interrupted task owns nothing.                                *)
FaultScanLiveOnly(tk, r) ==
    LET owners == {t \in Tasks : tk[t].worktree # NoWorktree
                                 /\ tk[t].status \in {"Ready", "NeedsReview"}}
    IN  [w \in Wt |-> IF w \in Recorded(r)
                      THEN [r[w] EXCEPT !.orphaned = r[w].owner \notin owners] ELSE r[w]]

(* scan: records the tasks own are theirs again, those whose task owns     *)
(* none are orphans, and worktrees on disk without a record get one.       *)
scan(tk, r) ==
    LET owners == {t \in Tasks : tk[t].worktree # NoWorktree}
        owner(w) == {t \in owners : tk[t].worktree = w}
        reclaimed == [w \in Wt |->
            IF w \in Recorded(r) /\ owner(w) # {}
            THEN [r[w] EXCEPT !.owner = CHOOSE t \in owner(w) : TRUE, !.orphaned = FALSE]
            ELSE r[w]]
    IN  [w \in Wt |->
            IF w \notin dirs THEN reclaimed[w]
            ELSE IF w \in Recorded(reclaimed)
                 THEN [reclaimed[w] EXCEPT !.orphaned = reclaimed[w].owner \notin owners]
                 ELSE [state |-> "NeedsReview", base |-> FALSE, orphaned |-> owner(w) = {},
                       owner |-> IF owner(w) = {} THEN None ELSE CHOOSE t \in owner(w) : TRUE]]

(* The application ends, at any moment, and starts again from what it last *)
(* saved.  The manager knows the repositories its records name, no other,  *)
(* and its policies are the defaults again.  Two things are beyond it: a   *)
(* worktree in a repository no saved record names is not seen, and one     *)
(* that was removed, and perhaps made anew, after the save is taken for    *)
(* what it was then.                                                       *)
Restart ==
    /\ restarts < MaxRestarts
    /\ restarts' = restarts + 1
    /\ task' = [t \in Tasks |-> Imported(saved.task[t])]
    /\ known' = (Recorded(saved.rec) # {})
    /\ rec' = IF known' THEN scan(task', saved.rec) ELSE saved.rec
    /\ policy' = saved.policy
    /\ doubtful' = doubtful \cup unsaved \cup (IF known' THEN {} ELSE dirs)
    /\ unsaved' = {}
    /\ manager' = Managed(DefaultPolicy)
    /\ cleanup' = "Keep"
    /\ UNCHANGED <<gitVars, saved, approvedTip, merges, acts>>

Next ==
    \/ \E t \in Tasks :
         \/ TaskCreate(t) \/ Reimport(t) \/ Spawn(t) \/ Commit(t) \/ Complete(t)
         \/ Fail(t) \/ Cancel(t) \/ Retry(t) \/ Approve(t) \/ Reject(t)
    \/ \E w \in Wt :
         \/ \E target \in Branch : Merge(w, target)
         \/ Discard(w) \/ RemovedByHand(w)
    \/ Cleanup
    \/ \E p \in Policies : SetTaskPolicy(p)
    \/ \E c \in Cleanups : SetCleanup(c)
    \/ Checkout
    \/ Save
    \/ Restart

Spec == Init /\ [][Next]_vars

-----------------------------------------------------------------------------
(* What isolation promises.                                                *)

TypeOK ==
    /\ \A t \in Tasks :
         /\ task[t].status \in {"None", "Ready", "Running", "NeedsReview", "Completed",
                               "Failed", "Cancelled", "Interrupted"}
         /\ task[t].attempt \in 0..(MaxRetries + 1)
         /\ task[t].worktree \in Wt \cup {NoWorktree}
    /\ \A w \in Wt : w \in Recorded(rec) =>
         rec[w].state \in {"Active", "Completed", "NeedsReview", "Approved", "Merged"}
    /\ dirs \subseteq branches /\ branches \subseteq Wt

(* Whatever was saved last and whenever the application died, a worktree a *)
(* task names and that is on disk has a record, is that task's, and is not *)
(* taken for an orphan (restore, scan, environment_for_task).              *)
OwnersKnown ==
    \A t \in Tasks : task[t].worktree \in dirs \ doubtful =>
        LET r == rec[task[t].worktree] IN r # NoRecord /\ r.owner = t /\ ~r.orphaned

(* What a human approved is what may be merged and what was merged: no     *)
(* agent runs in an approved worktree and its branch stays where it was.   *)
ApprovedIsFrozen ==
    /\ \A w \in (Recorded(rec) \cap branches) \ doubtful : rec[w].state \in {"Approved", "Merged"} =>
         /\ tip[w] = approvedTip[w]
         /\ \A t \in Tasks : task[t].worktree = w => task[t].status # "Running"
    /\ \A m \in merges : m.reviewed

(* The human's verdict reaches the worktree and stays there, although the  *)
(* approval publishes the same event as the end of the agent did, and      *)
(* whatever a restart brings back.  Not so where it misread the worktree:  *)
(* a tree whose record was lost gets one in review at the second restart.  *)
VerdictReachesTree ==
    \A t \in Tasks :
        LET w == task[t].worktree IN
        task[t].status = "Completed" /\ w \notin doubtful \cup {NoWorktree} =>
            w \notin Recorded(rec) \/ rec[w].state \in {"Approved", "Merged"}

(* merge: "Merges an approved worktree's branch into target_branch."       *)
MergeLandsOnTarget == \A m \in merges : m.into = m.target

=============================================================================
