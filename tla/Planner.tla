------------------------------- MODULE Planner -------------------------------
(***************************************************************************)
(* The workflow planner of crates/terminal-session/src/planning.rs and the *)
(* engine calls of crates/terminal-workspace/src/engine.rs that drive it.  *)
(*                                                                         *)
(* A provider proposes a plan, a human edits and approves it, and          *)
(* plan_execute imports its steps into the scheduler's graph as tasks of   *)
(* the same ids.  From there the scheduler moves the tasks, and the planner*)
(* mirrors what it publishes until every step is over.                     *)
(*                                                                         *)
(* The scheduler is TaskScheduler, seen from outside: a task moves along   *)
(* its lifecycle and each pass classifies the pending and blocked ones.    *)
(* Every engine call holds one mutex and publishes before it returns, so   *)
(* a call is an action.  Step n is the id "step-n".                        *)
(***************************************************************************)
EXTENDS Integers, FiniteSets, SequencesExt

CONSTANTS
    MaxSteps,     \* bound: step ids are 1..MaxSteps
    Proposals,    \* the plans a provider may answer with
    Caps,         \* what the scheduler's policy may allow to run at a time
    MaxRequests,  \* bound: requests to the provider
    MaxEdits,     \* bound: human edits
    MaxRetries,   \* bound: tasks retried, by policy or by hand
    MaxRestarts,  \* bound: restarts of the application
    MaxTogether   \* bound: edits, retries and restarts together

StepIds == 1..MaxSteps
PlanStep == [id : StepIds, depends_on : SUBSET StepIds]

Ids(p) == {p[i].id : i \in DOMAIN p}

ASSUME BoundsAssumption ==
    {MaxSteps, MaxRequests, MaxEdits, MaxRetries, MaxRestarts, MaxTogether} \subseteq Nat
ASSUME CapsAssumption == Caps # {} /\ Caps \subseteq Nat \ {0}
(* An answer of the provider that into_plan accepts: ids are unique and    *)
(* dependencies name steps of the plan, possibly in a circle.              *)
into_plan(p) ==
    /\ p # <<>> /\ Len(p) <= MaxSteps /\ p \in Seq(PlanStep)
    /\ Cardinality(Ids(p)) = Len(p)
    /\ \A i \in DOMAIN p : p[i].depends_on \subseteq Ids(p)

ASSUME ProposalsAssumption == \A p \in Proposals : into_plan(p)

PlannerPhase == {"Idle", "NeedsApproval", "Approved", "Executing",
                 "Interrupted", "Done", "Failed", "Cancelled", "Rejected"}
PlanStepStatus == {"Pending", "Queued", "Running", "Completed", "Failed",
                   "Cancelled", "Skipped"}
(* Running stands for Waiting and NeedsReview too, Held for a task that is *)
(* Blocked until a human acts; None: the graph has no such task.           *)
TaskStatus == {"None", "Pending", "Ready", "Running", "Blocked", "Held",
               "Completed", "Failed", "Cancelled", "Interrupted"}

VARIABLES
    phase, edited,   \* PlannerState.phase, edited
    planned, steps,  \* PlannerState.plan is Some, and its steps
    step_status,     \* PlannerState.step_status, "None" where it has no entry
    completed_steps, \* PlannerState.completed_steps
    plan_task_ids,   \* Multiplexer.plan_task_ids
    cap,             \* policy.max_parallel_tasks
    tasks,           \* the tasks of the scheduler's graph, by id
    request,         \* how many requests were made: it names the plan
    refused,         \* history: an import of the current plan was refused
    approved,        \* history: a human has approved the current plan
    earned,          \* history: the steps the current plan's tasks completed
    edits, retries, restarts  \* counters of the bounded actions

planVars == <<planned, steps, edited>>
historyVars == <<request, refused, approved>>
boundVars == <<edits, retries, restarts>>
mirrorVars == <<phase, step_status, completed_steps, tasks, earned>>
vars == <<planVars, mirrorVars, plan_task_ids, cap, historyVars, boundVars>>

Room == edits + retries + restarts < MaxTogether

NoTask == [status |-> "None", deps |-> {}, of |-> 0]

Init ==
    /\ phase = "Idle" /\ edited = FALSE /\ planned = FALSE /\ steps = <<>>
    /\ step_status = [s \in StepIds |-> "None"] /\ completed_steps = {}
    /\ plan_task_ids = {} /\ cap \in Caps
    /\ tasks = [s \in StepIds |-> NoTask]
    /\ request = 0 /\ refused = FALSE /\ approved = FALSE /\ earned = {}
    /\ edits = 0 /\ retries = 0 /\ restarts = 0

-----------------------------------------------------------------------------
(* The gates a plan passes.                                                *)

(* Nobody waits for itself, directly or through others.                    *)
Acyclic(p) ==
    \A S \in SUBSET Ids(p) \ {{}} :
        \E i \in DOMAIN p : p[i].id \in S /\ p[i].depends_on \cap S = {}

(* Fault: the edges are taken as they come.                                *)
FaultCompileNodesOnly(p) == Cardinality(Ids(p)) = Len(p)

(* PlanCompiler.compile succeeds: the graph takes every task and edge.     *)
compile(p) ==
    /\ Cardinality(Ids(p)) = Len(p)
    /\ \A i \in DOMAIN p : p[i].depends_on \subseteq Ids(p)
    /\ Acyclic(p)

(* PlanValidator.validate.  Of what it holds against a limit that may      *)
(* change, only the width of the first wave is kept; agents, budget and    *)
(* worktrees are compared in the same way.                                 *)
validate(p) ==
    /\ compile(p)
    /\ Len(p) > 1 =>
         Cardinality({i \in DOMAIN p : p[i].depends_on = {}}) <= cap

-----------------------------------------------------------------------------
(* The scheduler's side and the mirror.                                    *)

from_task(status) ==
    CASE status \in {"Pending", "Ready"} -> "Queued"
      [] status \in {"Blocked", "Held"} -> "Skipped"
      [] status = "Interrupted" -> "Cancelled"
      [] OTHER -> status

(* classify_pending for all tasks, under the default failure policy.       *)
Classified(ts) ==
    [t \in StepIds |->
        IF ts[t].status \notin {"Pending", "Blocked"} THEN ts[t]
        ELSE IF \A d \in ts[t].deps : ts[d].status = "Completed"
             THEN [ts[t] EXCEPT !.status = "Ready"]
        ELSE IF \E d \in ts[t].deps : ts[d].status \in {"Failed", "Cancelled"}
             THEN [ts[t] EXCEPT !.status = "Blocked"]
        ELSE ts[t]]

Settled == {"Completed", "Failed", "Cancelled", "Skipped"}

(* Fault: a plan is over when one of its steps is.                         *)
FaultFinishedEarly(ph, ss) ==
    IF ph # "Executing" \/ steps = <<>> \/ \A s \in Ids(steps) : ss[s] \notin Settled
    THEN ph ELSE "Done"

(* maybe_finish_plan.                                                      *)
Finished(ph, ss) ==
    IF ph # "Executing" \/ steps = <<>> \/ \E s \in Ids(steps) : ss[s] \notin Settled
    THEN ph
    ELSE IF \A s \in Ids(steps) : ss[s] = "Completed" THEN "Done" ELSE "Cancelled"

(* on_step_status for the tasks seen: they are as in ts.                   *)
on_step_status(ts, seen, ss) ==
    [t \in StepIds |-> IF t \in seen THEN from_task(ts[t].status) ELSE ss[t]]

Moved(ts) == {t \in StepIds : ts[t].status \notin {tasks[t].status, "None"}}

(* The end of a call that leaves the tasks as ts, the planner in phase ph  *)
(* and the events of the tasks in seen mirrored as ss.                     *)
Mirror(ts, ph, seen, ss) ==
    LET over == {t \in Moved(ts) : ts[t].status = "Completed"}
    IN /\ tasks' = ts
       /\ step_status' = ss
       /\ completed_steps' = completed_steps \cup (over \cap seen)
       /\ earned' = earned \cup {t \in over : ts[t].of = request}
       /\ phase' = ph

(* Fault: maybe_finish_plan runs before the events are mirrored.           *)
FaultPublishFinishesFirst(ts, ph, ss) ==
    LET seen == IF ph = "Executing" THEN Moved(ts) ELSE {}
    IN Mirror(ts, Finished(ph, ss), seen, on_step_status(ts, seen, ss))

(* publish_task_events: events are mirrored, whoever's tasks they are,     *)
(* only while a plan executes, and then maybe_finish_plan looks.           *)
Publish(ts, ph, ss) ==
    LET seen == IF ph = "Executing" THEN Moved(ts) ELSE {}
        mirrored == on_step_status(ts, seen, ss)
    IN Mirror(ts, Finished(ph, mirrored), seen, mirrored)

(* Where a task goes when its agent, its policy or a user moves it.        *)
TaskMoves ==
    {"Ready"} \X {"Running", "Held", "Cancelled"}
    \cup {"Running"} \X {"Completed", "Failed", "Cancelled", "Ready"}
    \cup {"Pending", "Blocked", "Held", "Interrupted"} \X {"Cancelled"}
    \cup {"Failed", "Blocked", "Held", "Interrupted"} \X {"Ready"}

MoveTask(t, to) ==
    /\ <<tasks[t].status, to>> \in TaskMoves
    /\ retries' = IF to = "Ready" THEN retries + 1 ELSE retries
    /\ retries' <= MaxRetries /\ edits + retries' + restarts <= MaxTogether
    /\ Publish(Classified([tasks EXCEPT ![t].status = to]), phase, step_status)
    /\ UNCHANGED <<planVars, plan_task_ids, cap, historyVars, edits, restarts>>

SetPolicy(c) ==
    /\ c # cap /\ cap' = c
    /\ UNCHANGED <<planVars, mirrorVars, plan_task_ids, historyVars, boundVars>>

-----------------------------------------------------------------------------
(* The planner's calls.                                                    *)

Enter(ph) ==
    /\ phase' = ph
    /\ UNCHANGED <<planVars, step_status, completed_steps, tasks, earned,
                   plan_task_ids, cap, request, refused, boundVars>>

(* plan_request.  Only a request under way is refused, and under the mutex *)
(* none ever is.  The provider fails, or answers with p.                   *)
BeginRequest ==
    /\ request < MaxRequests
    /\ request' = request + 1
    /\ edited' = FALSE /\ completed_steps' = {}
    /\ step_status' = [s \in StepIds |-> "None"]
    /\ approved' = FALSE /\ refused' = FALSE /\ earned' = {}
    /\ UNCHANGED <<tasks, plan_task_ids, cap, boundVars>>

PlanRequestFails ==
    /\ BeginRequest
    /\ phase' = "Failed" /\ planned' = FALSE /\ steps' = <<>>

PlanRequest(p) ==
    /\ BeginRequest
    /\ planned' = TRUE /\ steps' = p
    /\ phase' = IF validate(p) THEN "NeedsApproval" ELSE "Failed"

(* plan_validate, by itself or at the head of plan_execute: a plan that no *)
(* longer passes fails, whatever phase it is in.                           *)
PlanValidate ==
    /\ planned /\ ~validate(steps)
    /\ Enter("Failed") /\ UNCHANGED approved

Edit ==
    /\ phase \in {"NeedsApproval", "Approved"}
    /\ edits < MaxEdits /\ Room
    /\ edits' = edits + 1 /\ edited' = TRUE
    /\ UNCHANGED <<planned, mirrorVars, plan_task_ids, cap, historyVars,
                   retries, restarts>>

(* SetAgent, SetTitle and SetDescription change nothing else.              *)
EditText == Edit /\ steps # <<>> /\ UNCHANGED steps

(* The first step of that id.                                              *)
EditDependencies(s, D) ==
    /\ Edit
    /\ \E i \in DOMAIN steps :
         /\ steps[i].id = s /\ \A j \in 1..(i - 1) : steps[j].id # s
         /\ steps' = [steps EXCEPT ![i].depends_on = D]

(* Fault: one name too far.                                                *)
FaultEditAddStep(i) ==
    /\ Edit
    /\ Len(steps) < MaxSteps
    /\ steps' = InsertAt(steps, i, [id |-> Len(steps) + 2, depends_on |-> {}])

(* The new step is named after the number of steps, wherever it goes.      *)
EditAddStep(i) ==
    /\ Edit
    /\ Len(steps) < MaxSteps
    /\ steps' = InsertAt(steps, i, [id |-> Len(steps) + 1, depends_on |-> {}])

(* What retain leaves of p and of its dependencies when the ids in gone go:*)
(* the k-th step kept is the one with k kept up to it.                     *)
Without(p, gone) ==
    LET Kept == {i \in DOMAIN p : p[i].id \notin gone}
        Rank(i) == Cardinality({j \in Kept : j <= i})
        At(k) == CHOOSE i \in Kept : Rank(i) = k
    IN  [k \in 1..Cardinality(Kept) |-> [p[At(k)] EXCEPT !.depends_on = @ \ gone]]

EditRemoveStep(s) ==
    /\ Edit
    /\ s \in Ids(steps)
    /\ steps' = Without(steps, {s})

PlanApprove ==
    /\ phase = "NeedsApproval"
    /\ Enter("Approved") /\ approved' = TRUE

PlanReject ==
    /\ phase \in {"NeedsApproval", "Approved"}
    /\ Enter("Rejected") /\ UNCHANGED approved

(* From any phase, and the tasks go on.                                    *)
PlanCancel == Enter("Cancelled") /\ UNCHANGED approved

(* TaskGraph.remove_task of every id in gone.                              *)
Removed(ts, gone) ==
    [t \in StepIds |-> IF t \in gone THEN NoTask
                       ELSE [ts[t] EXCEPT !.deps = @ \ gone]]

Collides(p, ts) == \E s \in Ids(p) : ts[s] # NoTask

(* What compile_for_execution and resume make of the step statuses.        *)
AllQueued(p) ==
    [s \in StepIds |-> IF s \in Ids(p) THEN "Queued" ELSE step_status[s]]

(* import_plan_graph of the plan p into the graph ts, and the first pass.  *)
(* An id the graph already has refuses the import as a whole, but by then  *)
(* the planner is Executing, and stays so; nothing is published.           *)
Import(p, ts) ==
    LET deps(s) == UNION {p[i].depends_on : i \in {j \in DOMAIN p : p[j].id = s}}
        imported == [s \in StepIds |->
                       IF s \notin Ids(p) THEN ts[s]
                       ELSE [status |-> "Pending", deps |-> deps(s), of |-> request]]
    IN \/ /\ Collides(p, ts)
          /\ phase' = "Executing" /\ step_status' = AllQueued(p) /\ tasks' = ts
          /\ refused' = TRUE /\ UNCHANGED <<completed_steps, earned>>
       \/ /\ ~Collides(p, ts)
          /\ Publish(Classified(imported), "Executing", AllQueued(p))
          /\ UNCHANGED refused

(* An edited plan is validated again first: see PlanValidate.              *)
PlanExecute ==
    /\ phase = "Approved"
    /\ edited => validate(steps)
    /\ compile(steps)
    /\ Import(steps, tasks)
    /\ plan_task_ids' = IF Collides(steps, tasks) THEN plan_task_ids ELSE Ids(steps)
    /\ UNCHANGED <<planVars, cap, request, approved, boundVars>>

(* The steps not recorded complete, free of dependencies on those that are.*)
remaining_steps == Without(steps, completed_steps)

PlanResume ==
    /\ phase = "Interrupted" /\ remaining_steps # <<>>
    /\ compile(remaining_steps)
    /\ LET ts == Removed(tasks, plan_task_ids)
       IN /\ Import(remaining_steps, ts)
          /\ plan_task_ids' = IF Collides(remaining_steps, ts) THEN {}
                              ELSE Ids(remaining_steps)
    /\ UNCHANGED <<planVars, cap, request, approved, boundVars>>

(* Nothing remains: an error for the caller, and the plan is done.         *)
PlanResumeDone ==
    /\ phase = "Interrupted" /\ remaining_steps = <<>>
    /\ Enter("Done") /\ UNCHANGED approved

PlanInterrupt ==
    /\ phase = "Executing" /\ phase' = "Interrupted"
    /\ step_status' = [s \in StepIds |->
          IF step_status[s] \in {"Running", "Queued"} THEN "Cancelled"
          ELSE step_status[s]]
    /\ UNCHANGED <<planVars, completed_steps, tasks, earned,
                   plan_task_ids, cap, historyVars, boundVars>>

(* The application ends after plan_export_persisted and comes back through *)
(* plan_restore, with or without the scheduler's tasks.                    *)
PlanRestore(keep) ==
    /\ restarts < MaxRestarts /\ Room /\ restarts' = restarts + 1
    /\ phase \in {"Approved", "Executing", "Interrupted"} /\ planned
    /\ phase' = "Interrupted" /\ edited' = TRUE
    /\ step_status' = [s \in StepIds |->
          IF s \notin Ids(steps) THEN "None"
          ELSE IF s \in completed_steps THEN "Completed" ELSE "Pending"]
    /\ plan_task_ids' = {}
    /\ tasks' = [t \in StepIds |->
          IF ~keep THEN NoTask
          ELSE IF tasks[t].status = "Running"
               THEN [tasks[t] EXCEPT !.status = "Interrupted"] ELSE tasks[t]]
    /\ UNCHANGED <<planned, steps, completed_steps, earned, cap,
                   historyVars, edits, retries>>

Next ==
    \/ \E t \in StepIds, to \in TaskStatus : MoveTask(t, to)
    \/ \E c \in Caps : SetPolicy(c)
    \/ PlanRequestFails
    \/ \E p \in Proposals : PlanRequest(p)
    \/ PlanValidate
    \/ EditText
    \/ \E s \in StepIds, D \in SUBSET StepIds : EditDependencies(s, D)
    \/ \E i \in 1..(Len(steps) + 1) : EditAddStep(i)
    \/ \E s \in StepIds : EditRemoveStep(s)
    \/ PlanApprove
    \/ PlanReject
    \/ PlanCancel
    \/ PlanExecute
    \/ PlanResume
    \/ PlanResumeDone
    \/ PlanInterrupt
    \/ \E keep \in BOOLEAN : PlanRestore(keep)

Spec == Init /\ [][Next]_vars

-----------------------------------------------------------------------------
(* Properties.                                                             *)

TypeOK ==
    /\ phase \in PlannerPhase
    /\ {edited, planned, approved, refused} \subseteq BOOLEAN
    /\ steps \in Seq(PlanStep) /\ Len(steps) <= MaxSteps
    /\ step_status \in [StepIds -> PlanStepStatus \cup {"None"}]
    /\ completed_steps \cup earned \cup plan_task_ids \subseteq StepIds
    /\ cap \in Caps
    /\ tasks \in [StepIds -> [status : TaskStatus, deps : SUBSET StepIds,
                              of : 0..MaxRequests]]
    /\ request \in 0..MaxRequests
    /\ edits \in 0..MaxEdits /\ retries \in 0..MaxRetries
    /\ restarts \in 0..MaxRestarts

(* While a plan it imported executes, what the planner shows of each step  *)
(* is what the scheduler says of its task, through retries, interruptions  *)
(* and requests, and a plan never outlives its last unfinished step.       *)
MirrorAgrees ==
    phase = "Executing" /\ ~refused =>
        /\ \A s \in Ids(steps) \ completed_steps :
             step_status[s] = from_task(tasks[s].status)
        /\ steps # <<>> => \E s \in Ids(steps) :
             s \notin completed_steps /\ from_task(tasks[s].status) \notin Settled

(* A plan that was imported is called done only when each of its steps was *)
(* completed by a task of its own, in this life or an earlier one.         *)
DoneIsEarned ==
    phase = "Done" /\ ~refused => Ids(steps) \subseteq earned

(* Tasks reach the graph only from a plan a human approved, all of its     *)
(* open steps or none, none that is recorded complete, and afterwards no   *)
(* task waits for itself or for one the graph does not hold.               *)
ImportIsWhole ==
    [][LET resumed(s) == /\ phase # "Executing" /\ phase' = "Executing"
                         /\ s \in plan_task_ids /\ tasks'[s].of = request
           new == {s \in StepIds : tasks'[s] # NoTask
                                    /\ (tasks[s] = NoTask \/ resumed(s))}
       IN new # {} =>
            /\ approved /\ phase' = "Executing"
            /\ new = Ids(steps) \ completed_steps
            /\ \A s \in new : tasks'[s].deps \subseteq new
            /\ \A S \in SUBSET new \ {{}} :
                 \E s \in S : tasks'[s].deps \cap S = {}]_vars

=============================================================================
