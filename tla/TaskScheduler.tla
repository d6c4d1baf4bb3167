---------------------------- MODULE TaskScheduler ----------------------------
(***************************************************************************)
(* The task scheduler of crates/terminal-session/src/orchestration.rs and  *)
(* the engine calls of crates/terminal-workspace/src/engine.rs that drive  *)
(* it.  Every engine call runs under one mutex, so calls never interleave  *)
(* with each other (phase = "idle" guards them all), but the calls loop    *)
(* over tasks and, while they loop, the agents' own threads keep moving.   *)
(* One iteration of a loop is one action; the phase says which loop the    *)
(* call that holds the mutex is in:                                        *)
(*                                                                         *)
(*   idle -> [submit | stop] -> view -> observe -> settle -> classify      *)
(*        -> start -> exec -> idle                                         *)
(*                                                                         *)
(* Tasks are numbered in creation order, which is the order every loop of  *)
(* the code enumerates them in.                                            *)
(***************************************************************************)
EXTENDS Integers, FiniteSets, SequencesExt

CONSTANTS
    MaxTasks,     \* bound: how many tasks are ever created
    TaskShapes,   \* what users ask for: records of dependencies and review
    Policies,     \* the TaskPolicy values a user may set
    RetryBound,   \* no policy allows more retries than this,
    CapBound,     \* ... nor a higher max_cost_cents than this,
    ParallelBound,\* ... nor more tasks at a time than this
    AgentCosts,   \* what a finished agent may report it has cost,
    CostBound,    \* ... at most
    ExitCodes,    \* the exit codes agent processes may end with
    UserOps,      \* bound: the optional user calls that are made at all
    MaxUserStops, \* bound: user stops of agents behind the scheduler's back
    MaxRemovals   \* bound: agent sessions removed by closing their pane

ASSUME MaxTasksAssumption == MaxTasks \in Nat
ASSUME RetryBoundAssumption ==
    RetryBound \in Nat /\ CapBound \in Nat /\ ParallelBound \in Nat
ASSUME CostsAssumption == CostBound \in Nat /\ AgentCosts \subseteq 0..CostBound
ASSUME BoundsAssumption == MaxUserStops \in Nat /\ MaxRemovals \in Nat

TaskIds == 1..MaxTasks

TaskStatus == {"Pending", "Ready", "Running", "Blocked", "Waiting",
               "NeedsReview", "Completed", "Failed", "Cancelled", "Skipped",
               "Interrupted"}

FailureClass == {"TransientProviderFailure", "AgentCrash",
                 "AuthenticationFailure", "TaskFailure", "Unknown"}

(* max_cost_cents is always Some here: None is a cap no run can reach.     *)
TaskPolicy == [parallel : 0..ParallelBound, failure : {"BlockDownstream", "SkipDownstream"},
               review : BOOLEAN, max_retries : 0..RetryBound,
               retry_classes : SUBSET FailureClass, max_cost : 0..CapBound]

ASSUME PoliciesAssumption == Policies \subseteq TaskPolicy
ASSUME ShapesAssumption ==
    TaskShapes \subseteq [deps : SUBSET TaskIds, review : BOOLEAN]
ASSUME ExitCodesAssumption ==
    ExitCodes \subseteq {"zero", "auth", "transient", "signal", "other"}

(* An agent session as the engine sees it: the lifecycle state, whether    *)
(* the process is known to be gone, whether its pump thread still runs and *)
(* was told to stop, and the exit code the pump recorded.                  *)
LiveStates == {"Starting", "Working", "Waiting"}
TerminalStates == {"Completed", "Failed", "Crashed", "Stopped"}
AgentSession == [state : LiveStates \cup TerminalStates \cup {"None"},
                 exited : BOOLEAN, stop : BOOLEAN, pump : BOOLEAN,
                 code : ExitCodes \cup {"none"}]
NoAgent == [state |-> "None", exited |-> TRUE, stop |-> FALSE,
            pump |-> FALSE, code |-> "none"]
NoView == [t \in TaskIds |-> NoAgent]
FreshAgent == [NoAgent EXCEPT !.state = "Starting", !.exited = FALSE,
                              !.pump = TRUE]

VARIABLES
    count,     \* tasks 1..count exist
    deps,      \* Task.dependencies
    status,    \* Task.status
    error,     \* Task.error, as far as the scheduler reads it
    attempts,  \* Task.attempt_count
    review,    \* Task.review_required (set for every git worktree task)
    result,    \* tasks whose Task.result is Some
    missing,   \* tasks with an input artifact the store does not hold
    queue,     \* TaskScheduler.queue
    running,   \* TaskScheduler.running
    cost,      \* TaskScheduler.actual_cost_cents
    policy,    \* TaskScheduler.policy
    paused,    \* Multiplexer.workflow_paused
    deferring, \* TaskScheduler.defer_since_ms is Some
    elapsed,   \* ... and DEFER_SETTLE_BOUND_MS have passed since
    agent,     \* the session of each task's latest execution
    phase, cursor, todo, view, blockedBy, cmds,  \* locals of the call
    forced,    \* history: tasks released by hand before their dependencies
    userStops, removals   \* counters of the two bounded user actions

graphVars == <<count, deps, review, missing>>
taskVars  == <<status, error, attempts, result>>
schedVars == <<queue, running, cost>>
deferVars == <<deferring, elapsed>>
setVars   == <<policy, paused>>
callVars  == <<phase, cursor, todo, view, blockedBy, cmds>>
boundVars == <<userStops, removals>>
vars == <<graphVars, taskVars, schedVars, deferVars, setVars, callVars,
          boundVars, agent, forced>>

Tasks == 1..count

-----------------------------------------------------------------------------
(* Graph queries.                                                          *)

(* Fault: a dependency that is merely over releases its dependents.        *)
FaultOverIsEnough(t) ==
    \A d \in deps[t] : status[d] \in {"Completed", "Failed", "Cancelled"}

dependencies_satisfied(t) == \A d \in deps[t] : status[d] = "Completed"

failed_dependency(t) ==
    \E d \in deps[t] : status[d] \in {"Failed", "Cancelled", "Skipped"}

(* find_cycle: d already depends on t, directly or through others.         *)
DependsOn(d, t) ==
    \E p \in UNION {[1..n -> Tasks] : n \in 1..count} :
        /\ p[1] = d
        /\ p[Len(p)] = t
        /\ \A i \in 1..(Len(p) - 1) : p[i + 1] \in deps[p[i]]

(* Vec::retain on a list without duplicates.                               *)
Without(s, x) ==
    IF x \in ToSet(s)
    THEN LET i == CHOOSE i \in DOMAIN s : s[i] = x
         IN  SubSeq(s, 1, i - 1) \o SubSeq(s, i + 1, Len(s))
    ELSE s

can_transition(from, to) ==
    CASE from = "Pending"     -> to \in {"Ready", "Blocked", "Cancelled", "Skipped"}
      [] from = "Ready"       -> to \in {"Running", "Cancelled", "Skipped", "Blocked"}
      [] from = "Running"     -> to \in {"NeedsReview", "Completed", "Failed",
                                         "Cancelled", "Waiting", "Blocked", "Interrupted"}
      [] from = "Failed"      -> to = "Ready"
      [] from = "Waiting"     -> to \in {"Running", "Completed", "Failed",
                                         "Cancelled", "Interrupted"}
      [] from = "NeedsReview" -> to \in {"Completed", "Failed", "Cancelled"}
      [] from = "Blocked"     -> to \in {"Ready", "Cancelled", "Skipped"}
      [] from = "Interrupted" -> to \in {"Ready", "Cancelled"}
      [] OTHER                -> FALSE

(* Task::transition on the status map; a forbidden move changes nothing.   *)
Transition(st, t, to) ==
    IF can_transition(st[t], to) THEN [st EXCEPT ![t] = to] ELSE st

-----------------------------------------------------------------------------
Init ==
    /\ count = 0
    /\ deps = [t \in TaskIds |-> {}]
    /\ status = [t \in TaskIds |-> "Pending"]
    /\ error = [t \in TaskIds |-> "none"]
    /\ attempts = [t \in TaskIds |-> 0]
    /\ review = [t \in TaskIds |-> FALSE]
    /\ result = {} /\ missing = {}
    /\ queue = <<>> /\ running = <<>> /\ cost = 0
    /\ policy \in Policies /\ paused = FALSE
    /\ deferring = FALSE /\ elapsed = FALSE
    /\ agent = [t \in TaskIds |-> NoAgent]
    /\ phase = "idle" /\ cursor = 1 /\ todo = <<>> /\ cmds = <<>>
    /\ view = NoView /\ blockedBy = {}
    /\ forced = {} /\ userStops = 0 /\ removals = 0

(***************************************************************************)
(* The agents.  A process ends and its pump thread notices; until then the *)
(* pump turns output into activity states ("Waiting" stands for the three  *)
(* states in which an agent asks for its user).  stop() only asks the pump *)
(* to end: a chunk it is already processing may still write the state.     *)
(*                                                                         *)
(* Agents are shown moving between calls only.  Inside a call the engine   *)
(* reads them once, in TakeView, and nothing it reads afterwards is theirs *)
(* to change, so a move made after TakeView commutes with the rest of the  *)
(* call; and a view read agent by agent is a cut of independent threads,   *)
(* hence the view of some moment.                                          *)
(***************************************************************************)
AgentReports(t, s) ==
    /\ phase = "idle" /\ agent[t].pump /\ agent[t].state # s
    /\ agent' = [agent EXCEPT ![t].state = s]
    /\ UNCHANGED <<graphVars, taskVars, schedVars, deferVars, setVars,
                   callVars, boundVars, forced>>

AgentExits(t) ==
    /\ phase = "idle" /\ ~agent[t].exited
    /\ agent' = [agent EXCEPT ![t].exited = TRUE]
    /\ UNCHANGED <<graphVars, taskVars, schedVars, deferVars, setVars,
                   callVars, boundVars, forced>>

FinalState(code) == CASE code = "zero"   -> "Completed"
                      [] code = "signal" -> "Crashed"
                      [] OTHER           -> "Failed"

(* The pump thread's last act: finish() unless it was told to stop.        *)
PumpEnds(t, code) ==
    /\ phase = "idle" /\ agent[t].pump /\ agent[t].exited
    /\ agent' = [agent EXCEPT ![t] =
         IF @.stop THEN [@ EXCEPT !.pump = FALSE]
                   ELSE [@ EXCEPT !.pump = FALSE, !.code = code,
                                  !.state = FinalState(code)]]
    /\ UNCHANGED <<graphVars, taskVars, schedVars, deferVars, setVars,
                   callVars, boundVars, forced>>

(* AgentRuntime::stop                                                      *)
Stopped(a) ==
    IF a.state = "None" THEN a
    ELSE [a EXCEPT !.stop = TRUE, !.exited = TRUE,
                   !.state = IF @ \in {"Completed", "Failed", "Crashed"}
                             THEN @ ELSE "Stopped"]

(* agent.stop over IPC: the task is not told.                              *)
UserStopsAgent(t) ==
    /\ phase = "idle" /\ userStops < MaxUserStops
    /\ agent[t].state # "None"
    /\ agent' = [agent EXCEPT ![t] = Stopped(@)]
    /\ userStops' = userStops + 1
    /\ UNCHANGED <<graphVars, taskVars, schedVars, deferVars, setVars,
                   callVars, removals, forced>>

(* A closed pane, tab or workspace removes the session altogether.         *)
RemoveAgent(t) ==
    /\ phase = "idle" /\ removals < MaxRemovals
    /\ agent[t].state # "None"
    /\ agent' = [agent EXCEPT ![t] = NoAgent]
    /\ removals' = removals + 1
    /\ UNCHANGED <<graphVars, taskVars, schedVars, deferVars, setVars,
                   callVars, userStops, forced>>

Agents == \E t \in Tasks :
    \/ \E s \in {"Working", "Waiting"} : AgentReports(t, s)
    \/ AgentExits(t)
    \/ \E c \in ExitCodes : PumpEnds(t, c)
    \/ UserStopsAgent(t)
    \/ RemoveAgent(t)

(* DEFER_SETTLE_BOUND_MS go by.                                            *)
DeferTimerElapses ==
    /\ phase = "idle" /\ deferring /\ ~elapsed
    /\ elapsed' = TRUE
    /\ UNCHANGED <<graphVars, taskVars, schedVars, setVars, callVars,
                   boundVars, agent, deferring, forced>>

-----------------------------------------------------------------------------
(* User calls (each takes the mutex, so only in phase "idle").             *)

Enter(p) == phase = "idle" /\ phase' = p /\ cursor' = 1
                           /\ UNCHANGED <<todo, view, blockedBy, cmds>>

(* Fault: the bound is off by one.                                         *)
FaultCreatePastEnd(new) ==
    /\ phase = "idle" /\ count <= MaxTasks
    /\ count' = count + 1
    /\ UNCHANGED <<deps, review, missing, taskVars, schedVars, deferVars,
                   setVars, callVars, boundVars, agent, forced>>

TaskCreate(new) ==
    /\ phase = "idle" /\ count < MaxTasks
    /\ LET t == count + 1 IN
         /\ count' = t
         /\ deps' = [deps EXCEPT ![t] = new.deps]
         /\ review' = [review EXCEPT ![t] = new.review]
    /\ UNCHANGED <<taskVars, schedVars, deferVars, setVars, callVars,
                   boundVars, agent, missing, forced>>

(* No status is checked: a task that is Ready, or past it, takes the       *)
(* dependency too.                                                         *)
AddDependency(t, d) ==
    /\ phase = "idle" /\ t # d /\ d \notin deps[t] /\ ~DependsOn(d, t)
    /\ deps' = [deps EXCEPT ![t] = @ \cup {d}]
    /\ forced' = IF status[t] \in {"Pending", "Blocked"} THEN forced
                                                         ELSE forced \cup {t}
    /\ UNCHANGED <<taskVars, schedVars, deferVars, setVars, callVars,
                   boundVars, agent, count, review, missing>>

RemoveDependency(t, d) ==
    /\ phase = "idle" /\ d \in deps[t]
    /\ deps' = [deps EXCEPT ![t] = @ \ {d}]
    /\ UNCHANGED <<taskVars, schedVars, deferVars, setVars, callVars,
                   boundVars, agent, count, review, missing, forced>>

(* An input artifact is declared that the store lacks, or the last one     *)
(* lacking is registered.                                                  *)
AddInputArtifact(t) ==
    /\ phase = "idle" /\ t \notin missing
    /\ missing' = missing \cup {t}
    /\ UNCHANGED <<taskVars, schedVars, deferVars, setVars, callVars,
                   boundVars, agent, count, deps, review, forced>>

ArtifactRegistered(t) ==
    /\ phase = "idle" /\ t \in missing
    /\ missing' = missing \ {t}
    /\ UNCHANGED <<taskVars, schedVars, deferVars, setVars, callVars,
                   boundVars, agent, count, deps, review, forced>>

SetPaused(b) ==
    /\ phase = "idle" /\ paused # b
    /\ paused' = b
    /\ UNCHANGED <<graphVars, taskVars, schedVars, deferVars, callVars,
                   boundVars, agent, policy, forced>>

SetTaskPolicy(p) ==
    /\ phase = "idle" /\ policy # p
    /\ policy' = p
    /\ UNCHANGED <<graphVars, taskVars, schedVars, deferVars, callVars,
                   boundVars, agent, paused, forced>>

TaskRun ==
    /\ Enter("submit")
    /\ UNCHANGED <<graphVars, taskVars, schedVars, deferVars, setVars,
                   boundVars, agent, forced>>

DrainFrame ==
    /\ Enter("view")
    /\ UNCHANGED <<graphVars, taskVars, schedVars, deferVars, setVars,
                   boundVars, agent, forced>>

(* Faults of cancel: the queue keeps the task; running keeps the entry;    *)
(* the transition is not checked.                                          *)
FaultCancelKeepsQueued(t) ==
    /\ status' = Transition(status, t, "Cancelled")
    /\ running' = Without(running, t)
    /\ UNCHANGED <<queue, cost, error, attempts, result>>

(* TaskScheduler::cancel.  The scheduler forgets a running task at once;   *)
(* a task it may not cancel is left alone, without an error.               *)
Cancel(t) ==
    /\ status' = Transition(status, t, "Cancelled")
    /\ IF status[t] \in {"Running", "Waiting"}
       THEN running' = Without(running, t) /\ UNCHANGED queue
       ELSE queue' = Without(queue, t) /\ UNCHANGED running
    /\ UNCHANGED <<cost, error, attempts, result>>

(* Fault: the StopTask command is not executed.                            *)
FaultCancelNoStop(t) ==
    /\ Enter("view")
    /\ Cancel(t)
    /\ UNCHANGED <<graphVars, deferVars, setVars, boundVars, forced, agent>>

(* The StopTask command is executed before the pass that follows.          *)
TaskCancel(t) ==
    /\ Enter("view")
    /\ Cancel(t)
    /\ agent' = IF status[t] \in {"Running", "Waiting"}
                THEN [agent EXCEPT ![t] = Stopped(@)] ELSE agent
    /\ UNCHANGED <<graphVars, deferVars, setVars, boundVars, forced>>

Retryable == {"Failed", "Cancelled", "Skipped", "Interrupted", "Blocked"}

(* TaskScheduler::retry wipes the record before it asks whether the task   *)
(* may become Ready; when it may not, the wiped record stays and the call  *)
(* returns an error without a pass.                                        *)
TaskRetry(t) ==
    /\ status[t] \in Retryable
    /\ attempts' = [attempts EXCEPT ![t] = 0]
    /\ error' = [error EXCEPT ![t] = "none"]
    /\ result' = result \ {t}
    /\ status' = Transition(status, t, "Ready")
    /\ IF can_transition(status[t], "Ready")
       THEN /\ Enter("view")
            /\ queue' = Append(queue, t)
            /\ forced' = IF dependencies_satisfied(t) THEN forced \ {t}
                                                      ELSE forced \cup {t}
       ELSE phase = "idle" /\ UNCHANGED <<queue, forced, callVars>>
    /\ UNCHANGED <<graphVars, deferVars, setVars, boundVars, agent, running,
                   cost>>

ResolveTaskReview(t, approve) ==
    /\ status[t] = "NeedsReview"
    /\ Enter("view")
    /\ status' = [status EXCEPT ![t] = IF approve THEN "Completed" ELSE "Failed"]
    /\ error' = IF approve THEN error ELSE [error EXCEPT ![t] = "failure"]
    /\ UNCHANGED <<graphVars, attempts, result, schedVars, deferVars, setVars,
                   boundVars, agent, forced>>

(* An approved task invalidation; Completed -> Failed is no legal move, so *)
(* only a task in review changes state.                                    *)
InvalidateTask(t) ==
    /\ phase = "idle"
    /\ status' = IF status[t] \in {"Completed", "NeedsReview"}
                 THEN Transition(status, t, "Failed") ELSE status
    /\ error' = [error EXCEPT ![t] = "failure"]
    /\ UNCHANGED <<graphVars, attempts, result, schedVars, deferVars, setVars,
                   callVars, boundVars, agent, forced>>

(* STOP ALL: every session is stopped, then the tasks are cancelled one by *)
(* one (their StopTask commands are dropped), then a pass runs.            *)
StopAll ==
    /\ Enter("stop")
    /\ agent' = [t \in TaskIds |-> Stopped(agent[t])]
    /\ UNCHANGED <<graphVars, taskVars, schedVars, deferVars, setVars,
                   boundVars, forced>>

(* Fault: Waiting tasks are thought not to be active.                      *)
FaultStopAllSparesWaiting ==
    /\ phase = "stop"
    /\ IF cursor > count
       THEN /\ phase' = "view" /\ UNCHANGED <<cursor, taskVars, schedVars>>
       ELSE /\ cursor' = cursor + 1
            /\ IF status[cursor] \in {"Pending", "Ready", "Running", "Blocked"}
               THEN Cancel(cursor)
               ELSE UNCHANGED <<taskVars, schedVars>>
            /\ UNCHANGED phase
    /\ UNCHANGED <<graphVars, deferVars, setVars, boundVars, agent, forced,
                   todo, view, blockedBy, cmds>>

StopAllCancels ==
    /\ phase = "stop"
    /\ IF cursor > count
       THEN /\ phase' = "view" /\ UNCHANGED <<cursor, taskVars, schedVars>>
       ELSE /\ cursor' = cursor + 1
            /\ IF status[cursor] \in {"Pending", "Ready", "Running", "Waiting",
                                      "Blocked"}
               THEN Cancel(cursor)
               ELSE UNCHANGED <<taskVars, schedVars>>
            /\ UNCHANGED phase
    /\ UNCHANGED <<graphVars, deferVars, setVars, boundVars, agent, forced,
                   todo, view, blockedBy, cmds>>

UserCalls ==
    \/ \E new \in TaskShapes : new.deps \subseteq Tasks /\ TaskCreate(new)
    \/ \E p \in Policies : SetTaskPolicy(p)
    \/ \E t \in Tasks, b \in BOOLEAN : ResolveTaskReview(t, b)
    \/ DrainFrame
    \/ "run" \in UserOps /\ TaskRun
    \/ "stop_all" \in UserOps /\ StopAll
    \/ "pause" \in UserOps /\ \E b \in BOOLEAN : SetPaused(b)
    \/ \E t \in Tasks :
         \/ "cancel" \in UserOps /\ TaskCancel(t)
         \/ "retry" \in UserOps /\ TaskRetry(t)
         \/ "invalidate" \in UserOps /\ InvalidateTask(t)
         \/ "artifact" \in UserOps /\ (AddInputArtifact(t) \/ ArtifactRegistered(t))
         \/ "edit" \in UserOps
              /\ \E d \in Tasks : AddDependency(t, d) \/ RemoveDependency(t, d)

-----------------------------------------------------------------------------
(* The pass every frame and most user calls run: step_tasks, step,         *)
(* execute_commands.                                                       *)

frameFixed == <<graphVars, setVars, boundVars>>

(* The call returns and drops its locals.                                  *)
Return == phase' = "idle" /\ cursor' = 1 /\ view' = NoView /\ blockedBy' = {}

(* The runtime view, and the Ready tasks that miss an input.               *)
TakeView ==
    /\ phase = "view"
    /\ view' = [t \in TaskIds |-> IF t \in ToSet(running) THEN agent[t] ELSE NoAgent]
    /\ blockedBy' = {t \in missing : status[t] = "Ready"}
    /\ phase' = "observe"
    /\ UNCHANGED <<frameFixed, taskVars, schedVars, deferVars, agent, forced,
                   cursor, todo, cmds>>

Observed(S) == \E i \in DOMAIN running :
                  view[running[i]].state # "None" /\ running[i] \in S
ExitedUnsettled == Observed({t \in Tasks : /\ view[t].exited
                                           /\ view[t].state \notin TerminalStates})
StartingUnexited == Observed({t \in Tasks : /\ ~view[t].exited
                                            /\ view[t].state = "Starting"})
TerminalReady == Observed({t \in Tasks : view[t].state \in TerminalStates})

(* Fault: the wait for a sibling that is still starting has no end.        *)
FaultDeferForever == ExitedUnsettled \/ (StartingUnexited /\ TerminalReady)

Defer == \/ ExitedUnsettled
         \/ StartingUnexited /\ TerminalReady /\ ~(deferring /\ elapsed)

ObserveDefers ==
    /\ phase = "observe" /\ Defer
    /\ deferring' = TRUE
    /\ phase' = "classify" /\ cursor' = 1
    /\ UNCHANGED <<frameFixed, taskVars, schedVars, elapsed, agent, forced,
                   todo, view, blockedBy, cmds>>

ObserveSettles ==
    /\ phase = "observe" /\ ~Defer
    /\ deferring' = FALSE /\ elapsed' = FALSE
    /\ todo' = running /\ running' = <<>>
    /\ phase' = "settle"
    /\ UNCHANGED <<frameFixed, taskVars, queue, cost, agent, forced, cursor,
                   view, blockedBy, cmds>>

(* One iteration of the loop over running.                                 *)
Settling(t) ==
    /\ phase = "settle" /\ todo # <<>> /\ t = Head(todo)
    /\ todo' = Tail(todo)
    /\ UNCHANGED <<frameFixed, deferVars, agent, forced, phase, cursor, view,
                   blockedBy, cmds>>

classify(a) ==
    IF a.state = "Crashed" THEN "AgentCrash"
    ELSE IF a.code = "auth" THEN "AuthenticationFailure"
    ELSE IF a.code = "transient" THEN "TransientProviderFailure"
    ELSE "TaskFailure"

(* Fault: one retry too many.                                              *)
FaultRetryOnceMore(class, n) ==
    n <= policy.max_retries + 1 /\ class \in policy.retry_classes

may_retry(class, n) == n <= policy.max_retries /\ class \in policy.retry_classes

(* Fault: the retried task is not queued.                                  *)
FaultRetryNotQueued(t, class, n) ==
    /\ attempts' = [attempts EXCEPT ![t] = n]
    /\ error' = [error EXCEPT ![t] = "failure"]
    /\ status' = [status EXCEPT ![t] = IF may_retry(class, n) THEN "Ready" ELSE "Failed"]
    /\ UNCHANGED queue

(* fail_task: terminal failure, or straight back to the queue.             *)
Fail(t, class, n) ==
    /\ attempts' = [attempts EXCEPT ![t] = n]
    /\ error' = [error EXCEPT ![t] = "failure"]
    /\ IF may_retry(class, n)
       THEN status' = [status EXCEPT ![t] = "Ready"] /\ queue' = Append(queue, t)
       ELSE status' = [status EXCEPT ![t] = "Failed"] /\ UNCHANGED queue

(* Fault: an entry without a session is dropped, its task left Running.    *)
FaultVanishedIsDropped(t) ==
    /\ Settling(t) /\ view[t].state = "None"
    /\ UNCHANGED <<taskVars, queue, running, cost>>

SettleVanished(t) ==
    /\ Settling(t) /\ view[t].state = "None"
    /\ Fail(t, "Unknown", attempts[t])
    /\ UNCHANGED <<result, running, cost>>

SettleFailed(t) ==
    /\ Settling(t) /\ view[t].state \in {"Failed", "Crashed", "Stopped"}
    /\ Fail(t, classify(view[t]), attempts[t])
    /\ UNCHANGED <<result, running, cost>>

(* complete_task: the entry leaves running whatever the transition says.   *)
SettleCompleted(t) ==
    /\ Settling(t) /\ view[t].state = "Completed"
    /\ \E c \in AgentCosts : cost' = cost + c
    /\ result' = result \cup {t}
    /\ status' = Transition(status, t, IF review[t] \/ policy.review
                                       THEN "NeedsReview" ELSE "Completed")
    /\ UNCHANGED <<attempts, error, queue, running>>

SettleWaiting(t) ==
    /\ Settling(t) /\ view[t].state = "Waiting"
    /\ status' = IF status[t] = "Running" THEN [status EXCEPT ![t] = "Waiting"]
                                          ELSE status
    /\ running' = Append(running, t)
    /\ UNCHANGED <<attempts, error, result, queue, cost>>

SettleWorking(t) ==
    /\ Settling(t) /\ view[t].state \in {"Starting", "Working"}
    /\ running' = Append(running, t)
    /\ UNCHANGED <<taskVars, queue, cost>>

SettleEnds ==
    /\ phase = "settle" /\ todo = <<>>
    /\ phase' = "classify" /\ cursor' = 1
    /\ UNCHANGED <<frameFixed, taskVars, schedVars, deferVars, agent, forced,
                   todo, view, blockedBy, cmds>>

(* One iteration of the loop of submit_all, and of the same loop in step.  *)
Classifying(t) ==
    /\ phase \in {"submit", "classify"} /\ cursor <= count /\ t = cursor
    /\ cursor' = cursor + 1
    /\ UNCHANGED <<frameFixed, deferVars, agent, forced, phase, todo, view,
                   blockedBy, cmds, attempts, error, result, running, cost>>

(* Fault: every Blocked task is looked at again.                           *)
FaultReclassifyAllBlocked(t) == status[t] \in {"Pending", "Blocked"}

Reclassified(t) ==
    \/ status[t] = "Pending"
    \/ status[t] = "Blocked" /\ error[t] \notin {"budget", "artifact"}

ClassifyReady(t) ==
    /\ Classifying(t) /\ Reclassified(t) /\ dependencies_satisfied(t)
    /\ status' = [status EXCEPT ![t] = "Ready"]
    /\ queue' = Append(queue, t)

ClassifyDownstream(t) ==
    /\ Classifying(t) /\ Reclassified(t) /\ ~dependencies_satisfied(t)
    /\ failed_dependency(t)
    /\ status' = Transition(status, t,
                   IF policy.failure = "BlockDownstream" THEN "Blocked"
                                                         ELSE "Skipped")
    /\ UNCHANGED queue

ClassifyLeaves(t) ==
    /\ Classifying(t)
    /\ Reclassified(t) => ~dependencies_satisfied(t) /\ ~failed_dependency(t)
    /\ UNCHANGED <<status, queue>>

(* Fault: a paused pass starts tasks like any other.                       *)
FaultPauseIgnored ==
    /\ phase \in {"submit", "classify"} /\ cursor > count
    /\ phase' = IF phase = "submit" THEN "view" ELSE "start"
    /\ UNCHANGED <<frameFixed, taskVars, schedVars, deferVars, agent, forced,
                   cursor, todo, view, blockedBy, cmds>>

(* submit_all goes on to the pass; a paused pass ends here.                *)
ClassifyEnds ==
    /\ phase \in {"submit", "classify"} /\ cursor > count
    /\ IF phase = "classify" /\ paused
       THEN Return
       ELSE /\ phase' = IF phase = "submit" THEN "view" ELSE "start"
            /\ UNCHANGED <<cursor, view, blockedBy>>
    /\ UNCHANGED <<frameFixed, taskVars, schedVars, deferVars, agent, forced,
                   todo, cmds>>

(* One iteration of the start loop.  (max_parallel_tasks and max_agents    *)
(* only ever count together, as their minimum.  A popped task is Ready:    *)
(* QueueIsReady shows that the test the code makes never fails.)           *)
FaultRoomIgnoresCommands == Len(running) < policy.parallel

HasRoom == Len(running) + Len(cmds) < policy.parallel

Starting(t) ==
    /\ phase = "start" /\ HasRoom /\ queue # <<>> /\ t = Head(queue)
    /\ status[t] = "Ready"
    /\ queue' = Tail(queue)
    /\ UNCHANGED <<frameFixed, deferVars, agent, forced, phase, cursor, todo,
                   view, blockedBy, result, running, cost>>

FaultBudgetOffByOne == cost > policy.max_cost

OverBudget == cost >= policy.max_cost

BlockFor(t, reason) ==
    /\ status' = [status EXCEPT ![t] = "Blocked"]
    /\ error' = [error EXCEPT ![t] = reason]
    /\ UNCHANGED <<attempts, cmds>>

StartOverBudget(t) ==
    Starting(t) /\ OverBudget /\ BlockFor(t, "budget")

StartMissingInput(t) ==
    /\ Starting(t) /\ ~OverBudget /\ t \in blockedBy
    /\ BlockFor(t, "artifact")

StartTask(t) ==
    /\ Starting(t) /\ ~OverBudget /\ t \notin blockedBy
    /\ attempts' = [attempts EXCEPT ![t] = @ + 1]
    /\ error' = [error EXCEPT ![t] = "none"]
    /\ status' = [status EXCEPT ![t] = "Running"]
    /\ cmds' = Append(cmds, t)

StartEnds ==
    /\ phase = "start" /\ (queue = <<>> \/ ~HasRoom)
    /\ phase' = "exec"
    /\ UNCHANGED <<frameFixed, taskVars, schedVars, deferVars, agent, forced,
                   cursor, todo, view, blockedBy, cmds>>

(* One SpawnTask command.                                                  *)
Spawning(t) ==
    /\ phase = "exec" /\ cmds # <<>> /\ t = Head(cmds)
    /\ cmds' = Tail(cmds)
    /\ UNCHANGED <<frameFixed, deferVars, forced, phase, cursor, todo, view,
                   blockedBy, result, cost>>

SpawnSucceeds(t) ==
    /\ Spawning(t)
    /\ agent' = [agent EXCEPT ![t] = FreshAgent]
    /\ running' = Append(running, t)
    /\ UNCHANGED <<status, error, attempts, queue>>

(* note_spawn_failed gives the attempt back before it asks for a retry.    *)
SpawnFails(t) ==
    /\ Spawning(t)
    /\ Fail(t, "Unknown", attempts[t] - 1)
    /\ UNCHANGED <<agent, running>>

ExecEnds ==
    /\ phase = "exec" /\ cmds = <<>>
    /\ Return
    /\ UNCHANGED <<frameFixed, taskVars, schedVars, deferVars, agent, forced,
                   todo, cmds>>

SettleOne(t) == \/ SettleVanished(t) \/ SettleFailed(t) \/ SettleCompleted(t)
                \/ SettleWaiting(t) \/ SettleWorking(t)
ClassifyOne(t) == ClassifyReady(t) \/ ClassifyDownstream(t) \/ ClassifyLeaves(t)
StartOne(t) == StartOverBudget(t) \/ StartMissingInput(t) \/ StartTask(t)
SpawnOne(t) == SpawnSucceeds(t) \/ SpawnFails(t)

Pass ==
    \/ StopAllCancels
    \/ TakeView \/ ObserveDefers \/ ObserveSettles
    \/ SettleEnds \/ ClassifyEnds \/ StartEnds \/ ExecEnds
    \/ \E t \in Tasks : SettleOne(t) \/ ClassifyOne(t) \/ StartOne(t) \/ SpawnOne(t)

Next == Agents \/ DeferTimerElapses \/ UserCalls \/ Pass

Spec == Init /\ [][Next]_vars

(***************************************************************************)
(* Fairness: the loops of a call run to their end, the UI thread (or the   *)
(* server tick) keeps draining frames, time passes and the pump threads    *)
(* are scheduled.  No user call is ever required, and a process need not   *)
(* end; progress of the queue behind it can be expected only if it does.   *)
(***************************************************************************)
Fairness ==
    /\ WF_vars(Pass)
    /\ SF_vars(DrainFrame)
    /\ SF_vars(DeferTimerElapses)
    /\ \A t \in TaskIds : SF_vars(\E c \in ExitCodes : PumpEnds(t, c))

LiveSpec == Spec /\ Fairness

(* Every process that runs ends some day: nothing in the code, so it is    *)
(* a hypothesis of the property that needs it and not of the runs.         *)
ProcessesEnd == \A t \in TaskIds : SF_vars(AgentExits(t))

-----------------------------------------------------------------------------
(* Properties.                                                             *)

NoDuplicates(s) == \A i, j \in DOMAIN s : s[i] = s[j] => i = j

(* The types of all variables; lists hold existing tasks.                  *)
TypeOK ==
    /\ count \in 0..MaxTasks
    /\ deps \in [TaskIds -> SUBSET Tasks]
    /\ status \in [TaskIds -> TaskStatus]
    /\ error \in [TaskIds -> {"none", "failure", "budget", "artifact"}]
    /\ attempts \in [TaskIds -> Int]
    /\ review \in [TaskIds -> BOOLEAN]
    /\ result \subseteq Tasks /\ missing \subseteq Tasks
    /\ queue \in Seq(Tasks) /\ running \in Seq(Tasks)
    /\ todo \in Seq(Tasks) /\ cmds \in Seq(Tasks)
    /\ cost \in Nat /\ policy \in Policies /\ paused \in BOOLEAN
    /\ deferring \in BOOLEAN /\ elapsed \in BOOLEAN
    /\ agent \in [TaskIds -> AgentSession] /\ view \in [TaskIds -> AgentSession]
    /\ phase \in {"idle", "submit", "stop", "view", "observe", "settle",
                  "classify", "start", "exec"}
    /\ cursor \in 1..(MaxTasks + 1) /\ blockedBy \subseteq Tasks
    /\ forced \subseteq Tasks
    /\ userStops \in 0..MaxUserStops /\ removals \in 0..MaxRemovals

Held == ToSet(running) \cup ToSet(todo)
Tracked == Held \cup ToSet(cmds)

(* No start is lost and none happens twice: the queue holds exactly the    *)
(* Ready tasks, each once, whatever mix of retries, cancellations, manual  *)
(* releases and reclassifications put them there (orchestration.rs queue). *)
QueueIsReady ==
    /\ NoDuplicates(queue)
    /\ ToSet(queue) = {t \in Tasks : status[t] = "Ready"}

(* Status and bookkeeping agree: a task is held in at most one place, the  *)
(* held tasks are exactly the ones that run or wait, except that a task    *)
(* whose agent has already delivered its result may be left Waiting.       *)
RunningIsTracked ==
    /\ NoDuplicates(running \o todo \o cmds)
    /\ \A t \in Held : status[t] \in {"Running", "Waiting"}
    /\ \A t \in ToSet(cmds) : status[t] = "Running"
    /\ \A t \in Tasks :
         /\ status[t] = "Running" => t \in Tracked
         /\ status[t] = "Waiting" => t \in Held \cup result

(* No agent process outlives its task unseen: an agent nobody asked to     *)
(* stop, whose pump has not reported its end, belongs to a held task.      *)
(* Cancel, stop_all, retries and failed starts all have to keep this.      *)
NoOrphanAgent ==
    \A t \in TaskIds : agent[t].pump /\ ~agent[t].stop => t \in Held

(* The dependency gate: whatever state a released task went on to, its     *)
(* dependencies were all Completed and still are, unless a user released   *)
(* it by hand or gave it the dependency afterwards.                        *)
Released == {"Ready", "Running", "Waiting", "NeedsReview", "Failed",
             "Completed"}
DependencyGate ==
    \A t \in Tasks \ forced : status[t] \in Released =>
        \A d \in deps[t] : status[d] = "Completed"

(* A task is attempted at most max_retries + 1 times between two manual    *)
(* retries, failed starts included.                                        *)
AttemptsBounded ==
    \A t \in Tasks : /\ attempts[t] \in 0..(RetryBound + 1)
                     /\ status[t] = "Ready" => attempts[t] <= RetryBound

(* What the budget promises: tasks started below the cap may overshoot it, *)
(* but only by what the ones running together can cost.                    *)
BudgetOvershoot ==
    cost > 0 => cost < CapBound + ParallelBound * CostBound

(* The parallelism limit holds at the moment anything is started, even     *)
(* when it was lowered below the number already running.                   *)
ParallelLimit ==
    cmds # <<>> => Len(running) + Len(cmds) <= policy.parallel

(* PAUSE ALL: while paused no task starts to run.                          *)
PausedStartsNothing ==
    [][paused => \A t \in Tasks : status[t] # "Running" => status'[t] # "Running"]_vars

(* A task blocked on budget or on a missing artifact waits for a human: no *)
(* pass releases it or skips it.                                           *)
HumanBlockHolds ==
    [][\A t \in Tasks : status[t] = "Blocked" /\ error[t] \in {"budget", "artifact"}
         /\ phase \in {"submit", "classify", "settle", "start", "exec"}
         => status'[t] = "Blocked"]_vars

(* STOP ALL leaves nothing to run: by the time its pass begins no task is  *)
(* queued or held, and every agent has been told to stop.                  *)
StopAllQuiesces ==
    [][phase = "stop" /\ phase' = "view" =>
         /\ queue' = <<>> /\ running' = <<>>
         /\ \A t \in Tasks : agent'[t].pump => agent'[t].stop]_vars

(* A task whose process has ended is settled: the deferral of settlements  *)
(* never becomes a stall.                                                  *)
SettledEventually ==
    \A t \in TaskIds :
        t \in ToSet(running) /\ agent[t].exited ~> t \notin ToSet(running)

(* If processes end, a queued task is started, blocked or cancelled unless *)
(* work is paused: nothing starves behind the parallelism limit.           *)
QueuedEventuallyLeaves ==
    ProcessesEnd =>
        \A t \in TaskIds : status[t] = "Ready" ~> status[t] # "Ready" \/ paused

-----------------------------------------------------------------------------
(* What comments and documents say and the code does not do; each is       *)
(* refuted by a run of its own.                                            *)

(* orchestration.rs:1496: "a task with a declared input artifact that is   *)
(* unavailable is Blocked, never silently continued".  The check list is   *)
(* made before the pass makes tasks Ready, so a task that becomes Ready    *)
(* and starts within one pass is never checked.                            *)
NeverStartedWithoutInput ==
    [][\A t \in missing : status[t] # "Running" => status'[t] # "Running"]_vars

(* engine.rs:3719: "Isolated coding tasks always land in review".  A task  *)
(* that is Waiting when its agent completes cannot enter NeedsReview and   *)
(* stays Waiting for ever, with its result recorded and its entry gone.    *)
ReviewedWorkLands ==
    \A t \in result : review[t] => status[t] # "Waiting"

=============================================================================
