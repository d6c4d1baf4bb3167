------------------------------ MODULE AgentWork ------------------------------
(***************************************************************************)
(* What a user learns of an agent: the work record and activity the pump   *)
(* keeps from the lines it reads (crates/terminal-session/src/work.rs and  *)
(* agent.rs), the events it sends, and the notifications and order of rows *)
(* the engine makes of them (crates/terminal-workspace/src/engine.rs).     *)
(*                                                                         *)
(* One execution id.  Threads, channels and processes are those of         *)
(* AgentRuntime.  Here a chunk is any number of lines, and a line is what  *)
(* an adapter and the heuristics take it for; of a replaced run only what  *)
(* it has still to send remains; events that tell a user nothing (Started, *)
(* Activity, Output, Exited, PermissionRequested) are left out.            *)
(***************************************************************************)
EXTENDS Integers, SequencesExt

CONSTANTS
    Lines,             \* what lines are taken for: [hint, kind, command, file]
    ExitCodes,         \* the classes of exit codes processes end with
    ActivityCapacity, TimelineCapacity, EVENT_CAPACITY,
    MaxLines, MaxRuns, MaxToggles      \* bounds

None == "none"
Hints == {"Working", "Waiting", "NeedsApproval"}
Verdicts == {"Completed", "Failed", "Crashed"}
AgentStates == {"Starting", "Stopped"} \cup Hints \cup Verdicts

VARIABLES
    pane,       \* the agent is attached to a pane (else it runs headless)
    agent,      \* AgentSession.state, its process and the stop flag
    stopping,   \* the engine is in the middle of AgentRuntime::stop
    pump,       \* the pump thread: where it is, what it is about to send,
                \* and its PumpTracker
    work,       \* AgentWork
    events,     \* the runtime's event channel
    old,        \* what the pump of the replaced run has still to send
    prefs,      \* NotificationPrefs: needs me, failure, completion
    ui,         \* notified_attention, the notices given, whether one of them
                \* twice, and the state last published
    entered,    \* history: the attention states the pump's agent was in
    mixed,      \* history: a stop, or a restart over a pump still at work
    count       \* lines, runs and toggles there were

vars == <<pane, agent, stopping, pump, work, events, old, prefs, ui, entered,
          mixed, count>>

StateChanged(s) == [kind |-> "StateChanged", of |-> s]
Completed == [kind |-> "Completed", of |-> None]

(* attention_for: the states a user is needed in.                          *)
attention_for(s) ==
    CASE s = "NeedsApproval" -> "PermissionRequested"
      [] s = "Waiting" -> "NeedsInput"
      [] s \in {"Failed", "Crashed"} -> "ErrorIntervention"
      [] OTHER -> None

Attention == {s \in AgentStates : attention_for(s) # None}

NewAgent == [state |-> "Starting", life |-> "alive", code |-> None, stop |-> FALSE]
NewPump == [at |-> "starting", out |-> <<>>, state |-> None, kind |-> None]
NewWork == [status |-> "Running", activity |-> <<>>, timeline |-> <<"Started">>,
            commands |-> <<>>, files |-> {}, errors |-> 0]
DefaultPrefs == [needs_me |-> TRUE, failure |-> TRUE, completion |-> FALSE]
Quiet == [needs_me |-> FALSE, failure |-> FALSE, completion |-> FALSE]

Init ==
    /\ pane \in BOOLEAN
    /\ agent = NewAgent /\ stopping = FALSE /\ pump = NewPump /\ work = NewWork
    /\ events = <<>> /\ old = <<>> /\ prefs = DefaultPrefs
    /\ ui = [notified |-> {}, notices |-> {}, twice |-> FALSE, seen |-> None]
    /\ entered = {} /\ mixed = FALSE
    /\ count = [lines |-> 0, runs |-> 1, toggles |-> 0]

-----------------------------------------------------------------------------
(* The work record.                                                        *)

(* A ring of a capacity: the oldest entry makes room.                      *)
Pushed(ring, capacity, e) ==
    Append(IF Len(ring) >= capacity THEN Tail(ring) ELSE ring, e)

(* recent: the newest record is within the coalescing window.              *)
push_activity(ring, kind, recent) ==
    IF ring # <<>> /\ Last(ring).kind = kind /\ recent
    THEN [ring EXCEPT ![Len(ring)].count = @ + 1]
    ELSE Pushed(ring, ActivityCapacity, [kind |-> kind, count |-> 1])

AddActivity(w, kind, recent) ==
    [w EXCEPT !.activity = push_activity(@, kind, recent)]
AddTimeline(w, e) == [w EXCEPT !.timeline = Pushed(@, TimelineCapacity, e)]

timeline_worthy(kind) == kind \notin {"Reading", "Thinking", "Unknown"}

(* What detect_activity_kind makes of a hint.                              *)
HintKind(hint) ==
    CASE hint = "NeedsApproval" -> "WaitingForPermission"
      [] hint = "Waiting" -> "WaitingForInput"
      [] OTHER -> "Unknown"

(* An edited file is listed, in the timeline too when it is new.           *)
AddFile(w, l) ==
    IF l.kind # "Editing" \/ l.file = None THEN w
    ELSE LET w2 == [w EXCEPT !.files = @ \cup {l.file}]
         IN  IF l.file \in w.files THEN w2 ELSE AddTimeline(w2, "File")

AddKind(w, l, recent) ==
    LET w2 == AddActivity(w, l.kind, recent)
    IN  AddFile(IF timeline_worthy(l.kind) THEN AddTimeline(w2, "Activity") ELSE w2, l)

AddCommand(w, command) ==
    IF w.commands # <<>> /\ Last(w.commands) = command THEN w
    ELSE AddTimeline([w EXCEPT !.commands = Append(@, command)], "Command")

-----------------------------------------------------------------------------
(* The pump thread.                                                        *)

PumpIdle(place) == pump.at = place /\ pump.out = <<>>

(* A session enters a state, which is history when it wants attention.     *)
Enters(s) ==
    /\ agent' = [agent EXCEPT !.state = s]
    /\ entered' = IF s \in Attention THEN entered \cup {s} ELSE entered

PumpStart ==
    /\ PumpIdle("starting")
    /\ Enters("Starting")
    /\ pump' = [pump EXCEPT !.at = "recv", !.out = <<StateChanged("Starting")>>]
    /\ UNCHANGED <<pane, stopping, work, events, old, prefs, ui, mixed, count>>

(* The thread ends with its last event.                                    *)
Returned(p) == IF p.at = "last" /\ p.out = <<>> THEN [p EXCEPT !.at = "done"] ELSE p

(* Fault: what does not fit into the channel is not sent.                  *)
FaultPumpTries ==
    /\ pump.out # <<>>
    /\ events' = IF Len(events) < EVENT_CAPACITY
                 THEN Append(events, Head(pump.out)) ELSE events
    /\ pump' = Returned([pump EXCEPT !.out = Tail(@)])
    /\ UNCHANGED <<pane, agent, stopping, work, old, prefs, ui, entered, mixed,
                   count>>

(* Every send of the pump blocks while the channel is full.                *)
PumpSend ==
    /\ pump.out # <<>> /\ Len(events) < EVENT_CAPACITY
    /\ events' = Append(events, Head(pump.out))
    /\ pump' = Returned([pump EXCEPT !.out = Tail(@)])
    /\ UNCHANGED <<pane, agent, stopping, work, old, prefs, ui, entered, mixed,
                   count>>

(* process_chunk reads the lines of a chunk one by one.                    *)
ReadLine ==
    /\ PumpIdle("recv") /\ count.lines < MaxLines
    /\ count' = [count EXCEPT !.lines = @ + 1]
    /\ UNCHANGED <<pane, stopping, events, old, prefs, ui, mixed>>

(* A line the adapter recognises: a state that differs from the last one   *)
(* it recognised is recorded, entered and told.                            *)
HintLine(l) ==
    /\ ReadLine /\ l.hint # None
    /\ IF l.hint = pump.state THEN UNCHANGED <<pump, agent, work, entered>>
       ELSE /\ \E recent \in BOOLEAN :
                 work' = AddTimeline(AddActivity(work, HintKind(l.hint), recent),
                     IF l.hint = "NeedsApproval" THEN "Approval" ELSE "Activity")
            /\ Enters(l.hint)
            /\ pump' = [pump EXCEPT !.state = l.hint, !.out = <<StateChanged(l.hint)>>]

(* Fault: the tracker does not keep the kind it has seen.                  *)
FaultKindLine(l) ==
    /\ ReadLine /\ l.hint = None /\ l.kind \notin {"Unknown", pump.kind}
    /\ \E recent \in BOOLEAN : work' = AddKind(work, l, recent)
    /\ UNCHANGED <<pump, agent, entered>>

(* Any other line: a kind that differs from the last one is recorded ...   *)
KindLine(l) ==
    /\ ReadLine /\ l.hint = None /\ l.kind \notin {"Unknown", pump.kind}
    /\ \E recent \in BOOLEAN : work' = AddKind(work, l, recent)
    /\ pump' = [pump EXCEPT !.kind = l.kind]
    /\ UNCHANGED <<agent, entered>>

(* ... and only where there is none a command is looked for.               *)
CommandLine(l) ==
    /\ ReadLine /\ l.hint = None /\ l.kind \in {"Unknown", pump.kind}
    /\ work' = IF l.command = None THEN work ELSE AddCommand(work, l.command)
    /\ UNCHANGED <<pump, agent, entered>>

(* At the end of a chunk, or after a timeout.  The reader takes its time   *)
(* to raise the exit flag of a process that has ended.                     *)
PumpCheck ==
    /\ PumpIdle("recv") /\ (agent.stop \/ agent.life = "dead")
    /\ pump' = [pump EXCEPT !.at = IF agent.stop THEN "done" ELSE "finish"]
    /\ UNCHANGED <<pane, agent, stopping, work, events, old, prefs, ui,
                   entered, mixed, count>>

FinalState(c) ==
    IF c = "zero" THEN "Completed" ELSE IF c = "signal" THEN "Crashed" ELSE "Failed"

terminal(s) == s \in Verdicts \cup {"Stopped"}

(* AgentWork::finish: the first verdict stands.                            *)
Finished(w, status) == IF w.status = "Running" THEN [w EXCEPT !.status = status] ELSE w

(* Fault: the work of an agent that is Stopped by now gets no verdict.     *)
FaultEndOfWork(w, c, git) ==
    IF agent.state = "Stopped" \/ c = "zero"
    THEN AddTimeline([Finished(w, "Completed") EXCEPT !.files = @ \cup git], "Completed")
    ELSE AddTimeline([Finished(w, "Failed") EXCEPT !.errors = @ + 1], "Error")

(* The verdict on the work follows the exit code, with the files git knows *)
(* changed, or with an error.                                              *)
EndOfWork(w, c, git) ==
    IF c = "zero"
    THEN AddTimeline([Finished(w, "Completed") EXCEPT !.files = @ \cup git], "Completed")
    ELSE AddTimeline([Finished(w, "Failed") EXCEPT !.errors = @ + 1], "Error")

Files == {l.file : l \in Lines} \ {None}

finish ==
    /\ PumpIdle("finish")
    /\ LET final == FinalState(agent.code)  over == terminal(agent.state) IN
         /\ IF over THEN UNCHANGED <<agent, entered>> ELSE Enters(final)
         /\ \E git \in {{}, Files} : work' = EndOfWork(work, agent.code, git)
         /\ pump' = Returned([pump EXCEPT !.at = "last",
              !.out = (IF over THEN <<>> ELSE <<StateChanged(final)>>)
                      \o (IF final = "Completed" THEN <<Completed>> ELSE <<>>)])
    /\ UNCHANGED <<pane, stopping, events, old, prefs, ui, mixed, count>>

Pump == \/ PumpStart \/ PumpSend \/ PumpCheck \/ finish
        \/ \E l \in Lines : HintLine(l) \/ KindLine(l) \/ CommandLine(l)

-----------------------------------------------------------------------------
(* The process, and the pump of a run that was replaced.                   *)

ProcessEnds(c) ==
    /\ agent.life = "alive"
    /\ agent' = [agent EXCEPT !.life = "dead", !.code = c]
    /\ UNCHANGED <<pane, stopping, pump, work, events, old, prefs, ui,
                   entered, mixed, count>>

OldSend ==
    /\ old # <<>> /\ Len(events) < EVENT_CAPACITY
    /\ events' = Append(events, Head(old)) /\ old' = Tail(old)
    /\ UNCHANGED <<pane, agent, stopping, pump, work, prefs, ui, entered,
                   mixed, count>>

-----------------------------------------------------------------------------
(* The engine: user calls and frames, one at a time.                       *)

Idle == ~stopping /\ UNCHANGED pane

(* AgentRuntime::stop raises the flag and ends the process ...             *)
StopBegins ==
    /\ Idle /\ stopping' = TRUE /\ mixed' = TRUE
    /\ agent' = [agent EXCEPT !.stop = TRUE, !.life = "dead",
                   !.code = IF agent.life = "alive" THEN "signal" ELSE @]
    /\ UNCHANGED <<pump, work, events, old, prefs, ui, entered, count>>

(* ... and then, whatever the pump has done meanwhile, says so.  The event *)
(* is only tried.                                                          *)
StopEnds ==
    /\ stopping /\ stopping' = FALSE
    /\ IF agent.state \in Verdicts
       THEN UNCHANGED <<agent, events>>
       ELSE /\ agent' = [agent EXCEPT !.state = "Stopped"]
            /\ events' = IF Len(events) < EVENT_CAPACITY
                         THEN Append(events, StateChanged("Stopped")) ELSE events
    /\ UNCHANGED <<pane, pump, work, old, prefs, ui, entered, mixed, count>>

(* What a pump that is told to stop may still send: it starts, reads one   *)
(* more chunk, with one new state in it (bound), or has passed the flag.   *)
Leavings ==
    LET states == {<<>>} \cup
                  {<<StateChanged(l.hint)>> :
                      l \in {k \in Lines : k.hint \notin {None, pump.state}}}
    IN  CASE pump.at = "starting" ->
               {<<StateChanged("Starting")>> \o more : more \in states}
          [] pump.at = "recv" -> {pump.out \o more : more \in states}
          [] pump.at = "finish" ->
               {IF agent.code = "zero" THEN <<Completed>> ELSE <<>>}
          [] OTHER -> {pump.out}

(* A new record, process, pump and work under the same id.  Bound: one     *)
(* replaced pump at a time.                                                *)
Restart ==
    /\ Idle /\ count.runs < MaxRuns /\ old = <<>>
    /\ agent.state \notin {"Starting", "Working", "Waiting", "NeedsApproval"}
    /\ old' \in Leavings /\ mixed' = (mixed \/ old' # <<>>)
    /\ agent' = NewAgent /\ pump' = NewPump /\ work' = NewWork
    /\ count' = [count EXCEPT !.runs = @ + 1]
    /\ UNCHANGED <<stopping, events, prefs, ui, entered>>

(* The attention states, and the last state, that events tell of.          *)
Wanting(es) == {s \in Attention : StateChanged(s) \in ToSet(es)}
Latest(es, s) ==
    LET changes == {i \in DOMAIN es : es[i].kind = "StateChanged"}
    IN  IF changes = {} THEN s ELSE es[Max(changes)].of

(* Fault: every change into an attention state is told.                    *)
FaultTellAgain(u, S) == [u EXCEPT !.notified = @ \cup S, !.notices = @ \cup S,
                                  !.twice = @ \/ S \cap u.notices # {}]

(* An attention state is told the first time, if the preferences allow it, *)
(* and counts as told if they do not.                                      *)
Tell(u, S) ==
    LET given == {s \in S \ u.notified :
                     IF attention_for(s) = "ErrorIntervention" THEN prefs.failure
                     ELSE prefs.needs_me}
    IN  [u EXCEPT !.notified = @ \cup S, !.notices = @ \cup given,
                  !.twice = @ \/ given \cap u.notices # {}]

emit_agent_notifications(u, es) ==
    IF ~pane THEN u
    ELSE LET ends == IF prefs.completion /\ Completed \in ToSet(es)
                     THEN {"Completed"} ELSE {}
         IN  [Tell(u, Wanting(es)) EXCEPT !.notices = @ \cup ends]

Published(u, es) == [u EXCEPT !.seen = Latest(es, @)]

(* drain_frame takes what is in the channel and, event by event, tells and *)
(* publishes it: an attention state once, the last state to stay.          *)
Frame ==
    /\ Idle /\ events # <<>>
    /\ ui' = Published(emit_agent_notifications(ui, events), events)
    /\ events' = <<>>
    /\ UNCHANGED <<agent, stopping, pump, work, old, prefs, entered, mixed, count>>

SetPrefs(p) ==
    /\ Idle /\ count.toggles < MaxToggles
    /\ prefs' = p /\ count' = [count EXCEPT !.toggles = @ + 1]
    /\ UNCHANGED <<agent, stopping, pump, work, events, old, ui, entered, mixed>>

ToggleQuietMode ==
    SetPrefs(IF prefs.needs_me /\ prefs.failure THEN Quiet ELSE DefaultPrefs)

Next ==
    \/ Pump \/ OldSend
    \/ StopBegins \/ StopEnds \/ Restart \/ Frame \/ ToggleQuietMode
    \/ SetPrefs([DefaultPrefs EXCEPT !.completion = TRUE])
    \/ \E c \in ExitCodes : ProcessEnds(c)

Spec == Init /\ [][Next]_vars

-----------------------------------------------------------------------------
(* The dashboard puts rows with the greatest rank first.                   *)
sort_rank(s) ==
    IF attention_for(s) # None THEN 0
    ELSE IF s \in {"Completed", "Stopped"} THEN 2
    ELSE IF s \in {"Failed", "Crashed", "Blocked"} THEN 1
    ELSE 0

RowsBefore(s1, s2) == sort_rank(s1) > sort_rank(s2)

-----------------------------------------------------------------------------
(* Properties.                                                             *)

(* The types of all variables; no ring and no channel outgrows its limit.  *)
TypeOK ==
    /\ {pane, stopping, mixed} \subseteq BOOLEAN
    /\ agent \in [state : AgentStates, life : {"alive", "dead"},
                  code : ExitCodes \cup {None, "signal"}, stop : BOOLEAN]
    /\ pump.at \in {"starting", "recv", "finish", "last", "done"}
    /\ pump.state \in Hints \cup {None}
    /\ work.status \in {"Running", "Completed", "Failed"}
    /\ Len(work.activity) <= ActivityCapacity
    /\ Len(work.timeline) <= TimelineCapacity
    /\ work.files \subseteq Files /\ work.errors \in 0..1
    /\ Len(events) <= EVENT_CAPACITY
    /\ ui.notified \subseteq Attention /\ ui.seen \in AgentStates \cup {None}
    /\ entered \subseteq Attention

(* The activity history never repeats itself, however hints and kinds mix  *)
(* and the ring turns: what push_activity would fold the trackers of       *)
(* process_chunk have kept away.                                           *)
ActivityIsNews ==
    \A i \in 1..Len(work.activity) - 1 :
        work.activity[i].kind # work.activity[i + 1].kind

(* Once the pump is done the record of the work and the session tell the   *)
(* same end, the one the exit code stands for; a stop that comes between   *)
(* the exit and the verdict takes the state of the session, never the      *)
(* verdict on the work (finish, stop).                                     *)
VerdictIsOne ==
    /\ pump.at \in {"last", "done"} /\ ~agent.stop =>
          agent.state = FinalState(agent.code) /\ work.status # "Running"
    /\ work.status = "Completed" =>
          agent.code = "zero" /\ agent.state \in {"Completed", "Stopped"}
    /\ work.status = "Failed" =>
          /\ agent.code # "zero" /\ agent.state \in {"Failed", "Crashed", "Stopped"}
          /\ work.errors = 1 /\ Last(work.timeline) = "Error"

NothingInFlight == pump.out = <<>> /\ old = <<>> /\ events = <<>>

(* Whatever is full, stopped and restarted, a user with the agent's pane   *)
(* is told of every state that wants attention once what was sent has been *)
(* drained, and of none of them twice (emit_agent_notifications).          *)
AttentionIsHeard ==
    /\ pane /\ NothingInFlight => entered \subseteq ui.notified
    /\ ~ui.twice

(* Without a stop, and with no replaced run still sending, who follows the *)
(* events ends up with the state the session has (transition_state_with).  *)
WatcherAgrees ==
    ~mixed /\ NothingInFlight /\ pump.at # "starting" => ui.seen = agent.state

-----------------------------------------------------------------------------
(* What the documents say and the code does not do.                        *)

(* docs/agent-observability.md:54: rows are sorted "needs-you first".      *)
NeedsYouFirst ==
    \A s1, s2 \in AgentStates :
        attention_for(s1) # None /\ attention_for(s2) = None => ~RowsBefore(s2, s1)

=============================================================================
