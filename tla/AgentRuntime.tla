---------------------------- MODULE AgentRuntime ----------------------------
(***************************************************************************)
(* The agent runtime of crates/terminal-session/src/agent.rs with the      *)
(* session pipeline it runs on (lib.rs beside it, crates/pty/src/lib.rs)   *)
(* and the part of the engine that drains both.                            *)
(*                                                                         *)
(*   process -> reader thread -> tap (bounded)   -> pump thread            *)
(*                            -> UI channel (bounded) -> engine            *)
(*              pump thread   -> event channel (bounded, shared) -> engine *)
(*                                                                         *)
(* An execution id survives restarts: each spawn is a run of its own, with *)
(* its own process, threads, channels and session record, and a run's      *)
(* threads may outlive its place in the runtime's maps.                    *)
(*                                                                         *)
(* Output is chunks, numbered in the order they are read; what an adapter  *)
(* recognises in one is a choice of the pump's step.                       *)
(***************************************************************************)
EXTENDS Integers, FiniteSets, SequencesExt

CONSTANTS
    Agents,            \* execution ids
    Hints,             \* the activity states an adapter recognises
    ExitCodes,         \* the classes of exit codes processes end with
    TAP_CAPACITY, CHANNEL_CAPACITY, EVENT_CAPACITY,
    MaxRuns,           \* bound: spawns per execution id
    MaxChunks          \* bound: chunks the process of an id's n-th run writes

ASSUME HintsAssumption == Hints \subseteq {"Working", "Waiting", "NeedsApproval"}
ASSUME CodesAssumption == ExitCodes \subseteq {"zero", "signal", "error", "none"}
ASSUME CapacitiesAssumption ==
    {TAP_CAPACITY, CHANNEL_CAPACITY, EVENT_CAPACITY} \subseteq Nat \ {0}
ASSUME RunsAssumption == MaxRuns \in Nat \ {0} /\ MaxChunks \in [1..MaxRuns -> Nat]

Runs == Agents \X (1..MaxRuns)
Sentinel == 0          \* the empty chunk the reader sends after EOF
Verdicts == {"Completed", "Failed", "Crashed"}
AgentStates == {"Created", "Starting", "Stopped", "Working", "Waiting",
                "NeedsApproval"} \cup Verdicts

VARIABLES
    spawned,     \* how many runs each id has had
    registered,  \* the run in AgentRuntime.sessions, ptys, ..., 0 for none
    shown,       \* the run whose Session the engine's map holds, 0 for none
    exitCodes,   \* the ids in Multiplexer.session_exit_codes
    engine,      \* "idle", or "events" while drain_frame receives
    proc,                \* of each run: [life, code, pty], its process, how
                         \* it ended, and its entry in the PtyManager
    reader, chunks,      \* the reader thread, and how many chunks it read
    ui,                  \* length of the Session's event channel
    exited,              \* Session.exited
    tap,                 \* the tap channel
    pump, out,           \* the pump thread, and what it is about to send
    last_state,          \* PumpTracker.last_state
    stop,                \* RunningAgent.stop
    state, exit_code,    \* AgentSession
    events,      \* the runtime's event channel: [run, kind, chunk]
    outputs,     \* history: the chunks the engine got Output events for
    exits        \* history: how many Exited events it got

engineVars == <<spawned, registered, shown, exitCodes, engine>>
readerVars == <<reader, chunks, exited>>
pumpVars == <<pump, out, last_state>>
recordVars == <<state, exit_code>>
historyVars == <<outputs, exits>>
vars == <<engineVars, proc, readerVars, ui, tap, pumpVars, stop,
          recordVars, events, historyVars>>

Ev(r, kind) == [run |-> r, kind |-> kind, chunk |-> Sentinel]
Output(r, k) == [run |-> r, kind |-> "Output", chunk |-> k]

(* Fault: something still holds the receiver of a Session nobody drains.   *)
FaultNeverDropped(r) == FALSE

(* The Session and with it the receiver of the UI channel is gone: no map  *)
(* and no pump holds it any more.                                          *)
Dropped(r) ==
    /\ registered[r[1]] # r[2] /\ shown[r[1]] # r[2]
    /\ pump[r] = "done"

Init ==
    /\ spawned = [a \in Agents |-> 0] /\ registered = [a \in Agents |-> 0]
    /\ shown = [a \in Agents |-> 0]
    /\ exitCodes = {} /\ engine = "idle" /\ events = <<>>
    /\ proc = [r \in Runs |-> [life |-> "none", code |-> "none", pty |-> "none"]]
    /\ reader = [r \in Runs |-> "none"] /\ chunks = [r \in Runs |-> 0]
    /\ ui = [r \in Runs |-> 0] /\ exited = [r \in Runs |-> FALSE]
    /\ tap = [r \in Runs |-> <<>>]
    /\ pump = [r \in Runs |-> "none"] /\ out = [r \in Runs |-> <<>>]
    /\ last_state = [r \in Runs |-> "none"] /\ stop = [r \in Runs |-> FALSE]
    /\ state = [r \in Runs |-> "Created"] /\ exit_code = [r \in Runs |-> "none"]
    /\ outputs = [r \in Runs |-> <<>>] /\ exits = [r \in Runs |-> 0]

-----------------------------------------------------------------------------
(* The process and the reader thread.                                      *)

(* With code "none" it has only let go of its terminal, and poll_exit_code *)
(* gives up waiting for it after two seconds.                              *)
ProcessEnds(r, c) ==
    /\ proc[r].life = "alive"
    /\ proc' = [proc EXCEPT ![r].life = "dead", ![r].code = c]
    /\ UNCHANGED <<engineVars, readerVars, ui, tap, pumpVars, stop,
                   recordVars, events, historyVars>>

(* read_available; what a dead process has written is still read.          *)
ReadData(r) ==
    /\ reader[r] = "read" /\ proc[r].pty = "open" /\ chunks[r] < MaxChunks[r[2]]
    /\ chunks' = [chunks EXCEPT ![r] = @ + 1]
    /\ reader' = [reader EXCEPT ![r] = "tap"]
    /\ UNCHANGED <<engineVars, proc, exited, ui, tap, pumpVars, stop,
                   recordVars, events, historyVars>>

(* Once nobody holds the terminal; terminate() may kill while a read is on.*)
ReadEof(r) ==
    /\ reader[r] = "read" /\ proc[r].life = "dead"
    /\ reader' = [reader EXCEPT ![r] = "eof"]
    /\ UNCHANGED <<engineVars, proc, chunks, exited, ui, tap, pumpVars,
                   stop, recordVars, events, historyVars>>

(* "session not found": the loop ends, and exited stays false.             *)
ReadError(r) ==
    /\ reader[r] = "read" /\ proc[r].pty = "terminated"
    /\ reader' = [reader EXCEPT ![r] = "done"]
    /\ UNCHANGED <<engineVars, proc, chunks, exited, ui, tap, pumpVars,
                   stop, recordVars, events, historyVars>>

TapClosed(r) == pump[r] = "done"

(* A blocking send; its error is ignored.                                  *)
TapSend(r, chunk) ==
    \/ TapClosed(r) /\ UNCHANGED tap
    \/ /\ ~TapClosed(r) /\ Len(tap[r]) < TAP_CAPACITY
       /\ tap' = [tap EXCEPT ![r] = Append(@, chunk)]

Tap(r) ==
    /\ reader[r] = "tap"
    /\ TapSend(r, chunks[r])
    /\ reader' = [reader EXCEPT ![r] = "ui"]
    /\ UNCHANGED <<engineVars, proc, chunks, exited, ui, pumpVars, stop,
                   recordVars, events, historyVars>>

Forward(r) ==
    /\ reader[r] = "ui"
    /\ IF Dropped(r)
       THEN reader' = [reader EXCEPT ![r] = "done"] /\ UNCHANGED ui
       ELSE /\ ui[r] < CHANNEL_CAPACITY
            /\ ui' = [ui EXCEPT ![r] = @ + 1]
            /\ reader' = [reader EXCEPT ![r] = "read"]
    /\ UNCHANGED <<engineVars, proc, chunks, exited, tap, pumpVars, stop,
                   recordVars, events, historyVars>>

(* Fault: the exit is put into a full channel too.                         *)
FaultEofIgnoresRoom(r) ==
    /\ reader[r] = "eof"
    /\ ui' = [ui EXCEPT ![r] = @ + 1]
    /\ exited' = [exited EXCEPT ![r] = TRUE]
    /\ reader' = [reader EXCEPT ![r] = "sentinel"]
    /\ UNCHANGED <<engineVars, proc, chunks, tap, pumpVars, stop, recordVars,
                   events, historyVars>>

(* Exited goes into the UI channel before the flag is set.                 *)
ForwardEof(r) ==
    /\ reader[r] = "eof"
    /\ IF Dropped(r)
       THEN UNCHANGED ui
       ELSE ui[r] < CHANNEL_CAPACITY /\ ui' = [ui EXCEPT ![r] = @ + 1]
    /\ exited' = [exited EXCEPT ![r] = TRUE]
    /\ reader' = [reader EXCEPT ![r] = "sentinel"]
    /\ UNCHANGED <<engineVars, proc, chunks, tap, pumpVars, stop,
                   recordVars, events, historyVars>>

TapSentinel(r) ==
    /\ reader[r] = "sentinel"
    /\ TapSend(r, Sentinel)
    /\ reader' = [reader EXCEPT ![r] = "done"]
    /\ UNCHANGED <<engineVars, proc, chunks, exited, ui, pumpVars, stop,
                   recordVars, events, historyVars>>

Reader(r) == \/ ReadData(r) \/ ReadEof(r) \/ ReadError(r)
             \/ Tap(r) \/ Forward(r) \/ ForwardEof(r) \/ TapSentinel(r)

-----------------------------------------------------------------------------
(* The pump thread.  Each of its steps changes the record under the        *)
(* session lock and leaves in out what it sends after releasing it.        *)

PumpIdle(r, pc) == pump[r] = pc /\ out[r] = <<>>

PumpStart(r) ==
    /\ PumpIdle(r, "starting")
    /\ state' = [state EXCEPT ![r] = "Starting"]
    /\ out' = [out EXCEPT ![r] = <<Ev(r, "StateChanged"), Ev(r, "Started")>>]
    /\ pump' = [pump EXCEPT ![r] = "recv"]
    /\ UNCHANGED <<engineVars, proc, readerVars, ui, tap, last_state,
                   stop, exit_code, events, historyVars>>

(* With its last word the thread returns, and the tap's receiver, its hold *)
(* on the Session and its tracker are dropped.                             *)
Return(r) ==
    IF pump[r] = "last" /\ Len(out[r]) = 1
    THEN /\ pump' = [pump EXCEPT ![r] = "done"]
         /\ tap' = [tap EXCEPT ![r] = <<>>]
         /\ last_state' = [last_state EXCEPT ![r] = "none"]
    ELSE UNCHANGED <<pump, tap, last_state>>

(* Fault: the pump does not wait for room.                                 *)
FaultPumpTrySend(r) ==
    /\ out[r] # <<>>
    /\ events' = IF Len(events) < EVENT_CAPACITY
                 THEN Append(events, Head(out[r])) ELSE events
    /\ out' = [out EXCEPT ![r] = Tail(@)]
    /\ Return(r)
    /\ UNCHANGED <<engineVars, proc, readerVars, ui, stop, recordVars,
                   historyVars>>

PumpSend(r) ==
    /\ out[r] # <<>> /\ Len(events) < EVENT_CAPACITY
    /\ events' = Append(events, Head(out[r]))
    /\ out' = [out EXCEPT ![r] = Tail(@)]
    /\ Return(r)
    /\ UNCHANGED <<engineVars, proc, readerVars, ui, stop, recordVars,
                   historyVars>>

(* process_chunk: a recognised state that differs from the last one moves  *)
(* the session; every chunk, the sentinel too, becomes an Output event.    *)
PumpChunk(r, hint) ==
    /\ PumpIdle(r, "recv") /\ tap[r] # <<>>
    /\ Head(tap[r]) = Sentinel => hint = "none"
    /\ tap' = [tap EXCEPT ![r] = Tail(@)]
    /\ pump' = [pump EXCEPT ![r] = "check"]
    /\ IF hint \notin {"none", last_state[r]}
       THEN /\ state' = [state EXCEPT ![r] = hint]
            /\ last_state' = [last_state EXCEPT ![r] = hint]
            /\ out' = [out EXCEPT ![r] =
                 <<Ev(r, "StateChanged")>>
                 \o (IF hint = "NeedsApproval" THEN <<Ev(r, "Permission")>> ELSE <<>>)
                 \o <<Output(r, Head(tap[r]))>>]
       ELSE /\ out' = [out EXCEPT ![r] = <<Output(r, Head(tap[r]))>>]
            /\ UNCHANGED <<state, last_state>>
    /\ UNCHANGED <<engineVars, proc, readerVars, ui, stop, exit_code,
                   events, historyVars>>

(* recv_timeout returns without a chunk.                                   *)
PumpTimeout(r) ==
    /\ PumpIdle(r, "recv") /\ tap[r] = <<>>
    /\ pump' = [pump EXCEPT ![r] = "check"]
    /\ UNCHANGED <<engineVars, proc, readerVars, ui, tap, out,
                   last_state, stop, recordVars, events, historyVars>>

(* Fault: a pump told to stop just returns.                                *)
FaultStopIsSilent(r) ==
    /\ PumpIdle(r, "check")
    /\ pump' = [pump EXCEPT ![r] =
         IF stop[r] THEN "done" ELSE IF exited[r] THEN "finish" ELSE "recv"]
    /\ UNCHANGED <<engineVars, proc, readerVars, ui, tap, out, last_state,
                   stop, recordVars, events, historyVars>>

(* has_exited and the stop flag.  Told to stop, the pump only reports the  *)
(* exit; otherwise the exit is still to be classified.  Either way the     *)
(* loop is left, and what is in the tap with it.  (The flags only rise, so *)
(* reading both at the later moment loses no behaviour; poll_exit_code has *)
(* a dead process to reap in both cases.)                                  *)
PumpCheck(r) ==
    /\ PumpIdle(r, "check")
    /\ IF stop[r]
       THEN /\ out' = [out EXCEPT ![r] = <<Ev(r, "Exited")>>]
            /\ pump' = [pump EXCEPT ![r] = "last"]
       ELSE /\ pump' = [pump EXCEPT ![r] = IF exited[r] THEN "finish" ELSE "recv"]
            /\ UNCHANGED out
    /\ UNCHANGED <<engineVars, proc, readerVars, ui, tap, last_state, stop,
                   recordVars, events, historyVars>>

FinalState(c) ==
    IF c = "zero" THEN "Completed" ELSE IF c = "signal" THEN "Crashed" ELSE "Failed"

(* Fault: finish() overrides a user's stop.                                *)
FaultVerdictWins(s) == s \in Verdicts

terminal(s) == s \in Verdicts \cup {"Stopped"}

(* Faults of finish(): the code is not kept; the exit is reported first.   *)
FaultFinishForgetsCode(r) ==
    /\ PumpIdle(r, "finish")
    /\ state' = [state EXCEPT ![r] = IF terminal(@) THEN @ ELSE "Failed"]
    /\ out' = [out EXCEPT ![r] = <<Ev(r, "Exited")>>]
    /\ pump' = [pump EXCEPT ![r] = "last"]
    /\ UNCHANGED <<engineVars, proc, readerVars, ui, tap, last_state,
                   stop, exit_code, events, historyVars>>

FaultExitFirst(r) ==
    /\ PumpIdle(r, "finish")
    /\ state' = [state EXCEPT ![r] = IF terminal(@) THEN @ ELSE FinalState(proc[r].code)]
    /\ exit_code' = [exit_code EXCEPT ![r] = proc[r].code]
    /\ out' = [out EXCEPT ![r] = <<Ev(r, "Exited"), Ev(r, "Completed")>>]
    /\ pump' = [pump EXCEPT ![r] = "last"]
    /\ UNCHANGED <<engineVars, proc, readerVars, ui, tap, last_state,
                   stop, events, historyVars>>

finish(r) ==
    /\ PumpIdle(r, "finish")
    /\ state' = [state EXCEPT ![r] = IF terminal(@) THEN @ ELSE FinalState(proc[r].code)]
    /\ exit_code' = [exit_code EXCEPT ![r] = proc[r].code]
    /\ out' = [out EXCEPT ![r] =
         (IF terminal(state[r]) THEN <<>> ELSE <<Ev(r, "StateChanged")>>)
         \o (IF proc[r].code = "zero" THEN <<Ev(r, "Completed")>> ELSE <<>>)
         \o <<Ev(r, "Exited")>>]
    /\ pump' = [pump EXCEPT ![r] = "last"]
    /\ UNCHANGED <<engineVars, proc, readerVars, ui, tap, last_state,
                   stop, events, historyVars>>

Pump(r) == \/ PumpStart(r) \/ PumpSend(r) \/ PumpTimeout(r) \/ PumpCheck(r)
           \/ (\E h \in Hints \cup {"none"} : PumpChunk(r, h))
           \/ finish(r)

-----------------------------------------------------------------------------
(* The engine: user calls and drain frames, one at a time.                 *)

(* PtyManager::terminate: the entry goes, then the process group.  A       *)
(* process that had ended keeps its code.                                  *)
Terminated(p) ==
    [life |-> "dead", pty |-> "terminated",
     code |-> IF p.life = "alive" THEN "signal" ELSE p.code]

(* AgentRuntime::stop.  The record stays, the event is only tried.         *)
Stop(a) ==
    LET r == <<a, registered[a]>> IN
    /\ engine = "idle" /\ registered[a] # 0
    /\ stop' = [stop EXCEPT ![r] = TRUE]
    /\ proc' = [proc EXCEPT ![r] = Terminated(@)]
    /\ IF state[r] \in Verdicts
       THEN UNCHANGED <<state, events>>
       ELSE /\ state' = [state EXCEPT ![r] = "Stopped"]
            /\ events' = IF Len(events) < EVENT_CAPACITY
                         THEN Append(events, Ev(r, "StateChanged")) ELSE events
    /\ UNCHANGED <<engineVars, readerVars, ui, tap, pumpVars, exit_code,
                   historyVars>>

(* spawn_impl succeeds: run n of id a is registered and its threads start. *)
Started(a, n) ==
    LET r == <<a, n>> IN
    /\ n <= MaxRuns
    /\ spawned' = [spawned EXCEPT ![a] = n]
    /\ registered' = [registered EXCEPT ![a] = n]
    /\ shown' = [shown EXCEPT ![a] = n]
    /\ reader' = [reader EXCEPT ![r] = "read"]
    /\ pump' = [pump EXCEPT ![r] = "starting"]
    /\ state' = [state EXCEPT ![r] = "Starting"]
    /\ UNCHANGED <<exitCodes, engine, chunks, exited, ui, tap, out, last_state,
                   exit_code, events, historyVars>>

Fresh == [life |-> "alive", code |-> "none", pty |-> "open"]

Spawn(a) ==
    /\ engine = "idle" /\ spawned[a] = 0
    /\ Started(a, 1)
    /\ proc' = [proc EXCEPT ![<<a, 1>>] = Fresh]
    /\ UNCHANGED stop

(* Fault: the process of a removed run is left to itself.                  *)
FaultLeftRunning(p) == p

(* remove_internal ends the process of the run it removes.                 *)
TornDown(p) == Terminated(p)

(* What restart and resume do: the old run is removed first ...            *)
Replace(a) ==
    LET r == <<a, registered[a]>>  n == spawned[a] + 1 IN
    /\ Started(a, n)
    /\ proc' = [proc EXCEPT ![r] = TornDown(@), ![<<a, n>>] = Fresh]
    /\ stop' = [stop EXCEPT ![r] = TRUE]

(* ... and when the new one cannot be spawned nothing takes its place,     *)
(* while the engine goes on showing the old Session.                       *)
ReplaceFails(a) ==
    LET r == <<a, registered[a]>> IN
    /\ registered' = [registered EXCEPT ![a] = 0]
    /\ proc' = [proc EXCEPT ![r] = TornDown(@)]
    /\ stop' = [stop EXCEPT ![r] = TRUE]
    /\ UNCHANGED <<spawned, shown, exitCodes, engine, readerVars, ui, tap,
                   pumpVars, recordVars, events, historyVars>>

Restart(a) ==
    /\ engine = "idle" /\ registered[a] # 0
    /\ state[<<a, registered[a]>>] \notin
          {"Starting", "Working", "Waiting", "NeedsApproval"}
    /\ Replace(a) \/ ReplaceFails(a)

(* Only the capability is asked for: a running agent is replaced too.      *)
Resume(a) ==
    /\ engine = "idle" /\ registered[a] # 0
    /\ Replace(a) \/ ReplaceFails(a)

(* A closed pane.                                                          *)
ClosePane(a) ==
    LET r == <<a, registered[a]>> IN
    /\ engine = "idle" /\ (registered[a] # 0 \/ shown[a] # 0)
    /\ registered' = [registered EXCEPT ![a] = 0]
    /\ shown' = [shown EXCEPT ![a] = 0]
    /\ IF registered[a] # 0
       THEN /\ proc' = [proc EXCEPT ![r] = TornDown(@)]
            /\ stop' = [stop EXCEPT ![r] = TRUE]
       ELSE UNCHANGED <<proc, stop>>
    /\ UNCHANGED <<spawned, exitCodes, engine, readerVars, ui, tap, pumpVars,
                   recordVars, events, historyVars>>

(* drain_frame: first the UI channel and the exit flag of every Session    *)
(* shown ...                                                               *)
DrainSessions ==
    /\ engine = "idle" /\ engine' = "events"
    /\ ui' = [r \in Runs |-> IF shown[r[1]] = r[2] THEN 0 ELSE ui[r]]
    /\ exitCodes' = exitCodes \cup
          {a \in Agents : shown[a] # 0 /\ exited[<<a, shown[a]>>]}
    /\ UNCHANGED <<spawned, registered, shown, proc, readerVars, tap, pumpVars,
                   stop, recordVars, events, historyVars>>

(* ... then drain_events, until the channel is found empty.                *)
DrainEvent ==
    /\ engine = "events" /\ events # <<>>
    /\ LET e == Head(events) IN
         /\ outputs' = IF e.kind = "Output" /\ e.chunk # Sentinel
                       THEN [outputs EXCEPT ![e.run] = Append(@, e.chunk)]
                       ELSE outputs
         /\ exits' = IF e.kind = "Exited"
                     THEN [exits EXCEPT ![e.run] = @ + 1] ELSE exits
         /\ exitCodes' = IF e.kind = "Exited" THEN exitCodes \cup {e.run[1]}
                                             ELSE exitCodes
    /\ events' = Tail(events)
    /\ UNCHANGED <<spawned, registered, shown, engine, proc, readerVars, ui,
                   tap, pumpVars, stop, recordVars>>

DrainEnds ==
    /\ engine = "events" /\ events = <<>>
    /\ engine' = "idle"
    /\ UNCHANGED <<spawned, registered, shown, exitCodes, proc, readerVars, ui,
                   tap, pumpVars, stop, recordVars, events, historyVars>>

DrainFrame == DrainSessions \/ DrainEvent \/ DrainEnds

UserCalls == \E a \in Agents :
    Spawn(a) \/ Stop(a) \/ Restart(a) \/ Resume(a) \/ ClosePane(a)

Next ==
    \/ UserCalls \/ DrainFrame
    \/ \E r \in Runs : \/ Reader(r) \/ Pump(r)
                       \/ \E c \in ExitCodes : ProcessEnds(r, c)

Spec == Init /\ [][Next]_vars

(* Threads are scheduled, and frames keep coming between the user's calls  *)
(* (the server drains on a timer); no process has to end or to write.      *)
Fairness ==
    /\ WF_vars(DrainEvent) /\ WF_vars(DrainEnds) /\ SF_vars(DrainSessions)
    /\ \A r \in Runs : /\ WF_vars(Reader(r))
                        /\ SF_vars(Pump(r))

LiveSpec == Spec /\ Fairness

-----------------------------------------------------------------------------
(* Properties.                                                             *)

EventKinds == {"StateChanged", "Started", "Permission", "Output", "Completed", "Exited"}
Event == [run : Runs, kind : EventKinds, chunk : Nat]

(* The types of all variables; no channel outgrows its capacity.           *)
TypeOK ==
    /\ spawned \in [Agents -> 0..MaxRuns]
    /\ registered \in [Agents -> 0..MaxRuns] /\ shown \in [Agents -> 0..MaxRuns]
    /\ exitCodes \subseteq Agents /\ engine \in {"idle", "events"}
    /\ proc \in [Runs -> [life : {"none", "alive", "dead"},
                          code : ExitCodes \cup {"none", "signal"},
                          pty : {"none", "open", "terminated"}]]
    /\ reader \in [Runs -> {"none", "read", "tap", "ui", "eof", "sentinel", "done"}]
    /\ \A r \in Runs : chunks[r] \in 0..MaxChunks[r[2]]
    /\ DOMAIN chunks = Runs /\ exited \in [Runs -> BOOLEAN]
    /\ ui \in [Runs -> 0..CHANNEL_CAPACITY]
    /\ tap \in [Runs -> Seq(Nat)]
    /\ \A r \in Runs : Len(tap[r]) <= TAP_CAPACITY /\ ToSet(tap[r]) \subseteq 0..chunks[r]
    /\ pump \in [Runs -> {"none", "starting", "recv", "check", "finish",
                          "last", "done"}]
    /\ out \in [Runs -> Seq(Event)]
    /\ \A r \in Runs : \A i \in DOMAIN out[r] : out[r][i].run = r
    /\ last_state \in [Runs -> Hints \cup {"none"}]
    /\ stop \in [Runs -> BOOLEAN] /\ state \in [Runs -> AgentStates]
    /\ exit_code \in [Runs -> ExitCodes \cup {"none", "signal"}]
    /\ events \in Seq(Event) /\ Len(events) <= EVENT_CAPACITY
    /\ outputs \in [Runs -> Seq(Nat)] /\ exits \in [Runs -> Nat]

(* Every live process is the registered one of its id: never two for one   *)
(* pane, and none that STOP ALL, which walks the map, would miss.          *)
NoOrphanProcess ==
    \A r \in Runs : proc[r].life = "alive" => registered[r[1]] = r[2]

(* What is still to come, in order: in the channel, then in the hand of    *)
(* r's pump; and the places in it of r's own events of some kinds.         *)
Coming(r) == events \o out[r]
ComingOf(r, kinds) ==
    {i \in DOMAIN Coming(r) : Coming(r)[i].run = r /\ Coming(r)[i].kind \in kinds}

(* Whatever restarts and stops interleave, the engine sees each run's      *)
(* output in the order it was read, without a chunk twice or skipped.      *)
OutputInOrder ==
    \A r \in Runs :
        LET Chunk(i) == Coming(r)[i].chunk
            Data == {i \in ComingOf(r, {"Output"}) : Chunk(i) # Sentinel}
        IN  /\ \A i \in DOMAIN outputs[r] : outputs[r][i] = i
            /\ \A i, j \in Data : i < j => Chunk(i) < Chunk(j)
            /\ \E n \in 0..chunks[r] : {Chunk(i) : i \in Data} = (Len(outputs[r]) + 1)..n

(* A run reports its exit once, and after it neither output nor a verdict: *)
(* a watcher may hang up when it hears Exited.                             *)
ExitIsLastWord ==
    \A r \in Runs :
        LET Exits == ComingOf(r, {"Exited"})
            Words == ComingOf(r, {"Output", "Completed", "Permission"})
        IN  /\ exits[r] \in {0, 1} /\ \A i, j \in Exits : i = j
            /\ exits[r] = 1 => Exits = {} /\ Words = {}
            /\ \A i \in Words, j \in Exits : i < j

(* The events of a run come in the order they happened: its output in      *)
(* order, then its verdict and its exit, once, and nothing after (the tap, *)
(* the pump, finish).                                                      *)
EventsInOrder == OutputInOrder /\ ExitIsLastWord

(* Whatever is stopped, restarted, resumed and removed, an execution id    *)
(* has one live process, and each of its runs reports its own end once     *)
(* (restart, resume, TornDown, finish).                                    *)
RestartsAreClean == NoOrphanProcess /\ ExitIsLastWord

(* A session whose process ended by itself says so, with the code and the  *)
(* state that goes with it, whatever its last output looked like.          *)
VerdictMatchesExit ==
    \A r \in Runs : pump[r] \in {"last", "done"} /\ ~stop[r] =>
        state[r] = FinalState(proc[r].code) /\ exit_code[r] = proc[r].code

(* agent.rs:1484: "do not override it with a failure classification": once *)
(* a user's stop has found the session without a verdict, it gets none.    *)
StopIsNoFailure ==
    [][\A r \in Runs : stop[r] /\ registered[r[1]] = r[2] /\ state[r] \notin Verdicts
                       => state'[r] \notin Verdicts]_vars

(* No thread outlives its process for ever, whichever of the channels are  *)
(* full and whoever has let go of the session.                             *)
ThreadsEnd ==
    \A r \in Runs : proc[r].life = "dead" ~> reader[r] = "done" /\ pump[r] = "done"

(* Every run that ends is heard to end.                                    *)
EveryExitIsHeard == \A r \in Runs : proc[r].life = "dead" ~> exits[r] = 1

-----------------------------------------------------------------------------
(* What the documents say and the code does not do.                        *)

(* docs/agent-runtime.md: "Agent output is delivered losslessly and in     *)
(* order".  The pump leaves its loop on the exit flag with chunks still in *)
(* the tap.                                                                *)
OutputIsLossless ==
    \A r \in Runs : exits[r] = 1 /\ ~stop[r] => Len(outputs[r]) = chunks[r]

=============================================================================
