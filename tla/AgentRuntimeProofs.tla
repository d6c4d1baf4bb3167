------------------------- MODULE AgentRuntimeProofs -------------------------
(***************************************************************************)
(* Theorems about AgentRuntime, for any number of agents, runs and chunks  *)
(* and any capacities: one live process per execution id; who decides how  *)
(* a run is said to have ended; and what the engine hears of a run, its    *)
(* output in the order it was read, and its exit once and last, whatever   *)
(* is stopped, restarted and removed meanwhile.                            *)
(***************************************************************************)
EXTENDS AgentRuntime, SequenceTheorems, TLAPS

Codes == ExitCodes \cup {"none", "signal"}
Readers == {"none", "read", "tap", "ui", "eof", "sentinel", "done"}
Pumps == {"none", "starting", "recv", "check", "finish", "last", "done"}
Procs == [life : {"none", "alive", "dead"}, code : Codes,
          pty : {"none", "open", "terminated"}]

(* The variables the argument is about and their types.                    *)
Shape ==
    /\ spawned \in [Agents -> 0..MaxRuns]
    /\ registered \in [Agents -> 0..MaxRuns]
    /\ proc \in [Runs -> Procs]
    /\ reader \in [Runs -> Readers] /\ exited \in [Runs -> BOOLEAN]
    /\ pump \in [Runs -> Pumps] /\ stop \in [Runs -> BOOLEAN]
    /\ state \in [Runs -> AgentStates] /\ exit_code \in [Runs -> Codes]

(* The runs to come are untouched, and only runs that were are registered. *)
Untouched(r) ==
    /\ proc[r].life = "none" /\ reader[r] = "none" /\ pump[r] = "none"
    /\ ~exited[r] /\ ~stop[r]

Lineage ==
    /\ \A a \in Agents : registered[a] <= spawned[a]
    /\ \A r \in Runs : r[2] > spawned[r[1]] => Untouched(r)

(* Nobody learns of an exit that has not happened.                         *)
ExitsAreReal ==
    \A r \in Runs :
        /\ reader[r] \in {"eof", "sentinel"} \/ exited[r] => proc[r].life = "dead"
        /\ pump[r] = "finish" => exited[r]
        /\ pump[r] \in {"last", "done"} => exited[r] \/ stop[r]

(* A pump about to classify an exit finds a user's stop already recorded.  *)
StopIsRecorded ==
    \A r \in Runs :
        stop[r] /\ registered[r[1]] = r[2] /\ pump[r] = "finish" => terminal(state[r])

(* Only finish() and a stop end a session.                                 *)
Undecided ==
    \A r \in Runs :
        ~stop[r] /\ pump[r] \notin {"last", "done"} => ~terminal(state[r])

IInv == /\ Shape /\ Lineage /\ NoOrphanProcess /\ ExitsAreReal
        /\ StopIsRecorded /\ Undecided /\ VerdictMatchesExit

-----------------------------------------------------------------------------
LEMMA RunPairs ==
    /\ \A r \in Runs : r[1] \in Agents /\ r[2] \in 1..MaxRuns /\ r = <<r[1], r[2]>>
    /\ \A a \in Agents, n \in 1..MaxRuns : <<a, n>> \in Runs
  BY DEF Runs

LEMMA Finals ==
    \A c : FinalState(c) \in Verdicts
  BY DEF FinalState, Verdicts

LEMMA StartInv == Init => IInv
<1> SUFFICES ASSUME Init PROVE IInv
  OBVIOUS
<1>1. Shape
  BY RunsAssumption DEF Init, Shape, Codes, Readers, Pumps, Procs, AgentStates
<1>2. QED
  BY <1>1, RunPairs, RunsAssumption
     DEF Init, IInv, Lineage, Untouched, NoOrphanProcess, ExitsAreReal,
         StopIsRecorded, Undecided, terminal, Verdicts, VerdictMatchesExit

(* The facts of the invariant every step starts from.                      *)
invVars == <<spawned, registered, proc, reader, exited, pump, stop, state, exit_code>>

LEMMA QuietInv ==
    ASSUME IInv, UNCHANGED invVars PROVE IInv'
  BY DEF invVars, IInv, Shape, Lineage, Untouched, NoOrphanProcess, ExitsAreReal,
         StopIsRecorded, Undecided, terminal, VerdictMatchesExit

LEMMA ReaderInv ==
    ASSUME IInv, NEW r \in Runs, Reader(r)
    PROVE  IInv'
<1> USE DEF IInv, Lineage, Untouched, NoOrphanProcess, ExitsAreReal,
            StopIsRecorded, Undecided, VerdictMatchesExit, engineVars, recordVars
<1>1. UNCHANGED <<spawned, registered, proc, pump, stop, state, exit_code>>
  BY DEF Reader, ReadData, ReadEof, ReadError, Tap, Forward, ForwardEof, TapSentinel,
         pumpVars
<1>2. /\ reader' \in [Runs -> Readers] /\ exited' \in [Runs -> BOOLEAN]
      /\ \A q \in Runs \ {r} : reader'[q] = reader[q] /\ exited'[q] = exited[q]
      /\ exited[r] => exited'[r]
      /\ reader[r] # "none"
  BY DEF Reader, ReadData, ReadEof, ReadError, Tap, Forward, ForwardEof, TapSentinel,
         Shape, Readers
<1>3. reader'[r] \in {"eof", "sentinel"} \/ exited'[r] => proc[r].life = "dead"
  BY DEF Reader, ReadData, ReadEof, ReadError, Tap, Forward, ForwardEof, TapSentinel,
         Shape, Readers
<1>4. Shape'
  BY <1>1, <1>2 DEF Shape
<1>5. QED
  BY <1>1, <1>2, <1>3, <1>4 DEF terminal

LEMMA PumpQuiet ==
    ASSUME NEW r \in Runs, Pump(r)
    PROVE  UNCHANGED <<spawned, registered, proc, reader, exited, stop>>
  BY DEF Pump, PumpStart, PumpSend, PumpChunk, PumpTimeout, PumpCheck, finish, Return,
         engineVars, readerVars, recordVars, historyVars

(* What a step of a pump other than finish() does to its session.          *)
PumpMove(r) ==
    /\ pump' \in [Runs -> Pumps] /\ state' \in [Runs -> AgentStates]
    /\ UNCHANGED exit_code
    /\ \A q \in Runs \ {r} : pump'[q] = pump[q] /\ state'[q] = state[q]
    /\ pump[r] = "none" => pump'[r] = "none"
    /\ pump'[r] = "finish" =>
         state'[r] = state[r] /\ (pump[r] = "finish" \/ (exited[r] /\ ~stop[r]))
    /\ pump[r] \in {"last", "done"} =>
         pump'[r] \in {"last", "done"} /\ state'[r] = state[r]
    /\ pump'[r] \in {"last", "done"} => stop[r] \/ pump[r] \in {"last", "done"}
    /\ state'[r] = state[r] \/ ~terminal(state'[r])

LEMMA PumpMoves ==
    ASSUME Shape, NEW r \in Runs, Pump(r), ~finish(r)
    PROVE  PumpMove(r)
<1> USE DEF Shape, Pumps, PumpMove
<1>1. CASE PumpStart(r)
  BY <1>1 DEF PumpStart, PumpIdle, AgentStates, terminal, Verdicts
<1>2. CASE PumpSend(r)
  BY <1>2 DEF PumpSend, Return, recordVars
<1>3. ASSUME NEW h \in Hints \cup {"none"}, PumpChunk(r, h)
      PROVE  PumpMove(r)
  BY <1>3, HintsAssumption DEF PumpChunk, PumpIdle, AgentStates, terminal, Verdicts
<1>4. CASE PumpTimeout(r)
  BY <1>4 DEF PumpTimeout, PumpIdle, recordVars
<1>5. CASE PumpCheck(r)
  BY <1>5 DEF PumpCheck, PumpIdle, recordVars
<1>6. QED
  BY <1>1, <1>2, <1>3, <1>4, <1>5 DEF Pump

LEMMA PumpInv ==
    ASSUME IInv, NEW r \in Runs, Pump(r)
    PROVE  IInv'
<1>0. UNCHANGED <<spawned, registered, proc, reader, exited, stop>>
  BY PumpQuiet
<1>1. CASE ~finish(r)
  <2>1. PumpMove(r)
    BY <1>1, PumpMoves DEF IInv
  <2>2. Shape'
    BY <1>0, <2>1 DEF IInv, Shape, PumpMove
  <2>3. Lineage' /\ NoOrphanProcess' /\ ExitsAreReal'
    BY <1>0, <2>1 DEF IInv, PumpMove, Lineage, Untouched, NoOrphanProcess, ExitsAreReal
  <2>4. StopIsRecorded' /\ Undecided'
    BY <1>0, <2>1 DEF IInv, PumpMove, StopIsRecorded, Undecided, terminal
  <2>5. VerdictMatchesExit'
    BY <1>0, <2>1 DEF IInv, PumpMove, VerdictMatchesExit
  <2>6. QED
    BY <2>2, <2>3, <2>4, <2>5 DEF IInv
<1>2. CASE finish(r)
  <2>1. /\ pump[r] = "finish"
        /\ pump' = [pump EXCEPT ![r] = "last"]
        /\ state' = [state EXCEPT ![r] =
                        IF terminal(@) THEN @ ELSE FinalState(proc[r].code)]
        /\ exit_code' = [exit_code EXCEPT ![r] = proc[r].code]
    BY <1>2 DEF finish, PumpIdle
  <2>2. proc[r].code \in Codes
    BY DEF IInv, Shape, Procs
  <2>3. Shape'
    BY <1>0, <2>1, <2>2, Finals DEF IInv, Shape, Pumps, AgentStates
  <2>4. Lineage' /\ NoOrphanProcess' /\ ExitsAreReal'
    BY <1>0, <2>1
       DEF IInv, Shape, Lineage, Untouched, NoOrphanProcess, ExitsAreReal
  <2>5. StopIsRecorded' /\ Undecided'
    BY <1>0, <2>1 DEF IInv, Shape, StopIsRecorded, Undecided, terminal
  <2>6. ~stop[r] => ~terminal(state[r])
    BY <2>1 DEF IInv, Undecided
  <2>7. VerdictMatchesExit'
    BY <1>0, <2>1, <2>6 DEF IInv, Shape, VerdictMatchesExit
  <2>8. QED
    BY <2>3, <2>4, <2>5, <2>7 DEF IInv
<1>3. QED
  BY <1>1, <1>2

LEMMA ProcessInv ==
    ASSUME IInv, NEW r \in Runs, NEW c \in ExitCodes, ProcessEnds(r, c)
    PROVE  IInv'
<1>1. /\ proc[r].life = "alive"
      /\ proc' = [proc EXCEPT ![r].life = "dead", ![r].code = c]
      /\ UNCHANGED <<spawned, registered, reader, exited, pump, stop, state, exit_code>>
  BY DEF ProcessEnds, engineVars, readerVars, pumpVars, recordVars
<1>2. Shape'
  BY <1>1 DEF IInv, Shape, Procs, Codes
<1>3. Lineage' /\ NoOrphanProcess' /\ ExitsAreReal'
  BY <1>1 DEF IInv, Shape, Procs, Lineage, Untouched, NoOrphanProcess, ExitsAreReal
<1>4. StopIsRecorded' /\ Undecided'
  BY <1>1 DEF IInv, StopIsRecorded, Undecided, terminal
<1>5. VerdictMatchesExit'
  BY <1>1 DEF IInv, Shape, Procs, ExitsAreReal, VerdictMatchesExit
<1>6. QED
  BY <1>2, <1>3, <1>4, <1>5 DEF IInv

LEMMA TerminatedIsDead ==
    ASSUME NEW p \in Procs
    PROVE  Terminated(p) \in Procs /\ Terminated(p).life = "dead"
  BY DEF Terminated, Procs, Codes

LEMMA StopInv ==
    ASSUME IInv, NEW a \in Agents, Stop(a)
    PROVE  IInv'
<1> DEFINE r == <<a, registered[a]>>
<1>1. r \in Runs
  BY RunPairs, RunsAssumption DEF Stop, IInv, Shape
<1>2. /\ stop' = [stop EXCEPT ![r] = TRUE]
      /\ proc' = [proc EXCEPT ![r] = Terminated(@)]
      /\ state' = IF state[r] \in Verdicts THEN state
                  ELSE [state EXCEPT ![r] = "Stopped"]
      /\ UNCHANGED <<spawned, registered, reader, exited, pump, exit_code>>
  BY DEF Stop, engineVars, readerVars, pumpVars, recordVars
<1>3. Terminated(proc[r]) \in Procs /\ Terminated(proc[r]).life = "dead"
  BY <1>1, TerminatedIsDead DEF IInv, Shape
<1> HIDE DEF r
<1>4. Shape'
  BY <1>1, <1>2, <1>3 DEF IInv, Shape, AgentStates
<1>5. Lineage'
  <2>1. ~(r[2] > spawned[r[1]])
    BY <1>1, RunPairs, RunsAssumption DEF IInv, Lineage, Shape, r
  <2>2. QED
    BY <1>1, <1>2, <2>1 DEF IInv, Shape, Lineage, Untouched
<1>6. NoOrphanProcess' /\ ExitsAreReal'
  BY <1>1, <1>2, <1>3 DEF IInv, Shape, NoOrphanProcess, ExitsAreReal
<1>7. StopIsRecorded' /\ Undecided'
  BY <1>1, <1>2 DEF IInv, Shape, StopIsRecorded, Undecided, terminal
<1>8. VerdictMatchesExit'
  BY <1>1, <1>2 DEF IInv, Shape, VerdictMatchesExit
<1>9. QED
  BY <1>4, <1>5, <1>6, <1>7, <1>8 DEF IInv

(* A run that leaves the maps: its process and its pump are told to end.   *)
LEMMA RemovalInv ==
    ASSUME IInv, NEW a \in Agents, registered[a] # 0,
           registered' = [registered EXCEPT ![a] = 0],
           proc' = [proc EXCEPT ![<<a, registered[a]>>] = TornDown(@)],
           stop' = [stop EXCEPT ![<<a, registered[a]>>] = TRUE],
           UNCHANGED <<spawned, reader, exited, pump, state, exit_code>>
    PROVE  IInv'
<1> DEFINE r == <<a, registered[a]>>
<1>1. r \in Runs /\ r[1] = a /\ r[2] = registered[a]
  BY RunPairs, RunsAssumption DEF IInv, Shape
<1>2. TornDown(proc[r]) \in Procs /\ TornDown(proc[r]).life = "dead"
  BY <1>1, TerminatedIsDead DEF IInv, Shape, TornDown
<1>3. proc' = [proc EXCEPT ![r] = TornDown(@)] /\ stop' = [stop EXCEPT ![r] = TRUE]
  OBVIOUS
<1> HIDE DEF r
<1>4. Shape'
  <2>1. registered' \in [Agents -> 0..MaxRuns]
    BY RunsAssumption DEF IInv, Shape
  <2>2. proc' \in [Runs -> Procs]
    BY <1>1, <1>2, <1>3 DEF IInv, Shape
  <2>3. stop' \in [Runs -> BOOLEAN]
    BY <1>1, <1>3 DEF IInv, Shape
  <2>4. QED
    BY <2>1, <2>2, <2>3 DEF IInv, Shape
<1>5. Lineage'
  BY <1>1, <1>3, RunPairs, RunsAssumption DEF IInv, Shape, Lineage, Untouched
<1>6. NoOrphanProcess'
  <2> SUFFICES ASSUME NEW q \in Runs, proc'[q].life = "alive"
               PROVE  registered'[q[1]] = q[2]
    BY DEF NoOrphanProcess
  <2>1. q # r /\ registered[q[1]] = q[2]
    BY <1>1, <1>2, <1>3 DEF IInv, Shape, NoOrphanProcess
  <2>2. q[1] # a
    BY <1>1, <2>1, RunPairs
  <2>3. QED
    BY <2>1, <2>2, RunPairs DEF IInv, Shape
<1>7. ExitsAreReal'
  BY <1>1, <1>2, <1>3 DEF IInv, Shape, ExitsAreReal
<1>8. StopIsRecorded' /\ Undecided' /\ VerdictMatchesExit'
  <2>1. StopIsRecorded'
    <3> SUFFICES ASSUME NEW q \in Runs, stop'[q], registered'[q[1]] = q[2],
                        pump'[q] = "finish"
                 PROVE  terminal(state'[q])
      BY DEF StopIsRecorded
    <3>1. q[1] # a
      BY <1>1, RunPairs DEF IInv, Shape
    <3>2. stop[q] /\ registered[q[1]] = q[2]
      BY <1>1, <1>3, <3>1, RunPairs DEF IInv, Shape
    <3>3. QED
      BY <3>2 DEF IInv, StopIsRecorded
  <2>2. Undecided' /\ VerdictMatchesExit'
    BY <1>1, <1>3 DEF IInv, Shape, Undecided, VerdictMatchesExit, terminal
  <2>3. QED
    BY <2>1, <2>2
<1>9. QED
  BY <1>4, <1>5, <1>6, <1>7, <1>8 DEF IInv

(* A run that is left as it is, or ended because a new one takes over.     *)
LeftOrEnded(q, a) ==
    \/ proc'[q] = proc[q] /\ stop'[q] = stop[q]
    \/ /\ q[1] = a /\ q[2] <= spawned[a]
       /\ proc'[q].life = "dead" /\ stop'[q]

(* A new run: the ones before it end, and nothing has touched it.          *)
LEMMA RegistrationInv ==
    ASSUME IInv, NEW a \in Agents, NEW n \in 1..MaxRuns, n = spawned[a] + 1,
           Started(a, n),
           proc' \in [Runs -> Procs], proc'[<<a, n>>] = Fresh,
           stop' \in [Runs -> BOOLEAN], stop'[<<a, n>>] = stop[<<a, n>>],
           \A q \in Runs \ {<<a, n>>} :
               LeftOrEnded(q, a) /\ (q[1] = a => proc'[q].life # "alive")
    PROVE  IInv'
<1> DEFINE r == <<a, n>>
<1>1. r \in Runs /\ r[1] = a /\ r[2] = n
  BY RunPairs
<1>2. Untouched(r)
  BY <1>1, RunsAssumption DEF IInv, Shape, Lineage
<1>3. /\ spawned' = [spawned EXCEPT ![a] = n]
      /\ registered' = [registered EXCEPT ![a] = n]
      /\ reader' = [reader EXCEPT ![r] = "read"]
      /\ pump' = [pump EXCEPT ![r] = "starting"]
      /\ state' = [state EXCEPT ![r] = "Starting"]
      /\ UNCHANGED <<exited, exit_code>>
  BY DEF Started
<1>4. /\ proc'[r].life = "alive" /\ ~stop'[r]
      /\ \A q \in Runs \ {r} :
            LeftOrEnded(q, a) /\ (q[1] = a => proc'[q].life # "alive")
  BY <1>2 DEF Fresh, Untouched
<1> HIDE DEF r
<1>5. Shape'
  BY <1>1, <1>3 DEF IInv, Shape, Readers, Pumps, AgentStates
<1>6. Lineage'
  <2>1. \A b \in Agents : registered'[b] <= spawned'[b]
    BY <1>3, RunsAssumption DEF IInv, Shape, Lineage
  <2>2. ASSUME NEW q \in Runs, q[2] > spawned'[q[1]] PROVE Untouched(q)'
    <3>1. q # r /\ q[2] > spawned[q[1]]
      BY <1>1, <1>3, <2>2, RunPairs, RunsAssumption DEF IInv, Shape
    <3>2. Untouched(q) /\ proc'[q] = proc[q] /\ stop'[q] = stop[q]
      BY <1>4, <3>1, RunPairs, RunsAssumption DEF IInv, Shape, Lineage, LeftOrEnded
    <3>3. QED
      BY <1>1, <1>3, <3>1, <3>2 DEF IInv, Shape, Untouched
  <2>3. QED
    BY <2>1, <2>2 DEF Lineage
<1>7. NoOrphanProcess'
  <2> SUFFICES ASSUME NEW q \in Runs, proc'[q].life = "alive"
               PROVE  registered'[q[1]] = q[2]
    BY DEF NoOrphanProcess
  <2>1. CASE q = r
    BY <1>1, <1>3, <2>1 DEF IInv, Shape
  <2>2. CASE q # r
    <3>1. proc[q].life = "alive" /\ q[1] # a
      BY <1>4, <2>2 DEF LeftOrEnded
    <3>2. QED
      BY <1>3, <3>1, RunPairs DEF IInv, Shape, NoOrphanProcess
  <2>3. QED
    BY <2>1, <2>2
<1>8. ExitsAreReal'
  <2> SUFFICES ASSUME NEW q \in Runs
               PROVE  /\ reader'[q] \in {"eof", "sentinel"} \/ exited'[q]
                           => proc'[q].life = "dead"
                      /\ pump'[q] = "finish" => exited'[q]
                      /\ pump'[q] \in {"last", "done"} => exited'[q] \/ stop'[q]
    BY DEF ExitsAreReal
  <2>1. CASE q = r
    BY <1>1, <1>2, <1>3, <2>1 DEF IInv, Shape, Untouched
  <2>2. CASE q # r
    <3>1. reader'[q] = reader[q] /\ pump'[q] = pump[q] /\ exited'[q] = exited[q]
      BY <1>3, <2>2 DEF IInv, Shape
    <3>2. QED
      BY <1>4, <2>2, <3>1 DEF IInv, ExitsAreReal, LeftOrEnded
  <2>3. QED
    BY <2>1, <2>2
<1>9. StopIsRecorded' /\ Undecided' /\ VerdictMatchesExit'
  <2>1. ASSUME NEW q \in Runs, stop'[q], registered'[q[1]] = q[2], pump'[q] = "finish"
        PROVE  terminal(state'[q])
    <3>1. q # r /\ pump[q] = "finish" /\ state'[q] = state[q]
      BY <1>1, <1>3, <2>1 DEF IInv, Shape
    <3>2. q[1] # a
      BY <1>1, <1>3, <2>1, <3>1, RunPairs DEF IInv, Shape
    <3>3. registered[q[1]] = q[2] /\ stop[q]
      BY <1>3, <1>4, <2>1, <3>1, <3>2, RunPairs DEF IInv, Shape, LeftOrEnded
    <3>4. QED
      BY <3>1, <3>3 DEF IInv, StopIsRecorded
  <2>2. ASSUME NEW q \in Runs, ~stop'[q]
        PROVE  /\ pump'[q] \notin {"last", "done"} => ~terminal(state'[q])
               /\ pump'[q] \in {"last", "done"} =>
                    state'[q] = FinalState(proc'[q].code) /\ exit_code'[q] = proc'[q].code
    <3>1. CASE q = r
      BY <1>1, <1>3, <3>1 DEF IInv, Shape, terminal, Verdicts
    <3>2. CASE q # r
      <4>1. /\ pump'[q] = pump[q] /\ state'[q] = state[q] /\ exit_code'[q] = exit_code[q]
            /\ proc'[q] = proc[q] /\ ~stop[q]
        BY <1>3, <1>4, <2>2, <3>2 DEF IInv, Shape, LeftOrEnded
      <4>2. QED
        BY <2>2, <4>1 DEF IInv, Undecided, VerdictMatchesExit
    <3>3. QED
      BY <3>1, <3>2
  <2>3. Undecided' /\ VerdictMatchesExit'
    BY <2>2 DEF Undecided, VerdictMatchesExit, terminal
  <2>4. QED
    BY <2>1, <2>3 DEF StopIsRecorded, terminal
<1>10. QED
  BY <1>5, <1>6, <1>7, <1>8, <1>9 DEF IInv

LEMMA SpawnInv ==
    ASSUME IInv, NEW a \in Agents, Spawn(a)
    PROVE  IInv'
<1> DEFINE r == <<a, 1>>
<1>1. /\ 1 \in 1..MaxRuns /\ 1 = spawned[a] + 1 /\ Started(a, 1)
      /\ proc' = [proc EXCEPT ![r] = Fresh] /\ stop' = stop
  BY RunsAssumption DEF Spawn
<1>2. r \in Runs /\ Fresh \in Procs
  BY <1>1, RunPairs DEF Fresh, Procs, Codes
<1>3. \A q \in Runs : q[1] = a => proc[q].life # "alive"
  BY <1>1, RunPairs, RunsAssumption DEF IInv, Shape, Lineage, NoOrphanProcess
<1>4. /\ proc' \in [Runs -> Procs] /\ proc'[r] = Fresh
      /\ stop' \in [Runs -> BOOLEAN] /\ stop'[r] = stop[r]
  BY <1>1, <1>2 DEF IInv, Shape
<1>5. \A q \in Runs \ {r} :
         LeftOrEnded(q, a) /\ (q[1] = a => proc'[q].life # "alive")
  BY <1>1, <1>3 DEF IInv, Shape, LeftOrEnded
<1>6. QED
  BY <1>1, <1>4, <1>5, RegistrationInv

LEMMA ReplaceInv ==
    ASSUME IInv, NEW a \in Agents, registered[a] # 0, Replace(a)
    PROVE  IInv'
<1> DEFINE o == <<a, registered[a]>>  n == spawned[a] + 1  r == <<a, n>>
<1>1. /\ n \in 1..MaxRuns /\ Started(a, n)
      /\ proc' = [proc EXCEPT ![o] = TornDown(@), ![r] = Fresh]
      /\ stop' = [stop EXCEPT ![o] = TRUE]
  BY RunsAssumption DEF Replace, Started, IInv, Shape
<1>2. /\ o \in Runs /\ r \in Runs /\ o[1] = a /\ o[2] = registered[a]
      /\ o[2] <= spawned[a] /\ o # r
  BY <1>1, RunPairs, RunsAssumption DEF IInv, Shape, Lineage
<1>3. Fresh \in Procs /\ TornDown(proc[o]) \in Procs /\ TornDown(proc[o]).life = "dead"
  BY <1>2, TerminatedIsDead DEF IInv, Shape, TornDown, Fresh, Procs, Codes
<1>4. \A q \in Runs : q[1] = a /\ q # o => proc[q].life # "alive"
  BY <1>2, RunPairs DEF IInv, NoOrphanProcess
<1>5. /\ \A q \in Runs \ {o, r} : proc'[q] = proc[q] /\ stop'[q] = stop[q]
      /\ proc'[o] = TornDown(proc[o]) /\ stop'[o]
      /\ proc'[r] = Fresh /\ stop'[r] = stop[r]
      /\ stop' \in [Runs -> BOOLEAN]
  <2> HIDE DEF o, r
  <2>1. QED
    BY <1>1, <1>2 DEF IInv, Shape
<1>6. proc' \in [Runs -> Procs]
  <2> HIDE DEF o, r
  <2>1. QED
    BY <1>1, <1>2, <1>3 DEF IInv, Shape
<1>7. \A q \in Runs \ {r} :
         LeftOrEnded(q, a) /\ (q[1] = a => proc'[q].life # "alive")
  <2> HIDE DEF o, r
  <2>1. QED
    BY <1>2, <1>3, <1>4, <1>5 DEF LeftOrEnded
<1>8. QED
  BY <1>1, <1>5, <1>6, <1>7, RegistrationInv

LEMMA CallInv ==
    ASSUME IInv, UserCalls
    PROVE  IInv'
<1>1. PICK a \in Agents : Spawn(a) \/ Stop(a) \/ Restart(a) \/ Resume(a) \/ ClosePane(a)
  BY DEF UserCalls
<1>2. CASE Spawn(a)
  BY <1>2, SpawnInv
<1>3. CASE Stop(a)
  BY <1>3, StopInv
<1>4. CASE Restart(a) \/ Resume(a)
  <2>1. registered[a] # 0 /\ (Replace(a) \/ ReplaceFails(a))
    BY <1>4 DEF Restart, Resume
  <2>2. CASE ReplaceFails(a)
    BY <2>1, <2>2, RemovalInv DEF ReplaceFails, readerVars, pumpVars, recordVars
  <2>3. QED
    BY <2>1, <2>2, ReplaceInv
<1>5. CASE ClosePane(a)
  <2>1. CASE registered[a] # 0
    BY <1>5, <2>1, RemovalInv DEF ClosePane, readerVars, pumpVars, recordVars
  <2>2. CASE registered[a] = 0
    <3>1. registered' = registered
      BY <1>5, <2>2 DEF ClosePane, IInv, Shape
    <3>2. QED
      BY <1>5, <2>2, <3>1, QuietInv DEF ClosePane, invVars, readerVars, pumpVars, recordVars
  <2>3. QED
    BY <2>1, <2>2
<1>6. QED
  BY <1>1, <1>2, <1>3, <1>4, <1>5

(* A frame drains channels and records exits; it touches no run.           *)
LEMMA DrainInv ==
    ASSUME IInv, DrainFrame
    PROVE  IInv'
<1>1. UNCHANGED invVars
  BY DEF DrainFrame, DrainSessions, DrainEvent, DrainEnds, invVars, readerVars, pumpVars,
         recordVars
<1>2. QED
  BY <1>1, QuietInv

LEMMA StepInv == IInv /\ [Next]_vars => IInv'
<1> SUFFICES ASSUME IInv, [Next]_vars PROVE IInv'
  OBVIOUS
<1>1. CASE UserCalls
  BY <1>1, CallInv
<1>2. CASE DrainFrame
  BY <1>2, DrainInv
<1>3. ASSUME NEW r \in Runs, Reader(r) PROVE IInv'
  BY <1>3, ReaderInv
<1>4. ASSUME NEW r \in Runs, Pump(r) PROVE IInv'
  BY <1>4, PumpInv
<1>5. ASSUME NEW r \in Runs, NEW c \in ExitCodes, ProcessEnds(r, c) PROVE IInv'
  BY <1>5, ProcessInv
<1>6. CASE UNCHANGED vars
  BY <1>6, QuietInv DEF vars, invVars, engineVars, readerVars, pumpVars, recordVars
<1>7. QED
  BY <1>1, <1>2, <1>3, <1>4, <1>5, <1>6 DEF Next

-----------------------------------------------------------------------------
(* The invariant of the runtime holds for every spawn, stop, restart,      *)
(* resume and removal, whatever the threads of earlier runs still do.      *)
THEOREM RuntimeInductive == Spec => []IInv
<1>1. QED
  BY StartInv, StepInv, PTL DEF Spec

(* One execution id never has two live processes, and none that the maps   *)
(* of the runtime do not hold (agent.rs remove_internal, stop, spawn_impl).*)
THEOREM OneProcess == Spec => []NoOrphanProcess
<1>1. IInv => NoOrphanProcess
  BY DEF IInv
<1>2. QED
  BY <1>1, RuntimeInductive, PTL

(* A run that ended by itself has the verdict and the code of its exit     *)
(* (agent.rs finish).                                                      *)
THEOREM VerdictIsRight == Spec => []VerdictMatchesExit
<1>1. IInv => VerdictMatchesExit
  BY DEF IInv
<1>2. QED
  BY <1>1, RuntimeInductive, PTL

(* Only finish() gives a verdict.                                          *)
LEMMA OnlyFinishJudges ==
    ASSUME IInv, Next, NEW r \in Runs, ~finish(r)
    PROVE  state'[r] = state[r] \/ state'[r] \notin Verdicts
<1>1. CASE UserCalls
  <2>1. PICK a \in Agents : Spawn(a) \/ Stop(a) \/ Restart(a) \/ Resume(a) \/ ClosePane(a)
    BY <1>1 DEF UserCalls
  <2>2. \/ UNCHANGED state
        \/ \E q \in Runs, s \in {"Stopped", "Starting"} : state' = [state EXCEPT ![q] = s]
    <3>1. CASE Spawn(a)
      <4>1. <<a, 1>> \in Runs /\ state' = [state EXCEPT ![<<a, 1>>] = "Starting"]
        BY <3>1, RunPairs, RunsAssumption DEF Spawn, Started
      <4>2. QED
        BY <4>1
    <3>2. CASE Stop(a)
      <4> DEFINE q == <<a, registered[a]>>
      <4>1. /\ q \in Runs
            /\ UNCHANGED state \/ state' = [state EXCEPT ![q] = "Stopped"]
        BY <3>2, RunPairs, RunsAssumption DEF Stop, IInv, Shape
      <4> HIDE DEF q
      <4>2. QED
        BY <4>1
    <3>3. CASE Restart(a) \/ Resume(a)
      <4>1. CASE Replace(a)
        <5>1. spawned[a] + 1 \in 1..MaxRuns
          BY <4>1, RunsAssumption DEF Replace, Started, IInv, Shape
        <5>2. QED
          BY <4>1, <5>1, RunPairs DEF Replace, Started
      <4>2. CASE ReplaceFails(a)
        BY <4>2 DEF ReplaceFails, recordVars
      <4>3. QED
        BY <3>3, <4>1, <4>2 DEF Restart, Resume
    <3>4. CASE ClosePane(a)
      BY <3>4 DEF ClosePane, recordVars
    <3>5. QED
      BY <2>1, <3>1, <3>2, <3>3, <3>4
  <2>3. QED
    BY <2>2 DEF IInv, Shape, Verdicts
<1>2. CASE DrainFrame
  BY <1>2 DEF DrainFrame, DrainSessions, DrainEvent, DrainEnds, recordVars
<1>3. ASSUME NEW q \in Runs, Reader(q) PROVE UNCHANGED state
  BY <1>3 DEF Reader, ReadData, ReadEof, ReadError, Tap, Forward, ForwardEof, TapSentinel,
              recordVars
<1>4. ASSUME NEW q \in Runs, Pump(q)
      PROVE  state'[r] = state[r] \/ state'[r] \notin Verdicts
  <2>1. CASE finish(q)
    <3>1. q # r
      BY <2>1
    <3>2. QED
      BY <2>1, <3>1 DEF finish, IInv, Shape
  <2>2. CASE ~finish(q)
    BY <1>4, <2>2, PumpMoves DEF IInv, PumpMove, terminal
  <2>3. QED
    BY <2>1, <2>2
<1>5. ASSUME NEW q \in Runs, NEW c \in ExitCodes, ProcessEnds(q, c) PROVE UNCHANGED state
  BY <1>5 DEF ProcessEnds, recordVars
<1>6. QED
  BY <1>1, <1>2, <1>3, <1>4, <1>5 DEF Next

(* A session stopped by a user is never called failed, crashed or complete *)
(* afterwards (agent.rs stop against finish).                              *)
THEOREM StopPrevails == Spec => StopIsNoFailure
<1> DEFINE Kept == \A r \in Runs :
                      stop[r] /\ registered[r[1]] = r[2] /\ state[r] \notin Verdicts
                        => state'[r] \notin Verdicts
<1>1. IInv /\ [Next]_vars => [Kept]_vars
  <2> SUFFICES ASSUME IInv, Next, NEW r \in Runs, stop[r], registered[r[1]] = r[2],
                      state[r] \notin Verdicts
               PROVE  state'[r] \notin Verdicts
    OBVIOUS
  <2>1. CASE finish(r)
    <3>1. pump[r] = "finish"
      BY <2>1 DEF finish, PumpIdle
    <3>2. terminal(state[r])
      BY <3>1 DEF IInv, StopIsRecorded
    <3>3. QED
      BY <2>1, <3>2 DEF finish, IInv, Shape
  <2>2. CASE ~finish(r)
    BY <2>2, OnlyFinishJudges
  <2>3. QED
    BY <2>1, <2>2
<1>2. QED
  BY <1>1, RuntimeInductive, PTL DEF Spec, StopIsNoFailure

-----------------------------------------------------------------------------
(* Lists: appending, taking the head, and what a pump has in hand.         *)

LEMMA Appending ==
    ASSUME NEW S, NEW q \in Seq(S), NEW e \in S
    PROVE  /\ Append(q, e) \in Seq(S) /\ Len(Append(q, e)) = Len(q) + 1 /\ Len(q) \in Nat
           /\ DOMAIN Append(q, e) = 1..(Len(q) + 1) /\ DOMAIN q = 1..Len(q)
           /\ \A i \in DOMAIN q : i \in DOMAIN Append(q, e) /\ Append(q, e)[i] = q[i]
           /\ \A i \in DOMAIN Append(q, e) : i \in DOMAIN q \/ i = Len(q) + 1
           /\ Append(q, e)[Len(q) + 1] = e
           /\ \A x \in ToSet(Append(q, e)) : x = e \/ x \in ToSet(q)
<1> DEFINE a == Append(q, e)
<1>1. /\ a \in Seq(S) /\ Len(a) = Len(q) + 1 /\ Len(q) \in Nat
      /\ DOMAIN a = 1..(Len(q) + 1) /\ DOMAIN q = 1..Len(q)
      /\ \A i \in 1..Len(q) : a[i] = q[i]
      /\ a[Len(q) + 1] = e
  OBVIOUS
<1> HIDE DEF a
<1>2. \A i \in DOMAIN a : i \in DOMAIN q \/ i = Len(q) + 1
  BY <1>1
<1>3. \A i \in DOMAIN q : i \in DOMAIN a /\ a[i] = q[i]
  BY <1>1
<1>4. \A x \in ToSet(a) : x = e \/ x \in ToSet(q)
  BY <1>1, <1>2 DEF ToSet
<1> QED BY <1>1, <1>2, <1>3, <1>4 DEF a

LEMMA Heads ==
    ASSUME NEW S, NEW q \in Seq(S), q # <<>>
    PROVE  /\ Head(q) \in S /\ 1 \in DOMAIN q /\ Head(q) = q[1]
           /\ Tail(q) \in Seq(S) /\ Len(Tail(q)) = Len(q) - 1 /\ Len(q) \in Nat \ {0}
           /\ \A i \in DOMAIN Tail(q) :
                 i \in Int /\ i >= 1 /\ i + 1 \in DOMAIN q /\ Tail(q)[i] = q[i + 1]
           /\ \A i \in DOMAIN q : i # 1 => i - 1 \in DOMAIN Tail(q) /\ Tail(q)[i - 1] = q[i]
           /\ ToSet(Tail(q)) \subseteq ToSet(q)
<1> DEFINE r == Tail(q)
<1>1. /\ r \in Seq(S) /\ Len(r) = Len(q) - 1 /\ Len(q) \in Nat \ {0}
      /\ DOMAIN r = 1..(Len(q) - 1) /\ DOMAIN q = 1..Len(q)
      /\ \A i \in 1..(Len(q) - 1) : r[i] = q[i + 1]
      /\ Head(q) = q[1] /\ Head(q) \in S
  OBVIOUS
<1> HIDE DEF r
<1>2. \A i \in DOMAIN r : i \in Int /\ i >= 1 /\ i + 1 \in DOMAIN q /\ r[i] = q[i + 1]
  BY <1>1
<1>3. \A i \in DOMAIN q : i # 1 => i - 1 \in DOMAIN r /\ r[i - 1] = q[i]
  BY <1>1
<1>4. ToSet(r) \subseteq ToSet(q)
  BY <1>2 DEF ToSet
<1>5. Head(q) \in S /\ 1 \in DOMAIN q /\ Head(q) = q[1] /\ r \in Seq(S)
      /\ Len(r) = Len(q) - 1 /\ Len(q) \in Nat \ {0}
  BY <1>1
<1> QED BY <1>2, <1>3, <1>4, <1>5, Zenon DEF r

LEMMA EventTypes ==
    \A r \in Runs :
       /\ \A k \in EventKinds : Ev(r, k) \in Event /\ Ev(r, k).run = r /\ Ev(r, k).kind = k
       /\ \A n \in Nat : /\ Output(r, n) \in Event /\ Output(r, n).run = r
                         /\ Output(r, n).kind = "Output" /\ Output(r, n).chunk = n
  BY DEF Ev, Output, Event, EventKinds, Sentinel

(* What a pump is about to send: events of some kinds, and a last one.     *)
Phrase(q, r, kinds, last) ==
    /\ q \in Seq(Event) /\ Len(q) \in Nat \ {0}
    /\ q[Len(q)] = last /\ last.run = r
    /\ \A i \in DOMAIN q : q[i].run = r /\ (i # Len(q) => q[i].kind \in kinds)

LEMMA Phrases ==
    ASSUME NEW r, NEW kinds, NEW last \in Event, last.run = r,
           NEW a, a = <<>> \/ \E e \in Event : a = <<e>> /\ e.run = r /\ e.kind \in kinds,
           NEW b, b = <<>> \/ \E e \in Event : b = <<e>> /\ e.run = r /\ e.kind \in kinds
    PROVE  Phrase(a \o b \o <<last>>, r, kinds, last)
<1>1. ASSUME NEW c, c = <<>> \/ \E e \in Event : c = <<e>> /\ e.run = r /\ e.kind \in kinds
      PROVE  /\ c \in Seq(Event) /\ Len(c) \in Nat
             /\ \A i \in 1..Len(c) : c[i].run = r /\ c[i].kind \in kinds
  <2>1. CASE c = <<>>
    BY <2>1
  <2>2. ASSUME NEW e \in Event, c = <<e>>, e.run = r, e.kind \in kinds
        PROVE  /\ c \in Seq(Event) /\ Len(c) \in Nat
               /\ \A i \in 1..Len(c) : c[i].run = r /\ c[i].kind \in kinds
    BY <2>2
  <2> QED BY <1>1, <2>1, <2>2
<1>2. /\ a \in Seq(Event) /\ Len(a) \in Nat
      /\ \A i \in 1..Len(a) : a[i].run = r /\ a[i].kind \in kinds
  BY <1>1
<1>3. /\ b \in Seq(Event) /\ Len(b) \in Nat
      /\ \A i \in 1..Len(b) : b[i].run = r /\ b[i].kind \in kinds
  BY <1>1
<1>4. <<last>> \in Seq(Event) /\ Len(<<last>>) = 1 /\ <<last>>[1] = last
  OBVIOUS
<1> DEFINE ab == a \o b  q == ab \o <<last>>
<1>5. /\ ab \in Seq(Event) /\ Len(ab) \in Nat
      /\ \A i \in 1..Len(ab) : ab[i].run = r /\ ab[i].kind \in kinds
  <2>1. /\ ab \in Seq(Event) /\ Len(ab) = Len(a) + Len(b)
        /\ \A i \in 1..(Len(a) + Len(b)) : ab[i] = IF i <= Len(a) THEN a[i] ELSE b[i - Len(a)]
    BY <1>2, <1>3, ConcatProperties
  <2> HIDE DEF ab
  <2>2. ASSUME NEW i \in 1..Len(ab) PROVE ab[i].run = r /\ ab[i].kind \in kinds
    <3>1. CASE i <= Len(a)
      BY <1>2, <1>3, <2>1, <3>1
    <3>2. CASE ~(i <= Len(a))
      <4>1. i - Len(a) \in 1..Len(b) /\ ab[i] = b[i - Len(a)]
        BY <1>2, <1>3, <2>1, <3>2
      <4> QED BY <1>3, <4>1
    <3> QED BY <3>1, <3>2
  <2> QED BY <1>2, <1>3, <2>1, <2>2
<1>6. /\ q \in Seq(Event) /\ Len(q) = Len(ab) + 1 /\ DOMAIN q = 1..(Len(ab) + 1)
      /\ \A i \in 1..(Len(ab) + 1) : q[i] = IF i <= Len(ab) THEN ab[i] ELSE <<last>>[i - Len(ab)]
  <2> HIDE DEF ab
  <2>1. /\ q \in Seq(Event) /\ Len(q) = Len(ab) + 1
        /\ \A i \in 1..(Len(ab) + 1) : q[i] = IF i <= Len(ab) THEN ab[i] ELSE <<last>>[i - Len(ab)]
    BY <1>4, <1>5, ConcatProperties
  <2> QED BY <2>1, LenProperties
<1> HIDE DEF ab, q
<1>7. q[Len(ab) + 1] = last
  <2>1. q[Len(ab) + 1] = <<last>>[(Len(ab) + 1) - Len(ab)]
    BY <1>5, <1>6
  <2>2. (Len(ab) + 1) - Len(ab) = 1
    BY <1>5
  <2> QED BY <1>4, <2>1, <2>2
<1>8. \A i \in DOMAIN q : q[i].run = r /\ (i # Len(q) => q[i].kind \in kinds)
  BY <1>5, <1>6, <1>7
<1>9. Phrase(q, r, kinds, last)
  BY <1>5, <1>6, <1>7, <1>8 DEF Phrase
<1> QED BY <1>9 DEF ab, q

-----------------------------------------------------------------------------
(* Type correctness: Shape has the variables that say who runs and how it  *)
(* ended, Carried the channels and what is in them.                        *)

Carried ==
    /\ shown \in [Agents -> 0..MaxRuns]
    /\ exitCodes \subseteq Agents /\ engine \in {"idle", "events"}
    /\ \A r \in Runs : chunks[r] \in 0..MaxChunks[r[2]]
    /\ DOMAIN chunks = Runs
    /\ ui \in [Runs -> 0..CHANNEL_CAPACITY]
    /\ tap \in [Runs -> Seq(Nat)]
    /\ \A r \in Runs : Len(tap[r]) <= TAP_CAPACITY /\ ToSet(tap[r]) \subseteq 0..chunks[r]
    /\ out \in [Runs -> Seq(Event)]
    /\ \A r \in Runs : \A i \in DOMAIN out[r] : out[r][i].run = r
    /\ last_state \in [Runs -> Hints \cup {"none"}]
    /\ events \in Seq(Event) /\ Len(events) <= EVENT_CAPACITY
    /\ outputs \in [Runs -> Seq(Nat)] /\ exits \in [Runs -> Nat]

LEMMA Bounds ==
    /\ TAP_CAPACITY \in Nat \ {0} /\ CHANNEL_CAPACITY \in Nat \ {0}
    /\ EVENT_CAPACITY \in Nat \ {0}
    /\ \A r \in Runs : MaxChunks[r[2]] \in Nat
  BY CapacitiesAssumption, RunsAssumption, RunPairs

LEMMA CarriedStart == Init => Carried
<1> SUFFICES ASSUME Init PROVE Carried
  OBVIOUS
<1>1. \A r \in Runs : tap[r] = <<>> /\ out[r] = <<>> /\ outputs[r] = <<>>
  BY DEF Init
<1>2. /\ tap \in [Runs -> Seq(Nat)] /\ out \in [Runs -> Seq(Event)]
      /\ outputs \in [Runs -> Seq(Nat)] /\ events \in Seq(Event) /\ Len(events) = 0
  BY DEF Init
<1>3. \A r \in Runs : /\ Len(tap[r]) <= TAP_CAPACITY /\ ToSet(tap[r]) \subseteq 0..chunks[r]
                      /\ \A i \in DOMAIN out[r] : out[r][i].run = r
  BY <1>1, Bounds DEF ToSet
<1>4. \A r \in Runs : chunks[r] \in 0..MaxChunks[r[2]]
  BY Bounds DEF Init
<1>5. shown \in [Agents -> 0..MaxRuns] /\ ui \in [Runs -> 0..CHANNEL_CAPACITY]
  BY Bounds, RunsAssumption DEF Init
<1> QED BY <1>2, <1>3, <1>4, <1>5, Bounds DEF Init, Carried

(* A run's tap and what has been read into it.                             *)
LEMMA Read ==
    ASSUME Carried, NEW r \in Runs
    PROVE  /\ tap[r] \in Seq(Nat) /\ Len(tap[r]) \in Nat /\ chunks[r] \in Nat
           /\ ToSet(tap[r]) \subseteq 0..chunks[r] /\ Len(tap[r]) <= TAP_CAPACITY
           /\ out[r] \in Seq(Event) /\ Len(out[r]) \in Nat
           /\ \A i \in DOMAIN out[r] : out[r][i].run = r
           /\ outputs[r] \in Seq(Nat) /\ exits[r] \in Nat
           /\ events \in Seq(Event) /\ Len(events) \in Nat
           /\ last_state[r] \in Hints \cup {"none"}
<1>1. chunks[r] \in 0..MaxChunks[r[2]] /\ MaxChunks[r[2]] \in Nat
  BY Bounds DEF Carried
<1>2. tap[r] \in Seq(Nat) /\ out[r] \in Seq(Event) /\ outputs[r] \in Seq(Nat)
      /\ events \in Seq(Event) /\ exits[r] \in Nat /\ last_state[r] \in Hints \cup {"none"}
  BY DEF Carried
<1>3. /\ ToSet(tap[r]) \subseteq 0..chunks[r] /\ Len(tap[r]) <= TAP_CAPACITY
      /\ \A i \in DOMAIN out[r] : out[r][i].run = r
  BY DEF Carried
<1>4. chunks[r] \in Nat
  BY <1>1
<1> QED BY <1>2, <1>3, <1>4, LenProperties

LEMMA TapSent ==
    ASSUME Carried, NEW r \in Runs, NEW k \in 0..chunks[r], TapSend(r, k)
    PROVE  /\ tap' \in [Runs -> Seq(Nat)]
           /\ \A q \in Runs : Len(tap'[q]) <= TAP_CAPACITY /\ ToSet(tap'[q]) \subseteq 0..chunks[q]
<1>1. CASE tap' = tap
  BY <1>1 DEF Carried
<1>2. CASE Len(tap[r]) < TAP_CAPACITY /\ tap' = [tap EXCEPT ![r] = Append(@, k)]
  <2> DEFINE a == Append(tap[r], k)
  <2>1. tap[r] \in Seq(Nat) /\ k \in Nat /\ Len(tap[r]) \in Nat
    BY Read
  <2>2. /\ a \in Seq(Nat) /\ Len(a) = Len(tap[r]) + 1
        /\ \A x \in ToSet(a) : x = k \/ x \in ToSet(tap[r])
    BY <2>1, Appending
  <2>3. Len(a) <= TAP_CAPACITY /\ ToSet(a) \subseteq 0..chunks[r]
    BY <1>2, <2>1, <2>2, Read, Bounds
  <2> HIDE DEF a
  <2>4. tap' = [tap EXCEPT ![r] = a]
    BY <1>2 DEF a
  <2> QED BY <2>2, <2>3, <2>4 DEF Carried
<1> QED BY <1>1, <1>2 DEF TapSend

LEMMA ReaderCarries ==
    ASSUME Carried, NEW r \in Runs, Reader(r)
    PROVE  Carried'
<1>1. UNCHANGED <<shown, exitCodes, engine, out, last_state, events, outputs, exits>>
  BY DEF Reader, ReadData, ReadEof, ReadError, Tap, Forward, ForwardEof, TapSentinel,
         engineVars, pumpVars, historyVars
<1>2. /\ tap' \in [Runs -> Seq(Nat)]
      /\ \A q \in Runs : Len(tap'[q]) <= TAP_CAPACITY /\ ToSet(tap'[q]) \subseteq 0..chunks[q]
  <2>1. CASE Tap(r)
    <3>1. chunks[r] \in 0..chunks[r]
      BY Read
    <3> QED BY <2>1, <3>1, TapSent DEF Tap
  <2>2. CASE TapSentinel(r)
    <3>1. Sentinel \in 0..chunks[r]
      BY Read DEF Sentinel
    <3> QED BY <2>2, <3>1, TapSent DEF TapSentinel
  <2>3. CASE ReadData(r) \/ ReadEof(r) \/ ReadError(r) \/ Forward(r) \/ ForwardEof(r)
    BY <2>3 DEF Carried, ReadData, ReadEof, ReadError, Forward, ForwardEof
  <2> QED BY <2>1, <2>2, <2>3 DEF Reader
<1>3. /\ DOMAIN chunks' = Runs
      /\ \A q \in Runs : chunks'[q] \in 0..MaxChunks[q[2]] /\ chunks[q] <= chunks'[q]
  <2>1. CASE ReadData(r)
    <3>1. /\ chunks' = [chunks EXCEPT ![r] = chunks[r] + 1] /\ chunks[r] < MaxChunks[r[2]]
          /\ DOMAIN chunks = Runs
          /\ \A q \in Runs : chunks[q] \in 0..MaxChunks[q[2]] /\ MaxChunks[q[2]] \in Nat
      BY <2>1, Bounds DEF ReadData, Carried
    <3>2. \A q \in Runs \ {r} : chunks'[q] = chunks[q]
      BY <3>1
    <3>3. chunks'[r] = chunks[r] + 1 /\ chunks[r] \in Nat
      BY <3>1
    <3>4. \A q \in Runs : chunks'[q] \in 0..MaxChunks[q[2]] /\ chunks[q] <= chunks'[q]
      BY <3>1, <3>2, <3>3
    <3> QED BY <3>1, <3>4
  <2>2. CASE ~ReadData(r)
    <3>1. chunks' = chunks
      BY <2>2 DEF Reader, ReadEof, ReadError, Tap, Forward, ForwardEof, TapSentinel
    <3> QED BY <3>1, Read DEF Carried
  <2> QED BY <2>1, <2>2
<1>4. ui' \in [Runs -> 0..CHANNEL_CAPACITY]
  <2>1. ui \in [Runs -> 0..CHANNEL_CAPACITY] /\ CHANNEL_CAPACITY \in Nat
    BY Bounds DEF Carried
  <2>2. ui' = ui \/ (ui[r] < CHANNEL_CAPACITY /\ ui' = [ui EXCEPT ![r] = ui[r] + 1])
    BY DEF Reader, ReadData, ReadEof, ReadError, Tap, Forward, ForwardEof, TapSentinel
  <2>3. CASE ui[r] < CHANNEL_CAPACITY /\ ui' = [ui EXCEPT ![r] = ui[r] + 1]
    <3>1. ui[r] + 1 \in 0..CHANNEL_CAPACITY
      BY <2>1, <2>3
    <3> QED BY <2>1, <2>3, <3>1
  <2> QED BY <2>1, <2>2, <2>3
<1>5. \A q \in Runs : ToSet(tap'[q]) \subseteq 0..chunks'[q]
  <2> SUFFICES ASSUME NEW q \in Runs PROVE ToSet(tap'[q]) \subseteq 0..chunks'[q]
    OBVIOUS
  <2>1. chunks[q] \in Nat /\ chunks'[q] \in Int /\ chunks[q] <= chunks'[q]
    BY <1>3, Read, Bounds
  <2> QED BY <1>2, <2>1
<1> QED BY <1>1, <1>2, <1>3, <1>4, <1>5 DEF Carried

(* What a step of a pump puts in its hand, and what it sends of it.        *)
Kinds == {"StateChanged", "Permission", "Completed"}

Says(r, q) ==
    \/ /\ PumpStart(r) /\ q \in Seq(Event)
       /\ \A i \in DOMAIN q : q[i].run = r /\ q[i].kind \in {"StateChanged", "Started"}
    \/ /\ \E h \in Hints \cup {"none"} : PumpChunk(r, h)
       /\ Phrase(q, r, Kinds, Output(r, Head(tap[r])))
    \/ /\ PumpCheck(r) \/ finish(r)
       /\ pump' = [pump EXCEPT ![r] = "last"] /\ tap' = tap
       /\ Phrase(q, r, Kinds, Ev(r, "Exited"))

LEMMA PumpSays ==
    ASSUME Carried, NEW r \in Runs, Pump(r)
    PROVE  \/ out' = out /\ events' = events /\ (PumpTimeout(r) \/ PumpCheck(r))
           \/ /\ out[r] = <<>> /\ events' = events
              /\ \E q \in Seq(Event) : out' = [out EXCEPT ![r] = q] /\ Says(r, q)
           \/ PumpSend(r)
<1>1. CASE PumpStart(r)
  <2> DEFINE q == <<Ev(r, "StateChanged"), Ev(r, "Started")>>
  <2>1. q \in Seq(Event)
        /\ \A i \in DOMAIN q : q[i].run = r /\ q[i].kind \in {"StateChanged", "Started"}
    BY EventTypes DEF EventKinds
  <2>2. out[r] = <<>> /\ events' = events /\ out' = [out EXCEPT ![r] = q]
    BY <1>1 DEF PumpStart, PumpIdle
  <2> HIDE DEF q
  <2>3. Says(r, q)
    BY <1>1, <2>1 DEF Says
  <2> QED BY <2>1, <2>2, <2>3
<1>2. ASSUME NEW h \in Hints \cup {"none"}, PumpChunk(r, h)
      PROVE  /\ out[r] = <<>> /\ events' = events
             /\ \E q \in Seq(Event) : out' = [out EXCEPT ![r] = q] /\ Says(r, q)
  <2>1. Head(tap[r]) \in Nat
    BY <1>2, Read, Heads DEF PumpChunk
  <2> DEFINE o == Output(r, Head(tap[r]))
             a == <<Ev(r, "StateChanged")>>
             b == IF h = "NeedsApproval" THEN <<Ev(r, "Permission")>> ELSE <<>>
  <2>2. out[r] = <<>> /\ events' = events
        /\ (out' = [out EXCEPT ![r] = a \o b \o <<o>>] \/ out' = [out EXCEPT ![r] = <<o>>])
    BY <1>2 DEF PumpChunk, PumpIdle
  <2>3. o \in Event /\ o.run = r
    BY <2>1, EventTypes
  <2>4. Phrase(a \o b \o <<o>>, r, Kinds, o)
    <3>1. a = <<>> \/ \E e \in Event : a = <<e>> /\ e.run = r /\ e.kind \in Kinds
      BY EventTypes DEF EventKinds, Kinds
    <3>2. b = <<>> \/ \E e \in Event : b = <<e>> /\ e.run = r /\ e.kind \in Kinds
      BY EventTypes DEF EventKinds, Kinds
    <3> HIDE DEF a, b, o
    <3> QED BY <2>3, <3>1, <3>2, Phrases
  <2>5. Phrase(<<o>>, r, Kinds, o)
    <3> HIDE DEF o
    <3> QED BY <2>3 DEF Phrase
  <2>6. ASSUME NEW q, Phrase(q, r, Kinds, o) PROVE q \in Seq(Event) /\ Says(r, q)
    BY <1>2, <2>6 DEF Says, Phrase
  <2> DEFINE p == a \o b \o <<o>>
             t == <<o>>
  <2>7. p \in Seq(Event) /\ Says(r, p) /\ t \in Seq(Event) /\ Says(r, t)
    BY <2>4, <2>5, <2>6
  <2>8. out' = [out EXCEPT ![r] = p] \/ out' = [out EXCEPT ![r] = t]
    BY <2>2
  <2> HIDE DEF p, t
  <2> QED BY <2>2, <2>7, <2>8
<1>3. ASSUME NEW q, Phrase(q, r, Kinds, Ev(r, "Exited")), PumpCheck(r) \/ finish(r),
             out[r] = <<>>, events' = events, out' = [out EXCEPT ![r] = q],
             pump' = [pump EXCEPT ![r] = "last"], tap' = tap
      PROVE  /\ out[r] = <<>> /\ events' = events
             /\ \E p \in Seq(Event) : out' = [out EXCEPT ![r] = p] /\ Says(r, p)
  BY <1>3 DEF Phrase, Says
<1>4. CASE PumpCheck(r)
  <2>1. CASE stop[r]
    <3> DEFINE q == <<Ev(r, "Exited")>>
    <3>1. Ev(r, "Exited") \in Event /\ Ev(r, "Exited").run = r
      BY EventTypes DEF EventKinds
    <3>2. Phrase(q, r, Kinds, Ev(r, "Exited"))
      BY <3>1 DEF Phrase
    <3>3. /\ out[r] = <<>> /\ events' = events /\ out' = [out EXCEPT ![r] = q]
          /\ pump' = [pump EXCEPT ![r] = "last"] /\ tap' = tap
      BY <1>4, <2>1 DEF PumpCheck, PumpIdle
    <3> HIDE DEF q
    <3> QED BY <1>3, <1>4, <3>2, <3>3
  <2>2. CASE ~stop[r]
    BY <1>4, <2>2 DEF PumpCheck
  <2> QED BY <2>1, <2>2
<1>5. CASE finish(r)
  <2> DEFINE a == IF terminal(state[r]) THEN <<>> ELSE <<Ev(r, "StateChanged")>>
             b == IF proc[r].code = "zero" THEN <<Ev(r, "Completed")>> ELSE <<>>
             q == a \o b \o <<Ev(r, "Exited")>>
  <2>1. Phrase(q, r, Kinds, Ev(r, "Exited"))
    <3>1. a = <<>> \/ \E e \in Event : a = <<e>> /\ e.run = r /\ e.kind \in Kinds
      BY EventTypes DEF EventKinds, Kinds
    <3>2. b = <<>> \/ \E e \in Event : b = <<e>> /\ e.run = r /\ e.kind \in Kinds
      BY EventTypes DEF EventKinds, Kinds
    <3>3. Ev(r, "Exited") \in Event /\ Ev(r, "Exited").run = r
      BY EventTypes DEF EventKinds
    <3> HIDE DEF a, b
    <3> QED BY <3>1, <3>2, <3>3, Phrases
  <2>2. /\ out[r] = <<>> /\ events' = events /\ out' = [out EXCEPT ![r] = q]
        /\ pump' = [pump EXCEPT ![r] = "last"] /\ tap' = tap
    BY <1>5 DEF finish, PumpIdle
  <2> HIDE DEF a, b, q
  <2> QED BY <1>3, <1>5, <2>1, <2>2
<1>6. CASE PumpTimeout(r)
  BY <1>6 DEF PumpTimeout
<1> QED BY <1>1, <1>2, <1>4, <1>5, <1>6 DEF Pump

LEMMA SaidByIt ==
    ASSUME NEW r \in Runs, NEW q, Says(r, q)
    PROVE  \A i \in DOMAIN q : q[i].run = r
  BY DEF Says, Phrase

LEMMA PumpCarries ==
    ASSUME Carried, NEW r \in Runs, Pump(r)
    PROVE  Carried'
<1>1. UNCHANGED <<shown, exitCodes, engine, chunks, ui, outputs, exits>>
  BY DEF Pump, PumpStart, PumpSend, PumpChunk, PumpTimeout, PumpCheck, finish, Return,
         engineVars, readerVars, historyVars
<1>2. /\ tap' \in [Runs -> Seq(Nat)]
      /\ \A q \in Runs : Len(tap'[q]) <= TAP_CAPACITY /\ ToSet(tap'[q]) \subseteq 0..chunks[q]
  <2>1. tap' = tap \/ tap' = [tap EXCEPT ![r] = <<>>]
        \/ (tap[r] # <<>> /\ tap' = [tap EXCEPT ![r] = Tail(tap[r])])
    BY DEF Pump, PumpStart, PumpSend, PumpChunk, PumpTimeout, PumpCheck, finish, Return
  <2>2. /\ tap \in [Runs -> Seq(Nat)]
        /\ \A q \in Runs : Len(tap[q]) <= TAP_CAPACITY /\ ToSet(tap[q]) \subseteq 0..chunks[q]
    BY DEF Carried
  <2>3. CASE tap' = [tap EXCEPT ![r] = <<>>]
    <3>1. <<>> \in Seq(Nat) /\ Len(<<>>) <= TAP_CAPACITY /\ ToSet(<<>>) = {}
      BY Bounds DEF ToSet
    <3> QED BY <2>2, <2>3, <3>1
  <2>4. CASE tap[r] # <<>> /\ tap' = [tap EXCEPT ![r] = Tail(tap[r])]
    <3> DEFINE t == Tail(tap[r])
    <3>1. t \in Seq(Nat) /\ Len(t) = Len(tap[r]) - 1 /\ Len(tap[r]) \in Nat
          /\ ToSet(t) \subseteq ToSet(tap[r])
      BY <2>2, <2>4, Heads
    <3>2. Len(t) <= TAP_CAPACITY /\ ToSet(t) \subseteq 0..chunks[r]
      BY <2>2, <3>1, Bounds
    <3> HIDE DEF t
    <3>3. tap' = [tap EXCEPT ![r] = t]
      BY <2>4 DEF t
    <3> QED BY <2>2, <3>1, <3>2, <3>3
  <2> QED BY <2>1, <2>2, <2>3, <2>4
<1>3. last_state' \in [Runs -> Hints \cup {"none"}]
  <2>1. \/ last_state' = last_state
        \/ \E h \in Hints \cup {"none"} : last_state' = [last_state EXCEPT ![r] = h]
    BY DEF Pump, PumpStart, PumpSend, PumpChunk, PumpTimeout, PumpCheck, finish, Return
  <2> QED BY <2>1 DEF Carried
<1>4. /\ out' \in [Runs -> Seq(Event)] /\ events' \in Seq(Event)
      /\ Len(events') <= EVENT_CAPACITY
      /\ \A q \in Runs : \A i \in DOMAIN out'[q] : out'[q][i].run = q
  <2>0. /\ out \in [Runs -> Seq(Event)] /\ events \in Seq(Event)
        /\ Len(events) <= EVENT_CAPACITY
        /\ \A q \in Runs : \A i \in DOMAIN out[q] : out[q][i].run = q
    BY DEF Carried
  <2>1. CASE out' = out /\ events' = events
    BY <2>0, <2>1
  <2>2. ASSUME events' = events, NEW p \in Seq(Event), out' = [out EXCEPT ![r] = p],
               \A i \in DOMAIN p : p[i].run = r
        PROVE  /\ out' \in [Runs -> Seq(Event)]
               /\ \A q \in Runs : \A i \in DOMAIN out'[q] : out'[q][i].run = q
    BY <2>0, <2>2
  <2>3. CASE PumpSend(r)
    <3> DEFINE t == Tail(out[r])
    <3>1. /\ out[r] # <<>> /\ Len(events) < EVENT_CAPACITY
          /\ events' = Append(events, Head(out[r])) /\ out' = [out EXCEPT ![r] = t]
      BY <2>3 DEF PumpSend
    <3>2. /\ Head(out[r]) \in Event /\ t \in Seq(Event)
          /\ \A i \in DOMAIN t : t[i].run = r
      BY <2>0, <3>1, Heads
    <3>3. events' \in Seq(Event) /\ Len(events') = Len(events) + 1 /\ Len(events) \in Nat
      BY <2>0, <3>1, <3>2, Appending
    <3>4. Len(events') <= EVENT_CAPACITY
      BY <3>1, <3>3, Bounds
    <3> HIDE DEF t
    <3> QED BY <2>0, <3>1, <3>2, <3>3, <3>4
  <2> QED BY <2>0, <2>1, <2>2, <2>3, PumpSays, SaidByIt
<1> QED BY <1>1, <1>2, <1>3, <1>4 DEF Carried

(* Everything but the sessions shown and the event channel is left alone   *)
(* by a user's call.                                                       *)
LEMMA CallCarries ==
    ASSUME Carried, Shape, UserCalls
    PROVE  Carried'
<1>1. PICK a \in Agents : Spawn(a) \/ Stop(a) \/ Restart(a) \/ Resume(a) \/ ClosePane(a)
  BY DEF UserCalls
<1>2. UNCHANGED <<exitCodes, engine, chunks, ui, tap, out, last_state, outputs, exits>>
  BY <1>1 DEF Spawn, Stop, Restart, Resume, ClosePane, Replace, ReplaceFails, Started,
              engineVars, readerVars, pumpVars, historyVars
<1>3. shown' \in [Agents -> 0..MaxRuns]
  <2>1. shown \in [Agents -> 0..MaxRuns] /\ MaxRuns \in Nat /\ spawned[a] \in 0..MaxRuns
    BY RunsAssumption DEF Carried, Shape
  <2>2. \/ shown' = shown \/ shown' = [shown EXCEPT ![a] = 0]
        \/ (1 <= MaxRuns /\ shown' = [shown EXCEPT ![a] = 1])
        \/ (spawned[a] + 1 <= MaxRuns /\ shown' = [shown EXCEPT ![a] = spawned[a] + 1])
    BY <1>1 DEF Spawn, Stop, Restart, Resume, ClosePane, Replace, ReplaceFails, Started,
                engineVars
  <2> QED BY <2>1, <2>2
<1>4. events' \in Seq(Event) /\ Len(events') <= EVENT_CAPACITY
  <2>0. events \in Seq(Event) /\ Len(events) <= EVENT_CAPACITY
    BY DEF Carried
  <2>1. CASE Stop(a)
    <3> DEFINE e == Ev(<<a, registered[a]>>, "StateChanged")
    <3>1. e \in Event
      <4>1. <<a, registered[a]>> \in Runs
        BY <2>1, RunPairs, RunsAssumption DEF Stop, Shape
      <4> QED BY <4>1, EventTypes DEF EventKinds
    <3>2. events' = events \/ (Len(events) < EVENT_CAPACITY /\ events' = Append(events, e))
      BY <2>1 DEF Stop
    <3> HIDE DEF e
    <3>3. /\ Append(events, e) \in Seq(Event) /\ Len(Append(events, e)) = Len(events) + 1
          /\ Len(events) \in Nat
      BY <2>0, <3>1, Appending
    <3>4. Len(events) < EVENT_CAPACITY => Len(events) + 1 <= EVENT_CAPACITY
      BY <3>3, Bounds
    <3> QED BY <2>0, <3>2, <3>3, <3>4
  <2>2. CASE ~Stop(a)
    BY <1>1, <2>0, <2>2 DEF Spawn, Restart, Resume, ClosePane, Replace, ReplaceFails, Started
  <2> QED BY <2>1, <2>2
<1> QED BY <1>2, <1>3, <1>4 DEF Carried

LEMMA DrainCarries ==
    ASSUME Carried, DrainFrame
    PROVE  Carried'
<1>1. UNCHANGED <<shown, chunks, tap, out, last_state>>
  BY DEF DrainFrame, DrainSessions, DrainEvent, DrainEnds, readerVars, pumpVars
<1>2. ui' \in [Runs -> 0..CHANNEL_CAPACITY]
  <2>1. ui \in [Runs -> 0..CHANNEL_CAPACITY] /\ 0 \in 0..CHANNEL_CAPACITY
    BY Bounds DEF Carried
  <2>2. ui' = ui \/ ui' = [r \in Runs |-> IF shown[r[1]] = r[2] THEN 0 ELSE ui[r]]
    BY DEF DrainFrame, DrainSessions, DrainEvent, DrainEnds
  <2> QED BY <2>1, <2>2
<1>3. CASE DrainSessions
  BY <1>1, <1>2, <1>3 DEF Carried, DrainSessions, historyVars
<1>4. CASE DrainEnds
  BY <1>1, <1>2, <1>4 DEF Carried, DrainEnds, historyVars
<1>5. CASE DrainEvent
  <2> DEFINE e == Head(events)
  <2>1. events # <<>> /\ events \in Seq(Event) /\ Len(events) <= EVENT_CAPACITY
    BY <1>5 DEF DrainEvent, Carried
  <2>2. /\ e \in Event /\ events' = Tail(events) /\ events' \in Seq(Event)
        /\ Len(events') = Len(events) - 1 /\ Len(events) \in Nat
    BY <1>5, <2>1, Heads DEF DrainEvent
  <2>3. e.run \in Runs /\ e.run[1] \in Agents /\ e.chunk \in Nat
    BY <2>2, RunPairs DEF Event
  <2>4. /\ outputs' = outputs \/ outputs' = [outputs EXCEPT ![e.run] = Append(outputs[e.run], e.chunk)]
        /\ exits' = exits \/ exits' = [exits EXCEPT ![e.run] = exits[e.run] + 1]
        /\ exitCodes' = exitCodes \/ exitCodes' = exitCodes \cup {e.run[1]}
        /\ engine' = engine
    BY <1>5 DEF DrainEvent
  <2> HIDE DEF e
  <2>5. outputs' \in [Runs -> Seq(Nat)]
    <3>1. outputs \in [Runs -> Seq(Nat)]
      BY DEF Carried
    <3>2. Append(outputs[e.run], e.chunk) \in Seq(Nat)
      BY <2>3, <3>1, Appending
    <3> QED BY <2>4, <3>1, <3>2
  <2>6. exits' \in [Runs -> Nat]
    <3>1. exits \in [Runs -> Nat]
      BY DEF Carried
    <3> QED BY <2>3, <2>4, <3>1
  <2>7. exitCodes' \subseteq Agents /\ engine' \in {"idle", "events"}
    BY <2>3, <2>4 DEF Carried
  <2>8. Len(events') <= EVENT_CAPACITY
    BY <2>1, <2>2, Bounds
  <2> QED BY <1>1, <1>2, <2>2, <2>5, <2>6, <2>7, <2>8 DEF Carried
<1> QED BY <1>3, <1>4, <1>5 DEF DrainFrame

LEMMA CarriedKept == IInv /\ Carried /\ [Next]_vars => Carried'
<1> SUFFICES ASSUME IInv, Carried, [Next]_vars PROVE Carried'
  OBVIOUS
<1>1. CASE UserCalls
  BY <1>1, CallCarries DEF IInv
<1>2. CASE DrainFrame
  BY <1>2, DrainCarries
<1>3. ASSUME NEW r \in Runs, Reader(r) PROVE Carried'
  BY <1>3, ReaderCarries
<1>4. ASSUME NEW r \in Runs, Pump(r) PROVE Carried'
  BY <1>4, PumpCarries
<1>5. ASSUME NEW r \in Runs, NEW c \in ExitCodes, ProcessEnds(r, c) PROVE Carried'
  BY <1>5 DEF ProcessEnds, Carried, engineVars, readerVars, pumpVars, historyVars
<1>6. CASE UNCHANGED vars
  BY <1>6 DEF vars, Carried, engineVars, readerVars, pumpVars, historyVars
<1> QED BY <1>1, <1>2, <1>3, <1>4, <1>5, <1>6 DEF Next

(* Every variable of the runtime keeps its type, and no channel of it      *)
(* outgrows its capacity (agent.rs and lib.rs sync_channel).               *)
THEOREM RuntimeTypes == Spec => []TypeOK
<1>1. Shape /\ Carried => TypeOK
  <2> SUFFICES ASSUME Shape, Carried PROVE TypeOK
    OBVIOUS
  <2> USE DEF Shape, Carried, Codes, Readers, Pumps, Procs
  <2> QED BY DEF TypeOK
<1>2. IInv => Shape
  BY DEF IInv
<1> QED BY <1>1, <1>2, RuntimeInductive, CarriedStart, CarriedKept, PTL DEF Spec

-----------------------------------------------------------------------------
(* What the engine is told of a run.                                       *)

IsData(e, r) == e.run = r /\ e.kind = "Output" /\ e.chunk # Sentinel
IsWord(e, r) == e.run = r /\ e.kind \in {"Output", "Completed", "Permission"}
IsExit(e, r) == e.run = r /\ e.kind = "Exited"

DataIn(q, r) == {i \in DOMAIN q : IsData(q[i], r)}
ChunksIn(q, r) == {q[i].chunk : i \in DataIn(q, r)}
Rising(q, r) == \A i, j \in DataIn(q, r) : i < j => q[i].chunk < q[j].chunk

(* Chunks 1 to n have left the tap: the engine has the first of them, the  *)
(* rest are on their way, in order.                                        *)
Emitted(r, n) ==
    /\ \A i \in DOMAIN outputs[r] : outputs[r][i] = i
    /\ Rising(events, r) /\ Rising(out[r], r)
    /\ \A x \in ChunksIn(events, r), y \in ChunksIn(out[r], r) : x < y
    /\ ChunksIn(events, r) \cup ChunksIn(out[r], r) = (Len(outputs[r]) + 1)..n
    /\ Len(outputs[r]) <= n /\ n <= chunks[r]

(* The tap holds the chunks that follow, all that were read unless the     *)
(* threads are over, and the sentinel only as the reader's last.           *)
InTap(r, n) ==
    /\ \A i \in DOMAIN tap[r] :
          \/ tap[r][i] = n + i
          \/ tap[r][i] = Sentinel /\ i = Len(tap[r]) /\ reader[r] = "done"
    /\ reader[r] # "done" /\ pump[r] # "done" =>
          n + Len(tap[r]) = IF reader[r] = "tap" THEN chunks[r] - 1 ELSE chunks[r]

Piped(r) == \E n \in Nat : Emitted(r, n) /\ InTap(r, n)

(* Exited is the last thing a pump says, and it says it once.              *)
Said(r) ==
    /\ pump[r] \notin {"last", "done"} => \A i \in DOMAIN out[r] : ~IsExit(out[r][i], r)
    /\ pump[r] = "last" =>
         out[r] # <<>> /\ \A i \in DOMAIN out[r] : IsExit(out[r][i], r) <=> i = Len(out[r])
    /\ pump[r] = "done" => out[r] = <<>>
    /\ pump[r] # "done" => exits[r] = 0 /\ \A i \in DOMAIN events : ~IsExit(events[i], r)

Heard(r) ==
    /\ exits[r] \in {0, 1}
    /\ exits[r] = 1 =>
         \A i \in DOMAIN events : ~IsExit(events[i], r) /\ ~IsWord(events[i], r)
    /\ \A i, j \in DOMAIN events : IsExit(events[j], r) =>
         /\ IsExit(events[i], r) => i = j
         /\ IsWord(events[i], r) => i < j

Line(r) == Piped(r) /\ Said(r) /\ Heard(r)

(* Data in a list of events: appending to it and taking its head.          *)
LEMMA DataAppended ==
    ASSUME NEW q \in Seq(Event), NEW e \in Event, NEW s
    PROVE  /\ ChunksIn(Append(q, e), s) =
                IF IsData(e, s) THEN ChunksIn(q, s) \cup {e.chunk} ELSE ChunksIn(q, s)
           /\ Rising(q, s) /\ (IsData(e, s) => \A x \in ChunksIn(q, s) : x < e.chunk)
                => Rising(Append(q, e), s)
<1> DEFINE a == Append(q, e)
<1>1. /\ Len(q) \in Nat /\ DOMAIN a = 1..(Len(q) + 1) /\ DOMAIN q = 1..Len(q)
      /\ \A i \in DOMAIN q : i \in DOMAIN a /\ a[i] = q[i]
      /\ \A i \in DOMAIN a : i \in DOMAIN q \/ i = Len(q) + 1
      /\ a[Len(q) + 1] = e
  BY Appending
<1> HIDE DEF a
<1>2. Len(q) + 1 \in DOMAIN a /\ \A i \in DOMAIN q : i < Len(q) + 1
  BY <1>1
<1>3. CASE IsData(e, s)
  <2>1. DataIn(a, s) = DataIn(q, s) \cup {Len(q) + 1}
    BY <1>1, <1>2, <1>3 DEF DataIn
  <2>2. ChunksIn(a, s) = ChunksIn(q, s) \cup {e.chunk}
    BY <1>1, <2>1 DEF ChunksIn, DataIn
  <2>3. ASSUME Rising(q, s), \A x \in ChunksIn(q, s) : x < e.chunk PROVE Rising(a, s)
    <3> SUFFICES ASSUME NEW i \in DataIn(a, s), NEW j \in DataIn(a, s), i < j
                 PROVE  a[i].chunk < a[j].chunk
      BY DEF Rising
    <3>1. i \in DataIn(q, s) /\ a[i] = q[i] /\ q[i].chunk \in ChunksIn(q, s)
      BY <1>1, <1>2, <2>1 DEF DataIn, ChunksIn
    <3>2. CASE j \in DataIn(q, s)
      BY <1>1, <2>3, <3>1, <3>2 DEF Rising, DataIn
    <3>3. CASE j = Len(q) + 1
      BY <1>1, <2>3, <3>1, <3>3
    <3> QED BY <2>1, <3>2, <3>3
  <2> QED BY <1>3, <2>2, <2>3 DEF a
<1>4. CASE ~IsData(e, s)
  <2>1. DataIn(a, s) = DataIn(q, s)
    BY <1>1, <1>2, <1>4 DEF DataIn
  <2>2. ChunksIn(a, s) = ChunksIn(q, s) /\ (Rising(q, s) => Rising(a, s))
    BY <1>1, <2>1 DEF ChunksIn, DataIn, Rising
  <2> QED BY <1>4, <2>2 DEF a
<1> QED BY <1>3, <1>4

LEMMA DataTaken ==
    ASSUME NEW q \in Seq(Event), q # <<>>, NEW s
    PROVE  /\ ChunksIn(q, s) = IF IsData(Head(q), s)
                               THEN ChunksIn(Tail(q), s) \cup {Head(q).chunk}
                               ELSE ChunksIn(Tail(q), s)
           /\ Rising(q, s) => /\ Rising(Tail(q), s)
                              /\ IsData(Head(q), s) =>
                                   \A x \in ChunksIn(Tail(q), s) : Head(q).chunk < x
<1> DEFINE t == Tail(q)
           h == Head(q)
<1>1. /\ h = q[1] /\ 1 \in DOMAIN q
      /\ \A i \in DOMAIN t : i \in Int /\ i >= 1 /\ i + 1 \in DOMAIN q /\ t[i] = q[i + 1]
      /\ \A i \in DOMAIN q : i # 1 => i - 1 \in DOMAIN t /\ t[i - 1] = q[i]
  BY Heads
<1> HIDE DEF t, h
<1>2. ASSUME NEW x \in ChunksIn(t, s)
      PROVE  /\ x \in ChunksIn(q, s)
             /\ Rising(q, s) /\ IsData(h, s) => h.chunk < x
  <2>1. PICK i \in DataIn(t, s) : x = t[i].chunk
    BY DEF ChunksIn
  <2>2. i + 1 \in DataIn(q, s) /\ q[i + 1] = t[i] /\ 1 < i + 1
    BY <1>1, <2>1 DEF DataIn
  <2>3. x \in ChunksIn(q, s)
    BY <2>1, <2>2 DEF ChunksIn
  <2>4. Rising(q, s) /\ IsData(h, s) => h.chunk < x
    <3>1. IsData(h, s) => 1 \in DataIn(q, s)
      BY <1>1 DEF DataIn
    <3> QED BY <1>1, <2>1, <2>2, <3>1 DEF Rising
  <2> QED BY <2>3, <2>4
<1>3. ASSUME NEW x \in ChunksIn(q, s)
      PROVE  x \in ChunksIn(t, s) \/ (IsData(h, s) /\ x = h.chunk)
  <2>1. PICK i \in DataIn(q, s) : x = q[i].chunk
    BY <1>3 DEF ChunksIn
  <2>2. CASE i = 1
    BY <1>1, <2>1, <2>2 DEF DataIn
  <2>3. CASE i # 1
    <3>1. i - 1 \in DataIn(t, s) /\ t[i - 1] = q[i]
      BY <1>1, <2>1, <2>3 DEF DataIn
    <3> QED BY <2>1, <3>1 DEF ChunksIn
  <2> QED BY <2>2, <2>3
<1>4. IsData(h, s) => h.chunk \in ChunksIn(q, s)
  BY <1>1 DEF ChunksIn, DataIn
<1>5. ChunksIn(q, s) = IF IsData(h, s) THEN ChunksIn(t, s) \cup {h.chunk} ELSE ChunksIn(t, s)
  BY <1>2, <1>3, <1>4
<1>6. Rising(q, s) => Rising(t, s)
  <2> SUFFICES ASSUME Rising(q, s), NEW i \in DataIn(t, s), NEW j \in DataIn(t, s), i < j
               PROVE  t[i].chunk < t[j].chunk
    BY DEF Rising
  <2>1. /\ i + 1 \in DataIn(q, s) /\ q[i + 1] = t[i]
        /\ j + 1 \in DataIn(q, s) /\ q[j + 1] = t[j] /\ i + 1 < j + 1
    BY <1>1 DEF DataIn
  <2> QED BY <2>1 DEF Rising
<1> QED BY <1>2, <1>5, <1>6 DEF t, h

LEMMA NoData ==
    ASSUME NEW q, NEW s, \A i \in DOMAIN q : ~IsData(q[i], s)
    PROVE  ChunksIn(q, s) = {} /\ Rising(q, s)
<1>1. DataIn(q, s) = {}
  BY DEF DataIn
<1> QED BY <1>1 DEF ChunksIn, Rising

LEMMA DataLast ==
    ASSUME NEW q, NEW s, NEW last, Phrase(q, s, Kinds, last)
    PROVE  /\ Rising(q, s)
           /\ ChunksIn(q, s) = IF IsData(last, s) THEN {last.chunk} ELSE {}
<1>1. /\ q \in Seq(Event) /\ DOMAIN q = 1..Len(q) /\ Len(q) \in Nat \ {0} /\ q[Len(q)] = last
      /\ \A i \in DOMAIN q : i # Len(q) => ~IsData(q[i], s)
  BY LenProperties DEF Phrase, Kinds, IsData
<1>2. DataIn(q, s) \subseteq {Len(q)} /\ (IsData(last, s) => DataIn(q, s) = {Len(q)})
      /\ (~IsData(last, s) => DataIn(q, s) = {})
  BY <1>1 DEF DataIn
<1>3. Rising(q, s)
  BY <1>1, <1>2 DEF Rising
<1>4. ChunksIn(q, s) = IF IsData(last, s) THEN {last.chunk} ELSE {}
  BY <1>1, <1>2 DEF ChunksIn
<1> QED BY <1>3, <1>4

(* An event that says nothing of s.                                        *)
Silent(e, s) == ~IsWord(e, s) /\ ~IsExit(e, s)

Alike(s) ==
    \/ events' = events
    \/ \E e \in Event : events' = Append(events, e) /\ Silent(e, s)

LEMMA HeardAlike ==
    ASSUME Carried, NEW s \in Runs, Alike(s)
    PROVE  /\ ChunksIn(events', s) = ChunksIn(events, s)
           /\ Rising(events, s) => Rising(events', s)
           /\ (\A i \in DOMAIN events : ~IsExit(events[i], s))
                => \A i \in DOMAIN events' : ~IsExit(events'[i], s)
           /\ Heard(s) /\ exits'[s] = exits[s] => Heard(s)'
<1>1. CASE events' = events
  BY <1>1 DEF Heard
<1>2. ASSUME NEW e \in Event, events' = Append(events, e), Silent(e, s)
      PROVE  /\ ChunksIn(events', s) = ChunksIn(events, s)
             /\ Rising(events, s) => Rising(events', s)
             /\ (\A i \in DOMAIN events : ~IsExit(events[i], s))
                  => \A i \in DOMAIN events' : ~IsExit(events'[i], s)
             /\ Heard(s) /\ exits'[s] = exits[s] => Heard(s)'
  <2>1. events \in Seq(Event) /\ ~IsData(e, s)
    BY <1>2 DEF Carried, Silent, IsWord, IsData
  <2>2. /\ ChunksIn(events', s) = ChunksIn(events, s)
        /\ Rising(events, s) => Rising(events', s)
    BY <1>2, <2>1, DataAppended
  <2>3. /\ \A i \in DOMAIN events' : i \in DOMAIN events \/ i = Len(events) + 1
        /\ \A i \in DOMAIN events : events'[i] = events[i]
        /\ events'[Len(events) + 1] = e
    BY <1>2, <2>1, Appending
  <2>4. \A i \in DOMAIN events' :
           \/ i \in DOMAIN events /\ events'[i] = events[i]
           \/ ~IsWord(events'[i], s) /\ ~IsExit(events'[i], s)
    BY <1>2, <2>3 DEF Silent
  <2>5. (\A i \in DOMAIN events : ~IsExit(events[i], s))
          => \A i \in DOMAIN events' : ~IsExit(events'[i], s)
    BY <2>4
  <2>6. Heard(s) /\ exits'[s] = exits[s] => Heard(s)'
    BY <2>4 DEF Heard
  <2> QED BY <2>2, <2>5, <2>6
<1> QED BY <1>1, <1>2 DEF Alike

(* A step that tells nothing of s and takes nothing from it.               *)
LEMMA LineAlike ==
    ASSUME Carried, NEW s \in Runs, Line(s), Alike(s),
           out'[s] = out[s], outputs'[s] = outputs[s], exits'[s] = exits[s],
           pump'[s] = pump[s] \/ {pump[s], pump'[s]} \subseteq {"none", "starting", "recv", "check", "finish"}
    PROVE  /\ Said(s)' /\ Heard(s)'
           /\ \A n \in Nat : Emitted(s, n) /\ chunks[s] <= chunks'[s] /\ chunks'[s] \in Nat
                               => Emitted(s, n)'
<1>1. /\ ChunksIn(events', s) = ChunksIn(events, s)
      /\ Rising(events, s) => Rising(events', s)
      /\ (\A i \in DOMAIN events : ~IsExit(events[i], s))
           => \A i \in DOMAIN events' : ~IsExit(events'[i], s)
      /\ Heard(s)'
  BY HeardAlike DEF Line
<1>2. Said(s)'
  BY <1>1 DEF Line, Said
<1>3. \A n \in Nat : Emitted(s, n) /\ chunks[s] <= chunks'[s] /\ chunks'[s] \in Nat
                       => Emitted(s, n)'
  BY <1>1, Read DEF Emitted
<1> QED BY <1>1, <1>2, <1>3

LEMMA ReaderLine ==
    ASSUME IInv, Carried, NEW r \in Runs, Reader(r), NEW s \in Runs, Line(s)
    PROVE  Line(s)'
<1>1. UNCHANGED <<out, events, outputs, exits, pump>>
  BY DEF Reader, ReadData, ReadEof, ReadError, Tap, Forward, ForwardEof, TapSentinel,
         pumpVars, historyVars
<1>2. chunks' = chunks \/ (ReadData(r) /\ chunks' = [chunks EXCEPT ![r] = chunks[r] + 1])
  BY DEF Reader, ReadData, ReadEof, ReadError, Tap, Forward, ForwardEof, TapSentinel
<1>3. chunks[s] \in Nat /\ chunks'[s] \in Nat /\ chunks[s] <= chunks'[s] /\ DOMAIN chunks = Runs
  <2>1. DOMAIN chunks = Runs /\ chunks[s] \in Nat
    BY Read DEF Carried
  <2>2. CASE chunks' = chunks
    BY <2>1, <2>2
  <2>3. CASE chunks' = [chunks EXCEPT ![r] = chunks[r] + 1]
    <3>1. chunks'[s] = chunks[s] \/ chunks'[s] = chunks[s] + 1
      BY <2>1, <2>3
    <3> QED BY <2>1, <3>1
  <2> QED BY <1>2, <2>1, <2>2, <2>3
<1>4. /\ Said(s)' /\ Heard(s)'
      /\ \A n \in Nat : Emitted(s, n) => Emitted(s, n)'
  BY <1>1, <1>3, LineAlike DEF Alike
<1>5. PICK n \in Nat : Emitted(s, n) /\ InTap(s, n)
  BY DEF Line, Piped
<1>6. InTap(s, n)'
  <2>0. /\ reader \in [Runs -> Readers] /\ tap \in [Runs -> Seq(Nat)] /\ Len(tap[s]) \in Nat
        /\ tap[s] \in Seq(Nat)
    BY Read DEF IInv, Shape, Carried
  <2>1. CASE s # r
    <3>1. tap'[s] = tap[s] /\ reader'[s] = reader[s] /\ chunks'[s] = chunks[s]
      BY <1>3, <2>0, <2>1 DEF Reader, ReadData, ReadEof, ReadError, Tap, TapSend, Forward,
                              ForwardEof, TapSentinel
    <3> QED BY <1>1, <1>5, <3>1 DEF InTap
  <2>2. CASE s = r /\ ReadData(r)
    <3>1. /\ tap'[s] = tap[s] /\ reader[s] = "read" /\ reader'[s] = "tap"
          /\ chunks'[s] = chunks[s] + 1
      BY <1>3, <2>0, <2>2 DEF ReadData
    <3>2. (chunks[s] + 1) - 1 = chunks[s]
      BY <1>3
    <3> QED BY <1>1, <1>5, <3>1, <3>2 DEF InTap
  <2>3. CASE s = r /\ (ReadEof(r) \/ ReadError(r) \/ Forward(r) \/ ForwardEof(r))
    <3>1. /\ tap'[s] = tap[s] /\ reader[s] \notin {"tap", "done"} /\ reader'[s] # "tap"
          /\ chunks'[s] = chunks[s]
      BY <2>0, <2>3 DEF ReadEof, ReadError, Forward, ForwardEof
    <3> QED BY <1>1, <1>5, <3>1 DEF InTap
  <2>4. CASE s = r /\ Tap(r) /\ tap' = tap
    <3>1. /\ pump[s] = "done" \/ Len(tap'[s]) # Len(tap[s])
          /\ reader[s] = "tap" /\ reader'[s] = "ui" /\ tap'[s] = tap[s]
      <4>1. Len(Append(tap[s], chunks[s])) = Len(tap[s]) + 1
        BY <1>3, <2>0, Appending
      <4> QED BY <2>0, <2>4, <4>1 DEF Tap, TapSend, TapClosed
    <3> QED BY <1>1, <1>5, <3>1 DEF InTap
  <2>5. CASE s = r /\ Tap(r) /\ tap' # tap
    <3>1. /\ pump[s] # "done" /\ reader[s] = "tap" /\ reader'[s] = "ui"
          /\ tap'[s] = Append(tap[s], chunks[s]) /\ chunks'[s] = chunks[s]
      BY <2>0, <2>5 DEF Tap, TapSend, TapClosed
    <3>2. /\ Len(tap'[s]) = Len(tap[s]) + 1
          /\ \A i \in DOMAIN tap[s] : tap'[s][i] = tap[s][i]
          /\ \A i \in DOMAIN tap'[s] : i \in DOMAIN tap[s] \/ i = Len(tap[s]) + 1
          /\ tap'[s][Len(tap[s]) + 1] = chunks[s]
      BY <1>3, <2>0, <3>1, Appending
    <3>3. n + Len(tap[s]) = chunks[s] - 1 /\ \A i \in DOMAIN tap[s] : tap[s][i] = n + i
      BY <1>5, <3>1 DEF InTap
    <3>4. n + (Len(tap[s]) + 1) = chunks[s]
      <4>1. \A a, b, c \in Nat : a + b = c - 1 => a + (b + 1) = c
        OBVIOUS
      <4>2. n \in Nat /\ Len(tap[s]) \in Nat /\ chunks[s] \in Nat
        BY <1>3, <2>0
      <4> QED BY <3>3, <4>1, <4>2
    <3> QED BY <3>1, <3>2, <3>3, <3>4 DEF InTap
  <2>6. CASE s = r /\ TapSentinel(r)
    <3>1. /\ reader[s] = "sentinel" /\ reader'[s] = "done"
          /\ tap'[s] = tap[s] \/ tap'[s] = Append(tap[s], Sentinel)
      BY <2>0, <2>6 DEF TapSentinel, TapSend
    <3>2. \A i \in DOMAIN tap[s] : tap[s][i] = n + i
      BY <1>5, <3>1 DEF InTap
    <3>3. CASE tap'[s] = tap[s]
      BY <3>1, <3>2, <3>3 DEF InTap
    <3>4. CASE tap'[s] = Append(tap[s], Sentinel)
      <4>1. /\ Len(tap'[s]) = Len(tap[s]) + 1
            /\ \A i \in DOMAIN tap[s] : tap'[s][i] = tap[s][i]
            /\ \A i \in DOMAIN tap'[s] : i \in DOMAIN tap[s] \/ i = Len(tap[s]) + 1
            /\ tap'[s][Len(tap[s]) + 1] = Sentinel
        <5>1. Sentinel \in Nat
          BY DEF Sentinel
        <5> QED BY <2>0, <3>4, <5>1, Appending
      <4> QED BY <3>1, <3>2, <4>1 DEF InTap
    <3> QED BY <3>1, <3>3, <3>4
  <2> QED BY <2>1, <2>2, <2>3, <2>4, <2>5, <2>6 DEF Reader
<1> QED BY <1>4, <1>5, <1>6 DEF Line, Piped

(* Another run's pump.                                                     *)
LEMMA OtherPumpLine ==
    ASSUME IInv, Carried, NEW r \in Runs, Pump(r), NEW s \in Runs, s # r, Line(s)
    PROVE  Line(s)'
<1>1. UNCHANGED <<reader, chunks, outputs, exits>>
  BY DEF Pump, PumpStart, PumpSend, PumpChunk, PumpTimeout, PumpCheck, finish, readerVars,
         historyVars
<1>d. DOMAIN out = Runs /\ DOMAIN pump = Runs /\ DOMAIN tap = Runs
  BY DEF Carried, IInv, Shape
<1>2. out'[s] = out[s]
  <2>1. out' = out \/ \E q : out' = [out EXCEPT ![r] = q]
    BY PumpSays DEF PumpSend
  <2> QED BY <1>d, <2>1
<1>3. pump'[s] = pump[s] /\ tap'[s] = tap[s]
  BY <1>d DEF Pump, PumpStart, PumpSend, PumpChunk, PumpTimeout, PumpCheck, finish, Return
<1>4. Alike(s)
  <2>1. CASE PumpSend(r)
    <3>1. Head(out[r]) \in Event /\ Head(out[r]).run = r
      BY <2>1, Read, Heads DEF PumpSend
    <3> QED BY <2>1, <3>1 DEF PumpSend, Alike, Silent, IsWord, IsExit
  <2> QED BY <2>1, PumpSays DEF Alike
<1>5. Said(s)' /\ Heard(s)' /\ \A n \in Nat : Emitted(s, n) => Emitted(s, n)'
  <2>1. chunks'[s] = chunks[s] /\ chunks[s] \in Nat
    BY <1>1, Read
  <2>2. chunks[s] <= chunks'[s] /\ chunks'[s] \in Nat
    BY <2>1
  <2> QED BY <1>1, <1>2, <1>3, <1>4, <2>2, LineAlike
<1>6. \A n : InTap(s, n) => InTap(s, n)'
  BY <1>1, <1>3 DEF InTap
<1> QED BY <1>5, <1>6 DEF Line, Piped

(* The pump of r puts something in its empty hand.                         *)
LEMMA SaysLine ==
    ASSUME IInv, Carried, NEW r \in Runs, Line(r), out[r] = <<>>, events' = events,
           NEW q \in Seq(Event), out' = [out EXCEPT ![r] = q], Says(r, q)
    PROVE  Line(r)'
<1>1. UNCHANGED <<reader, chunks, outputs, exits>>
  BY DEF Says, PumpStart, PumpChunk, PumpCheck, finish, readerVars, historyVars
<1>2. out'[r] = q
  BY DEF Carried
<1>3. /\ pump \in [Runs -> Pumps] /\ tap \in [Runs -> Seq(Nat)]
      /\ tap[r] \in Seq(Nat) /\ ToSet(tap[r]) \subseteq 0..chunks[r] /\ chunks[r] \in Nat
      /\ DOMAIN q = 1..Len(q) /\ Len(q) \in Nat
  BY Read, LenProperties DEF IInv, Shape, Carried
<1>4. PICK n \in Nat : Emitted(r, n) /\ InTap(r, n)
  BY DEF Line, Piped
<1>5. ChunksIn(out[r], r) = {} /\ ChunksIn(events, r) = (Len(outputs[r]) + 1)..n
  <2>1. \A i \in DOMAIN out[r] : FALSE
    OBVIOUS
  <2>2. ChunksIn(out[r], r) = {}
    BY <2>1, NoData
  <2> QED BY <1>4, <2>2 DEF Emitted
<1>6. Heard(r)'
  BY <1>1 DEF Line, Heard
<1>7. ASSUME ChunksIn(q, r) = {}, Rising(q, r) PROVE Emitted(r, n)'
  BY <1>1, <1>2, <1>4, <1>5, <1>7 DEF Emitted
<1>8. CASE PumpStart(r) /\ \A i \in DOMAIN q : q[i].kind \in {"StateChanged", "Started"}
  <2>1. pump[r] = "starting" /\ pump'[r] = "recv" /\ tap' = tap
    BY <1>3, <1>8 DEF PumpStart, PumpIdle
  <2>2. \A i \in DOMAIN q : ~IsData(q[i], r) /\ ~IsExit(q[i], r)
    BY <1>8 DEF IsData, IsExit
  <2>3. Emitted(r, n)'
    BY <1>7, <2>2, NoData
  <2>4. InTap(r, n)'
    BY <1>1, <1>4, <2>1 DEF InTap
  <2>5. Said(r)'
    BY <1>1, <1>2, <2>1, <2>2 DEF Line, Said
  <2> QED BY <1>6, <2>3, <2>4, <2>5 DEF Line, Piped
<1>9. ASSUME NEW h \in Hints \cup {"none"}, PumpChunk(r, h),
             Phrase(q, r, Kinds, Output(r, Head(tap[r])))
      PROVE  Line(r)'
  <2> DEFINE k == Head(tap[r])
  <2>1. /\ pump[r] = "recv" /\ pump'[r] = "check" /\ tap[r] # <<>> /\ tap'[r] = Tail(tap[r])
    BY <1>3, <1>9 DEF PumpChunk, PumpIdle
  <2>2. /\ k \in Nat /\ 1 \in DOMAIN tap[r] /\ k = tap[r][1]
        /\ Len(tap'[r]) = Len(tap[r]) - 1 /\ Len(tap[r]) \in Nat \ {0}
        /\ DOMAIN tap'[r] = 1..Len(tap'[r])
        /\ \A i \in DOMAIN tap'[r] :
              i \in Int /\ i >= 1 /\ i + 1 \in DOMAIN tap[r] /\ tap'[r][i] = tap[r][i + 1]
    <3>1. Tail(tap[r]) \in Seq(Nat)
      BY <1>3, <2>1, Heads
    <3>2. DOMAIN tap'[r] = 1..Len(tap'[r])
      BY <2>1, <3>1, LenProperties
    <3> QED BY <1>3, <2>1, <3>2, Heads
  <2>3. /\ Output(r, k) \in Event /\ Output(r, k).run = r /\ Output(r, k).kind = "Output"
        /\ Output(r, k).chunk = k
    BY <2>2, EventTypes
  <2>4. k \in 0..chunks[r]
    BY <1>3, <2>2 DEF ToSet
  <2> HIDE DEF k
  <2>5. /\ Rising(q, r) /\ ChunksIn(q, r) = IF k # Sentinel THEN {k} ELSE {}
    <3>1. Phrase(q, r, Kinds, Output(r, k))
      BY <1>9 DEF k
    <3> QED BY <2>3, <3>1, DataLast DEF IsData
  <2>6. \A i \in DOMAIN q : ~IsExit(q[i], r)
    BY <1>3, <1>9, <2>3 DEF Phrase, Kinds, IsExit, k
  <2>7. Said(r)'
    BY <1>1, <1>2, <2>1, <2>6 DEF Line, Said
  <2>8. CASE k = Sentinel
    <3>1. Emitted(r, n)'
      BY <1>7, <2>5, <2>8
    <3>2. reader[r] = "done" /\ Len(tap[r]) = 1
      <4>1. tap[r][1] = n + 1 \/ (tap[r][1] = Sentinel /\ 1 = Len(tap[r]) /\ reader[r] = "done")
        BY <1>4, <2>2 DEF InTap
      <4>2. tap[r][1] # n + 1
        BY <2>2, <2>8 DEF Sentinel
      <4> QED BY <4>1, <4>2
    <3>3. InTap(r, n)'
      <4>1. \A i \in DOMAIN tap'[r] : FALSE
        BY <2>2, <3>2
      <4> QED BY <1>1, <3>2, <4>1 DEF InTap
    <3> QED BY <1>6, <2>7, <3>1, <3>3 DEF Line, Piped
  <2>9. CASE k # Sentinel
    <3>1. k = n + 1 /\ n + 1 \in Nat /\ n + 1 <= chunks[r]
      BY <1>3, <1>4, <2>2, <2>4, <2>9 DEF InTap
    <3>2. Emitted(r, n + 1)'
      <4>1. /\ Len(outputs[r]) <= n /\ Len(outputs[r]) \in Nat
        BY <1>4, Read, LenProperties DEF Emitted
      <4>2. ((Len(outputs[r]) + 1)..n) \cup {n + 1} = (Len(outputs[r]) + 1)..(n + 1)
        BY <4>1
      <4>3. \A x \in (Len(outputs[r]) + 1)..n : x < n + 1
        BY <4>1
      <4>4. Len(outputs[r]) <= n + 1
        BY <4>1
      <4> QED BY <1>1, <1>2, <1>4, <1>5, <2>5, <2>9, <3>1, <4>2, <4>3, <4>4 DEF Emitted
    <3>3. InTap(r, n + 1)'
      <4>1. ASSUME NEW i \in DOMAIN tap'[r]
            PROVE  \/ tap'[r][i] = (n + 1) + i
                   \/ tap'[r][i] = Sentinel /\ i = Len(tap'[r]) /\ reader'[r] = "done"
        <5>1. /\ i \in Int /\ i + 1 \in DOMAIN tap[r] /\ tap'[r][i] = tap[r][i + 1]
          BY <2>2
        <5>2. CASE tap[r][i + 1] = n + (i + 1)
          <6>1. n + (i + 1) = (n + 1) + i
            BY <5>1
          <6> QED BY <5>1, <5>2, <6>1
        <5>3. CASE tap[r][i + 1] = Sentinel /\ i + 1 = Len(tap[r]) /\ reader[r] = "done"
          <6>1. i = Len(tap'[r])
            BY <2>2, <5>1, <5>3
          <6> QED BY <1>1, <5>1, <5>3, <6>1
        <5> QED BY <1>4, <5>1, <5>2, <5>3 DEF InTap
      <4>2. (n + 1) + Len(tap'[r]) = n + Len(tap[r])
        <5>1. \A a, b \in Nat, c \in Int : c = b - 1 => (a + 1) + c = a + b
          OBVIOUS
        <5>2. Len(tap[r]) \in Nat /\ Len(tap'[r]) \in Int /\ Len(tap'[r]) = Len(tap[r]) - 1
          BY <2>2
        <5> QED BY <5>1, <5>2
      <4>3. reader[r] # "done" =>
              n + Len(tap[r]) = IF reader[r] = "tap" THEN chunks[r] - 1 ELSE chunks[r]
        BY <1>4, <2>1 DEF InTap
      <4>4. reader'[r] = reader[r] /\ chunks'[r] = chunks[r]
        BY <1>1
      <4>5. reader'[r] # "done" =>
              (n + 1) + Len(tap'[r]) = IF reader'[r] = "tap" THEN chunks'[r] - 1 ELSE chunks'[r]
        BY <4>2, <4>3, <4>4
      <4> QED BY <4>1, <4>5 DEF InTap
    <3> QED BY <1>6, <2>7, <3>1, <3>2, <3>3 DEF Line, Piped
  <2> QED BY <2>8, <2>9
<1>10. CASE /\ PumpCheck(r) \/ finish(r)
            /\ pump' = [pump EXCEPT ![r] = "last"] /\ tap' = tap
            /\ Phrase(q, r, Kinds, Ev(r, "Exited"))
  <2>1. pump[r] \notin {"last", "done"} /\ pump'[r] = "last"
    BY <1>3, <1>10 DEF PumpCheck, finish, PumpIdle
  <2>2. Ev(r, "Exited").kind = "Exited" /\ Ev(r, "Exited").run = r
    BY EventTypes DEF EventKinds
  <2>3. Emitted(r, n)'
    BY <1>7, <1>10, <2>2, DataLast DEF IsData
  <2>4. InTap(r, n)'
    BY <1>1, <1>4, <1>10, <2>1 DEF InTap
  <2>5. q # <<>> /\ \A i \in DOMAIN q : IsExit(q[i], r) <=> i = Len(q)
    <3>1. Len(q) # 0 /\ q[Len(q)] = Ev(r, "Exited")
          /\ \A i \in DOMAIN q : i # Len(q) => q[i].kind \in Kinds
      BY <1>10 DEF Phrase
    <3>2. Len(<<>>) = 0
      OBVIOUS
    <3> QED BY <2>2, <3>1, <3>2 DEF Kinds, IsExit
  <2>6. Said(r)'
    BY <1>1, <1>2, <2>1, <2>5 DEF Line, Said
  <2> QED BY <1>6, <2>3, <2>4, <2>6 DEF Line, Piped
<1> QED BY <1>8, <1>9, <1>10 DEF Says

(* The pump of r sends the first of what it has in hand.                   *)
LEMMA SendLine ==
    ASSUME IInv, Carried, NEW r \in Runs, Line(r), PumpSend(r)
    PROVE  Line(r)'
<1> DEFINE h == Head(out[r])
<1>1. UNCHANGED <<reader, chunks, outputs, exits>>
  BY DEF PumpSend, readerVars, historyVars
<1>2. /\ out[r] \in Seq(Event) /\ out[r] # <<>> /\ events \in Seq(Event)
      /\ out'[r] = Tail(out[r]) /\ events' = Append(events, h)
  BY Read DEF PumpSend, Carried
<1>3. /\ h \in Event /\ h = out[r][1] /\ 1 \in DOMAIN out[r] /\ h.run = r
      /\ out'[r] \in Seq(Event) /\ Len(out'[r]) = Len(out[r]) - 1 /\ Len(out[r]) \in Nat \ {0}
      /\ \A i \in DOMAIN out'[r] :
            i \in Int /\ i >= 1 /\ i + 1 \in DOMAIN out[r] /\ out'[r][i] = out[r][i + 1]
  BY <1>2, Read, Heads
<1>4. /\ Len(events) \in Nat
      /\ \A i \in DOMAIN events : i \in 1..Len(events) /\ events'[i] = events[i]
      /\ \A i \in DOMAIN events' : i \in DOMAIN events \/ i = Len(events) + 1
      /\ events'[Len(events) + 1] = h
  BY <1>2, <1>3, Appending
<1>5. PICK n \in Nat : Emitted(r, n) /\ InTap(r, n)
  BY DEF Line, Piped
<1>6. Emitted(r, n)'
  <2>1. /\ ChunksIn(out[r], r) = IF IsData(h, r) THEN ChunksIn(out'[r], r) \cup {h.chunk}
                                 ELSE ChunksIn(out'[r], r)
        /\ Rising(out'[r], r)
        /\ IsData(h, r) => \A x \in ChunksIn(out'[r], r) : h.chunk < x
    BY <1>2, <1>5, DataTaken DEF Emitted
  <2>2. ChunksIn(events', r) = IF IsData(h, r) THEN ChunksIn(events, r) \cup {h.chunk}
                               ELSE ChunksIn(events, r)
    BY <1>2, <1>3, DataAppended
  <2>3. Rising(events', r)
    <3>1. IsData(h, r) => \A x \in ChunksIn(events, r) : x < h.chunk
      BY <1>5, <2>1 DEF Emitted
    <3> QED BY <1>2, <1>3, <1>5, <3>1, DataAppended DEF Emitted
  <2>4. \A x \in ChunksIn(events', r), y \in ChunksIn(out'[r], r) : x < y
    BY <1>5, <2>1, <2>2 DEF Emitted
  <2>5. ChunksIn(events', r) \cup ChunksIn(out'[r], r)
          = ChunksIn(events, r) \cup ChunksIn(out[r], r)
    BY <2>1, <2>2
  <2> HIDE DEF h
  <2> QED BY <1>1, <1>5, <2>1, <2>3, <2>4, <2>5 DEF Emitted
<1> HIDE DEF h
<1>7. CASE pump[r] = "last" /\ Len(out[r]) = 1
  <2>1. pump'[r] = "done" /\ tap'[r] = <<>>
    BY <1>7 DEF PumpSend, Return, IInv, Shape, Carried
  <2>2. out'[r] = <<>>
    BY <1>3, <1>7, EmptySeq
  <2>3. /\ exits[r] = 0 /\ \A i \in DOMAIN events : ~IsExit(events[i], r)
    BY <1>7 DEF Line, Said
  <2>4. InTap(r, n)'
    <3>1. \A i \in DOMAIN tap'[r] : FALSE
      BY <2>1
    <3> QED BY <2>1, <3>1 DEF InTap
  <2>5. Said(r)'
    BY <2>1, <2>2 DEF Said
  <2>6. Heard(r)'
    <3>1. \A i, j \in DOMAIN events' : IsExit(events'[j], r) =>
            /\ IsExit(events'[i], r) => i = j
            /\ IsWord(events'[i], r) => i < j
      <4> SUFFICES ASSUME NEW i \in DOMAIN events', NEW j \in DOMAIN events',
                          IsExit(events'[j], r)
                   PROVE  /\ IsExit(events'[i], r) => i = j
                          /\ IsWord(events'[i], r) => i < j
        OBVIOUS
      <4>1. j = Len(events) + 1
        BY <1>4, <2>3
      <4>2. CASE i = j
        <5>1. ~IsWord(events'[i], r)
          BY <4>2 DEF IsWord, IsExit
        <5> QED BY <4>2, <5>1
      <4>3. CASE i # j
        BY <1>4, <2>3, <4>1, <4>3
      <4> QED BY <4>2, <4>3
    <3> QED BY <1>1, <2>3, <3>1 DEF Heard
  <2> QED BY <1>6, <2>4, <2>5, <2>6 DEF Line, Piped
<1>8. CASE ~(pump[r] = "last" /\ Len(out[r]) = 1)
  <2>1. UNCHANGED <<pump, tap>>
    BY <1>8 DEF PumpSend, Return
  <2>2. pump[r] # "done"
    BY <1>2 DEF Line, Said
  <2>3. ~IsExit(h, r)
    <3>1. CASE pump[r] = "last"
      BY <1>3, <1>8, <3>1 DEF Line, Said
    <3>2. CASE pump[r] # "last"
      BY <1>3, <2>2, <3>2 DEF Line, Said
    <3> QED BY <3>1, <3>2
  <2>4. exits[r] = 0 /\ \A i \in DOMAIN events : ~IsExit(events[i], r)
    BY <2>2 DEF Line, Said
  <2>5. \A i \in DOMAIN events' : ~IsExit(events'[i], r)
    BY <1>4, <2>3, <2>4
  <2>6. Heard(r)'
    BY <1>1, <2>4, <2>5 DEF Heard
  <2>7. InTap(r, n)'
    BY <1>1, <1>5, <2>1 DEF InTap
  <2>8. Said(r)'
    <3>1. CASE pump[r] = "last"
      <4>1. \A i \in DOMAIN out[r] : IsExit(out[r][i], r) <=> i = Len(out[r])
        BY <3>1 DEF Line, Said
      <4>2. \A i \in DOMAIN out'[r] : IsExit(out'[r][i], r) <=> i = Len(out'[r])
        <5> SUFFICES ASSUME NEW i \in DOMAIN out'[r]
                     PROVE  IsExit(out'[r][i], r) <=> i = Len(out'[r])
          OBVIOUS
        <5>1. i \in Int /\ (IsExit(out'[r][i], r) <=> i + 1 = Len(out[r]))
          BY <1>3, <4>1
        <5>2. i + 1 = Len(out[r]) <=> i = Len(out[r]) - 1
          BY <1>3, <5>1
        <5> QED BY <1>3, <5>1, <5>2
      <4>3. out'[r] # <<>>
        <5>1. Len(out'[r]) # 0
          BY <1>3, <1>8, <3>1
        <5> QED BY <5>1, EmptySeq
      <4> QED BY <1>1, <2>1, <2>4, <2>5, <3>1, <4>2, <4>3 DEF Said
    <3>2. CASE pump[r] # "last"
      <4>1. \A i \in DOMAIN out'[r] : ~IsExit(out'[r][i], r)
        BY <1>3, <2>2, <3>2 DEF Line, Said
      <4> QED BY <1>1, <2>1, <2>2, <2>4, <2>5, <3>2, <4>1 DEF Said
    <3> QED BY <3>1, <3>2
  <2> QED BY <1>6, <2>6, <2>7, <2>8 DEF Line, Piped
<1> QED BY <1>7, <1>8

LEMMA PumpLine ==
    ASSUME IInv, Carried, NEW r \in Runs, Pump(r), NEW s \in Runs, Line(s)
    PROVE  Line(s)'
<1>1. CASE s # r
  BY <1>1, OtherPumpLine
<1>2. CASE s = r
  <2>1. CASE out' = out /\ events' = events /\ (PumpTimeout(r) \/ PumpCheck(r))
    <3>1. /\ UNCHANGED <<reader, chunks, outputs, exits, tap>>
          /\ {pump[r], pump'[r]} \subseteq {"none", "starting", "recv", "check", "finish"}
      <4>1. pump[r] \in {"check", "recv"} /\ DOMAIN pump = Runs
            /\ UNCHANGED <<reader, chunks, outputs, exits, tap>>
        BY <2>1 DEF PumpTimeout, PumpCheck, PumpIdle, readerVars, historyVars, IInv, Shape
      <4>2. ~(PumpCheck(r) /\ stop[r])
        <5> SUFFICES ASSUME PumpCheck(r), stop[r] PROVE FALSE
          OBVIOUS
        <5>1. out'[r] = <<Ev(r, "Exited")>> /\ out[r] = <<>>
          BY DEF PumpCheck, PumpIdle, Carried
        <5>2. <<Ev(r, "Exited")>> # <<>>
          OBVIOUS
        <5> QED BY <2>1, <5>1, <5>2
      <4>3. pump'[r] \in {"check", "recv", "finish"}
        BY <2>1, <4>1, <4>2 DEF PumpTimeout, PumpCheck
      <4> QED BY <4>1, <4>3
    <3>2. Alike(s) /\ out'[s] = out[s] /\ chunks[s] <= chunks'[s] /\ chunks'[s] \in Nat
      BY <2>1, <3>1, Read DEF Alike
    <3>3. Said(s)' /\ Heard(s)' /\ \A n \in Nat : Emitted(s, n) => Emitted(s, n)'
      BY <1>2, <3>1, <3>2, LineAlike
    <3>4. \A n : InTap(s, n) => InTap(s, n)'
      BY <1>2, <3>1 DEF InTap
    <3> QED BY <3>3, <3>4 DEF Line, Piped
  <2> QED BY <1>2, <2>1, PumpSays, SaysLine, SendLine
<1> QED BY <1>1, <1>2

(* A user's call: the threads of a new run start, an event is tried.       *)
LEMMA CallLine ==
    ASSUME IInv, Carried, UserCalls, NEW s \in Runs, Line(s)
    PROVE  Line(s)'
<1>0. PICK a \in Agents : Spawn(a) \/ Stop(a) \/ Restart(a) \/ Resume(a) \/ ClosePane(a)
  BY DEF UserCalls
<1>1. UNCHANGED <<chunks, tap, out, outputs, exits>>
  BY <1>0 DEF Spawn, Stop, Restart, Resume, ClosePane, Replace, ReplaceFails, Started,
              readerVars, pumpVars, historyVars
<1>2. Alike(s)
  <2>1. CASE Stop(a)
    <3>1. <<a, registered[a]>> \in Runs
      BY <2>1, RunPairs, RunsAssumption DEF Stop, IInv, Shape
    <3> DEFINE e == Ev(<<a, registered[a]>>, "StateChanged")
    <3>2. e \in Event /\ Silent(e, s)
      <4>1. e \in Event /\ e.kind = "StateChanged"
        BY <3>1, EventTypes DEF EventKinds
      <4> QED BY <4>1 DEF Silent, IsWord, IsExit
    <3>3. events' = events \/ events' = Append(events, e)
      BY <2>1 DEF Stop
    <3> HIDE DEF e
    <3> QED BY <3>2, <3>3 DEF Alike
  <2>2. CASE ~Stop(a)
    BY <1>0, <2>2 DEF Alike, Spawn, Restart, Resume, ClosePane, Replace, ReplaceFails, Started
  <2> QED BY <2>1, <2>2
<1>3. \/ reader'[s] = reader[s] /\ pump'[s] = pump[s]
      \/ reader[s] = "none" /\ reader'[s] = "read" /\ pump[s] = "none" /\ pump'[s] = "starting"
  <2>1. \/ UNCHANGED <<reader, pump>>
        \/ \E n : Started(a, n) /\ n = spawned[a] + 1
    <3>1. CASE Spawn(a)
      BY <3>1 DEF Spawn
    <3>2. CASE Stop(a) \/ ClosePane(a)
      BY <3>2 DEF Stop, ClosePane, readerVars, pumpVars
    <3>3. CASE Restart(a) \/ Resume(a)
      BY <3>3 DEF Restart, Resume, Replace, ReplaceFails, readerVars, pumpVars
    <3> QED BY <1>0, <3>1, <3>2, <3>3
  <2>2. ASSUME NEW n, Started(a, n), n = spawned[a] + 1
        PROVE  \/ reader'[s] = reader[s] /\ pump'[s] = pump[s]
               \/ /\ reader[s] = "none" /\ reader'[s] = "read"
                  /\ pump[s] = "none" /\ pump'[s] = "starting"
    <3> DEFINE r == <<a, n>>
    <3>0. DOMAIN reader = Runs /\ DOMAIN pump = Runs
      BY DEF IInv, Shape
    <3>1. spawned[a] \in Nat /\ n \in 1..MaxRuns
      BY <2>2, RunsAssumption DEF Started, IInv, Shape
    <3>2. r \in Runs /\ r[1] = a /\ r[2] = n /\ n > spawned[a]
      BY <2>2, <3>1, RunPairs
    <3>3. reader' = [reader EXCEPT ![r] = "read"] /\ pump' = [pump EXCEPT ![r] = "starting"]
      BY <2>2 DEF Started
    <3>4. reader[r] = "none" /\ pump[r] = "none"
      BY <3>2 DEF IInv, Lineage, Untouched
    <3> HIDE DEF r
    <3> QED BY <3>0, <3>2, <3>3, <3>4
  <2> QED BY <2>1, <2>2
<1>4. Said(s)' /\ Heard(s)' /\ \A n \in Nat : Emitted(s, n) => Emitted(s, n)'
  <2>1. chunks[s] <= chunks'[s] /\ chunks'[s] \in Nat
    BY <1>1, Read
  <2>2. pump'[s] = pump[s]
        \/ {pump[s], pump'[s]} \subseteq {"none", "starting", "recv", "check", "finish"}
    BY <1>3
  <2> QED BY <1>1, <1>2, <2>1, <2>2, LineAlike
<1>5. \A n : InTap(s, n) => InTap(s, n)'
  BY <1>1, <1>3 DEF InTap
<1> QED BY <1>4, <1>5 DEF Line, Piped

(* The engine receives an event.                                           *)
LEMMA ReceivedLine ==
    ASSUME IInv, Carried, DrainEvent, NEW s \in Runs, Line(s)
    PROVE  Line(s)'
<1> DEFINE e == Head(events)
<1>1. UNCHANGED <<reader, chunks, tap, pump, out>>
  BY DEF DrainEvent, readerVars, pumpVars
<1>2. /\ events \in Seq(Event) /\ events # <<>> /\ events' = Tail(events)
      /\ outputs \in [Runs -> Seq(Nat)] /\ exits \in [Runs -> Nat]
  BY DEF DrainEvent, Carried
<1>3. /\ e \in Event /\ 1 \in DOMAIN events /\ e = events[1]
      /\ \A i \in DOMAIN events' :
            i \in Int /\ i >= 1 /\ i + 1 \in DOMAIN events /\ events'[i] = events[i + 1]
  BY <1>2, Heads
<1>4. e.run \in Runs /\ e.chunk \in Nat
  BY <1>3 DEF Event
<1>5. /\ outputs'[s] = IF IsData(e, s) THEN Append(outputs[s], e.chunk) ELSE outputs[s]
      /\ exits'[s] = IF IsExit(e, s) THEN exits[s] + 1 ELSE exits[s]
  <2>1. /\ outputs' = IF e.kind = "Output" /\ e.chunk # Sentinel
                      THEN [outputs EXCEPT ![e.run] = Append(outputs[e.run], e.chunk)]
                      ELSE outputs
        /\ exits' = IF e.kind = "Exited" THEN [exits EXCEPT ![e.run] = exits[e.run] + 1]
                    ELSE exits
    BY DEF DrainEvent
  <2> HIDE DEF e
  <2> QED BY <1>2, <1>4, <2>1 DEF IsData, IsExit
<1>6. /\ ChunksIn(events, s) = IF IsData(e, s) THEN ChunksIn(events', s) \cup {e.chunk}
                               ELSE ChunksIn(events', s)
      /\ Rising(events, s) => /\ Rising(events', s)
                              /\ IsData(e, s) => \A x \in ChunksIn(events', s) : e.chunk < x
  BY <1>2, DataTaken
<1> HIDE DEF e
<1>7. PICK n \in Nat : Emitted(s, n) /\ InTap(s, n)
  BY DEF Line, Piped
<1>8. Emitted(s, n)'
  <2> DEFINE A == ChunksIn(events', s)
             B == ChunksIn(out[s], s)
             k == Len(outputs[s])
  <2>0. k \in Nat /\ outputs[s] \in Seq(Nat) /\ DOMAIN outputs[s] = 1..k
    BY Read, LenProperties
  <2>1. /\ \A i \in DOMAIN outputs[s] : outputs[s][i] = i
        /\ Rising(events', s) /\ Rising(out[s], s) /\ k <= n /\ n <= chunks[s]
    BY <1>6, <1>7 DEF Emitted
  <2>2. CASE ~IsData(e, s)
    BY <1>1, <1>5, <1>6, <1>7, <2>2 DEF Emitted
  <2>3. CASE IsData(e, s)
    <3>1. /\ A \cup {e.chunk} \cup B = (k + 1)..n
          /\ \A x \in A : e.chunk < x
          /\ \A y \in B : e.chunk < y
          /\ \A x \in A, y \in B : x < y
      BY <1>6, <1>7, <2>3 DEF Emitted
    <3> HIDE DEF A, B, k
    <3>2. e.chunk = k + 1
      <4>1. e.chunk \in (k + 1)..n /\ k + 1 \in (k + 1)..n
        BY <2>0, <2>1, <3>1
      <4>2. k + 1 = e.chunk \/ k + 1 \in A \/ k + 1 \in B
        BY <3>1, <4>1
      <4> QED BY <1>4, <2>0, <3>1, <4>1, <4>2
    <3>3. A \cup B = (k + 2)..n /\ k + 1 <= n
      <4>1. \A x : x \in (k + 2)..n <=> x \in (k + 1)..n /\ x # k + 1
        BY <2>0, <2>1
      <4>2. \A x \in A \cup B : x # k + 1 /\ x \in (k + 1)..n
        <5>1. \A x \in A \cup B : x \in (k + 1)..n /\ e.chunk < x
          BY <3>1
        <5> QED BY <2>0, <3>2, <5>1
      <4>3. k + 1 <= n
        BY <2>0, <2>1, <3>1, <3>2
      <4> QED BY <3>1, <3>2, <4>1, <4>2, <4>3
    <3>4. /\ Len(outputs'[s]) = k + 1
          /\ \A i \in DOMAIN outputs'[s] : outputs'[s][i] = i
      <4>1. /\ Len(outputs'[s]) = k + 1
            /\ \A i \in DOMAIN outputs[s] : outputs'[s][i] = outputs[s][i]
            /\ \A i \in DOMAIN outputs'[s] : i \in DOMAIN outputs[s] \/ i = k + 1
            /\ outputs'[s][k + 1] = e.chunk
        BY <1>4, <1>5, <2>0, <2>3, Appending DEF k
      <4> QED BY <2>1, <3>2, <4>1
    <3>5. (k + 1) + 1 = k + 2
      BY <2>0
    <3> QED BY <1>1, <2>1, <3>1, <3>3, <3>4, <3>5 DEF Emitted, A, B
  <2> QED BY <2>2, <2>3
<1>9. InTap(s, n)'
  BY <1>1, <1>7 DEF InTap
<1>10. Said(s)'
  <2>1. pump[s] # "done" => ~IsExit(e, s) /\ \A i \in DOMAIN events' : ~IsExit(events'[i], s)
    BY <1>3 DEF Line, Said
  <2> QED BY <1>1, <1>5, <2>1 DEF Line, Said
<1>11. Heard(s)'
  <2>1. IsExit(e, s) => \A i \in DOMAIN events' :
                           ~IsExit(events'[i], s) /\ ~IsWord(events'[i], s)
    <3> SUFFICES ASSUME IsExit(e, s), NEW i \in DOMAIN events'
                 PROVE  ~IsExit(events'[i], s) /\ ~IsWord(events'[i], s)
      OBVIOUS
    <3>1. i + 1 \in DOMAIN events /\ events'[i] = events[i + 1] /\ i + 1 # 1 /\ ~(i + 1 < 1)
      BY <1>3
    <3> QED BY <1>3, <3>1 DEF Line, Heard
  <2>2. IsExit(e, s) => exits[s] = 0
    BY <1>3 DEF Line, Heard
  <2>3. exits'[s] \in {0, 1}
    BY <1>5, <2>2 DEF Line, Heard
  <2>4. exits'[s] = 1 => \A i \in DOMAIN events' :
                           ~IsExit(events'[i], s) /\ ~IsWord(events'[i], s)
    BY <1>3, <1>5, <2>1 DEF Line, Heard
  <2>5. ASSUME NEW i \in DOMAIN events', NEW j \in DOMAIN events', IsExit(events'[j], s)
        PROVE  /\ IsExit(events'[i], s) => i = j
               /\ IsWord(events'[i], s) => i < j
    <3>1. /\ i + 1 \in DOMAIN events /\ events'[i] = events[i + 1] /\ i \in Int
          /\ j + 1 \in DOMAIN events /\ events'[j] = events[j + 1] /\ j \in Int
      BY <1>3
    <3>2. /\ IsExit(events[i + 1], s) => i + 1 = j + 1
          /\ IsWord(events[i + 1], s) => i + 1 < j + 1
      BY <2>5, <3>1 DEF Line, Heard
    <3>3. (i + 1 = j + 1 => i = j) /\ (i + 1 < j + 1 => i < j)
      BY <3>1
    <3> QED BY <3>1, <3>2, <3>3
  <2> QED BY <2>3, <2>4, <2>5 DEF Heard
<1> QED BY <1>7, <1>8, <1>9, <1>10, <1>11 DEF Line, Piped

-----------------------------------------------------------------------------
LEMMA LineStart == Init => \A s \in Runs : Line(s)
<1> SUFFICES ASSUME Init, NEW s \in Runs PROVE Line(s)
  OBVIOUS
<1>1. /\ events = <<>> /\ out[s] = <<>> /\ tap[s] = <<>> /\ outputs[s] = <<>>
      /\ exits[s] = 0 /\ chunks[s] = 0 /\ pump[s] = "none" /\ reader[s] = "none"
  BY DEF Init
<1>2. ChunksIn(events, s) = {} /\ Rising(events, s) /\ ChunksIn(out[s], s) = {} /\ Rising(out[s], s)
  BY <1>1, NoData
<1>3. Len(outputs[s]) = 0 /\ Len(tap[s]) = 0
  BY <1>1
<1>4. Emitted(s, 0)
  BY <1>1, <1>2, <1>3 DEF Emitted
<1>5. InTap(s, 0)
  BY <1>1, <1>3 DEF InTap
<1> QED BY <1>1, <1>4, <1>5 DEF Line, Piped, Said, Heard

LEMMA LineKept ==
    IInv /\ Carried /\ (\A s \in Runs : Line(s)) /\ [Next]_vars => (\A s \in Runs : Line(s))'
<1> SUFFICES ASSUME IInv, Carried, \A s \in Runs : Line(s), [Next]_vars, NEW s \in Runs
             PROVE  Line(s)'
  OBVIOUS
<1>1. CASE UserCalls
  BY <1>1, CallLine
<1>2. CASE DrainEvent
  BY <1>2, ReceivedLine
<1>3. ASSUME NEW r \in Runs, Reader(r) PROVE Line(s)'
  BY <1>3, ReaderLine
<1>4. ASSUME NEW r \in Runs, Pump(r) PROVE Line(s)'
  BY <1>4, PumpLine
<1>5. ASSUME UNCHANGED <<reader, chunks, tap, pump, out, events, outputs, exits>>
      PROVE  Line(s)'
  BY <1>5 DEF Line, Piped, Emitted, InTap, Said, Heard, ChunksIn, DataIn, Rising
<1>6. CASE DrainSessions \/ DrainEnds
  BY <1>5, <1>6 DEF DrainSessions, DrainEnds, readerVars, pumpVars, historyVars
<1>7. ASSUME NEW r \in Runs, NEW c \in ExitCodes, ProcessEnds(r, c) PROVE Line(s)'
  BY <1>5, <1>7 DEF ProcessEnds, readerVars, pumpVars, historyVars
<1>8. CASE UNCHANGED vars
  BY <1>5, <1>8 DEF vars, readerVars, pumpVars, historyVars
<1> QED BY <1>1, <1>2, <1>3, <1>4, <1>6, <1>7, <1>8 DEF Next, DrainFrame

(* What is to come of r: in the channel, then in its pump's hand.          *)
LEMMA ComingParts ==
    ASSUME Carried, NEW r \in Runs
    PROVE  /\ Len(events) \in Nat
           /\ \A i \in DOMAIN Coming(r) :
                \/ i \in DOMAIN events /\ i <= Len(events) /\ Coming(r)[i] = events[i]
                \/ /\ i \in Int /\ i > Len(events) /\ i - Len(events) \in DOMAIN out[r]
                   /\ Coming(r)[i] = out[r][i - Len(events)]
           /\ \A i \in DOMAIN events : i \in DOMAIN Coming(r) /\ Coming(r)[i] = events[i]
           /\ \A i \in DOMAIN out[r] :
                 Len(events) + i \in DOMAIN Coming(r) /\ Coming(r)[Len(events) + i] = out[r][i]
<1> DEFINE c == Coming(r)
           o == out[r]
<1>1. /\ events \in Seq(Event) /\ o \in Seq(Event) /\ Len(events) \in Nat /\ Len(o) \in Nat
      /\ DOMAIN events = 1..Len(events) /\ DOMAIN o = 1..Len(o)
  BY Read, LenProperties
<1> HIDE DEF o
<1>2. /\ c \in Seq(Event) /\ Len(c) = Len(events) + Len(o)
      /\ \A i \in 1..(Len(events) + Len(o)) :
            c[i] = IF i <= Len(events) THEN events[i] ELSE o[i - Len(events)]
  BY <1>1, ConcatProperties DEF Coming, o
<1> HIDE DEF c
<1>3. DOMAIN c = 1..(Len(events) + Len(o))
  BY <1>2, LenProperties
<1>4. ASSUME NEW i \in DOMAIN c
      PROVE  \/ i \in DOMAIN events /\ i <= Len(events) /\ c[i] = events[i]
             \/ /\ i \in Int /\ i > Len(events) /\ i - Len(events) \in DOMAIN o
                /\ c[i] = o[i - Len(events)]
  BY <1>1, <1>2, <1>3
<1>5. \A i \in DOMAIN events : i \in DOMAIN c /\ c[i] = events[i]
  BY <1>1, <1>2, <1>3
<1>6. ASSUME NEW i \in DOMAIN o
      PROVE  Len(events) + i \in DOMAIN c /\ c[Len(events) + i] = o[i]
  <2>1. /\ Len(events) + i \in 1..(Len(events) + Len(o)) /\ ~(Len(events) + i <= Len(events))
        /\ (Len(events) + i) - Len(events) = i
    BY <1>1
  <2> QED BY <1>2, <1>3, <2>1
<1> QED BY <1>1, <1>4, <1>5, <1>6 DEF c, o

LEMMA LineInOrder ==
    ASSUME Carried, \A s \in Runs : Line(s)
    PROVE  OutputInOrder
<1> SUFFICES ASSUME NEW r \in Runs
             PROVE  LET Chunk(i) == Coming(r)[i].chunk
                        Data == {i \in ComingOf(r, {"Output"}) : Chunk(i) # Sentinel}
                    IN  /\ \A i \in DOMAIN outputs[r] : outputs[r][i] = i
                        /\ \A i, j \in Data : i < j => Chunk(i) < Chunk(j)
                        /\ \E n \in 0..chunks[r] :
                              {Chunk(i) : i \in Data} = (Len(outputs[r]) + 1)..n
  BY DEF OutputInOrder
<1> DEFINE c == Coming(r)
           L == Len(events)
           Data == {i \in ComingOf(r, {"Output"}) : c[i].chunk # Sentinel}
<1>1. PICK n \in Nat : Emitted(r, n)
  BY DEF Line, Piped
<1>2. /\ L \in Nat
      /\ \A i \in DOMAIN c :
            \/ i \in DOMAIN events /\ i <= L /\ c[i] = events[i]
            \/ i \in Int /\ i > L /\ i - L \in DOMAIN out[r] /\ c[i] = out[r][i - L]
      /\ \A i \in DOMAIN events : i \in DOMAIN c /\ c[i] = events[i]
      /\ \A i \in DOMAIN out[r] : L + i \in DOMAIN c /\ c[L + i] = out[r][i]
  BY ComingParts
<1>3. Data = {i \in DOMAIN c : IsData(c[i], r)}
  BY DEF ComingOf, IsData
<1> HIDE DEF c, L, Data
<1>4. ASSUME NEW i \in Data
      PROVE  \/ i \in DataIn(events, r) /\ i <= L /\ c[i] = events[i] /\ c[i].chunk \in ChunksIn(events, r)
             \/ /\ i \in Int /\ i > L /\ i - L \in DataIn(out[r], r) /\ c[i] = out[r][i - L]
                /\ c[i].chunk \in ChunksIn(out[r], r)
  BY <1>2, <1>3 DEF DataIn, ChunksIn
<1>5. \A i \in Data : c[i].chunk \in ChunksIn(events, r) \cup ChunksIn(out[r], r)
  BY <1>4
<1>6. ASSUME NEW x \in ChunksIn(events, r) \cup ChunksIn(out[r], r)
      PROVE  \E i \in Data : c[i].chunk = x
  <2>1. ASSUME NEW i \in DataIn(events, r), x = events[i].chunk PROVE \E j \in Data : c[j].chunk = x
    BY <1>2, <1>3, <2>1 DEF DataIn
  <2>2. ASSUME NEW i \in DataIn(out[r], r), x = out[r][i].chunk PROVE \E j \in Data : c[j].chunk = x
    BY <1>2, <1>3, <2>2 DEF DataIn
  <2> QED BY <2>1, <2>2 DEF ChunksIn
<1>7. {c[i].chunk : i \in Data} = (Len(outputs[r]) + 1)..n
  <2>1. {c[i].chunk : i \in Data} = ChunksIn(events, r) \cup ChunksIn(out[r], r)
    BY <1>5, <1>6
  <2> QED BY <1>1, <2>1 DEF Emitted
<1>8. ASSUME NEW i \in Data, NEW j \in Data, i < j
      PROVE  c[i].chunk < c[j].chunk
  <2>0. i \in Int /\ j \in Int
    <3>1. DOMAIN events = 1..L
      BY LenProperties DEF Carried, L
    <3> QED BY <1>2, <1>4, <3>1 DEF DataIn
  <2>1. CASE i <= L /\ j <= L
    BY <1>1, <1>2, <1>4, <1>8, <2>1 DEF Emitted, Rising
  <2>2. CASE i <= L /\ j > L
    <3>1. c[i].chunk \in ChunksIn(events, r)
      BY <1>2, <1>4, <2>0, <2>2
    <3>2. c[j].chunk \in ChunksIn(out[r], r)
      BY <1>2, <1>4, <2>0, <2>2
    <3> QED BY <1>1, <3>1, <3>2 DEF Emitted
  <2>3. CASE i > L /\ j > L
    <3>1. /\ i \in Int /\ j \in Int /\ i - L \in DataIn(out[r], r) /\ j - L \in DataIn(out[r], r)
          /\ c[i] = out[r][i - L] /\ c[j] = out[r][j - L]
      BY <1>2, <1>4, <2>0, <2>3
    <3>2. i - L < j - L
      BY <1>2, <1>8, <3>1
    <3> QED BY <1>1, <3>1, <3>2 DEF Emitted, Rising
  <2> QED BY <1>2, <1>8, <2>0, <2>1, <2>2, <2>3
<1>9. n \in 0..chunks[r] /\ \A i \in DOMAIN outputs[r] : outputs[r][i] = i
  BY <1>1, Read DEF Emitted
<1>10. \E m \in 0..chunks[r] : {c[i].chunk : i \in Data} = (Len(outputs[r]) + 1)..m
  BY <1>7, <1>9
<1> QED BY <1>8, <1>9, <1>10 DEF Data, c

LEMMA LineLastWord ==
    ASSUME Carried, \A s \in Runs : Line(s)
    PROVE  ExitIsLastWord
<1> SUFFICES ASSUME NEW r \in Runs
             PROVE  LET Exits == ComingOf(r, {"Exited"})
                        Words == ComingOf(r, {"Output", "Completed", "Permission"})
                    IN  /\ exits[r] \in {0, 1} /\ \A i, j \in Exits : i = j
                        /\ exits[r] = 1 => Exits = {} /\ Words = {}
                        /\ \A i \in Words, j \in Exits : i < j
  BY DEF ExitIsLastWord
<1> DEFINE c == Coming(r)
           L == Len(events)
           Exits == ComingOf(r, {"Exited"})
           Words == ComingOf(r, {"Output", "Completed", "Permission"})
<1>1. /\ L \in Nat
      /\ \A i \in DOMAIN c :
            \/ i \in DOMAIN events /\ i <= L /\ c[i] = events[i]
            \/ i \in Int /\ i > L /\ i - L \in DOMAIN out[r] /\ c[i] = out[r][i - L]
  BY ComingParts
<1>2. Exits = {i \in DOMAIN c : IsExit(c[i], r)} /\ Words = {i \in DOMAIN c : IsWord(c[i], r)}
  BY DEF ComingOf, IsExit, IsWord
<1>3. /\ exits[r] \in {0, 1}
      /\ DOMAIN events = 1..L /\ DOMAIN out[r] = 1..Len(out[r]) /\ Len(out[r]) \in Nat
  BY Read, LenProperties DEF Line, Heard
<1>4. ~\E e : IsExit(e, r) /\ IsWord(e, r)
  BY DEF IsExit, IsWord
<1> HIDE DEF c, L, Exits, Words
<1>5. CASE pump[r] = "done"
  <2>1. \A i \in DOMAIN c : i \in DOMAIN events /\ c[i] = events[i]
    <3>1. out[r] = <<>>
      BY <1>5 DEF Line, Said
    <3>2. \A i : i \notin DOMAIN out[r]
      BY <3>1
    <3> QED BY <1>1, <3>2
  <2>2. \A i, j \in Exits : i = j
    BY <1>2, <2>1 DEF Line, Heard
  <2>3. exits[r] = 1 => Exits = {} /\ Words = {}
    BY <1>2, <2>1 DEF Line, Heard
  <2>4. \A i \in Words, j \in Exits : i < j
    BY <1>2, <2>1 DEF Line, Heard
  <2> QED BY <1>3, <2>2, <2>3, <2>4 DEF Exits, Words
<1>6. CASE pump[r] # "done"
  <2>1. exits[r] = 0 /\ \A i \in DOMAIN events : ~IsExit(events[i], r)
    BY <1>6 DEF Line, Said
  <2>2. \A j \in Exits : j \in Int /\ pump[r] = "last" /\ j - L = Len(out[r]) /\ j > L
    <3> SUFFICES ASSUME NEW j \in Exits
                 PROVE  j \in Int /\ pump[r] = "last" /\ j - L = Len(out[r]) /\ j > L
      OBVIOUS
    <3>1. j \in Int /\ j > L /\ j - L \in DOMAIN out[r] /\ IsExit(out[r][j - L], r)
      BY <1>1, <1>2, <2>1
    <3> QED BY <1>6, <3>1 DEF Line, Said
  <2>3. \A i, j \in Exits : i = j
    BY <1>1, <1>3, <2>2
  <2>4. \A i \in Words, j \in Exits : i < j
    <3> SUFFICES ASSUME NEW i \in Words, NEW j \in Exits PROVE i < j
      OBVIOUS
    <3>0. j \in Int /\ pump[r] = "last" /\ j - L = Len(out[r]) /\ j > L /\ i # j
      BY <1>2, <1>4, <2>2
    <3>1. CASE i \in DOMAIN events /\ i <= L
      BY <1>1, <1>3, <3>0, <3>1
    <3>2. CASE i \in Int /\ i > L /\ i - L \in DOMAIN out[r]
      BY <1>1, <1>3, <3>0, <3>2
    <3> QED BY <1>1, <1>2, <3>1, <3>2
  <2> QED BY <1>3, <2>1, <2>3, <2>4 DEF Exits, Words
<1> QED BY <1>5, <1>6

(* Whatever capacities, restarts and stops, the engine hears the output of *)
(* every run in the order it was read and its exit once, after all of it   *)
(* (the tap, process_chunk, finish, drain_events).                         *)
THEOREM RunsInOrder == Spec => []EventsInOrder
<1>1. Carried /\ (\A s \in Runs : Line(s)) => EventsInOrder
  BY LineInOrder, LineLastWord DEF EventsInOrder
<1> QED BY <1>1, RuntimeInductive, CarriedStart, CarriedKept, LineStart, LineKept, PTL DEF Spec

(* For any agents and any restarts: one live process per execution id, and *)
(* every run of it reports its own end once and says nothing after         *)
(* (restart, resume, remove_internal, finish).                             *)
THEOREM RestartsClean == Spec => []RestartsAreClean
<1>1. Carried /\ (\A s \in Runs : Line(s)) /\ NoOrphanProcess => RestartsAreClean
  BY LineLastWord DEF RestartsAreClean
<1> QED BY <1>1, OneProcess, RuntimeInductive, CarriedStart, CarriedKept, LineStart, LineKept, PTL DEF Spec
=============================================================================
