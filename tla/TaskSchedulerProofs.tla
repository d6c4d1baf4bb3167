------------------------- MODULE TaskSchedulerProofs -------------------------
(***************************************************************************)
(* Proofs about TaskScheduler, for every number of tasks, every policy and *)
(* every bound.  First the books of the scheduler: its queue, its running  *)
(* list and the lists of a pass (IInv).  Then what rests on them: it never *)
(* loses an agent, tries a task too often, starts too many tasks or too    *)
(* expensive ones, starts one while paused, releases one that waits for a  *)
(* human, or leaves something to run after STOP ALL.                       *)
(***************************************************************************)
EXTENDS TaskScheduler, SequenceTheorems, TLAPS

-----------------------------------------------------------------------------
(* The queue, the running list and the command list are lists without      *)
(* duplicates; what their operations do to them as sets.                   *)

(* Appending a new element, as a set and as a list without duplicates.     *)
LEMMA AppendFacts ==
    ASSUME NEW S, NEW s \in Seq(S), NEW x \in S
    PROVE  /\ Append(s, x) \in Seq(S)
           /\ ToSet(Append(s, x)) = ToSet(s) \cup {x}
           /\ NoDuplicates(s) /\ x \notin ToSet(s) => NoDuplicates(Append(s, x))
<1> DEFINE a == Append(s, x)
<1>1. /\ a \in Seq(S) /\ Len(a) = Len(s) + 1 /\ Len(s) \in Nat
      /\ DOMAIN a = 1..(Len(s) + 1) /\ DOMAIN s = 1..Len(s)
      /\ \A i \in 1..Len(s) : a[i] = s[i]
      /\ a[Len(s) + 1] = x
  OBVIOUS
<1> HIDE DEF a
<1>2. ToSet(a) = ToSet(s) \cup {x}
  <2>1. ToSet(a) \subseteq ToSet(s) \cup {x}
    BY <1>1 DEF ToSet
  <2>2. ToSet(s) \subseteq ToSet(a)
    <3> SUFFICES ASSUME NEW i \in DOMAIN s PROVE s[i] \in ToSet(a)
      BY DEF ToSet
    <3> i \in DOMAIN a /\ a[i] = s[i]
      BY <1>1
    <3> QED BY DEF ToSet
  <2>3. x \in ToSet(a)
    BY <1>1 DEF ToSet
  <2> QED BY <2>1, <2>2, <2>3
<1>3. ASSUME NoDuplicates(s), x \notin ToSet(s) PROVE NoDuplicates(a)
  BY <1>1, <1>3 DEF ToSet, NoDuplicates
<1> QED BY <1>1, <1>2, <1>3 DEF a

(* Taking the head off a list without duplicates.                          *)
LEMMA TailFacts ==
    ASSUME NEW S, NEW s \in Seq(S), s # <<>>
    PROVE  /\ Head(s) \in S /\ Head(s) \in ToSet(s)
           /\ Tail(s) \in Seq(S)
           /\ NoDuplicates(s) => /\ NoDuplicates(Tail(s))
                                 /\ ToSet(Tail(s)) = ToSet(s) \ {Head(s)}
<1> DEFINE r == Tail(s)
<1>1. /\ r \in Seq(S) /\ Len(r) = Len(s) - 1 /\ Len(s) \in Nat \ {0}
      /\ DOMAIN r = 1..(Len(s) - 1) /\ DOMAIN s = 1..Len(s)
      /\ \A i \in 1..(Len(s) - 1) : r[i] = s[i + 1]
      /\ Head(s) = s[1]
  OBVIOUS
<1>2. Head(s) \in S /\ Head(s) \in ToSet(s)
  BY <1>1 DEF ToSet
<1> HIDE DEF r
<1>3. ASSUME NoDuplicates(s) PROVE NoDuplicates(r)
  <2> SUFFICES ASSUME NEW i \in DOMAIN r, NEW j \in DOMAIN r, r[i] = r[j]
               PROVE  i = j
    BY DEF NoDuplicates
  <2>1. i + 1 \in DOMAIN s /\ j + 1 \in DOMAIN s /\ s[i + 1] = s[j + 1]
    BY <1>1
  <2>2. i + 1 = j + 1
    BY <2>1, <1>3 DEF NoDuplicates
  <2> QED BY <2>2, <1>1
<1>4. ASSUME NoDuplicates(s) PROVE ToSet(r) = ToSet(s) \ {Head(s)}
  <2>1. ASSUME NEW i \in DOMAIN r PROVE r[i] \in ToSet(s) /\ r[i] # Head(s)
    <3>1. i + 1 \in DOMAIN s /\ r[i] = s[i + 1] /\ i + 1 # 1 /\ 1 \in DOMAIN s
      BY <1>1
    <3> QED BY <3>1, <1>1, <1>4 DEF ToSet, NoDuplicates
  <2>2. ASSUME NEW i \in DOMAIN s, s[i] # Head(s) PROVE s[i] \in ToSet(r)
    <3>1. i - 1 \in DOMAIN r /\ r[i - 1] = s[i]
      BY <1>1, <2>2
    <3> QED BY <3>1 DEF ToSet
  <2> QED BY <2>1, <2>2 DEF ToSet
<1> QED BY <1>1, <1>2, <1>3, <1>4 DEF r

(* Vec::retain on a list without duplicates drops exactly the one element. *)
LEMMA WithoutFacts ==
    ASSUME NEW S, NEW s \in Seq(S), NEW x
    PROVE  /\ Without(s, x) \in Seq(S)
           /\ NoDuplicates(s) => /\ NoDuplicates(Without(s, x))
                                 /\ ToSet(Without(s, x)) = ToSet(s) \ {x}
<1>1. CASE x \notin ToSet(s)
  BY <1>1 DEF Without
<1>2. CASE x \in ToSet(s)
  <2> DEFINE k == CHOOSE i \in DOMAIN s : s[i] = x
             n == Len(s)
             w == SubSeq(s, 1, k - 1) \o SubSeq(s, k + 1, n)
  <2>1. k \in DOMAIN s /\ s[k] = x
    BY <1>2 DEF ToSet
  <2>2. Without(s, x) = w
    BY <1>2 DEF Without
  <2>3. n \in Nat /\ DOMAIN s = 1..n /\ k \in 1..n /\ \A i \in 1..n : s[i] \in S
    BY <2>1
  <2> HIDE DEF k, n
  <2>4. /\ w \in Seq(S) /\ DOMAIN w = 1..(n - 1)
        /\ \A i \in 1..(n - 1) : w[i] = IF i < k THEN s[i] ELSE s[i + 1]
    <3>1. /\ SubSeq(s, 1, k - 1) \in Seq(S) /\ Len(SubSeq(s, 1, k - 1)) = k - 1
          /\ \A i \in 1..(k - 1) : SubSeq(s, 1, k - 1)[i] = s[i]
      BY <2>3 DEF n
    <3>2. /\ SubSeq(s, k + 1, n) \in Seq(S) /\ Len(SubSeq(s, k + 1, n)) = n - k
          /\ \A i \in 1..(n - k) : SubSeq(s, k + 1, n)[i] = s[i + k]
      <4>1. k + 1 \in 1..(n + 1) /\ n \in 0..n /\ n = Len(s)
        BY <2>3 DEF n
      <4>2. /\ SubSeq(s, k + 1, n) \in Seq(S)
            /\ Len(SubSeq(s, k + 1, n)) = IF k + 1 <= n THEN n - (k + 1) + 1 ELSE 0
            /\ \A i \in 1..(n - (k + 1) + 1) :
                  SubSeq(s, k + 1, n)[i] = s[(k + 1) + i - 1]
        BY <4>1, SubSeqProperties
      <4> QED BY <4>2, <2>3
    <3> QED BY <3>1, <3>2, <2>3
  <2> HIDE DEF w
  <2>5. ASSUME NoDuplicates(s) PROVE NoDuplicates(w)
    <3> SUFFICES ASSUME NEW i \in DOMAIN w, NEW j \in DOMAIN w, w[i] = w[j]
                 PROVE  i = j
      BY DEF NoDuplicates
    <3> DEFINE f(m) == IF m < k THEN m ELSE m + 1
    <3>1. f(i) \in DOMAIN s /\ f(j) \in DOMAIN s /\ s[f(i)] = s[f(j)]
      BY <2>3, <2>4
    <3>2. f(i) = f(j)
      BY <3>1, <2>5 DEF NoDuplicates
    <3> QED BY <3>2, <2>3, <2>4
  <2>6. ASSUME NoDuplicates(s) PROVE ToSet(w) = ToSet(s) \ {x}
    <3>1. ASSUME NEW i \in DOMAIN w PROVE w[i] \in ToSet(s) \ {x}
      <4> DEFINE m == IF i < k THEN i ELSE i + 1
      <4>1. m \in DOMAIN s /\ m # k /\ w[i] = s[m]
        BY <2>3, <2>4
      <4> QED BY <4>1, <2>1, <2>6 DEF ToSet, NoDuplicates
    <3>2. ASSUME NEW i \in DOMAIN s, s[i] # x PROVE s[i] \in ToSet(w)
      <4> DEFINE m == IF i < k THEN i ELSE i - 1
      <4>1. m \in DOMAIN w /\ w[m] = s[i]
        BY <2>1, <2>3, <2>4, <3>2
      <4> QED BY <4>1 DEF ToSet
    <3> QED BY <3>1, <3>2 DEF ToSet
  <2> QED BY <2>2, <2>4, <2>5, <2>6
<1> QED BY <1>1, <1>2

(* Lists without duplicates that share nothing concatenate to one.         *)
LEMMA ConcatFacts ==
    ASSUME NEW S, NEW s \in Seq(S), NEW r \in Seq(S),
           NoDuplicates(s), NoDuplicates(r), ToSet(s) \cap ToSet(r) = {}
    PROVE  /\ s \o r \in Seq(S)
           /\ NoDuplicates(s \o r)
           /\ ToSet(s \o r) = ToSet(s) \cup ToSet(r)
<1> DEFINE c == s \o r
           n == Len(s)
           m == Len(r)
<1>1. /\ c \in Seq(S) /\ n \in Nat /\ m \in Nat
      /\ DOMAIN s = 1..n /\ DOMAIN r = 1..m /\ DOMAIN c = 1..(n + m)
      /\ \A i \in 1..n : c[i] = s[i]
      /\ \A i \in 1..m : c[n + i] = r[i]
  OBVIOUS
<1> HIDE DEF c, n, m
<1>2. ASSUME NEW i \in DOMAIN c
      PROVE  \/ i \in DOMAIN s /\ c[i] = s[i]
             \/ i - n \in DOMAIN r /\ c[i] = r[i - n] /\ i > n
  <2>1. CASE i \in 1..n
    BY <1>1, <2>1
  <2>2. CASE i \notin 1..n
    <3>1. i - n \in 1..m /\ n + (i - n) = i
      BY <1>1, <2>2
    <3> QED BY <3>1, <1>1, <2>2
  <2> QED BY <2>1, <2>2
<1>3. NoDuplicates(c)
  <2> SUFFICES ASSUME NEW i \in DOMAIN c, NEW j \in DOMAIN c, c[i] = c[j]
               PROVE  i = j
    BY DEF NoDuplicates
  <2>1. i \in Int /\ j \in Int /\ n \in Int
    BY <1>1
  <2> QED BY <1>2, <2>1 DEF ToSet, NoDuplicates
<1>4. ToSet(c) = ToSet(s) \cup ToSet(r)
  <2>1. ToSet(c) \subseteq ToSet(s) \cup ToSet(r)
    BY <1>2 DEF ToSet
  <2>2. ToSet(s) \subseteq ToSet(c)
    BY <1>1 DEF ToSet
  <2>3. ASSUME NEW i \in DOMAIN r PROVE r[i] \in ToSet(c)
    <3>1. n + i \in DOMAIN c /\ c[n + i] = r[i]
      BY <1>1
    <3> QED BY <3>1 DEF ToSet
  <2> QED BY <2>1, <2>2, <2>3 DEF ToSet
<1> QED BY <1>1, <1>3, <1>4 DEF c

-----------------------------------------------------------------------------
(* Type correctness.                                                       *)

(* Sessions stay sessions whichever field a move changes.                  *)
LEMMA SessionTypes ==
    /\ NoAgent \in AgentSession /\ FreshAgent \in AgentSession
    /\ NoView \in [TaskIds -> AgentSession]
    /\ \A a \in AgentSession : Stopped(a) \in AgentSession
<1>1. NoAgent \in AgentSession
  BY DEF NoAgent, AgentSession
<1>2. FreshAgent \in AgentSession
  <2> DEFINE a == NoAgent
  <2>1. a \in AgentSession
    BY <1>1
  <2> HIDE DEF a
  <2>2. [a EXCEPT !.state = "Starting", !.exited = FALSE, !.pump = TRUE]
           \in AgentSession
    BY <2>1 DEF AgentSession, LiveStates
  <2> QED BY <2>2 DEF a, FreshAgent
<1>3. \A a \in AgentSession : Stopped(a) \in AgentSession
  BY DEF Stopped, AgentSession, LiveStates, TerminalStates
<1> QED BY <1>1, <1>2, <1>3 DEF NoView

LEMMA SessionMoves ==
    ASSUME NEW a \in AgentSession
    PROVE  /\ \A s \in LiveStates : [a EXCEPT !.state = s] \in AgentSession
           /\ [a EXCEPT !.exited = TRUE] \in AgentSession
           /\ [a EXCEPT !.pump = FALSE] \in AgentSession
           /\ \A c \in ExitCodes, s \in TerminalStates :
                [a EXCEPT !.pump = FALSE, !.code = c, !.state = s] \in AgentSession
  BY DEF AgentSession

LEMMA TransitionTypes ==
    ASSUME NEW st \in [TaskIds -> TaskStatus], NEW t \in TaskIds,
           NEW to \in TaskStatus
    PROVE  Transition(st, t, to) \in [TaskIds -> TaskStatus]
  BY DEF Transition

LEMMA TasksAreIds ==
    ASSUME TypeOK PROVE Tasks \subseteq TaskIds
  BY MaxTasksAssumption DEF TypeOK, Tasks, TaskIds

LEMMA TypeInit == Init => TypeOK
<1> SUFFICES ASSUME Init PROVE TypeOK
  OBVIOUS
<1>1. /\ deps \in [TaskIds -> SUBSET Tasks] /\ status \in [TaskIds -> TaskStatus]
      /\ error \in [TaskIds -> {"none", "failure", "budget", "artifact"}]
      /\ attempts \in [TaskIds -> Int] /\ review \in [TaskIds -> BOOLEAN]
  BY DEF Init, TaskStatus
<1>2. agent \in [TaskIds -> AgentSession] /\ view \in [TaskIds -> AgentSession]
  BY SessionTypes DEF Init
<1>3. /\ queue \in Seq(Tasks) /\ running \in Seq(Tasks)
      /\ todo \in Seq(Tasks) /\ cmds \in Seq(Tasks)
  BY DEF Init
<1>4. /\ count \in 0..MaxTasks /\ cursor \in 1..(MaxTasks + 1)
      /\ userStops \in 0..MaxUserStops /\ removals \in 0..MaxRemovals
      /\ cost \in Nat
  BY MaxTasksAssumption, BoundsAssumption DEF Init
<1> QED BY <1>1, <1>2, <1>3, <1>4 DEF Init, TypeOK

(* The fields that cancelling a task and failing it touch.                 *)
LEMMA CancelTypes ==
    ASSUME TypeOK, NEW t \in Tasks, Cancel(t)
    PROVE  /\ status' \in [TaskIds -> TaskStatus]
           /\ queue' \in Seq(Tasks) /\ running' \in Seq(Tasks)
           /\ UNCHANGED <<cost, error, attempts, result>>
<1>1. status \in [TaskIds -> TaskStatus] /\ queue \in Seq(Tasks) /\ running \in Seq(Tasks)
  BY DEF TypeOK
<1>2. t \in TaskIds /\ "Cancelled" \in TaskStatus
  BY TasksAreIds DEF TaskStatus
<1>3. status' \in [TaskIds -> TaskStatus]
  BY <1>1, <1>2, TransitionTypes DEF Cancel
<1>4. queue' \in Seq(Tasks) /\ running' \in Seq(Tasks)
  BY <1>1, WithoutFacts DEF Cancel
<1> QED BY <1>3, <1>4 DEF Cancel

LEMMA FailTypes ==
    ASSUME TypeOK, NEW t \in Tasks, NEW class, NEW n \in Int, Fail(t, class, n)
    PROVE  /\ status' \in [TaskIds -> TaskStatus]
           /\ queue' \in Seq(Tasks)
           /\ attempts' \in [TaskIds -> Int]
           /\ error' \in [TaskIds -> {"none", "failure", "budget", "artifact"}]
<1>1. t \in TaskIds
  BY TasksAreIds
<1>2. queue' \in Seq(Tasks)
  <2>1. queue \in Seq(Tasks) /\ (queue' = Append(queue, t) \/ queue' = queue)
    BY DEF TypeOK, Fail
  <2> QED BY <2>1, AppendFacts
<1>3. status' \in [TaskIds -> TaskStatus]
  BY <1>1 DEF TypeOK, Fail, TaskStatus
<1>4. /\ attempts' \in [TaskIds -> Int]
      /\ error' \in [TaskIds -> {"none", "failure", "budget", "artifact"}]
  BY <1>1 DEF TypeOK, Fail
<1> QED BY <1>2, <1>3, <1>4

(* The agents' own moves change nothing but sessions and their counters.   *)
LEMMA AgentsTypes ==
    ASSUME TypeOK, Agents \/ DeferTimerElapses
    PROVE  TypeOK'
<1>1. CASE DeferTimerElapses
  BY <1>1 DEF DeferTimerElapses, TypeOK, Tasks, graphVars, taskVars, schedVars,
              setVars, callVars, boundVars
<1>2. ASSUME NEW t \in Tasks,
             \/ \E s \in {"Working", "Waiting"} : AgentReports(t, s)
             \/ AgentExits(t)
             \/ \E c \in ExitCodes : PumpEnds(t, c)
             \/ UserStopsAgent(t)
             \/ RemoveAgent(t)
      PROVE  TypeOK'
  <2>1. t \in TaskIds /\ agent \in [TaskIds -> AgentSession] /\ agent[t] \in AgentSession
    BY TasksAreIds DEF TypeOK
  <2>2. agent' \in [TaskIds -> AgentSession]
    <3>1. ASSUME NEW s \in {"Working", "Waiting"}, AgentReports(t, s)
          PROVE  agent' \in [TaskIds -> AgentSession]
      BY <2>1, <3>1, SessionMoves, Zenon DEF AgentReports, LiveStates
    <3>2. CASE AgentExits(t)
      BY <2>1, <3>2, SessionMoves, Zenon DEF AgentExits
    <3>3. ASSUME NEW c \in ExitCodes, PumpEnds(t, c)
          PROVE  agent' \in [TaskIds -> AgentSession]
      <4>1. FinalState(c) \in TerminalStates
        BY DEF FinalState, TerminalStates
      <4> QED BY <2>1, <3>3, <4>1, SessionMoves, Zenon DEF PumpEnds
    <3>4. CASE UserStopsAgent(t)
      BY <2>1, <3>4, SessionTypes, Zenon DEF UserStopsAgent
    <3>5. CASE RemoveAgent(t)
      BY <2>1, <3>5, SessionTypes, Zenon DEF RemoveAgent
    <3> QED BY <1>2, <3>1, <3>2, <3>3, <3>4, <3>5
  <2>3. userStops' \in 0..MaxUserStops /\ removals' \in 0..MaxRemovals
    <3>1. /\ userStops \in 0..MaxUserStops /\ removals \in 0..MaxRemovals
          /\ MaxUserStops \in Nat /\ MaxRemovals \in Nat
      BY BoundsAssumption DEF TypeOK
    <3>2. \/ UNCHANGED <<userStops, removals>>
          \/ userStops < MaxUserStops /\ userStops' = userStops + 1 /\ removals' = removals
          \/ removals < MaxRemovals /\ removals' = removals + 1 /\ userStops' = userStops
      BY <1>2 DEF AgentReports, AgentExits, PumpEnds, UserStopsAgent, RemoveAgent,
                  boundVars
    <3> QED BY <3>1, <3>2
  <2>4. UNCHANGED <<graphVars, taskVars, schedVars, deferVars, setVars, callVars,
                    forced>>
    BY <1>2 DEF AgentReports, AgentExits, PumpEnds, UserStopsAgent, RemoveAgent
  <2> QED BY <2>2, <2>3, <2>4 DEF TypeOK, Tasks, graphVars, taskVars, schedVars,
             deferVars, setVars, callVars
<1> QED BY <1>1, <1>2 DEF Agents

LEMMA UserTypes ==
    ASSUME TypeOK, UserCalls
    PROVE  TypeOK'
<1> USE DEF Tasks, graphVars, taskVars, schedVars, deferVars, setVars, callVars,
            boundVars
<1>1. ASSUME NEW new \in TaskShapes, new.deps \subseteq Tasks, TaskCreate(new)
      PROVE  TypeOK'
  <2>1. /\ count' = count + 1 /\ count \in 0..MaxTasks /\ count < MaxTasks
        /\ MaxTasks \in Nat /\ new.review \in BOOLEAN
    BY <1>1, MaxTasksAssumption, ShapesAssumption DEF TypeOK, TaskCreate
  <2>2. count' \in 0..MaxTasks /\ Tasks \subseteq Tasks' /\ count + 1 \in TaskIds
    BY <2>1 DEF TaskIds
  <2>3. deps' \in [TaskIds -> SUBSET Tasks'] /\ review' \in [TaskIds -> BOOLEAN]
    BY <1>1, <2>1, <2>2, Zenon DEF TypeOK, TaskCreate
  <2>4. /\ queue' \in Seq(Tasks') /\ running' \in Seq(Tasks')
        /\ todo' \in Seq(Tasks') /\ cmds' \in Seq(Tasks')
    BY <1>1, <2>2 DEF TypeOK, TaskCreate
  <2>5. /\ result' \subseteq Tasks' /\ missing' \subseteq Tasks'
        /\ blockedBy' \subseteq Tasks' /\ forced' \subseteq Tasks'
    BY <1>1, <2>2 DEF TypeOK, TaskCreate
  <2> QED BY <1>1, <2>2, <2>3, <2>4, <2>5 DEF TypeOK, TaskCreate
<1>2. ASSUME NEW p \in Policies, SetTaskPolicy(p) PROVE TypeOK'
  BY <1>2 DEF TypeOK, SetTaskPolicy
<1>3. ASSUME NEW t \in Tasks, NEW b \in BOOLEAN, ResolveTaskReview(t, b)
      PROVE  TypeOK'
  <2>1. t \in TaskIds
    BY TasksAreIds
  <2>2. status' \in [TaskIds -> TaskStatus]
    BY <1>3, <2>1 DEF TypeOK, ResolveTaskReview, TaskStatus
  <2>3. error' \in [TaskIds -> {"none", "failure", "budget", "artifact"}]
    BY <1>3, <2>1 DEF TypeOK, ResolveTaskReview
  <2> QED BY <1>3, <2>2, <2>3, MaxTasksAssumption
          DEF TypeOK, ResolveTaskReview, Enter
<1>4. CASE DrainFrame
  BY <1>4, MaxTasksAssumption DEF TypeOK, DrainFrame, Enter
<1>5. CASE TaskRun
  BY <1>5, MaxTasksAssumption DEF TypeOK, TaskRun, Enter
<1>6. CASE StopAll
  <2>1. agent' \in [TaskIds -> AgentSession]
    BY <1>6, SessionTypes DEF TypeOK, StopAll
  <2> QED BY <1>6, <2>1, MaxTasksAssumption DEF TypeOK, StopAll, Enter
<1>7. ASSUME NEW b \in BOOLEAN, SetPaused(b) PROVE TypeOK'
  BY <1>7 DEF TypeOK, SetPaused
<1>8. ASSUME NEW t \in Tasks, TaskCancel(t) PROVE TypeOK'
  <2>1. t \in TaskIds /\ Cancel(t)
    BY <1>8, TasksAreIds DEF TaskCancel
  <2>2. /\ status' \in [TaskIds -> TaskStatus]
        /\ queue' \in Seq(Tasks) /\ running' \in Seq(Tasks)
        /\ UNCHANGED <<cost, error, attempts, result>>
    BY <2>1, CancelTypes
  <2>3. agent' \in [TaskIds -> AgentSession]
    BY <1>8, <2>1, SessionTypes, Zenon DEF TypeOK, TaskCancel
  <2> QED BY <1>8, <2>2, <2>3, MaxTasksAssumption DEF TypeOK, TaskCancel, Enter
<1>9. ASSUME NEW t \in Tasks, TaskRetry(t) PROVE TypeOK'
  <2>1. t \in TaskIds
    BY TasksAreIds
  <2>2. status' \in [TaskIds -> TaskStatus]
    <3>1. "Ready" \in TaskStatus
      BY DEF TaskStatus
    <3> QED BY <1>9, <2>1, <3>1, TransitionTypes DEF TypeOK, TaskRetry
  <2>3. /\ error' \in [TaskIds -> {"none", "failure", "budget", "artifact"}]
        /\ attempts' \in [TaskIds -> Int]
        /\ result' \subseteq Tasks
    BY <1>9, <2>1 DEF TypeOK, TaskRetry
  <2>4. queue \in Seq(Tasks) /\ (queue' = Append(queue, t) \/ queue' = queue)
    BY <1>9 DEF TypeOK, TaskRetry
  <2>5. queue' \in Seq(Tasks)
    <3> HIDE DEF Tasks
    <3> QED BY <2>4, AppendFacts
  <2>6. /\ phase' \in {"idle", "view"} /\ cursor' \in 1..(MaxTasks + 1)
        /\ UNCHANGED <<todo, view, blockedBy, cmds>>
        /\ forced' \subseteq Tasks
    <3>1. /\ forced \subseteq Tasks /\ cursor \in 1..(MaxTasks + 1)
          /\ 1 \in 1..(MaxTasks + 1)
      BY MaxTasksAssumption DEF TypeOK
    <3>2. CASE can_transition(status[t], "Ready")
      <4>1. Enter("view") /\ (forced' = forced \ {t} \/ forced' = forced \cup {t})
        BY <1>9, <3>2, Zenon DEF TaskRetry
      <4> QED BY <3>1, <4>1 DEF Enter
    <3>3. CASE ~can_transition(status[t], "Ready")
      <4>1. phase = "idle" /\ UNCHANGED <<queue, forced, callVars>>
        BY <1>9, <3>3, Zenon DEF TaskRetry
      <4> QED BY <3>1, <4>1
    <3> QED BY <3>2, <3>3
  <2>7. UNCHANGED <<graphVars, deferVars, setVars, boundVars, agent, running, cost>>
    BY <1>9 DEF TaskRetry
  <2> QED BY <2>2, <2>3, <2>5, <2>6, <2>7 DEF TypeOK
<1>10. ASSUME NEW t \in Tasks, InvalidateTask(t) PROVE TypeOK'
  <2>1. t \in TaskIds /\ "Failed" \in TaskStatus
    BY TasksAreIds DEF TaskStatus
  <2>2. status' \in [TaskIds -> TaskStatus]
    BY <1>10, <2>1, TransitionTypes DEF TypeOK, InvalidateTask
  <2>3. error' \in [TaskIds -> {"none", "failure", "budget", "artifact"}]
    BY <1>10, <2>1 DEF TypeOK, InvalidateTask
  <2> QED BY <1>10, <2>2, <2>3 DEF TypeOK, InvalidateTask
<1>11. ASSUME NEW t \in Tasks, AddInputArtifact(t) \/ ArtifactRegistered(t)
       PROVE  TypeOK'
  BY <1>11 DEF TypeOK, AddInputArtifact, ArtifactRegistered
<1>12. ASSUME NEW t \in Tasks, NEW d \in Tasks,
              AddDependency(t, d) \/ RemoveDependency(t, d)
       PROVE  TypeOK'
  <2>1. t \in TaskIds
    BY TasksAreIds
  <2>2. deps' \in [TaskIds -> SUBSET Tasks] /\ forced' \subseteq Tasks
    <3>1. deps \in [TaskIds -> SUBSET Tasks] /\ forced \subseteq Tasks
      BY DEF TypeOK
    <3>2. CASE AddDependency(t, d)
      BY <2>1, <3>1, <3>2, Zenon DEF AddDependency
    <3>3. CASE RemoveDependency(t, d)
      BY <2>1, <3>1, <3>3 DEF RemoveDependency
    <3> QED BY <1>12, <3>2, <3>3
  <2>3. UNCHANGED <<taskVars, schedVars, deferVars, setVars, callVars, boundVars,
                    agent, count, review, missing>>
    BY <1>12 DEF AddDependency, RemoveDependency
  <2> QED BY <2>2, <2>3 DEF TypeOK
<1> QED BY <1>1, <1>2, <1>3, <1>4, <1>5, <1>6, <1>7, <1>8, <1>9, <1>10, <1>11,
           <1>12 DEF UserCalls

LEMMA PassTypes ==
    ASSUME TypeOK, Pass
    PROVE  TypeOK'
<1> USE DEF graphVars, taskVars, schedVars, deferVars, setVars, boundVars, frameFixed
<1>0. Tasks' = Tasks
  BY DEF Pass, StopAllCancels, TakeView, ObserveDefers, ObserveSettles, SettleEnds,
     ClassifyEnds, StartEnds, ExecEnds, SettleOne, ClassifyOne, StartOne, SpawnOne,
     SettleVanished, SettleFailed, SettleCompleted, SettleWaiting, SettleWorking,
     ClassifyReady, ClassifyDownstream, ClassifyLeaves, StartOverBudget,
     StartMissingInput, StartTask, SpawnSucceeds, SpawnFails, Settling,
     Classifying, Starting, Spawning, Tasks
<1>a. /\ MaxTasks \in Nat /\ count \in 0..MaxTasks /\ cursor \in 1..(MaxTasks + 1)
      /\ \A t \in Tasks : t \in TaskIds
  BY MaxTasksAssumption, TasksAreIds DEF TypeOK
<1>1. CASE StopAllCancels
  <2>1. CASE cursor > count
    BY <1>0, <1>1, <2>1 DEF TypeOK, StopAllCancels
  <2>2. CASE ~(cursor > count)
    <3>1. cursor \in Tasks /\ cursor + 1 \in 1..(MaxTasks + 1)
      BY <1>a, <2>2 DEF Tasks
    <3>2. CASE Cancel(cursor)
      <4>1. /\ status' \in [TaskIds -> TaskStatus]
            /\ queue' \in Seq(Tasks) /\ running' \in Seq(Tasks)
            /\ UNCHANGED <<cost, error, attempts, result>>
        BY <3>1, <3>2, CancelTypes
      <4> QED BY <1>0, <1>1, <2>2, <3>1, <4>1 DEF TypeOK, StopAllCancels
    <3>3. CASE UNCHANGED <<taskVars, schedVars>>
      BY <1>0, <1>1, <2>2, <3>1, <3>3 DEF TypeOK, StopAllCancels
    <3> QED BY <1>1, <2>2, <3>2, <3>3, Zenon DEF StopAllCancels
  <2> QED BY <2>1, <2>2
<1>2. CASE TakeView
  <2>1. view' \in [TaskIds -> AgentSession]
    BY <1>2, SessionTypes DEF TypeOK, TakeView
  <2> QED BY <1>0, <1>2, <2>1 DEF TypeOK, TakeView
<1>3. CASE ObserveDefers
  BY <1>0, <1>3, <1>a DEF TypeOK, ObserveDefers
<1>4. CASE ObserveSettles
  <2>1. running' \in Seq(Tasks)
    BY <1>4 DEF ObserveSettles
  <2> QED BY <1>0, <1>4, <2>1 DEF TypeOK, ObserveSettles
<1>5. CASE SettleEnds \/ ClassifyEnds \/ StartEnds \/ ExecEnds
  <2>1. /\ phase' \in {"idle", "view", "classify", "start", "exec"}
        /\ cursor' \in 1..(MaxTasks + 1)
        /\ (view' = view \/ view' = NoView) /\ (blockedBy' = blockedBy \/ blockedBy' = {})
        /\ UNCHANGED <<frameFixed, taskVars, schedVars, deferVars, agent, forced,
                       todo, cmds>>
    BY <1>5, <1>a DEF SettleEnds, ClassifyEnds, StartEnds, ExecEnds, Return
  <2> QED BY <1>0, <2>1, SessionTypes DEF TypeOK
<1>6. ASSUME NEW t \in Tasks, SettleOne(t) PROVE TypeOK'
  <2>1. Settling(t)
    BY <1>6 DEF SettleOne, SettleVanished, SettleFailed, SettleCompleted,
                SettleWaiting, SettleWorking
  <2>2. todo' \in Seq(Tasks)
    BY <2>1, TailFacts DEF TypeOK, Settling
  <2>3. CASE SettleVanished(t) \/ SettleFailed(t)
    <3>1. attempts[t] \in Int
      BY <1>a DEF TypeOK
    <3>2. PICK class : Fail(t, class, attempts[t])
      BY <2>3 DEF SettleVanished, SettleFailed
    <3>3. /\ status' \in [TaskIds -> TaskStatus]
          /\ queue' \in Seq(Tasks)
          /\ attempts' \in [TaskIds -> Int]
          /\ error' \in [TaskIds -> {"none", "failure", "budget", "artifact"}]
      BY <3>1, <3>2, FailTypes
    <3> QED BY <1>0, <2>1, <2>2, <2>3, <3>3
            DEF TypeOK, Settling, SettleVanished, SettleFailed
  <2>4. CASE SettleCompleted(t)
    <3>1. cost' \in Nat
      BY <2>4, CostsAssumption DEF TypeOK, SettleCompleted
    <3>2. "NeedsReview" \in TaskStatus /\ "Completed" \in TaskStatus
      BY DEF TaskStatus
    <3>3. status' \in [TaskIds -> TaskStatus]
      BY <1>a, <2>4, <3>2, TransitionTypes DEF TypeOK, SettleCompleted
    <3> QED BY <1>0, <2>1, <2>2, <2>4, <3>1, <3>3 DEF TypeOK, Settling, SettleCompleted
  <2>5. CASE SettleWaiting(t)
    <3>1. status' \in [TaskIds -> TaskStatus]
      BY <1>a, <2>5 DEF TypeOK, SettleWaiting, TaskStatus
    <3>2. running' \in Seq(Tasks)
      BY <2>5, AppendFacts DEF TypeOK, SettleWaiting
    <3> QED BY <1>0, <2>1, <2>2, <2>5, <3>1, <3>2 DEF TypeOK, Settling, SettleWaiting
  <2>6. CASE SettleWorking(t)
    <3>1. running' \in Seq(Tasks)
      BY <2>6, AppendFacts DEF TypeOK, SettleWorking
    <3> QED BY <1>0, <2>1, <2>2, <2>6, <3>1 DEF TypeOK, Settling, SettleWorking
  <2> QED BY <1>6, <2>3, <2>4, <2>5, <2>6 DEF SettleOne
<1>7. ASSUME NEW t \in Tasks, ClassifyOne(t) PROVE TypeOK'
  <2>1. /\ Classifying(t)
        /\ \/ queue' = queue /\ status' = status
           \/ queue' = queue /\ \E to \in TaskStatus : status' = Transition(status, t, to)
           \/ queue' = Append(queue, t) /\ status' = [status EXCEPT ![t] = "Ready"]
    BY <1>7 DEF ClassifyOne, ClassifyReady, ClassifyDownstream, ClassifyLeaves,
                TaskStatus
  <2>2. status' \in [TaskIds -> TaskStatus]
    <3>1. status \in [TaskIds -> TaskStatus] /\ t \in TaskIds /\ "Ready" \in TaskStatus
      BY <1>a DEF TypeOK, TaskStatus
    <3> QED BY <2>1, <3>1, TransitionTypes
  <2>3. queue' \in Seq(Tasks)
    <3>1. queue \in Seq(Tasks) /\ (queue' = Append(queue, t) \/ queue' = queue)
      BY <2>1 DEF TypeOK
    <3> QED BY <3>1, AppendFacts
  <2>4. cursor' \in 1..(MaxTasks + 1)
    BY <1>a, <2>1 DEF Classifying
  <2> QED BY <1>0, <2>1, <2>2, <2>3, <2>4 DEF TypeOK, Classifying
<1>8. ASSUME NEW t \in Tasks, StartOne(t) PROVE TypeOK'
  <2>1. Starting(t)
    BY <1>8 DEF StartOne, StartOverBudget, StartMissingInput, StartTask
  <2>2. queue' \in Seq(Tasks)
    BY <2>1, TailFacts DEF TypeOK, Starting
  <2>3. /\ status' \in [TaskIds -> TaskStatus]
        /\ error' \in [TaskIds -> {"none", "failure", "budget", "artifact"}]
        /\ attempts' \in [TaskIds -> Int]
    <3>1. /\ t \in TaskIds /\ status \in [TaskIds -> TaskStatus]
          /\ error \in [TaskIds -> {"none", "failure", "budget", "artifact"}]
          /\ attempts \in [TaskIds -> Int]
          /\ {"Blocked", "Running"} \subseteq TaskStatus
      BY <1>a DEF TypeOK, TaskStatus
    <3>2. CASE StartOverBudget(t)
      BY <3>1, <3>2 DEF StartOverBudget, BlockFor
    <3>3. CASE StartMissingInput(t)
      BY <3>1, <3>3 DEF StartMissingInput, BlockFor
    <3>4. CASE StartTask(t)
      BY <3>1, <3>4 DEF StartTask
    <3> QED BY <1>8, <3>2, <3>3, <3>4 DEF StartOne
  <2>4. cmds' \in Seq(Tasks)
    <3>1. cmds \in Seq(Tasks) /\ (cmds' = Append(cmds, t) \/ cmds' = cmds)
      BY <1>8 DEF TypeOK, StartOne, StartOverBudget, StartMissingInput, StartTask,
                  BlockFor
    <3> QED BY <3>1, AppendFacts
  <2> QED BY <1>0, <2>1, <2>2, <2>3, <2>4 DEF TypeOK, Starting
<1>9. ASSUME NEW t \in Tasks, SpawnOne(t) PROVE TypeOK'
  <2>1. Spawning(t)
    BY <1>9 DEF SpawnOne, SpawnSucceeds, SpawnFails
  <2>2. cmds' \in Seq(Tasks)
    BY <2>1, TailFacts DEF TypeOK, Spawning
  <2>3. CASE SpawnSucceeds(t)
    <3>1. agent' \in [TaskIds -> AgentSession]
      BY <2>3, SessionTypes, Zenon DEF TypeOK, SpawnSucceeds
    <3>2. running' \in Seq(Tasks)
      BY <2>3, AppendFacts DEF TypeOK, SpawnSucceeds
    <3> QED BY <1>0, <2>1, <2>2, <2>3, <3>1, <3>2 DEF TypeOK, Spawning, SpawnSucceeds
  <2>4. CASE SpawnFails(t)
    <3>1. attempts[t] - 1 \in Int
      BY <1>a DEF TypeOK
    <3>2. /\ status' \in [TaskIds -> TaskStatus]
          /\ queue' \in Seq(Tasks)
          /\ attempts' \in [TaskIds -> Int]
          /\ error' \in [TaskIds -> {"none", "failure", "budget", "artifact"}]
      BY <2>4, <3>1, FailTypes DEF SpawnFails
    <3> QED BY <1>0, <2>1, <2>2, <2>4, <3>2 DEF TypeOK, Spawning, SpawnFails
  <2> QED BY <1>9, <2>3, <2>4 DEF SpawnOne
<1> QED BY <1>1, <1>2, <1>3, <1>4, <1>5, <1>6, <1>7, <1>8, <1>9 DEF Pass

(* Every variable of the scheduler and of the engine around it keeps its   *)
(* type: no loop of a call runs past the tasks, and no list ever holds a   *)
(* task that does not exist.                                               *)
THEOREM TypeCorrect == Spec => []TypeOK
<1>1. Init => TypeOK
  BY TypeInit
<1>2. TypeOK /\ [Next]_vars => TypeOK'
  <2> SUFFICES ASSUME TypeOK, [Next]_vars PROVE TypeOK'
    OBVIOUS
  <2>1. CASE Agents \/ DeferTimerElapses
    BY <2>1, AgentsTypes
  <2>2. CASE UserCalls
    BY <2>2, UserTypes
  <2>3. CASE Pass
    BY <2>3, PassTypes
  <2>4. CASE UNCHANGED vars
    BY <2>4 DEF vars, TypeOK, Tasks, graphVars, taskVars, schedVars, deferVars,
                setVars, callVars, boundVars
  <2> QED BY <2>1, <2>2, <2>3, <2>4 DEF Next
<1> QED BY <1>1, <1>2, PTL DEF Spec

-----------------------------------------------------------------------------
(***************************************************************************)
(* The books agree.  QueueIsReady and RunningIsTracked are not inductive:  *)
(* that a retried task is not queued twice rests on its having been held,  *)
(* and in one list only, until the moment it failed.  IInv says of the     *)
(* three lists separately what RunningIsTracked says of their              *)
(* concatenation, and adds which lists are empty in which phase, and that  *)
(* task numbers not yet given out are Pending.                             *)
(***************************************************************************)
CallLocals == /\ phase # "settle" => todo = <<>>
              /\ phase \notin {"start", "exec"} => cmds = <<>>

Fresh == \A t \in TaskIds \ Tasks : status[t] = "Pending"

Separate == /\ NoDuplicates(running) /\ NoDuplicates(todo) /\ NoDuplicates(cmds)
            /\ ToSet(running) \cap ToSet(todo) = {}
            /\ Held \cap ToSet(cmds) = {}

HeldIsActive == /\ \A t \in Held : status[t] \in {"Running", "Waiting"}
                /\ \A t \in ToSet(cmds) : status[t] = "Running"

ActiveIsHeld == \A t \in Tasks :
                   /\ status[t] = "Running" => t \in Tracked
                   /\ status[t] = "Waiting" => t \in Held \cup result

Books == Fresh /\ Separate /\ HeldIsActive /\ ActiveIsHeld /\ QueueIsReady

IInv == TypeOK /\ CallLocals /\ Books

bookVars == <<count, status, result, queue, running, todo, cmds>>

LEMMA EmptyList == ToSet(<<>>) = {} /\ NoDuplicates(<<>>)
  BY DEF ToSet, NoDuplicates

LEMMA BooksInit == Init => CallLocals /\ Books
  BY EmptyList, MaxTasksAssumption
     DEF Init, CallLocals, Books, Fresh, Separate, HeldIsActive, ActiveIsHeld,
         QueueIsReady, Held, Tracked, Tasks, TaskIds

(* A step that touches neither the statuses nor the lists.                 *)
LEMMA BooksQuiet ==
    ASSUME Books, UNCHANGED bookVars
    PROVE  Books'
  BY DEF Books, bookVars, Fresh, Separate, HeldIsActive, ActiveIsHeld,
         QueueIsReady, Held, Tracked, Tasks

LEMMA ToSetTasks ==
    ASSUME NEW s \in Seq(Tasks) PROVE ToSet(s) \subseteq Tasks
  BY DEF ToSet

(* TaskScheduler::cancel keeps the books.                                  *)
LEMMA BooksCancel ==
    ASSUME TypeOK, Books, NEW t \in Tasks, Cancel(t), todo = <<>>, cmds = <<>>,
           UNCHANGED <<count, todo, cmds>>
    PROVE  Books'
<1>1. /\ queue \in Seq(Tasks) /\ running \in Seq(Tasks)
      /\ status \in [TaskIds -> TaskStatus] /\ t \in TaskIds /\ Tasks \subseteq TaskIds
  BY TasksAreIds DEF TypeOK
<1>2. Tasks' = Tasks /\ result' = result /\ ToSet(todo) = {} /\ ToSet(cmds) = {}
  BY EmptyList DEF Tasks, Cancel
<1>3. \A u \in TaskIds : u # t => status'[u] = status[u]
  BY <1>1 DEF Cancel, Transition
<1>4. \/ status'[t] = "Cancelled"
      \/ status'[t] = status[t] /\ status[t] \notin {"Ready", "Running", "Waiting"}
  BY <1>1 DEF Cancel, Transition, can_transition
<1>5. CASE status[t] \in {"Running", "Waiting"}
  <2>1. /\ NoDuplicates(running') /\ ToSet(running') = ToSet(running) \ {t}
        /\ queue' = queue
    BY <1>1, <1>5, WithoutFacts DEF Books, Separate, Cancel
  <2>2. t \notin ToSet(queue)
    BY <1>5 DEF Books, QueueIsReady
  <2>3. Fresh' /\ Separate'
    BY <1>1, <1>2, <1>3, <1>5, <2>1 DEF Books, Fresh, Separate, Held
  <2>4. HeldIsActive'
    BY <1>1, <1>2, <1>3, <1>5, <2>1, <2>2, ToSetTasks DEF Books, HeldIsActive, Held
  <2>5. ActiveIsHeld'
    BY <1>1, <1>2, <1>3, <1>4, <1>5, <2>1 DEF Books, ActiveIsHeld, Held, Tracked
  <2>6. QueueIsReady'
    BY <1>1, <1>2, <1>3, <1>4, <1>5, <2>1, <2>2 DEF Books, QueueIsReady
  <2> QED BY <2>3, <2>4, <2>5, <2>6 DEF Books
<1>6. CASE status[t] \notin {"Running", "Waiting"}
  <2>1. /\ NoDuplicates(queue') /\ ToSet(queue') = ToSet(queue) \ {t}
        /\ running' = running
    BY <1>1, <1>6, WithoutFacts DEF Books, QueueIsReady, Cancel
  <2>2. t \notin ToSet(running)
    BY <1>6 DEF Books, HeldIsActive, Held
  <2>3. Fresh' /\ Separate'
    BY <1>1, <1>2, <1>3, <1>6, <2>1 DEF Books, Fresh, Separate, Held
  <2>4. HeldIsActive'
    BY <1>1, <1>2, <1>3, <1>6, <2>1, <2>2, ToSetTasks DEF Books, HeldIsActive, Held
  <2>5. ActiveIsHeld'
    BY <1>1, <1>2, <1>3, <1>4, <1>6, <2>1 DEF Books, ActiveIsHeld, Held, Tracked
  <2>6. QueueIsReady'
    BY <1>1, <1>2, <1>3, <1>4, <1>6, <2>1, <2>2 DEF Books, QueueIsReady
  <2> QED BY <2>3, <2>4, <2>5, <2>6 DEF Books
<1> QED BY <1>5, <1>6

(* A task nobody holds moves between statuses that concern no list.        *)
Unlisted == TaskStatus \ {"Ready", "Running", "Waiting"}

LEMMA BooksUnlisted ==
    ASSUME TypeOK, Books, NEW t \in Tasks, status[t] \in Unlisted,
           NEW to \in Unlisted, status' = [status EXCEPT ![t] = to],
           UNCHANGED <<count, queue, running, todo, cmds, result>>
    PROVE  Books'
<1>1. /\ status \in [TaskIds -> TaskStatus] /\ t \in TaskIds /\ Tasks \subseteq TaskIds
  BY TasksAreIds DEF TypeOK
<1>2. Tasks' = Tasks
  BY DEF Tasks
<1>3. status'[t] = to /\ \A u \in TaskIds : u # t => status'[u] = status[u]
  BY <1>1
<1>4. t \notin ToSet(queue) /\ t \notin Held /\ t \notin ToSet(cmds)
  BY DEF Books, HeldIsActive, QueueIsReady, Unlisted
<1> QED BY <1>1, <1>2, <1>3, <1>4
        DEF Books, Fresh, Separate, HeldIsActive, ActiveIsHeld, QueueIsReady,
            Held, Tracked, Unlisted

(* ... or becomes Ready and is queued.                                     *)
LEMMA BooksQueued ==
    ASSUME TypeOK, Books, NEW t \in Tasks, status[t] \in Unlisted,
           status' = [status EXCEPT ![t] = "Ready"], queue' = Append(queue, t),
           result' = result \/ result' = result \ {t},
           UNCHANGED <<count, running, todo, cmds>>
    PROVE  Books'
<1>1. /\ status \in [TaskIds -> TaskStatus] /\ t \in TaskIds /\ Tasks \subseteq TaskIds
      /\ queue \in Seq(Tasks)
  BY TasksAreIds DEF TypeOK
<1>2. Tasks' = Tasks
  BY DEF Tasks
<1>3. status'[t] = "Ready" /\ \A u \in TaskIds : u # t => status'[u] = status[u]
  BY <1>1
<1>4. t \notin ToSet(queue) /\ t \notin Held /\ t \notin ToSet(cmds)
  BY DEF Books, HeldIsActive, QueueIsReady, Unlisted
<1>5. ToSet(queue') = ToSet(queue) \cup {t} /\ NoDuplicates(queue')
  BY <1>1, <1>4, AppendFacts DEF Books, QueueIsReady
<1> QED BY <1>1, <1>2, <1>3, <1>4, <1>5
        DEF Books, Fresh, Separate, HeldIsActive, ActiveIsHeld, QueueIsReady,
            Held, Tracked, Unlisted

(* A held task leaves its list: it is over, it is queued again, or it is   *)
(* left Waiting with its result.                                           *)
LEMMA BooksReleased ==
    ASSUME TypeOK, Books, NEW t \in Tasks, status[t] \in {"Running", "Waiting"},
           Separate', Held' = Held \ {t}, ToSet(cmds)' = ToSet(cmds) \ {t},
           count' = count, result \subseteq result',
           \/ queue' = queue /\ \E to \in Unlisted : status' = [status EXCEPT ![t] = to]
           \/ queue' = Append(queue, t) /\ status' = [status EXCEPT ![t] = "Ready"]
           \/ queue' = queue /\ status' = status /\ status[t] = "Waiting" /\ t \in result'
    PROVE  Books'
<1>1. /\ status \in [TaskIds -> TaskStatus] /\ t \in TaskIds /\ Tasks \subseteq TaskIds
      /\ queue \in Seq(Tasks) /\ Tasks' = Tasks
  BY TasksAreIds DEF TypeOK, Tasks
<1>2. \A u \in TaskIds : u # t => status'[u] = status[u]
  BY <1>1
<1>3. t \notin ToSet(queue)
  BY DEF Books, QueueIsReady
<1>4. \/ queue' = queue /\ status'[t] \in Unlisted
      \/ /\ NoDuplicates(queue') /\ ToSet(queue') = ToSet(queue) \cup {t}
         /\ status'[t] = "Ready"
      \/ queue' = queue /\ status'[t] = "Waiting" /\ t \in result'
  <2>1. NoDuplicates(queue)
    BY DEF Books, QueueIsReady
  <2>2. ASSUME queue' = Append(queue, t)
        PROVE  NoDuplicates(queue') /\ ToSet(queue') = ToSet(queue) \cup {t}
    BY <1>1, <1>3, <2>1, <2>2, AppendFacts
  <2>3. ASSUME NEW to, status' = [status EXCEPT ![t] = to] PROVE status'[t] = to
    BY <1>1, <2>3
  <2> QED BY <2>2, <2>3
<1>5. Fresh'
  BY <1>1, <1>2 DEF Books, Fresh
<1>6. HeldIsActive'
  <2>1. Held \subseteq Tasks /\ ToSet(cmds) \subseteq Tasks
    BY ToSetTasks DEF TypeOK, Held
  <2> QED BY <1>1, <1>2, <2>1 DEF Books, HeldIsActive
<1>7. ActiveIsHeld'
  BY <1>1, <1>2, <1>4 DEF Books, ActiveIsHeld, Tracked, Unlisted
<1>8. QueueIsReady'
  BY <1>1, <1>2, <1>3, <1>4 DEF Books, QueueIsReady, Unlisted
<1> QED BY <1>5, <1>6, <1>7, <1>8 DEF Books

(* A held task stays held, in another list perhaps, and may start waiting. *)
LEMMA BooksKept ==
    ASSUME TypeOK, Books, NEW t \in Tasks, t \in Held',
           Separate', Held \subseteq Held', Held' \subseteq Held \cup {t},
           ToSet(cmds)' = ToSet(cmds) \ {t}, status[t] \in {"Running", "Waiting"},
           UNCHANGED <<count, result, queue>>,
           \/ status' = status
           \/ status[t] = "Running" /\ status' = [status EXCEPT ![t] = "Waiting"]
    PROVE  Books'
<1>1. /\ status \in [TaskIds -> TaskStatus] /\ t \in TaskIds /\ Tasks \subseteq TaskIds
      /\ Tasks' = Tasks
  BY TasksAreIds DEF TypeOK, Tasks
<1>2. /\ \A u \in TaskIds : u # t => status'[u] = status[u]
      /\ status'[t] \in {"Running", "Waiting"}
  BY <1>1
<1>3. Held \subseteq Tasks /\ ToSet(cmds) \subseteq Tasks
  BY ToSetTasks DEF TypeOK, Held
<1>4. Fresh'
  BY <1>1, <1>2 DEF Books, Fresh
<1>5. HeldIsActive'
  BY <1>1, <1>2, <1>3 DEF Books, HeldIsActive
<1>6. ActiveIsHeld'
  BY <1>1, <1>2 DEF Books, ActiveIsHeld, Tracked
<1>7. QueueIsReady'
  BY <1>1, <1>2 DEF Books, QueueIsReady
<1> QED BY <1>4, <1>5, <1>6, <1>7 DEF Books

(* One iteration of the loop over running.                                 *)
LEMMA SettleBooks ==
    ASSUME IInv, NEW t \in Tasks, SettleOne(t)
    PROVE  Books'
<1>1. TypeOK /\ Books /\ Settling(t)
  BY DEF IInv, SettleOne, SettleVanished, SettleFailed, SettleCompleted,
         SettleWaiting, SettleWorking
<1>2. /\ phase = "settle" /\ todo # <<>> /\ t = Head(todo) /\ todo' = Tail(todo)
      /\ cmds' = cmds /\ cmds = <<>> /\ count' = count
  BY <1>1 DEF Settling, IInv, CallLocals, frameFixed, graphVars
<1>3. /\ NoDuplicates(running) /\ NoDuplicates(todo) /\ NoDuplicates(cmds)
      /\ ToSet(running) \cap ToSet(todo) = {} /\ ToSet(cmds) = {}
      /\ running \in Seq(Tasks) /\ todo \in Seq(Tasks)
  BY <1>1, <1>2, EmptyList DEF Books, Separate, TypeOK
<1>4. /\ t \in ToSet(todo) /\ NoDuplicates(todo')
      /\ ToSet(todo') = ToSet(todo) \ {t}
  BY <1>2, <1>3, TailFacts
<1>5. status[t] \in {"Running", "Waiting"} /\ t \in Held
  BY <1>1, <1>4 DEF Books, HeldIsActive, Held
<1>6. ASSUME running' = running
      PROVE  Separate' /\ Held' = Held \ {t} /\ ToSet(cmds)' = ToSet(cmds) \ {t}
  BY <1>2, <1>3, <1>4, <1>6 DEF Separate, Held
<1>7. ASSUME running' = Append(running, t)
      PROVE  /\ Separate' /\ Held' = Held /\ t \in Held'
             /\ ToSet(cmds)' = ToSet(cmds) \ {t}
  <2>1. NoDuplicates(running') /\ ToSet(running') = ToSet(running) \cup {t}
    BY <1>3, <1>4, <1>7, AppendFacts
  <2> QED BY <1>2, <1>3, <1>4, <2>1 DEF Separate, Held
<1>8. CASE SettleVanished(t) \/ SettleFailed(t)
  <2>1. /\ running' = running /\ result' = result
        /\ \/ queue' = queue /\ status' = [status EXCEPT ![t] = "Failed"]
           \/ queue' = Append(queue, t) /\ status' = [status EXCEPT ![t] = "Ready"]
    BY <1>8 DEF SettleVanished, SettleFailed, Fail
  <2>2. "Failed" \in Unlisted
    BY DEF Unlisted, TaskStatus
  <2> QED BY <1>1, <1>2, <1>5, <1>6, <2>1, <2>2, BooksReleased
<1>9. CASE SettleCompleted(t)
  <2>1. /\ running' = running /\ queue' = queue /\ result \subseteq result'
        /\ t \in result'
        /\ \E to \in {"NeedsReview", "Completed"} : status' = Transition(status, t, to)
    BY <1>9 DEF SettleCompleted
  <2>2. {"NeedsReview", "Completed"} \subseteq Unlisted
    BY DEF Unlisted, TaskStatus
  <2>3. \/ \E to \in Unlisted : status' = [status EXCEPT ![t] = to]
        \/ status' = status /\ status[t] = "Waiting"
    BY <1>5, <2>1, <2>2 DEF Transition, can_transition
  <2> QED BY <1>1, <1>2, <1>5, <1>6, <2>1, <2>3, BooksReleased
<1>10. CASE SettleWaiting(t) \/ SettleWorking(t)
  <2>1. /\ running' = Append(running, t) /\ UNCHANGED <<result, queue>>
        /\ \/ status' = status
           \/ status[t] = "Running" /\ status' = [status EXCEPT ![t] = "Waiting"]
    BY <1>10 DEF SettleWaiting, SettleWorking, taskVars
  <2> QED BY <1>1, <1>2, <1>5, <1>7, <2>1, BooksKept
<1> QED BY <1>8, <1>9, <1>10 DEF SettleOne

(* One SpawnTask command.                                                  *)
LEMMA SpawnBooks ==
    ASSUME IInv, NEW t \in Tasks, SpawnOne(t)
    PROVE  Books'
<1>1. TypeOK /\ Books /\ Spawning(t)
  BY DEF IInv, SpawnOne, SpawnSucceeds, SpawnFails
<1>2. /\ cmds # <<>> /\ t = Head(cmds) /\ cmds' = Tail(cmds)
      /\ todo' = todo /\ count' = count /\ result' = result
  BY <1>1 DEF Spawning, frameFixed, graphVars
<1>3. /\ Separate /\ running \in Seq(Tasks) /\ cmds \in Seq(Tasks)
  BY <1>1 DEF Books, TypeOK
<1>4. /\ t \in ToSet(cmds) /\ NoDuplicates(cmds')
      /\ ToSet(cmds') = ToSet(cmds) \ {t}
  BY <1>2, <1>3, TailFacts DEF Separate
<1>5. status[t] \in {"Running", "Waiting"} /\ t \notin Held
  BY <1>1, <1>3, <1>4 DEF Books, HeldIsActive, Separate
<1>6. CASE SpawnSucceeds(t)
  <2>1. UNCHANGED <<status, queue>> /\ running' = Append(running, t)
    BY <1>6 DEF SpawnSucceeds
  <2>2. NoDuplicates(running') /\ ToSet(running') = ToSet(running) \cup {t}
    BY <1>3, <1>5, <2>1, AppendFacts DEF Separate, Held
  <2>3. Separate' /\ Held' = Held \cup {t}
    BY <1>2, <1>3, <1>4, <1>5, <2>2 DEF Separate, Held
  <2> QED BY <1>1, <1>2, <1>4, <1>5, <2>1, <2>3, BooksKept
<1>7. CASE SpawnFails(t)
  <2>1. /\ running' = running
        /\ \/ queue' = queue /\ status' = [status EXCEPT ![t] = "Failed"]
           \/ queue' = Append(queue, t) /\ status' = [status EXCEPT ![t] = "Ready"]
    BY <1>7 DEF SpawnFails, Fail
  <2>2. "Failed" \in Unlisted
    BY DEF Unlisted, TaskStatus
  <2>3. Separate' /\ Held' = Held \ {t}
    BY <1>2, <1>3, <1>4, <1>5, <2>1 DEF Separate, Held
  <2> QED BY <1>1, <1>2, <1>4, <1>5, <2>1, <2>2, <2>3, BooksReleased
<1> QED BY <1>6, <1>7 DEF SpawnOne

(* One iteration of the start loop: a Ready task leaves the queue.         *)
LEMMA StartBooks ==
    ASSUME IInv, NEW t \in Tasks, StartOne(t)
    PROVE  Books'
<1>1. TypeOK /\ Books /\ Starting(t)
  BY DEF IInv, StartOne, StartOverBudget, StartMissingInput, StartTask
<1>2. /\ queue # <<>> /\ t = Head(queue) /\ queue' = Tail(queue)
      /\ UNCHANGED <<todo, running, count, result>> /\ Tasks' = Tasks
  BY <1>1 DEF Starting, frameFixed, graphVars, Tasks
<1>3. /\ queue \in Seq(Tasks) /\ cmds \in Seq(Tasks)
      /\ status \in [TaskIds -> TaskStatus] /\ t \in TaskIds /\ Tasks \subseteq TaskIds
      /\ Held \subseteq Tasks /\ ToSet(cmds) \subseteq Tasks
  BY <1>1, TasksAreIds, ToSetTasks DEF TypeOK, Held
<1>4. /\ t \in ToSet(queue) /\ NoDuplicates(queue')
      /\ ToSet(queue') = ToSet(queue) \ {t}
  BY <1>1, <1>2, <1>3, TailFacts DEF Books, QueueIsReady
<1>5. status[t] = "Ready" /\ t \notin Held /\ t \notin ToSet(cmds)
  BY <1>1, <1>4 DEF Books, QueueIsReady, HeldIsActive
<1>6. /\ Held' = Held
      /\ \/ cmds' = cmds /\ status' = [status EXCEPT ![t] = "Blocked"]
         \/ cmds' = Append(cmds, t) /\ status' = [status EXCEPT ![t] = "Running"]
  BY <1>2 DEF StartOne, StartOverBudget, StartMissingInput, StartTask, BlockFor, Held
<1>7. /\ \A u \in TaskIds : u # t => status'[u] = status[u]
      /\ NoDuplicates(cmds')
      /\ \/ ToSet(cmds)' = ToSet(cmds) /\ status'[t] = "Blocked"
         \/ ToSet(cmds)' = ToSet(cmds) \cup {t} /\ status'[t] = "Running"
  <2>1. CASE cmds' = cmds /\ status' = [status EXCEPT ![t] = "Blocked"]
    BY <1>1, <1>3, <2>1 DEF Books, Separate
  <2>2. CASE cmds' = Append(cmds, t) /\ status' = [status EXCEPT ![t] = "Running"]
    <3>1. NoDuplicates(cmds') /\ ToSet(cmds') = ToSet(cmds) \cup {t}
      BY <1>1, <1>3, <1>5, <2>2, AppendFacts DEF Books, Separate
    <3> QED BY <1>3, <2>2, <3>1
  <2> QED BY <1>6, <2>1, <2>2
<1>8. Fresh' /\ Separate'
  BY <1>1, <1>2, <1>3, <1>5, <1>6, <1>7 DEF Books, Fresh, Separate
<1>9. HeldIsActive'
  BY <1>1, <1>3, <1>5, <1>6, <1>7 DEF Books, HeldIsActive
<1>10. ActiveIsHeld'
  BY <1>1, <1>2, <1>3, <1>6, <1>7 DEF Books, ActiveIsHeld, Tracked
<1>11. QueueIsReady'
  BY <1>1, <1>2, <1>3, <1>4, <1>7 DEF Books, QueueIsReady
<1> QED BY <1>8, <1>9, <1>10, <1>11 DEF Books

(* One iteration of the classification loop.                               *)
LEMMA ClassifyBooks ==
    ASSUME IInv, NEW t \in Tasks, ClassifyOne(t)
    PROVE  Books'
<1>1. TypeOK /\ Books /\ Classifying(t)
  BY DEF IInv, ClassifyOne, ClassifyReady, ClassifyDownstream, ClassifyLeaves
<1>2. UNCHANGED <<count, result, running, todo, cmds>>
  BY <1>1 DEF Classifying, frameFixed, graphVars
<1>3. CASE ClassifyLeaves(t)
  BY <1>1, <1>2, <1>3, BooksQuiet DEF ClassifyLeaves, bookVars
<1>4. ASSUME Reclassified(t) PROVE status[t] \in Unlisted
  BY <1>4 DEF Reclassified, Unlisted, TaskStatus
<1>5. CASE ClassifyReady(t)
  BY <1>1, <1>2, <1>4, <1>5, BooksQueued DEF ClassifyReady
<1>6. CASE ClassifyDownstream(t)
  <2>1. PICK to \in {"Blocked", "Skipped"} : status' = Transition(status, t, to)
    BY <1>6 DEF ClassifyDownstream
  <2>2. to \in Unlisted
    BY DEF Unlisted, TaskStatus
  <2>3. CASE status' = status
    BY <1>1, <1>2, <1>6, <2>3, BooksQuiet DEF ClassifyDownstream, bookVars
  <2>4. CASE status' = [status EXCEPT ![t] = to]
    BY <1>1, <1>2, <1>4, <1>6, <2>2, <2>4, BooksUnlisted DEF ClassifyDownstream
  <2> QED BY <2>1, <2>3, <2>4 DEF Transition
<1> QED BY <1>3, <1>5, <1>6 DEF ClassifyOne

LEMMA AgentsBooks ==
    ASSUME IInv, Agents \/ DeferTimerElapses
    PROVE  CallLocals' /\ Books'
<1>1. UNCHANGED bookVars /\ phase' = phase
  BY DEF Agents, AgentReports, AgentExits, PumpEnds, UserStopsAgent, RemoveAgent,
         DeferTimerElapses, bookVars, graphVars, taskVars, schedVars, callVars
<1> QED BY <1>1, BooksQuiet DEF IInv, CallLocals, bookVars

LEMMA UserBooks ==
    ASSUME IInv, UserCalls
    PROVE  CallLocals' /\ Books'
<1> USE DEF graphVars, taskVars, schedVars, callVars
<1>1. TypeOK /\ Books /\ CallLocals
  BY DEF IInv
<1>2. ASSUME phase = "idle", UNCHANGED <<todo, cmds>>
      PROVE  todo = <<>> /\ cmds = <<>> /\ CallLocals'
  BY <1>1, <1>2 DEF CallLocals
<1>3. ASSUME NEW new \in TaskShapes, TaskCreate(new) PROVE CallLocals' /\ Books'
  <2>1. /\ count' = count + 1 /\ count < MaxTasks /\ phase = "idle"
        /\ UNCHANGED <<status, result, queue, running, todo, cmds>>
    BY <1>3 DEF TaskCreate
  <2>2. /\ Tasks' = Tasks \cup {count + 1} /\ count + 1 \in TaskIds \ Tasks
        /\ Tasks \subseteq TaskIds
    <3>1. count \in Nat /\ MaxTasks \in Nat
      BY <1>1, MaxTasksAssumption DEF TypeOK
    <3> QED BY <2>1, <3>1 DEF Tasks, TaskIds
  <2>3. status[count + 1] = "Pending"
    BY <1>1, <2>2 DEF Books, Fresh
  <2> QED BY <1>1, <1>2, <2>1, <2>2, <2>3
          DEF Books, Fresh, Separate, HeldIsActive, ActiveIsHeld, QueueIsReady,
              Held, Tracked
<1>4. ASSUME \/ \E p \in Policies : SetTaskPolicy(p)
             \/ \E b \in BOOLEAN : SetPaused(b)
             \/ DrainFrame \/ TaskRun \/ StopAll
             \/ \E t \in Tasks : AddInputArtifact(t) \/ ArtifactRegistered(t)
             \/ \E t, d \in Tasks : AddDependency(t, d) \/ RemoveDependency(t, d)
      PROVE  CallLocals' /\ Books'
  <2>1. UNCHANGED bookVars /\ phase = "idle"
    BY <1>4 DEF SetTaskPolicy, SetPaused, DrainFrame, TaskRun, StopAll,
       AddInputArtifact, ArtifactRegistered, AddDependency, RemoveDependency,
       Enter, bookVars
  <2> QED BY <1>1, <1>2, <2>1, BooksQuiet DEF bookVars
<1>5. ASSUME NEW t \in Tasks, NEW b \in BOOLEAN, ResolveTaskReview(t, b)
      PROVE  CallLocals' /\ Books'
  <2>1. /\ phase = "idle" /\ status[t] \in Unlisted
        /\ \E to \in Unlisted : status' = [status EXCEPT ![t] = to]
        /\ UNCHANGED <<count, queue, running, todo, cmds, result>>
    BY <1>5 DEF ResolveTaskReview, Enter, Unlisted, TaskStatus
  <2> QED BY <1>1, <1>2, <2>1, BooksUnlisted
<1>6. ASSUME NEW t \in Tasks, TaskCancel(t) PROVE CallLocals' /\ Books'
  <2>1. phase = "idle" /\ Cancel(t) /\ UNCHANGED <<count, todo, cmds>>
    BY <1>6 DEF TaskCancel, Enter
  <2> QED BY <1>1, <1>2, <2>1, BooksCancel
<1>7. ASSUME NEW t \in Tasks, TaskRetry(t) PROVE CallLocals' /\ Books'
  <2>1. /\ status[t] \in Unlisted /\ status' = Transition(status, t, "Ready")
        /\ result' = result \ {t} /\ UNCHANGED <<count, running>>
    BY <1>7 DEF TaskRetry, Retryable, Unlisted, TaskStatus
  <2>2. CASE can_transition(status[t], "Ready")
    <3>1. Enter("view") /\ queue' = Append(queue, t)
      BY <1>7, <2>2, Zenon DEF TaskRetry
    <3>2. phase = "idle" /\ UNCHANGED <<todo, cmds>>
      BY <3>1 DEF Enter
    <3> QED BY <1>1, <1>2, <2>1, <2>2, <3>1, <3>2, BooksQueued DEF Transition
  <2>3. CASE ~can_transition(status[t], "Ready")
    <3>1. phase = "idle" /\ UNCHANGED <<queue, forced, callVars>>
      BY <1>7, <2>3, Zenon DEF TaskRetry
    <3>2. status' = status /\ UNCHANGED <<count, queue, running, todo, cmds>>
      BY <2>1, <2>3, <3>1 DEF Transition
    <3>3. Books'
      <4>1. ActiveIsHeld'
        <5>1. \A u \in Tasks : status[u] = "Waiting" => u # t
          BY <2>1 DEF Unlisted
        <5> QED BY <1>1, <2>1, <3>2, <5>1 DEF Books, ActiveIsHeld, Held, Tracked, Tasks
      <4> QED BY <1>1, <3>2, <4>1
              DEF Books, Fresh, Separate, HeldIsActive, QueueIsReady, Held, Tasks
    <3> QED BY <1>2, <3>1, <3>2, <3>3
  <2> QED BY <2>2, <2>3
<1>8. ASSUME NEW t \in Tasks, InvalidateTask(t) PROVE CallLocals' /\ Books'
  <2>1. phase = "idle" /\ UNCHANGED <<count, queue, running, todo, cmds, result>>
    BY <1>8 DEF InvalidateTask
  <2>2. CASE status' = status
    BY <1>1, <1>2, <2>1, <2>2, BooksQuiet DEF bookVars
  <2>3. CASE status' # status
    <3>1. /\ status[t] \in Unlisted /\ "Failed" \in Unlisted
          /\ status' = [status EXCEPT ![t] = "Failed"]
      BY <1>8, <2>3 DEF InvalidateTask, Transition, Unlisted, TaskStatus
    <3> QED BY <1>1, <1>2, <2>1, <3>1, BooksUnlisted
  <2> QED BY <2>2, <2>3
<1> QED BY <1>3, <1>4, <1>5, <1>6, <1>7, <1>8 DEF UserCalls

LEMMA PassBooks ==
    ASSUME IInv, Pass
    PROVE  CallLocals' /\ Books'
<1> USE DEF graphVars, taskVars, schedVars, frameFixed
<1>1. TypeOK /\ Books /\ CallLocals
  BY DEF IInv
<1>2. CASE StopAllCancels
  <2>1. /\ todo = <<>> /\ cmds = <<>> /\ phase' \in {"stop", "view"}
        /\ UNCHANGED <<count, todo, cmds>>
    BY <1>1, <1>2 DEF StopAllCancels, CallLocals
  <2>2. CallLocals'
    BY <2>1 DEF CallLocals
  <2>3. CASE UNCHANGED <<taskVars, schedVars>>
    BY <1>1, <2>1, <2>2, <2>3, BooksQuiet DEF bookVars
  <2>4. CASE cursor \in Tasks /\ Cancel(cursor)
    BY <1>1, <2>1, <2>2, <2>4, BooksCancel
  <2>5. CASE cursor > count
    BY <1>2, <2>3, <2>5, Zenon DEF StopAllCancels
  <2>6. CASE ~(cursor > count)
    <3>1. cursor \in Tasks
      BY <1>1, <2>6 DEF TypeOK, Tasks
    <3>2. Cancel(cursor) \/ UNCHANGED <<taskVars, schedVars>>
      BY <1>2, <2>6, Zenon DEF StopAllCancels
    <3> QED BY <2>3, <2>4, <3>1, <3>2
  <2> QED BY <2>5, <2>6
<1>3. CASE TakeView \/ ObserveDefers \/ SettleEnds \/ ClassifyEnds \/ StartEnds
           \/ ExecEnds
  <2>1. UNCHANGED bookVars
    BY <1>3 DEF TakeView, ObserveDefers, SettleEnds, ClassifyEnds, StartEnds,
                ExecEnds, bookVars
  <2>2. CallLocals'
    BY <1>1, <1>3 DEF TakeView, ObserveDefers, SettleEnds, ClassifyEnds, StartEnds,
                ExecEnds, CallLocals, Return
  <2> QED BY <1>1, <2>1, <2>2, BooksQuiet
<1>4. CASE ObserveSettles
  <2>1. /\ todo = <<>> /\ cmds = <<>> /\ todo' = running /\ running' = <<>>
        /\ phase' = "settle" /\ UNCHANGED <<count, status, result, queue, cmds>>
    BY <1>1, <1>4 DEF ObserveSettles, CallLocals
  <2> QED BY <1>1, <2>1, EmptyList
          DEF CallLocals, Books, Fresh, Separate, HeldIsActive, ActiveIsHeld,
              QueueIsReady, Held, Tracked, Tasks
<1>5. ASSUME NEW t \in Tasks, SettleOne(t) PROVE CallLocals' /\ Books'
  <2>1. CallLocals'
    BY <1>1, <1>5 DEF CallLocals, SettleOne, SettleVanished, SettleFailed,
       SettleCompleted, SettleWaiting, SettleWorking, Settling
  <2> QED BY <1>5, <2>1, SettleBooks
<1>6. ASSUME NEW t \in Tasks, ClassifyOne(t) PROVE CallLocals' /\ Books'
  <2>1. CallLocals'
    BY <1>1, <1>6 DEF CallLocals, ClassifyOne, ClassifyReady, ClassifyDownstream,
       ClassifyLeaves, Classifying
  <2> QED BY <1>6, <2>1, ClassifyBooks
<1>7. ASSUME NEW t \in Tasks, StartOne(t) PROVE CallLocals' /\ Books'
  <2>1. CallLocals'
    BY <1>1, <1>7 DEF CallLocals, StartOne, StartOverBudget, StartMissingInput,
       StartTask, Starting
  <2> QED BY <1>7, <2>1, StartBooks
<1>8. ASSUME NEW t \in Tasks, SpawnOne(t) PROVE CallLocals' /\ Books'
  <2>1. CallLocals'
    BY <1>1, <1>8 DEF CallLocals, SpawnOne, SpawnSucceeds, SpawnFails, Spawning
  <2> QED BY <1>8, <2>1, SpawnBooks
<1> QED BY <1>2, <1>3, <1>4, <1>5, <1>6, <1>7, <1>8 DEF Pass

THEOREM Inductive == Spec => []IInv
<1>1. Init => IInv
  BY TypeInit, BooksInit DEF IInv
<1>2. IInv /\ TypeOK' /\ [Next]_vars => IInv'
  <2> SUFFICES ASSUME IInv, TypeOK', [Next]_vars PROVE CallLocals' /\ Books'
    BY DEF IInv
  <2>1. CASE Agents \/ DeferTimerElapses
    BY <2>1, AgentsBooks
  <2>2. CASE UserCalls
    BY <2>2, UserBooks
  <2>3. CASE Pass
    BY <2>3, PassBooks
  <2>4. CASE UNCHANGED vars
    <3>1. UNCHANGED bookVars /\ phase' = phase
      BY <2>4 DEF vars, bookVars, graphVars, taskVars, schedVars, callVars
    <3> QED BY <3>1, BooksQuiet DEF IInv, CallLocals, bookVars
  <2> QED BY <2>1, <2>2, <2>3, <2>4 DEF Next
<1> QED BY <1>1, <1>2, TypeCorrect, PTL DEF Spec

(* However retries, cancellations, manual releases and reclassifications   *)
(* mix, the queue holds exactly the Ready tasks, each once: no start is    *)
(* lost, none happens twice, and the scheduler's own test that a popped    *)
(* task is Ready never fails.                                              *)
THEOREM QueueCorrect == Spec => []QueueIsReady
<1>1. IInv => QueueIsReady
  BY DEF IInv, Books
<1> QED BY <1>1, Inductive, PTL

(* Status and bookkeeping agree: every running task is in exactly one of   *)
(* the lists of the scheduler and of the pass.                             *)
THEOREM TrackingCorrect == Spec => []RunningIsTracked
<1>1. IInv => RunningIsTracked
  <2> SUFFICES ASSUME IInv PROVE RunningIsTracked
    OBVIOUS
  <2>1. /\ running \in Seq(Tasks) /\ todo \in Seq(Tasks) /\ cmds \in Seq(Tasks)
        /\ Separate
    BY DEF IInv, TypeOK, Books
  <2>2. /\ running \o todo \in Seq(Tasks) /\ NoDuplicates(running \o todo)
        /\ ToSet(running \o todo) = Held
    BY <2>1, ConcatFacts DEF Separate, Held
  <2>3. NoDuplicates((running \o todo) \o cmds)
    BY <2>1, <2>2, ConcatFacts DEF Separate
  <2> QED BY <2>3 DEF IInv, Books, HeldIsActive, ActiveIsHeld, RunningIsTracked
<1> QED BY <1>1, Inductive, PTL

-----------------------------------------------------------------------------
(* The dependency gate.  It is inductive over IInv because no step leaves  *)
(* Completed, and every step into Released comes from within Released,     *)
(* from a satisfied gate, or records that a user forced it.                *)

LEMMA ReleasedFacts ==
    /\ {"Ready", "Running", "Waiting"} \subseteq Released
    /\ "Blocked" \notin Released /\ "Cancelled" \notin Released
    /\ "Skipped" \notin Released /\ "Pending" \notin Released
  BY DEF Released

(* What one step may do to one status.                                     *)
Moves(t, to) ==
    /\ status' = [status EXCEPT ![t] = to]
    /\ status[t] # "Completed"
    /\ to \in Released => \/ status[t] \in Released
                          \/ dependencies_satisfied(t)
                          \/ t \in forced'

LEMMA PassMoves ==
    ASSUME IInv, Pass
    PROVE  /\ status' = status \/ \E t \in Tasks, to \in TaskStatus : Moves(t, to)
           /\ UNCHANGED <<count, deps, forced>>
<1> USE ReleasedFacts
<1>1. TypeOK /\ Books /\ CallLocals
  BY DEF IInv
<1>2. UNCHANGED <<count, deps, forced>>
  BY DEF Pass, StopAllCancels, TakeView, ObserveDefers, ObserveSettles, SettleEnds,
     ClassifyEnds, StartEnds, ExecEnds, SettleOne, ClassifyOne, StartOne, SpawnOne,
     SettleVanished, SettleFailed, SettleCompleted, SettleWaiting, SettleWorking,
     ClassifyReady, ClassifyDownstream, ClassifyLeaves, StartOverBudget,
     StartMissingInput, StartTask, SpawnSucceeds, SpawnFails, Settling,
     Classifying, Starting, Spawning, frameFixed, graphVars
<1>3. CASE TakeView \/ ObserveDefers \/ ObserveSettles \/ SettleEnds \/ ClassifyEnds
           \/ StartEnds \/ ExecEnds
  BY <1>2, <1>3 DEF TakeView, ObserveDefers, ObserveSettles, SettleEnds,
     ClassifyEnds, StartEnds, ExecEnds, taskVars
<1>4. CASE StopAllCancels
  <2>1. status' = status \/ (cursor \in Tasks /\ Cancel(cursor))
    <3>1. CASE cursor > count
      BY <1>4, <3>1 DEF StopAllCancels, taskVars
    <3>2. CASE ~(cursor > count)
      BY <1>1, <1>4, <3>2 DEF StopAllCancels, taskVars, TypeOK, Tasks
    <3> QED BY <3>1, <3>2
  <2>2. ASSUME Cancel(cursor), status' # status
        PROVE  Moves(cursor, "Cancelled") /\ "Cancelled" \in TaskStatus
    BY <2>2 DEF Cancel, Transition, can_transition, Moves, TaskStatus
  <2> QED BY <1>2, <2>1, <2>2
<1>5. ASSUME NEW t \in Tasks, SettleOne(t)
      PROVE  status' = status \/ \E to \in TaskStatus : Moves(t, to)
  <2>1. phase = "settle" /\ todo # <<>> /\ t = Head(todo) /\ todo \in Seq(Tasks)
    BY <1>1, <1>5 DEF SettleOne, SettleVanished, SettleFailed, SettleCompleted,
       SettleWaiting, SettleWorking, Settling, TypeOK
  <2>2. t \in ToSet(todo)
    BY <2>1, TailFacts
  <2>3. status[t] \in {"Running", "Waiting"}
    BY <1>1, <2>2 DEF Books, HeldIsActive, Held
  <2>4. \/ status' = status
        \/ \E to \in TaskStatus : status' = [status EXCEPT ![t] = to]
    BY <1>5 DEF SettleOne, SettleVanished, SettleFailed, SettleCompleted,
       SettleWaiting, SettleWorking, Fail, Transition, taskVars, TaskStatus
  <2> QED BY <2>3, <2>4 DEF Moves
<1>6. ASSUME NEW t \in Tasks, ClassifyOne(t)
      PROVE  status' = status \/ \E to \in TaskStatus : Moves(t, to)
  <2>1. CASE ClassifyReady(t)
    <3>1. Moves(t, "Ready")
      BY <2>1 DEF ClassifyReady, Reclassified, Moves
    <3> QED BY <3>1 DEF TaskStatus
  <2>2. CASE ClassifyDownstream(t)
    <3>1. \E to \in {"Blocked", "Skipped"} : status' = Transition(status, t, to)
      BY <2>2 DEF ClassifyDownstream
    <3>2. status' = status \/ \E to \in {"Blocked", "Skipped"} : Moves(t, to)
      BY <2>2, <3>1 DEF ClassifyDownstream, Reclassified, Transition, Moves
    <3> QED BY <3>2 DEF TaskStatus
  <2>3. CASE ClassifyLeaves(t)
    BY <2>3 DEF ClassifyLeaves
  <2> QED BY <1>6, <2>1, <2>2, <2>3 DEF ClassifyOne
<1>7. ASSUME NEW t \in Tasks, StartOne(t)
      PROVE  status' = status \/ \E to \in TaskStatus : Moves(t, to)
  <2>1. /\ status[t] = "Ready"
        /\ \E to \in {"Blocked", "Running"} : status' = [status EXCEPT ![t] = to]
    BY <1>7 DEF StartOne, StartOverBudget, StartMissingInput, StartTask, BlockFor,
                Starting
  <2>2. \E to \in {"Blocked", "Running"} : Moves(t, to)
    BY <2>1 DEF Moves
  <2> QED BY <2>2 DEF TaskStatus
<1>8. ASSUME NEW t \in Tasks, SpawnOne(t)
      PROVE  status' = status \/ \E to \in TaskStatus : Moves(t, to)
  <2>1. cmds # <<>> /\ t = Head(cmds) /\ cmds \in Seq(Tasks)
    BY <1>1, <1>8 DEF SpawnOne, SpawnSucceeds, SpawnFails, Spawning, TypeOK
  <2>2. t \in ToSet(cmds)
    BY <2>1, TailFacts
  <2>3. status[t] = "Running"
    BY <1>1, <2>2 DEF Books, HeldIsActive
  <2>4. status' = status \/ \E to \in TaskStatus : status' = [status EXCEPT ![t] = to]
    BY <1>8 DEF SpawnOne, SpawnSucceeds, SpawnFails, Fail, TaskStatus
  <2> QED BY <2>3, <2>4 DEF Moves
<1> QED BY <1>2, <1>3, <1>4, <1>5, <1>6, <1>7, <1>8 DEF Pass

(* A step that moves at most one status keeps the gate, when dependencies  *)
(* do not grow and no task is taken for gated that is not.                 *)
LEMMA GateKept ==
    ASSUME TypeOK, DependencyGate, count' = count,
           \A t \in Tasks : deps'[t] \subseteq deps[t],
           \A t \in forced \ forced' : dependencies_satisfied(t),
           status' = status \/ \E t \in Tasks, to \in TaskStatus : Moves(t, to)
    PROVE  DependencyGate'
<1>1. /\ status \in [TaskIds -> TaskStatus] /\ Tasks \subseteq TaskIds /\ Tasks' = Tasks
      /\ \A t \in Tasks : deps[t] \subseteq Tasks
  BY TasksAreIds DEF TypeOK, Tasks
<1>2. \A d \in Tasks : status[d] = "Completed" => status'[d] = "Completed"
  BY <1>1 DEF Moves
<1>3. SUFFICES ASSUME NEW t \in Tasks, t \notin forced', status'[t] \in Released,
                      NEW d \in deps'[t]
               PROVE  status'[d] = "Completed"
  BY <1>1 DEF DependencyGate
<1>4. d \in deps[t] /\ d \in Tasks
  BY <1>1
<1>5. \/ status[t] \in Released /\ t \notin forced
      \/ dependencies_satisfied(t)
  BY <1>1, <1>3 DEF Moves
<1>6. status[d] = "Completed"
  BY <1>3, <1>4, <1>5 DEF DependencyGate, dependencies_satisfied
<1> QED BY <1>2, <1>4, <1>6

LEMMA UserGate ==
    ASSUME IInv, DependencyGate, UserCalls
    PROVE  DependencyGate'
<1> USE ReleasedFacts DEF graphVars, taskVars
<1>1. /\ TypeOK /\ Books /\ Tasks \subseteq TaskIds
      /\ status \in [TaskIds -> TaskStatus] /\ deps \in [TaskIds -> SUBSET Tasks]
  BY TasksAreIds DEF IInv, TypeOK
<1>2. ASSUME NEW new \in TaskShapes, TaskCreate(new) PROVE DependencyGate'
  <2>1. /\ count' = count + 1 /\ count < MaxTasks /\ count \in Nat /\ MaxTasks \in Nat
        /\ status' = status /\ forced' = forced
        /\ deps' = [deps EXCEPT ![count + 1] = new.deps]
    BY <1>2, <1>1, MaxTasksAssumption DEF TaskCreate, TypeOK
  <2>2. Tasks' = Tasks \cup {count + 1} /\ count + 1 \in TaskIds \ Tasks
    BY <2>1 DEF Tasks, TaskIds
  <2>3. status[count + 1] = "Pending"
    BY <1>1, <2>2 DEF Books, Fresh
  <2>4. \A t \in Tasks : deps'[t] = deps[t]
    BY <1>1, <2>1, <2>2
  <2> QED BY <2>1, <2>2, <2>3, <2>4 DEF DependencyGate
<1>3. ASSUME \/ \E p \in Policies : SetTaskPolicy(p)
             \/ \E b \in BOOLEAN : SetPaused(b)
             \/ DrainFrame \/ TaskRun \/ StopAll
             \/ \E t \in Tasks : AddInputArtifact(t) \/ ArtifactRegistered(t)
      PROVE  DependencyGate'
  <2>1. UNCHANGED <<count, deps, status, forced>>
    BY <1>3 DEF SetTaskPolicy, SetPaused, DrainFrame, TaskRun, StopAll,
       AddInputArtifact, ArtifactRegistered
  <2> QED BY <2>1 DEF DependencyGate, Tasks
<1>4. ASSUME NEW t \in Tasks, NEW d \in Tasks, AddDependency(t, d)
      PROVE  DependencyGate'
  <2>1. /\ UNCHANGED <<count, status>> /\ deps' = [deps EXCEPT ![t] = @ \cup {d}]
        /\ \/ forced' = forced /\ status[t] \in {"Pending", "Blocked"}
           \/ forced' = forced \cup {t}
    BY <1>4 DEF AddDependency
  <2>2. status[t] \notin Released \/ t \in forced'
    BY <2>1
  <2>3. \A u \in Tasks : u # t => deps'[u] = deps[u]
    BY <1>1, <2>1
  <2> QED BY <2>1, <2>2, <2>3 DEF DependencyGate, Tasks
<1>5. ASSUME NEW t \in Tasks, NEW d \in Tasks, RemoveDependency(t, d)
      PROVE  DependencyGate'
  <2>1. /\ UNCHANGED <<count, status, forced>>
        /\ \A u \in Tasks : deps'[u] \subseteq deps[u]
    BY <1>1, <1>5 DEF RemoveDependency
  <2> QED BY <1>1, <2>1, GateKept
<1>6. ASSUME NEW t \in Tasks, NEW b \in BOOLEAN, ResolveTaskReview(t, b)
      PROVE  DependencyGate'
  <2>1. /\ UNCHANGED <<count, deps, forced>>
        /\ \E to \in {"Completed", "Failed"} : Moves(t, to)
    BY <1>6 DEF ResolveTaskReview, Moves, Released
  <2>2. \E to \in TaskStatus : Moves(t, to)
    BY <2>1 DEF TaskStatus
  <2> QED BY <1>1, <2>1, <2>2, GateKept
<1>7. ASSUME NEW t \in Tasks, TaskCancel(t) PROVE DependencyGate'
  <2>1. Cancel(t) /\ UNCHANGED <<count, deps, forced>>
    BY <1>7 DEF TaskCancel
  <2>2. status' = status \/ Moves(t, "Cancelled")
    BY <2>1 DEF Cancel, Transition, can_transition, Moves
  <2>3. "Cancelled" \in TaskStatus
    BY DEF TaskStatus
  <2> QED BY <1>1, <2>1, <2>2, <2>3, GateKept
<1>8. ASSUME NEW t \in Tasks, TaskRetry(t) PROVE DependencyGate'
  <2>1. UNCHANGED <<count, deps>> /\ status' = Transition(status, t, "Ready")
    BY <1>8 DEF TaskRetry
  <2>2. CASE can_transition(status[t], "Ready")
    <3>1. /\ \/ forced' = forced \ {t} /\ dependencies_satisfied(t)
             \/ forced' = forced \cup {t}
      BY <1>8, <2>2, Zenon DEF TaskRetry
    <3>2. status' = [status EXCEPT ![t] = "Ready"] /\ status[t] # "Completed"
      BY <2>1, <2>2 DEF Transition, can_transition
    <3>3. Moves(t, "Ready") /\ "Ready" \in TaskStatus
      BY <3>1, <3>2 DEF Moves, TaskStatus
    <3> QED BY <1>1, <2>1, <3>1, <3>3, GateKept
  <2>3. CASE ~can_transition(status[t], "Ready")
    <3>1. forced' = forced
      BY <1>8, <2>3, Zenon DEF TaskRetry
    <3>2. status' = status
      BY <2>1, <2>3 DEF Transition
    <3> QED BY <2>1, <3>1, <3>2 DEF DependencyGate, Tasks
  <2> QED BY <2>2, <2>3
<1>9. ASSUME NEW t \in Tasks, InvalidateTask(t) PROVE DependencyGate'
  <2>1. UNCHANGED <<count, deps, forced>>
    BY <1>9 DEF InvalidateTask
  <2>2. status' = status \/ Moves(t, "Failed")
    BY <1>9 DEF InvalidateTask, Transition, can_transition, Moves, Released
  <2>3. "Failed" \in TaskStatus
    BY DEF TaskStatus
  <2> QED BY <1>1, <2>1, <2>2, <2>3, GateKept
<1> QED BY <1>2, <1>3, <1>4, <1>5, <1>6, <1>7, <1>8, <1>9 DEF UserCalls

(* No task the scheduler released runs, waits or has finished with a       *)
(* dependency that is not Completed, whatever users and agents do, unless  *)
(* a user released it by hand or gave it that dependency later.            *)
THEOREM GateHolds == Spec => []DependencyGate
<1>1. Init => DependencyGate
  BY DEF Init, DependencyGate, Tasks
<1>2. IInv /\ DependencyGate /\ [Next]_vars => DependencyGate'
  <2> SUFFICES ASSUME IInv, DependencyGate, [Next]_vars PROVE DependencyGate'
    OBVIOUS
  <2>1. CASE Agents \/ DeferTimerElapses
    <3>1. UNCHANGED <<count, deps, status, forced>>
      BY <2>1 DEF Agents, AgentReports, AgentExits, PumpEnds, UserStopsAgent,
         RemoveAgent, DeferTimerElapses, graphVars, taskVars
    <3> QED BY <3>1 DEF DependencyGate, Tasks
  <2>2. CASE UserCalls
    BY <2>2, UserGate
  <2>3. CASE Pass
    BY <2>3, PassMoves, GateKept DEF IInv
  <2>4. CASE UNCHANGED vars
    BY <2>4 DEF vars, graphVars, taskVars, DependencyGate, Tasks
  <2> QED BY <2>1, <2>2, <2>3, <2>4 DEF Next
<1> QED BY <1>1, <1>2, Inductive, PTL DEF Spec

-----------------------------------------------------------------------------
(***************************************************************************)
(* No orphans.  NoOrphanAgent is not inductive: when a pass settles a task *)
(* it looks at a view taken before, and STOP ALL lets go of its tasks long *)
(* after it has told their agents to stop.                                 *)
(***************************************************************************)

(* A pump that still runs and was not told to stop has a session that has  *)
(* not ended.                                                              *)
PumpsAreLive ==
    \A t \in TaskIds : agent[t].pump /\ ~agent[t].stop => agent[t].state \in LiveStates

(* A session without a pump is the only one that may be gone.              *)
GoneIsStill == \A t \in TaskIds : agent[t].state = "None" => ~agent[t].pump

(* Between looking and settling nothing changes what was looked at.        *)
ViewIsCurrent ==
    phase \in {"observe", "settle"} => \A t \in Held : view[t] = agent[t]

(* While STOP ALL cancels the tasks, every agent knows.                    *)
StopIsTold ==
    phase = "stop" => \A t \in TaskIds : agent[t].pump => agent[t].stop

AgentInv == PumpsAreLive /\ GoneIsStill /\ ViewIsCurrent /\ StopIsTold /\ NoOrphanAgent

(* A step that leaves the agents alone and lets go of nothing.             *)
LEMMA AgentKept ==
    ASSUME AgentInv, agent' = agent, Held \subseteq Held',
           phase' \in {"observe", "settle"} =>
               phase \in {"observe", "settle"} /\ view' = view /\ Held' \subseteq Held,
           phase' = "stop" => phase = "stop"
    PROVE  AgentInv'
<1>1. PumpsAreLive' /\ GoneIsStill' /\ StopIsTold'
  BY DEF AgentInv, PumpsAreLive, GoneIsStill, StopIsTold
<1>2. ViewIsCurrent'
  BY DEF AgentInv, ViewIsCurrent
<1>3. NoOrphanAgent'
  BY DEF AgentInv, NoOrphanAgent
<1> QED BY <1>1, <1>2, <1>3 DEF AgentInv

LEMMA AgentsKeepAgents ==
    ASSUME IInv, AgentInv, Agents \/ DeferTimerElapses
    PROVE  AgentInv'
<1>1. agent \in [TaskIds -> AgentSession] /\ Tasks \subseteq TaskIds
  BY TasksAreIds DEF IInv, TypeOK
<1>2. CASE DeferTimerElapses
  BY <1>2, AgentKept DEF DeferTimerElapses, callVars, schedVars, Held
<1>3. ASSUME NEW t \in Tasks,
             \/ \E s \in {"Working", "Waiting"} : AgentReports(t, s)
             \/ AgentExits(t)
             \/ \E c \in ExitCodes : PumpEnds(t, c)
             \/ UserStopsAgent(t)
             \/ RemoveAgent(t)
      PROVE  AgentInv'
  <2>1. /\ phase = "idle" /\ phase' = "idle" /\ Held' = Held
        /\ \E a : agent' = [agent EXCEPT ![t] = a]
    BY <1>3 DEF AgentReports, AgentExits, PumpEnds, UserStopsAgent, RemoveAgent,
                callVars, schedVars, Held
  <2>2. /\ agent'[t].pump /\ ~agent'[t].stop =>
              agent[t].pump /\ ~agent[t].stop /\ agent'[t].state \in LiveStates
        /\ agent'[t].state = "None" => ~agent'[t].pump
    <3>1. CASE \E s \in {"Working", "Waiting"} : AgentReports(t, s)
      BY <1>1, <3>1 DEF AgentReports, AgentSession, LiveStates
    <3>2. CASE AgentExits(t)
      BY <1>1, <3>2 DEF AgentExits, AgentSession, AgentInv, PumpsAreLive, GoneIsStill
    <3>3. CASE \E c \in ExitCodes : PumpEnds(t, c)
      BY <1>1, <3>3 DEF PumpEnds, AgentSession
    <3>4. CASE UserStopsAgent(t)
      BY <1>1, <3>4 DEF UserStopsAgent, Stopped, AgentSession, AgentInv, GoneIsStill
    <3>5. CASE RemoveAgent(t)
      BY <1>1, <3>5 DEF RemoveAgent, NoAgent
    <3> QED BY <1>3, <3>1, <3>2, <3>3, <3>4, <3>5
  <2>3. \A u \in TaskIds : u # t => agent'[u] = agent[u]
    BY <1>1, <2>1
  <2>4. PumpsAreLive' /\ GoneIsStill'
    BY <2>2, <2>3 DEF AgentInv, PumpsAreLive, GoneIsStill
  <2>5. NoOrphanAgent'
    BY <1>1, <2>1, <2>2, <2>3 DEF AgentInv, NoOrphanAgent
  <2> QED BY <2>1, <2>4, <2>5 DEF AgentInv, ViewIsCurrent, StopIsTold
<1> QED BY <1>2, <1>3 DEF Agents

(* Stopping an agent tells its pump, if it has one.                        *)
LEMMA StoppedIsTold ==
    ASSUME AgentInv, agent \in [TaskIds -> AgentSession], NEW t \in TaskIds
    PROVE  /\ Stopped(agent[t]).pump => Stopped(agent[t]).stop
           /\ Stopped(agent[t]).state = "None" => ~Stopped(agent[t]).pump
  BY DEF AgentInv, GoneIsStill, Stopped, AgentSession

LEMMA UserKeepsAgents ==
    ASSUME IInv, AgentInv, UserCalls
    PROVE  AgentInv'
<1> USE DEF schedVars, callVars
<1>1. /\ agent \in [TaskIds -> AgentSession] /\ Tasks \subseteq TaskIds
      /\ running \in Seq(Tasks) /\ NoDuplicates(running)
  BY TasksAreIds DEF IInv, TypeOK, Books, Separate
<1>2. ASSUME NEW t \in Tasks, TaskCancel(t) PROVE AgentInv'
  <2>1. phase' = "view" /\ todo' = todo
    BY <1>2 DEF TaskCancel, Enter
  <2>2. CASE status[t] \in {"Running", "Waiting"}
    <3>1. agent' = [agent EXCEPT ![t] = Stopped(@)] /\ running' = Without(running, t)
      BY <1>2, <2>2 DEF TaskCancel, Cancel
    <3>2. Held' = (ToSet(running) \ {t}) \cup ToSet(todo)
      BY <1>1, <2>1, <3>1, WithoutFacts DEF Held
    <3>3. PumpsAreLive' /\ GoneIsStill'
      BY <1>1, <3>1, StoppedIsTold DEF AgentInv, PumpsAreLive, GoneIsStill
    <3>4. NoOrphanAgent'
      BY <1>1, <3>1, <3>2, StoppedIsTold DEF AgentInv, NoOrphanAgent, Held
    <3> QED BY <2>1, <3>3, <3>4 DEF AgentInv, ViewIsCurrent, StopIsTold
  <2>3. CASE status[t] \notin {"Running", "Waiting"}
    <3>1. agent' = agent /\ running' = running
      BY <1>2, <2>3 DEF TaskCancel, Cancel
    <3> QED BY <2>1, <3>1, AgentKept DEF Held
  <2> QED BY <2>2, <2>3
<1>3. CASE StopAll
  <2>1. /\ agent' = [t \in TaskIds |-> Stopped(agent[t])]
        /\ phase' = "stop" /\ UNCHANGED <<running, todo>>
    BY <1>3 DEF StopAll, Enter
  <2>2. PumpsAreLive' /\ GoneIsStill' /\ StopIsTold' /\ NoOrphanAgent'
    BY <1>1, <2>1, StoppedIsTold DEF PumpsAreLive, GoneIsStill, StopIsTold, NoOrphanAgent
  <2> QED BY <2>1, <2>2 DEF AgentInv, ViewIsCurrent
<1>4. CASE ~(\E t \in Tasks : TaskCancel(t)) /\ ~StopAll
  <2>1. /\ agent' = agent /\ UNCHANGED <<running, todo>>
        /\ phase' \in {"idle", "submit", "view"}
    BY <1>4 DEF UserCalls, TaskCreate, SetTaskPolicy, ResolveTaskReview, DrainFrame,
       TaskRun, SetPaused, TaskRetry, InvalidateTask, AddInputArtifact,
       ArtifactRegistered, AddDependency, RemoveDependency, Enter
  <2> QED BY <2>1, AgentKept DEF Held
<1> QED BY <1>2, <1>3, <1>4

(* The entry a settlement looks at is the head of the list it empties.     *)
LEMMA SettlingHead ==
    ASSUME IInv, NEW t \in Tasks, Settling(t)
    PROVE  /\ phase = "settle" /\ phase' = "settle" /\ view' = view /\ agent' = agent
           /\ t \in ToSet(todo) /\ t \in Held /\ t \notin ToSet(running)
           /\ todo' \in Seq(Tasks) /\ ToSet(todo') = ToSet(todo) \ {t}
           /\ Len(todo') = Len(todo) - 1 /\ Len(todo) >= 1
           /\ UNCHANGED <<count, policy, cmds, cursor, paused>>
<1>1. /\ todo \in Seq(Tasks) /\ NoDuplicates(todo) /\ todo # <<>> /\ t = Head(todo)
      /\ ToSet(running) \cap ToSet(todo) = {} /\ todo' = Tail(todo)
  BY DEF IInv, TypeOK, Books, Separate, Settling
<1>2. Len(Tail(todo)) = Len(todo) - 1 /\ Len(todo) \in Nat /\ Len(todo) # 0
  BY <1>1, HeadTailProperties, EmptySeq, LenProperties
<1> QED BY <1>1, <1>2, TailFacts
        DEF Settling, Held, frameFixed, setVars, graphVars

LEMMA SettleKeepsAgents ==
    ASSUME IInv, AgentInv, NEW t \in Tasks, SettleOne(t)
    PROVE  AgentInv'
<1>1. Settling(t)
  BY DEF SettleOne, SettleVanished, SettleFailed, SettleCompleted, SettleWaiting,
         SettleWorking
<1>2. running \in Seq(Tasks) /\ t \in TaskIds
  BY TasksAreIds DEF IInv, TypeOK
<1>3. CASE SettleWaiting(t) \/ SettleWorking(t)
  <2>1. running' = Append(running, t)
    BY <1>3 DEF SettleWaiting, SettleWorking
  <2>2. Held' = Held
    BY <1>1, <1>2, <2>1, SettlingHead, AppendFacts DEF Held
  <2> QED BY <1>1, <2>2, SettlingHead, AgentKept
<1>4. CASE SettleVanished(t) \/ SettleFailed(t) \/ SettleCompleted(t)
  <2>1. running' = running /\ view[t].state \notin LiveStates
    BY <1>4 DEF SettleVanished, SettleFailed, SettleCompleted, LiveStates
  <2>2. Held' = Held \ {t}
    BY <1>1, <2>1, SettlingHead DEF Held
  <2>3. agent[t].state \notin LiveStates
    BY <1>1, <2>1, SettlingHead DEF AgentInv, ViewIsCurrent
  <2>4. ~(agent[t].pump /\ ~agent[t].stop)
    BY <1>2, <2>3 DEF AgentInv, PumpsAreLive
  <2>5. NoOrphanAgent'
    BY <1>1, <2>2, <2>4, SettlingHead DEF AgentInv, NoOrphanAgent
  <2> QED BY <1>1, <2>2, <2>5, SettlingHead
          DEF AgentInv, PumpsAreLive, GoneIsStill, ViewIsCurrent, StopIsTold
<1> QED BY <1>3, <1>4 DEF SettleOne

LEMMA PassKeepsAgents ==
    ASSUME IInv, AgentInv, Pass
    PROVE  AgentInv'
<1> USE DEF taskVars, schedVars
<1>1. running \in Seq(Tasks) /\ cmds \in Seq(Tasks) /\ Tasks \subseteq TaskIds
  BY TasksAreIds DEF IInv, TypeOK
<1>2. CASE StopAllCancels
  <2>1. /\ phase = "stop" /\ phase' \in {"stop", "view"} /\ agent' = agent /\ todo' = todo
    BY <1>2 DEF StopAllCancels
  <2>2. \A t \in TaskIds : agent[t].pump => agent[t].stop
    BY <2>1 DEF AgentInv, StopIsTold
  <2> QED BY <2>1, <2>2
          DEF AgentInv, PumpsAreLive, GoneIsStill, ViewIsCurrent, StopIsTold, NoOrphanAgent
<1>3. CASE TakeView
  <2>1. /\ view' = [t \in TaskIds |-> IF t \in ToSet(running) THEN agent[t] ELSE NoAgent]
        /\ phase = "view" /\ phase' = "observe" /\ UNCHANGED <<agent, running, todo>>
    BY <1>3 DEF TakeView
  <2>2. Held = ToSet(running) /\ Held' = ToSet(running) /\ ToSet(running) \subseteq TaskIds
    BY <1>1, <2>1, EmptyList, ToSetTasks DEF IInv, CallLocals, Held
  <2>3. ViewIsCurrent'
    BY <2>1, <2>2 DEF ViewIsCurrent
  <2> QED BY <2>1, <2>2, <2>3
          DEF AgentInv, PumpsAreLive, GoneIsStill, StopIsTold, NoOrphanAgent
<1>4. CASE ObserveSettles
  <2>1. /\ phase = "observe" /\ phase' = "settle" /\ UNCHANGED <<agent, view>>
        /\ todo' = running /\ running' = <<>> /\ todo = <<>>
    BY <1>4 DEF ObserveSettles, IInv, CallLocals
  <2>2. Held' = Held
    BY <2>1, EmptyList DEF Held
  <2> QED BY <2>1, <2>2, AgentKept
<1>5. CASE ObserveDefers \/ SettleEnds \/ ClassifyEnds \/ StartEnds \/ ExecEnds
  <2>1. /\ UNCHANGED <<agent, running, todo>>
        /\ phase' \in {"idle", "view", "classify", "start", "exec"}
    BY <1>5 DEF ObserveDefers, SettleEnds, ClassifyEnds, StartEnds, ExecEnds, Return
  <2> QED BY <2>1, AgentKept DEF Held
<1>6. ASSUME NEW t \in Tasks, ClassifyOne(t) \/ StartOne(t) PROVE AgentInv'
  <2>1. /\ phase \in {"submit", "classify", "start"} /\ phase' = phase
        /\ UNCHANGED <<agent, running, todo>>
    BY <1>6 DEF ClassifyOne, StartOne, ClassifyReady, ClassifyDownstream, ClassifyLeaves,
       StartOverBudget, StartMissingInput, StartTask, Classifying, Starting
  <2> QED BY <2>1, AgentKept DEF Held
<1>7. ASSUME NEW t \in Tasks, SpawnOne(t) PROVE AgentInv'
  <2>1. phase = "exec" /\ phase' = "exec" /\ todo' = todo
    BY <1>7 DEF SpawnOne, SpawnSucceeds, SpawnFails, Spawning
  <2>2. CASE SpawnFails(t)
    BY <2>1, <2>2, AgentKept DEF SpawnFails, Held
  <2>3. CASE SpawnSucceeds(t)
    <3>1. agent' = [agent EXCEPT ![t] = FreshAgent] /\ running' = Append(running, t)
      BY <2>3 DEF SpawnSucceeds
    <3>2. Held' = Held \cup {t}
      BY <1>1, <2>1, <3>1, AppendFacts DEF Held
    <3>3. /\ agent \in [TaskIds -> AgentSession]
          /\ FreshAgent.state \in LiveStates /\ FreshAgent.state # "None"
      BY DEF IInv, TypeOK, FreshAgent, NoAgent, LiveStates
    <3>4. PumpsAreLive' /\ GoneIsStill' /\ NoOrphanAgent'
      BY <3>1, <3>2, <3>3 DEF AgentInv, PumpsAreLive, GoneIsStill, NoOrphanAgent
    <3> QED BY <2>1, <3>4 DEF AgentInv, ViewIsCurrent, StopIsTold
  <2> QED BY <1>7, <2>2, <2>3 DEF SpawnOne
<1> QED BY <1>2, <1>3, <1>4, <1>5, <1>6, <1>7, SettleKeepsAgents DEF Pass

LEMMA AgentsKeptAlways == Spec => []AgentInv
<1>1. Init => AgentInv
  BY DEF Init, AgentInv, PumpsAreLive, GoneIsStill, ViewIsCurrent, StopIsTold,
         NoOrphanAgent, NoAgent
<1>2. IInv /\ AgentInv /\ [Next]_vars => AgentInv'
  <2> SUFFICES ASSUME IInv, AgentInv, [Next]_vars PROVE AgentInv'
    OBVIOUS
  <2>1. CASE UNCHANGED vars
    <3>1. UNCHANGED <<agent, running, todo, phase, view>>
      BY <2>1 DEF vars, schedVars, callVars
    <3> QED BY <3>1, AgentKept DEF Held
  <2> QED BY <2>1, AgentsKeepAgents, UserKeepsAgents, PassKeepsAgents DEF Next
<1> QED BY <1>1, <1>2, Inductive, PTL DEF Spec

(* No agent process outlives its task unseen: one that nobody asked to     *)
(* stop and whose end has not been reported belongs to a task the          *)
(* scheduler holds, through cancel, STOP ALL, retries and failed starts.   *)
THEOREM NoAgentIsLost == Spec => []NoOrphanAgent
<1>1. AgentInv => NoOrphanAgent
  BY DEF AgentInv
<1> QED BY <1>1, AgentsKeptAlways, PTL

-----------------------------------------------------------------------------
(***************************************************************************)
(* Attempts.  AttemptsBounded is not inductive: a blocked or pending task  *)
(* becomes Ready without a count, and a failed start gives its attempt     *)
(* back.                                                                   *)
(***************************************************************************)

(* Where a task may become Ready it has an attempt left, one about to be   *)
(* spawned has used one, and one that is not yet made none.                *)
AttemptsInv ==
    /\ AttemptsBounded
    /\ \A t \in Tasks : status[t] \in {"Pending", "Blocked"} => attempts[t] <= RetryBound
    /\ \A t \in ToSet(cmds) : attempts[t] >= 1
    /\ \A t \in TaskIds \ Tasks : attempts[t] = 0

(* Fewer attempts, other statuses or fewer commands: nothing to check.     *)
LEMMA AttemptsKept ==
    ASSUME TypeOK, AttemptsInv, attempts' = attempts, count' = count,
           ToSet(cmds') \subseteq ToSet(cmds),
           \A t \in Tasks : status'[t] \in {"Ready", "Pending", "Blocked"} =>
               status[t] \in {"Ready", "Pending", "Blocked"}
    PROVE  AttemptsInv'
  BY DEF AttemptsInv, AttemptsBounded, Tasks

(* A policy allows no more retries than the bound.                         *)
LEMMA PolicyTypes ==
    ASSUME TypeOK
    PROVE  /\ policy.max_retries \in 0..RetryBound /\ policy.max_cost \in 0..CapBound
           /\ policy.parallel \in 0..ParallelBound
  BY PoliciesAssumption DEF TypeOK, TaskPolicy

(* A task that fails is queued again only while it has an attempt left.    *)
LEMMA FailCounts ==
    ASSUME TypeOK, AttemptsInv, NEW t \in Tasks, NEW class, NEW n \in 0..(RetryBound + 1),
           Fail(t, class, n), count' = count, ToSet(cmds') \subseteq ToSet(cmds) \ {t}
    PROVE  AttemptsInv'
<1>1. /\ attempts \in [TaskIds -> Int] /\ status \in [TaskIds -> TaskStatus]
      /\ Tasks \subseteq TaskIds /\ Tasks' = Tasks /\ RetryBound \in Nat
  BY TasksAreIds, RetryBoundAssumption DEF TypeOK, Tasks
<1>2. /\ attempts' = [attempts EXCEPT ![t] = n]
      /\ \/ status' = [status EXCEPT ![t] = "Ready"] /\ n <= policy.max_retries
         \/ status' = [status EXCEPT ![t] = "Failed"]
  BY DEF Fail, may_retry
<1>3. policy.max_retries \in 0..RetryBound
  BY PolicyTypes
<1>4. AttemptsBounded'
  BY <1>1, <1>2, <1>3 DEF AttemptsInv, AttemptsBounded
<1>5. \A u \in Tasks : status'[u] \in {"Pending", "Blocked"} => attempts'[u] <= RetryBound
  BY <1>1, <1>2 DEF AttemptsInv
<1>6. \A u \in ToSet(cmds') : attempts'[u] >= 1
  BY <1>1, <1>2 DEF AttemptsInv
<1>7. \A u \in TaskIds \ Tasks : attempts'[u] = 0
  BY <1>1, <1>2 DEF AttemptsInv
<1> QED BY <1>1, <1>4, <1>5, <1>6, <1>7 DEF AttemptsInv

LEMMA UserKeepsAttempts ==
    ASSUME IInv, AttemptsInv, UserCalls
    PROVE  AttemptsInv'
<1> USE DEF taskVars, graphVars, callVars
<1>1. /\ TypeOK /\ attempts \in [TaskIds -> Int] /\ status \in [TaskIds -> TaskStatus]
      /\ Tasks \subseteq TaskIds /\ RetryBound \in Nat
  BY TasksAreIds, RetryBoundAssumption DEF IInv, TypeOK
<1>2. ASSUME NEW new \in TaskShapes, TaskCreate(new) PROVE AttemptsInv'
  <2>1. count' = count + 1 /\ count < MaxTasks /\ UNCHANGED <<status, attempts, cmds>>
    BY <1>2 DEF TaskCreate
  <2>2. Tasks' = Tasks \cup {count + 1} /\ count + 1 \in TaskIds \ Tasks
    BY <1>1, <2>1, MaxTasksAssumption DEF Tasks, TaskIds, TypeOK
  <2>3. attempts[count + 1] = 0
    BY <2>2 DEF AttemptsInv
  <2> QED BY <1>1, <2>1, <2>2, <2>3 DEF AttemptsInv, AttemptsBounded
<1>3. ASSUME NEW t \in Tasks, TaskRetry(t) PROVE AttemptsInv'
  <2>1. /\ attempts' = [attempts EXCEPT ![t] = 0]
        /\ status[t] \in Retryable /\ status' = Transition(status, t, "Ready")
        /\ UNCHANGED <<count, cmds>>
    BY <1>3 DEF TaskRetry, Enter
  <2>2. t \notin ToSet(cmds)
    BY <2>1 DEF IInv, Books, HeldIsActive, Retryable
  <2>3. \A u \in TaskIds : u # t => status'[u] = status[u] /\ attempts'[u] = attempts[u]
    BY <1>1, <2>1 DEF Transition
  <2> QED BY <1>1, <2>1, <2>2, <2>3 DEF AttemptsInv, AttemptsBounded, Tasks
<1>4. ASSUME ~(\E new \in TaskShapes : TaskCreate(new)), ~(\E t \in Tasks : TaskRetry(t))
      PROVE  AttemptsInv'
  <2>1. UNCHANGED <<attempts, count, cmds>>
    BY <1>4 DEF UserCalls, SetTaskPolicy, ResolveTaskReview, DrainFrame, TaskRun, StopAll,
       SetPaused, TaskCancel, Cancel, InvalidateTask, AddInputArtifact,
       ArtifactRegistered, AddDependency, RemoveDependency, Enter
  <2>2. \/ status' = status
        \/ \E t \in Tasks, to \in {"Completed", "Failed", "Cancelled"} :
              status' = [status EXCEPT ![t] = to]
    BY <1>4 DEF UserCalls, SetTaskPolicy, ResolveTaskReview, DrainFrame, TaskRun, StopAll,
       SetPaused, TaskCancel, Cancel, InvalidateTask, AddInputArtifact,
       ArtifactRegistered, AddDependency, RemoveDependency, Enter, Transition
  <2>3. \A t \in Tasks : status'[t] \in {"Ready", "Pending", "Blocked"} =>
            status'[t] = status[t]
    BY <1>1, <2>2
  <2> QED BY <1>1, <2>1, <2>3, AttemptsKept
<1> QED BY <1>2, <1>3, <1>4

LEMMA PassKeepsAttempts ==
    ASSUME IInv, AttemptsInv, Pass
    PROVE  AttemptsInv'
<1> USE DEF taskVars, graphVars, frameFixed
<1>1. /\ TypeOK /\ attempts \in [TaskIds -> Int] /\ status \in [TaskIds -> TaskStatus]
      /\ Tasks \subseteq TaskIds /\ RetryBound \in Nat /\ cmds \in Seq(Tasks)
  BY TasksAreIds, RetryBoundAssumption DEF IInv, TypeOK
<1>2. CASE StopAllCancels
  <2>1. UNCHANGED <<attempts, count, cmds>>
    BY <1>2 DEF StopAllCancels, Cancel
  <2>2. status' = status \/ status' = [status EXCEPT ![cursor] = "Cancelled"]
    BY <1>2 DEF StopAllCancels, Cancel, Transition
  <2> QED BY <1>1, <2>1, <2>2, AttemptsKept
<1>3. CASE TakeView \/ ObserveDefers \/ ObserveSettles \/ SettleEnds \/ ClassifyEnds
           \/ StartEnds \/ ExecEnds
  <2>1. UNCHANGED <<attempts, count, status, cmds>>
    BY <1>3 DEF TakeView, ObserveDefers, ObserveSettles, SettleEnds, ClassifyEnds,
                StartEnds, ExecEnds, Return
  <2> QED BY <1>1, <2>1, AttemptsKept
<1>4. ASSUME NEW t \in Tasks, SettleOne(t) PROVE AttemptsInv'
  <2>1. Settling(t)
    BY <1>4 DEF SettleOne, SettleVanished, SettleFailed, SettleCompleted, SettleWaiting,
                SettleWorking
  <2>2. CASE SettleVanished(t) \/ SettleFailed(t)
    <3>1. t \notin ToSet(cmds) /\ count' = count /\ cmds' = cmds
      BY <2>1, SettlingHead DEF IInv, Books, Separate
    <3>2. attempts[t] \in 0..(RetryBound + 1)
      BY DEF AttemptsInv, AttemptsBounded
    <3>3. \E class : Fail(t, class, attempts[t])
      BY <2>2 DEF SettleVanished, SettleFailed
    <3> QED BY <1>1, <3>1, <3>2, <3>3, FailCounts
  <2>3. CASE SettleCompleted(t) \/ SettleWaiting(t) \/ SettleWorking(t)
    <3>1. UNCHANGED <<attempts, count, cmds>>
      BY <2>1, <2>3, SettlingHead DEF SettleCompleted, SettleWaiting, SettleWorking
    <3>2. \/ status' = status
          \/ \E to \in {"NeedsReview", "Completed", "Waiting"} :
                status' = [status EXCEPT ![t] = to]
      BY <2>3 DEF SettleCompleted, SettleWaiting, SettleWorking, Transition
    <3> QED BY <1>1, <3>1, <3>2, AttemptsKept
  <2> QED BY <1>4, <2>2, <2>3 DEF SettleOne
<1>5. ASSUME NEW t \in Tasks, ClassifyOne(t) PROVE AttemptsInv'
  <2>1. /\ UNCHANGED <<attempts, count, cmds>>
        /\ status' # status => status[t] \in {"Pending", "Blocked"}
    BY <1>5 DEF ClassifyOne, ClassifyReady, ClassifyDownstream, ClassifyLeaves, Classifying,
                Reclassified
  <2>2. status' = status \/ \E to \in TaskStatus : status' = [status EXCEPT ![t] = to]
    BY <1>5 DEF ClassifyOne, ClassifyReady, ClassifyDownstream, ClassifyLeaves, Transition,
                TaskStatus
  <2> QED BY <1>1, <2>1, <2>2, AttemptsKept
<1>6. ASSUME NEW t \in Tasks, StartOne(t) PROVE AttemptsInv'
  <2>1. count' = count /\ status[t] = "Ready"
    BY <1>6 DEF StartOne, StartOverBudget, StartMissingInput, StartTask, Starting
  <2>2. CASE StartOverBudget(t) \/ StartMissingInput(t)
    <3>1. UNCHANGED <<attempts, cmds>> /\ status' = [status EXCEPT ![t] = "Blocked"]
      BY <2>2 DEF StartOverBudget, StartMissingInput, BlockFor
    <3> QED BY <1>1, <2>1, <3>1, AttemptsKept
  <2>3. CASE StartTask(t)
    <3>1. /\ attempts' = [attempts EXCEPT ![t] = @ + 1]
          /\ status' = [status EXCEPT ![t] = "Running"] /\ cmds' = Append(cmds, t)
      BY <2>3 DEF StartTask
    <3>2. ToSet(cmds') = ToSet(cmds) \cup {t} /\ ToSet(cmds) \subseteq Tasks
      BY <1>1, <3>1, AppendFacts, ToSetTasks
    <3>3. attempts[t] \in 0..RetryBound
      BY <1>1, <2>1 DEF AttemptsInv, AttemptsBounded
    <3>4. \A u \in TaskIds : u # t => status'[u] = status[u] /\ attempts'[u] = attempts[u]
      BY <1>1, <3>1
    <3>5. status'[t] = "Running" /\ attempts'[t] = attempts[t] + 1
      BY <1>1, <3>1
    <3>6. Tasks' = Tasks
      BY <2>1 DEF Tasks
    <3> QED BY <1>1, <3>2, <3>3, <3>4, <3>5, <3>6 DEF AttemptsInv, AttemptsBounded
  <2> QED BY <1>6, <2>2, <2>3 DEF StartOne
<1>7. ASSUME NEW t \in Tasks, SpawnOne(t) PROVE AttemptsInv'
  <2>1. /\ cmds # <<>> /\ t = Head(cmds) /\ cmds' = Tail(cmds) /\ count' = count
        /\ NoDuplicates(cmds)
    BY <1>7 DEF SpawnOne, SpawnSucceeds, SpawnFails, Spawning, IInv, Books, Separate
  <2>2. t \in ToSet(cmds) /\ ToSet(cmds') = ToSet(cmds) \ {t}
    BY <1>1, <2>1, TailFacts
  <2>3. CASE SpawnSucceeds(t)
    BY <1>1, <2>1, <2>2, <2>3, AttemptsKept DEF SpawnSucceeds
  <2>4. CASE SpawnFails(t)
    <3>1. attempts[t] - 1 \in 0..(RetryBound + 1)
      BY <1>1, <2>2 DEF AttemptsInv, AttemptsBounded
    <3> QED BY <1>1, <2>1, <2>2, <2>4, <3>1, FailCounts DEF SpawnFails
  <2> QED BY <1>7, <2>3, <2>4 DEF SpawnOne
<1> QED BY <1>2, <1>3, <1>4, <1>5, <1>6, <1>7 DEF Pass

(* A task is attempted at most max_retries + 1 times between two manual    *)
(* retries, failed starts included, under whatever policies follow each    *)
(* other.                                                                  *)
THEOREM AttemptsAreBounded == Spec => []AttemptsBounded
<1>1. Init => AttemptsInv
  BY EmptyList, RetryBoundAssumption, MaxTasksAssumption
     DEF Init, AttemptsInv, AttemptsBounded, Tasks, TaskIds
<1>2. IInv /\ AttemptsInv /\ [Next]_vars => AttemptsInv'
  <2> SUFFICES ASSUME IInv, AttemptsInv, [Next]_vars PROVE AttemptsInv'
    OBVIOUS
  <2>1. CASE UNCHANGED vars \/ Agents \/ DeferTimerElapses
    <3>1. UNCHANGED <<attempts, count, status, cmds>>
      BY <2>1 DEF vars, Agents, DeferTimerElapses, AgentReports, AgentExits, PumpEnds,
         UserStopsAgent, RemoveAgent, taskVars, graphVars, callVars
    <3> QED BY <3>1, AttemptsKept DEF IInv
  <2> QED BY <2>1, UserKeepsAttempts, PassKeepsAttempts DEF Next
<1>3. AttemptsInv => AttemptsBounded
  BY DEF AttemptsInv
<1> QED BY <1>1, <1>2, <1>3, Inductive, PTL DEF Spec

-----------------------------------------------------------------------------
(***************************************************************************)
(* Limits.  The parallelism limit bounds what is started and the budget is *)
(* checked when it is started; what has been spent only grows when a task  *)
(* that was under way is settled.  BudgetOvershoot alone says nothing of   *)
(* the tasks that have yet to report what they cost.                       *)
(***************************************************************************)
UnderWay == Len(running) + Len(todo) + Len(cmds)
BudgetInv ==
    cost > 0 \/ UnderWay > 0 =>
        cost + UnderWay * CostBound < CapBound + ParallelBound * CostBound

(* The three ways the load may move in a step: it does not grow, a task    *)
(* under way reports its cost, or a task is started within both limits.    *)
LoadFalls == /\ UnderWay' <= UnderWay /\ cost' = cost
             /\ cmds' # <<>> => /\ cmds # <<>> /\ policy' = policy
                                /\ Len(running') + Len(cmds') <= Len(running) + Len(cmds)
LoadPays == /\ UnderWay >= 1 /\ UnderWay' = UnderWay - 1 /\ cmds' = <<>>
            /\ \E c \in 0..CostBound : cost' = cost + c
LoadGrows == /\ UnderWay' = UnderWay + 1 /\ todo = <<>> /\ UNCHANGED <<cost, policy>>
             /\ ~OverBudget /\ HasRoom
             /\ Len(running') + Len(cmds') = Len(running) + Len(cmds) + 1

LEMMA ListLengths ==
    TypeOK => Len(running) \in Nat /\ Len(todo) \in Nat /\ Len(cmds) \in Nat /\ UnderWay \in Nat
  BY DEF TypeOK, UnderWay

LEMMA NextListLengths ==
    ASSUME TypeOK'
    PROVE  /\ Len(running') \in Nat /\ Len(cmds') \in Nat /\ UnderWay' \in Nat
           /\ cost' \in Nat
  BY DEF TypeOK, UnderWay

(* Vec::retain never makes a list longer.                                  *)
LEMMA WithoutShrinks ==
    ASSUME NEW S, NEW s \in Seq(S), NEW x
    PROVE  Len(Without(s, x)) <= Len(s)
<1>1. CASE x \notin ToSet(s)
  BY <1>1 DEF Without
<1>2. CASE x \in ToSet(s)
  <2> DEFINE k == CHOOSE i \in DOMAIN s : s[i] = x
  <2>1. k \in DOMAIN s
    BY <1>2 DEF ToSet
  <2> HIDE DEF k
  <2> DEFINE front == SubSeq(s, 1, k - 1)
             back == SubSeq(s, k + 1, Len(s))
  <2>2. k \in 1..Len(s) /\ Len(s) \in Nat
    BY <2>1
  <2>3. front \in Seq(S) /\ Len(front) = k - 1
    BY <2>2
  <2>4. back \in Seq(S) /\ Len(back) = IF k + 1 <= Len(s) THEN Len(s) - (k + 1) + 1 ELSE 0
    BY <2>2, SubSeqProperties
  <2>5. Without(s, x) = front \o back
    BY <1>2 DEF Without, k
  <2> HIDE DEF front, back
  <2>6. Len(front \o back) = Len(front) + Len(back)
    BY <2>3, <2>4
  <2> QED BY <2>2, <2>3, <2>4, <2>5, <2>6
<1> QED BY <1>1, <1>2

LEMMA CancelLightens ==
    ASSUME TypeOK, NEW t \in Tasks, Cancel(t), cmds = <<>>, UNCHANGED <<todo, cmds>>
    PROVE  LoadFalls
<1>1. Len(running') <= Len(running) /\ Len(running') \in Nat /\ cost' = cost
  BY WithoutShrinks, WithoutFacts, ListLengths DEF Cancel, TypeOK
<1> QED BY <1>1, ListLengths DEF LoadFalls, UnderWay

LEMMA UserLoad ==
    ASSUME IInv, UserCalls
    PROVE  LoadFalls
<1> USE DEF schedVars, callVars
<1>1. TypeOK /\ cmds = <<>> /\ cmds' = cmds /\ todo' = todo
  BY DEF IInv, CallLocals, UserCalls, TaskCreate, SetTaskPolicy, ResolveTaskReview,
     DrainFrame, TaskRun, StopAll, SetPaused, TaskCancel, TaskRetry, InvalidateTask,
     AddInputArtifact, ArtifactRegistered, AddDependency, RemoveDependency, Enter
<1>2. ASSUME NEW t \in Tasks, TaskCancel(t) PROVE LoadFalls
  BY <1>1, <1>2, CancelLightens DEF TaskCancel
<1>3. CASE ~(\E t \in Tasks : TaskCancel(t))
  <2>1. UNCHANGED <<running, cost>>
    BY <1>3 DEF UserCalls, TaskCreate, SetTaskPolicy, ResolveTaskReview, DrainFrame,
       TaskRun, StopAll, SetPaused, TaskRetry, InvalidateTask, AddInputArtifact,
       ArtifactRegistered, AddDependency, RemoveDependency, Enter
  <2> QED BY <1>1, <2>1, ListLengths DEF LoadFalls, UnderWay
<1> QED BY <1>2, <1>3

LEMMA PassLoad ==
    ASSUME IInv, Pass
    PROVE  LoadFalls \/ LoadPays \/ LoadGrows
<1> USE DEF taskVars, schedVars, frameFixed, setVars
<1>1. /\ TypeOK /\ running \in Seq(Tasks) /\ cmds \in Seq(Tasks) /\ todo \in Seq(Tasks)
      /\ Len(running) \in Nat /\ Len(todo) \in Nat /\ Len(cmds) \in Nat
      /\ count \in Nat /\ cursor \in Nat /\ cursor >= 1
  BY ListLengths DEF IInv, TypeOK
<1>2. CASE StopAllCancels
  <2>1. cmds = <<>> /\ UNCHANGED <<todo, cmds>>
    BY <1>2 DEF StopAllCancels, IInv, CallLocals
  <2>2. CASE UNCHANGED <<taskVars, schedVars>>
    BY <1>1, <2>1, <2>2 DEF LoadFalls, UnderWay
  <2>3. CASE cursor <= count /\ Cancel(cursor)
    BY <1>1, <2>1, <2>3, CancelLightens DEF Tasks
  <2> QED BY <1>1, <1>2, <2>2, <2>3 DEF StopAllCancels
<1>3. CASE ObserveSettles
  <2>1. /\ todo' = running /\ running' = <<>> /\ todo = <<>> /\ cmds = <<>>
        /\ UNCHANGED <<cmds, cost>>
    BY <1>3 DEF ObserveSettles, IInv, CallLocals
  <2>2. Len(todo) = 0 /\ Len(running') = 0
    BY <2>1
  <2> QED BY <1>1, <2>1, <2>2 DEF LoadFalls, UnderWay
<1>4. CASE TakeView \/ ObserveDefers \/ SettleEnds \/ ClassifyEnds \/ StartEnds \/ ExecEnds
  <2>1. UNCHANGED <<running, todo, cmds, cost, policy>>
    BY <1>4 DEF TakeView, ObserveDefers, SettleEnds, ClassifyEnds, StartEnds, ExecEnds, Return
  <2> QED BY <1>1, <2>1 DEF LoadFalls, UnderWay
<1>5. ASSUME NEW t \in Tasks, SettleOne(t) PROVE LoadFalls \/ LoadPays
  <2>1. Settling(t)
    BY <1>5 DEF SettleOne, SettleVanished, SettleFailed, SettleCompleted, SettleWaiting,
                SettleWorking
  <2>2. /\ Len(todo') = Len(todo) - 1 /\ Len(todo) >= 1 /\ cmds = <<>> /\ cmds' = <<>>
    BY <2>1, SettlingHead DEF IInv, CallLocals
  <2>3. CASE SettleCompleted(t)
    <3>1. running' = running /\ \E c \in 0..CostBound : cost' = cost + c
      BY <2>3, CostsAssumption DEF SettleCompleted
    <3> QED BY <1>1, <2>2, <3>1 DEF LoadPays, UnderWay
  <2>4. CASE ~SettleCompleted(t)
    <3>1. cost' = cost /\ (running' = running \/ running' = Append(running, t))
      BY <1>5, <2>4 DEF SettleOne, SettleVanished, SettleFailed, SettleWaiting, SettleWorking
    <3>2. Len(running') \in {Len(running), Len(running) + 1}
      BY <1>1, <3>1
    <3> QED BY <1>1, <2>2, <3>1, <3>2 DEF LoadFalls, UnderWay
  <2> QED BY <2>3, <2>4
<1>6. ASSUME NEW t \in Tasks, ClassifyOne(t) PROVE LoadFalls
  <2>1. UNCHANGED <<running, todo, cmds, cost, policy>>
    BY <1>6 DEF ClassifyOne, ClassifyReady, ClassifyDownstream, ClassifyLeaves, Classifying
  <2> QED BY <1>1, <2>1 DEF LoadFalls, UnderWay
<1>7. ASSUME NEW t \in Tasks, StartOne(t) PROVE LoadFalls \/ LoadGrows
  <2>1. UNCHANGED <<running, todo, cost, policy>> /\ HasRoom /\ todo = <<>>
    BY <1>7 DEF StartOne, StartOverBudget, StartMissingInput, StartTask, Starting,
       IInv, CallLocals
  <2>2. CASE StartTask(t)
    <3>1. cmds' = Append(cmds, t) /\ ~OverBudget
      BY <2>2 DEF StartTask
    <3>2. Len(cmds') = Len(cmds) + 1
      BY <1>1, <3>1
    <3> QED BY <1>1, <2>1, <3>1, <3>2 DEF LoadGrows, UnderWay
  <2>3. CASE StartOverBudget(t) \/ StartMissingInput(t)
    <3>1. cmds' = cmds
      BY <2>3 DEF StartOverBudget, StartMissingInput, BlockFor
    <3> QED BY <1>1, <2>1, <3>1 DEF LoadFalls, UnderWay
  <2> QED BY <1>7, <2>2, <2>3 DEF StartOne
<1>8. ASSUME NEW t \in Tasks, SpawnOne(t) PROVE LoadFalls
  <2>1. /\ cmds # <<>> /\ cmds' = Tail(cmds) /\ UNCHANGED <<todo, cost, policy>>
        /\ running' = running \/ running' = Append(running, t)
    BY <1>8 DEF SpawnOne, SpawnSucceeds, SpawnFails, Spawning
  <2>2. Len(cmds') = Len(cmds) - 1 /\ Len(cmds) >= 1
    BY <1>1, <2>1
  <2>3. Len(running') \in {Len(running), Len(running) + 1}
    BY <1>1, <2>1
  <2> QED BY <1>1, <2>1, <2>2, <2>3 DEF LoadFalls, UnderWay
<1> QED BY <1>2, <1>3, <1>4, <1>5, <1>6, <1>7, <1>8 DEF Pass

LEMMA LoadStep ==
    IInv /\ [Next]_vars => LoadFalls \/ LoadPays \/ LoadGrows
<1> SUFFICES ASSUME IInv, [Next]_vars PROVE LoadFalls \/ LoadPays \/ LoadGrows
  OBVIOUS
<1>1. CASE UNCHANGED vars \/ Agents \/ DeferTimerElapses
  <2>1. UNCHANGED <<running, todo, cmds, cost, policy>>
    BY <1>1 DEF vars, Agents, DeferTimerElapses, AgentReports, AgentExits, PumpEnds,
       UserStopsAgent, RemoveAgent, schedVars, callVars, setVars
  <2> QED BY <2>1, ListLengths DEF IInv, LoadFalls, UnderWay
<1> QED BY <1>1, UserLoad, PassLoad DEF Next

(* Whatever limit is set when a task starts, the tasks that run then and   *)
(* the ones being started do not exceed it, also when the limit was        *)
(* lowered below the number already running.                               *)
THEOREM LimitHolds == Spec => []ParallelLimit
<1>1. Init => ParallelLimit
  BY DEF Init, ParallelLimit
<1>2. IInv /\ IInv' /\ ParallelLimit /\ [Next]_vars => ParallelLimit'
  <2> SUFFICES ASSUME IInv, IInv', ParallelLimit, [Next]_vars PROVE ParallelLimit'
    OBVIOUS
  <2>1. /\ Len(running) \in Nat /\ Len(cmds) \in Nat /\ policy.parallel \in 0..ParallelBound
        /\ Len(running') \in Nat /\ Len(cmds') \in Nat
    BY ListLengths, NextListLengths, PolicyTypes DEF IInv
  <2>2. CASE LoadFalls
    BY <2>1, <2>2 DEF LoadFalls, ParallelLimit
  <2>3. CASE LoadPays
    BY <2>3 DEF LoadPays, ParallelLimit
  <2>4. CASE LoadGrows
    BY <2>1, <2>4 DEF LoadGrows, HasRoom, ParallelLimit
  <2> QED BY <2>2, <2>3, <2>4, LoadStep
<1> QED BY <1>1, <1>2, Inductive, PTL DEF Spec

(* What the provers need to know of products.                              *)
LEMMA Scaled ==
    ASSUME NEW m \in Nat, NEW n \in Nat, NEW c \in Nat, m <= n
    PROVE  m * c <= n * c
<1>1. /\ m * c \in Nat /\ n * c \in Nat /\ (n - m) * c \in Nat
      /\ n * c = m * c + (n - m) * c
  OBVIOUS
<1> QED BY <1>1

LEMMA OneLess ==
    ASSUME NEW m \in Nat, NEW c \in Nat
    PROVE  m * c \in Nat /\ (m - 1) * c = m * c - c
  OBVIOUS

LEMMA SumBelow ==
    \A a, b, c, d \in Nat : a < c /\ b <= d => a + b < c + d
  OBVIOUS

(* Tasks started below the cap may overshoot it, but never by more than    *)
(* the tasks the limit lets run together can cost.                         *)
THEOREM BudgetIsKept == Spec => []BudgetOvershoot
<1> USE CostsAssumption, RetryBoundAssumption
<1>1. Init => BudgetInv
  BY DEF Init, BudgetInv, UnderWay
<1>2. IInv /\ IInv' /\ BudgetInv /\ [Next]_vars => BudgetInv'
  <2> SUFFICES ASSUME IInv, IInv', BudgetInv, [Next]_vars PROVE BudgetInv'
    OBVIOUS
  <2>1. /\ UnderWay \in Nat /\ UnderWay' \in Nat /\ cost \in Nat /\ cost' \in Nat
        /\ policy.max_cost \in 0..CapBound /\ policy.parallel \in 0..ParallelBound
        /\ Len(running) \in Nat /\ Len(cmds) \in Nat
    BY ListLengths, NextListLengths, PolicyTypes DEF IInv, TypeOK
  <2> DEFINE before == UnderWay * CostBound
             after == UnderWay' * CostBound
             limit == ParallelBound * CostBound
  <2>2. /\ BudgetInv <=> (cost > 0 \/ UnderWay > 0 => cost + before < CapBound + limit)
        /\ BudgetInv' <=> (cost' > 0 \/ UnderWay' > 0 => cost' + after < CapBound + limit)
    BY DEF BudgetInv
  <2>3. /\ before \in Nat /\ after \in Nat /\ limit \in Nat
        /\ UnderWay' <= UnderWay => after <= before
        /\ UnderWay >= 1 /\ UnderWay' = UnderWay - 1 => after = before - CostBound
        /\ UnderWay' <= ParallelBound => after <= limit
    <3>1. before \in Nat /\ after \in Nat /\ limit \in Nat
      BY <2>1, OneLess
    <3>2. ASSUME UnderWay' <= UnderWay PROVE after <= before
      BY <2>1, <3>2, Scaled
    <3>3. ASSUME UnderWay >= 1, UnderWay' = UnderWay - 1 PROVE after = before - CostBound
      <4>1. (UnderWay - 1) * CostBound = UnderWay * CostBound - CostBound
        BY <2>1, OneLess
      <4> QED BY <3>3, <4>1
    <3>4. ASSUME UnderWay' <= ParallelBound PROVE after <= limit
      BY <2>1, <3>4, Scaled
    <3> QED BY <3>1, <3>2, <3>3, <3>4
  <2> HIDE DEF before, after, limit
  <2>4. CASE LoadFalls
    BY <2>1, <2>2, <2>3, <2>4 DEF LoadFalls
  <2>5. CASE LoadPays
    BY <2>1, <2>2, <2>3, <2>5 DEF LoadPays
  <2>6. CASE LoadGrows
    <3>1. cost' < CapBound /\ UnderWay' <= ParallelBound
      BY <2>1, <2>6 DEF LoadGrows, OverBudget, HasRoom, UnderWay
    <3>2. after <= limit
      BY <2>3, <3>1
    <3>3. cost' \in Nat /\ after \in Nat /\ limit \in Nat /\ CapBound \in Nat
      BY <2>1, <2>3
    <3>4. cost' + after < CapBound + limit
      BY <3>1, <3>2, <3>3, SumBelow
    <3> QED BY <2>2, <3>4
  <2> QED BY <2>4, <2>5, <2>6, LoadStep
<1>3. IInv /\ BudgetInv => BudgetOvershoot
  <2> SUFFICES ASSUME IInv, BudgetInv PROVE BudgetOvershoot
    OBVIOUS
  <2> DEFINE load == UnderWay * CostBound
             limit == ParallelBound * CostBound
  <2>1. cost \in Nat /\ UnderWay \in Nat /\ load \in Nat /\ limit \in Nat
    <3>1. cost \in Nat /\ UnderWay \in Nat
      BY ListLengths DEF IInv, TypeOK
    <3> QED BY <3>1, OneLess
  <2>2. /\ cost > 0 => cost + load < CapBound + limit
        /\ BudgetOvershoot <=> (cost > 0 => cost < CapBound + limit)
    BY DEF BudgetInv, BudgetOvershoot
  <2> HIDE DEF load, limit
  <2> QED BY <2>1, <2>2
<1> QED BY <1>1, <1>2, <1>3, Inductive, PTL DEF Spec

-----------------------------------------------------------------------------
(***************************************************************************)
(* What no step may do.  Users, agents and the clock act between calls.    *)
(***************************************************************************)
LEMMA OutsideIsIdle ==
    ASSUME Agents \/ DeferTimerElapses \/ UserCalls
    PROVE  phase = "idle"
  BY DEF Agents, DeferTimerElapses, AgentReports, AgentExits, PumpEnds, UserStopsAgent,
     RemoveAgent, UserCalls, TaskCreate, SetTaskPolicy, ResolveTaskReview, DrainFrame,
     TaskRun, StopAll, SetPaused, TaskCancel, TaskRetry, InvalidateTask,
     AddInputArtifact, ArtifactRegistered, AddDependency, RemoveDependency, Enter

(* A paused pass ends before its start loop.                               *)
PauseInv == phase \in {"start", "exec"} => ~paused

LEMMA PauseStep == PauseInv /\ [Next]_vars => PauseInv'
<1> SUFFICES ASSUME PauseInv, [Next]_vars PROVE PauseInv'
  OBVIOUS
<1> USE DEF frameFixed, setVars, callVars
<1>1. CASE UNCHANGED vars \/ Agents \/ DeferTimerElapses
  <2>1. UNCHANGED <<phase, paused>>
    BY <1>1 DEF vars, Agents, DeferTimerElapses, AgentReports, AgentExits, PumpEnds,
       UserStopsAgent, RemoveAgent
  <2> QED BY <2>1 DEF PauseInv
<1>2. CASE UserCalls
  <2>1. phase' \in {"idle", "submit", "stop", "view"}
    BY <1>2 DEF UserCalls, TaskCreate, SetTaskPolicy, ResolveTaskReview, DrainFrame,
       TaskRun, StopAll, SetPaused, TaskCancel, TaskRetry, InvalidateTask,
       AddInputArtifact, ArtifactRegistered, AddDependency, RemoveDependency, Enter
  <2> QED BY <2>1 DEF PauseInv
<1>3. CASE Pass
  <2>1. paused' = paused
    BY <1>3 DEF Pass, StopAllCancels, TakeView, ObserveDefers, ObserveSettles, SettleEnds,
       ClassifyEnds, StartEnds, ExecEnds, SettleOne, ClassifyOne, StartOne, SpawnOne,
       SettleVanished, SettleFailed, SettleCompleted, SettleWaiting, SettleWorking,
       ClassifyReady, ClassifyDownstream, ClassifyLeaves, StartOverBudget,
       StartMissingInput, StartTask, SpawnSucceeds, SpawnFails, Settling,
       Classifying, Starting, Spawning
  <2>2. CASE ClassifyEnds
    BY <2>1, <2>2 DEF PauseInv, ClassifyEnds, Return
  <2>3. CASE StopAllCancels \/ TakeView \/ ObserveDefers \/ ObserveSettles \/ SettleEnds
             \/ StartEnds \/ ExecEnds
    BY <2>1, <2>3 DEF PauseInv, StopAllCancels, TakeView, ObserveDefers, ObserveSettles,
       SettleEnds, StartEnds, ExecEnds, Return
  <2>4. ASSUME NEW t \in Tasks, SettleOne(t) \/ ClassifyOne(t) \/ StartOne(t) \/ SpawnOne(t)
        PROVE  phase' = phase
    BY <2>4 DEF SettleOne, ClassifyOne, StartOne, SpawnOne, SettleVanished, SettleFailed,
       SettleCompleted, SettleWaiting, SettleWorking, ClassifyReady, ClassifyDownstream,
       ClassifyLeaves, StartOverBudget, StartMissingInput, StartTask, SpawnSucceeds,
       SpawnFails, Settling, Classifying, Starting, Spawning
  <2> QED BY <1>3, <2>1, <2>2, <2>3, <2>4 DEF Pass, PauseInv
<1> QED BY <1>1, <1>2, <1>3 DEF Next

(* Only the start loop sets a task running.                                *)
LEMMA OnlyStartsRun ==
    ASSUME TypeOK, [Next]_vars, NEW t \in Tasks, status[t] # "Running", status'[t] = "Running"
    PROVE  phase = "start"
<1> USE DEF taskVars
<1>1. status \in [TaskIds -> TaskStatus] /\ Tasks \subseteq TaskIds
  BY TasksAreIds DEF TypeOK
<1>2. CASE UNCHANGED vars \/ Agents \/ DeferTimerElapses
  BY <1>2 DEF vars, Agents, DeferTimerElapses, AgentReports, AgentExits, PumpEnds,
     UserStopsAgent, RemoveAgent
<1>3. CASE UserCalls
  <2>1. \/ status' = status
        \/ \E u \in Tasks, to \in {"Ready", "Completed", "Failed", "Cancelled"} :
              status' = [status EXCEPT ![u] = to]
    BY <1>3 DEF UserCalls, TaskCreate, SetTaskPolicy, ResolveTaskReview, DrainFrame,
       TaskRun, StopAll, SetPaused, TaskCancel, Cancel, TaskRetry, InvalidateTask,
       AddInputArtifact, ArtifactRegistered, AddDependency, RemoveDependency, Transition
  <2> QED BY <1>1, <2>1
<1>4. CASE Pass
  <2>1. CASE StopAllCancels
    <3>1. status' = status \/ status' = [status EXCEPT ![cursor] = "Cancelled"]
      BY <2>1 DEF StopAllCancels, Cancel, Transition
    <3> QED BY <1>1, <3>1
  <2>2. CASE TakeView \/ ObserveDefers \/ ObserveSettles \/ SettleEnds \/ ClassifyEnds
             \/ StartEnds \/ ExecEnds
    BY <2>2 DEF TakeView, ObserveDefers, ObserveSettles, SettleEnds, ClassifyEnds,
       StartEnds, ExecEnds
  <2>3. ASSUME NEW u \in Tasks, SettleOne(u) \/ ClassifyOne(u) \/ SpawnOne(u)
        PROVE  FALSE
    <3>1. \/ status' = status
          \/ \E to \in {"Ready", "Failed", "NeedsReview", "Completed", "Waiting", "Blocked",
                        "Skipped"} : status' = [status EXCEPT ![u] = to]
      BY <2>3 DEF SettleOne, ClassifyOne, SpawnOne, SettleVanished, SettleFailed,
         SettleCompleted, SettleWaiting, SettleWorking, ClassifyReady,
         ClassifyDownstream, ClassifyLeaves, SpawnSucceeds, SpawnFails, Fail, Transition
    <3> QED BY <1>1, <3>1
  <2>4. ASSUME NEW u \in Tasks, StartOne(u) PROVE phase = "start"
    BY <2>4 DEF StartOne, StartOverBudget, StartMissingInput, StartTask, Starting
  <2> QED BY <1>4, <2>1, <2>2, <2>3, <2>4 DEF Pass
<1> QED BY <1>2, <1>3, <1>4 DEF Next

(* PAUSE ALL: while work is paused no task starts to run, whatever pass    *)
(* was under way and however the user releases tasks.                      *)
THEOREM PauseHolds == Spec => PausedStartsNothing
<1>1. Init => PauseInv
  BY DEF Init, PauseInv
<1>2. TypeOK /\ PauseInv /\ [Next]_vars =>
        [paused => \A t \in Tasks : status[t] # "Running" => status'[t] # "Running"]_vars
  BY OnlyStartsRun DEF PauseInv
<1> QED BY <1>1, <1>2, PauseStep, TypeCorrect, PTL DEF Spec, PausedStartsNothing

(* A task blocked on the budget or on a missing artifact waits for a       *)
(* human: no loop of a pass releases, skips, settles or starts it.         *)
THEOREM HumanIsAwaited == Spec => HumanBlockHolds
<1>1. IInv /\ [Next]_vars =>
        [\A t \in Tasks : status[t] = "Blocked" /\ error[t] \in {"budget", "artifact"}
            /\ phase \in {"submit", "classify", "settle", "start", "exec"}
            => status'[t] = "Blocked"]_vars
  <2> SUFFICES ASSUME IInv, [Next]_vars, NEW t \in Tasks, status[t] = "Blocked",
                      error[t] \in {"budget", "artifact"},
                      phase \in {"submit", "classify", "settle", "start", "exec"}
               PROVE  status'[t] = "Blocked" \/ UNCHANGED vars
    OBVIOUS
  <2> USE DEF taskVars
  <2>1. /\ status \in [TaskIds -> TaskStatus] /\ Tasks \subseteq TaskIds
        /\ cmds \in Seq(Tasks)
    BY TasksAreIds DEF IInv, TypeOK
  <2>2. CASE Agents \/ DeferTimerElapses \/ UserCalls
    BY <2>2, OutsideIsIdle
  <2>3. CASE StopAllCancels \/ TakeView \/ ObserveDefers \/ ObserveSettles
    BY <2>3 DEF StopAllCancels, TakeView, ObserveDefers, ObserveSettles
  <2>4. CASE SettleEnds \/ ClassifyEnds \/ StartEnds \/ ExecEnds
    BY <2>4 DEF SettleEnds, ClassifyEnds, StartEnds, ExecEnds
  <2>5. ASSUME NEW u \in Tasks, SettleOne(u) PROVE status'[t] = "Blocked"
    <3>1. Settling(u)
      BY <2>5 DEF SettleOne, SettleVanished, SettleFailed, SettleCompleted, SettleWaiting,
                  SettleWorking
    <3>2. u # t
      BY <3>1, SettlingHead DEF IInv, Books, HeldIsActive
    <3>3. status' = status \/ \E to : status' = [status EXCEPT ![u] = to]
      BY <2>5 DEF SettleOne, SettleVanished, SettleFailed, SettleCompleted, SettleWaiting,
                  SettleWorking, Fail, Transition
    <3> QED BY <2>1, <3>2, <3>3
  <2>6. ASSUME NEW u \in Tasks, ClassifyOne(u) PROVE status'[t] = "Blocked"
    <3>1. status' = status \/ (Reclassified(u) /\ \E to : status' = [status EXCEPT ![u] = to])
      BY <2>6 DEF ClassifyOne, ClassifyReady, ClassifyDownstream, ClassifyLeaves, Transition
    <3>2. ~Reclassified(t)
      BY DEF Reclassified
    <3> QED BY <2>1, <3>1, <3>2
  <2>7. ASSUME NEW u \in Tasks, StartOne(u) PROVE status'[t] = "Blocked"
    <3>1. status[u] = "Ready" /\ \E to : status' = [status EXCEPT ![u] = to]
      BY <2>7 DEF StartOne, StartOverBudget, StartMissingInput, StartTask, Starting, BlockFor
    <3> QED BY <2>1, <3>1
  <2>8. ASSUME NEW u \in Tasks, SpawnOne(u) PROVE status'[t] = "Blocked"
    <3>1. /\ cmds # <<>> /\ u = Head(cmds)
          /\ status' = status \/ \E to : status' = [status EXCEPT ![u] = to]
      BY <2>8 DEF SpawnOne, SpawnSucceeds, SpawnFails, Spawning, Fail
    <3>2. u # t
      BY <2>1, <3>1, TailFacts DEF IInv, Books, HeldIsActive
    <3> QED BY <2>1, <3>1, <3>2
  <2> QED BY <2>2, <2>3, <2>4, <2>5, <2>6, <2>7, <2>8 DEF Next, Pass
<1> QED BY <1>1, Inductive, PTL DEF Spec, HumanBlockHolds

(* STOP ALL has dealt with the tasks before its cursor.                    *)
StopInv ==
    phase = "stop" => \A t \in Tasks : t < cursor =>
        status[t] \notin {"Pending", "Ready", "Running", "Waiting", "Blocked"}

LEMMA StopStep == TypeOK /\ StopInv /\ [Next]_vars => StopInv'
<1> SUFFICES ASSUME TypeOK, StopInv, [Next]_vars PROVE StopInv'
  OBVIOUS
<1> USE DEF taskVars, graphVars, callVars
<1>1. /\ status \in [TaskIds -> TaskStatus] /\ Tasks \subseteq TaskIds
      /\ count \in Nat /\ cursor \in Nat /\ cursor >= 1
  BY TasksAreIds DEF TypeOK
<1>2. CASE UNCHANGED vars \/ Agents \/ DeferTimerElapses
  <2>1. UNCHANGED <<phase, count, cursor, status>>
    BY <1>2 DEF vars, Agents, DeferTimerElapses, AgentReports, AgentExits, PumpEnds,
       UserStopsAgent, RemoveAgent
  <2> QED BY <2>1 DEF StopInv, Tasks
<1>3. CASE UserCalls
  <2>1. phase' # "stop" \/ (cursor' = 1 /\ count' = count)
    <3>1. CASE StopAll
      BY <3>1 DEF StopAll, Enter
    <3>2. CASE ~StopAll
      BY <1>3, <3>2 DEF UserCalls, TaskCreate, SetTaskPolicy, ResolveTaskReview,
         DrainFrame, TaskRun, SetPaused, TaskCancel, TaskRetry, InvalidateTask,
         AddInputArtifact, ArtifactRegistered, AddDependency, RemoveDependency, Enter
    <3> QED BY <3>1, <3>2
  <2> QED BY <1>1, <2>1 DEF StopInv, Tasks
<1>4. CASE StopAllCancels
  <2>1. CASE cursor > count
    BY <1>4, <2>1 DEF StopAllCancels, StopInv
  <2>2. CASE cursor <= count
    <3>1. phase = "stop" /\ cursor' = cursor + 1 /\ count' = count /\ cursor \in Tasks
      BY <1>1, <1>4, <2>2 DEF StopAllCancels, Tasks
    <3>2. \A t \in Tasks : t # cursor => status'[t] = status[t]
      BY <1>1, <1>4, <2>2 DEF StopAllCancels, Cancel, Transition
    <3>3. status'[cursor] \notin {"Pending", "Ready", "Running", "Waiting", "Blocked"}
      BY <1>1, <1>4, <2>2, <3>1 DEF StopAllCancels, Cancel, Transition, can_transition
    <3>4. \A t \in Tasks : t < cursor + 1 => t = cursor \/ t < cursor
      BY <1>1 DEF Tasks
    <3> QED BY <3>1, <3>2, <3>3, <3>4 DEF StopInv, Tasks
  <2> QED BY <1>1, <2>1, <2>2
<1>5. CASE Pass /\ ~StopAllCancels
  <2>1. phase' # "stop"
    BY <1>5 DEF Pass, TakeView, ObserveDefers, ObserveSettles, SettleEnds,
       ClassifyEnds, StartEnds, ExecEnds, SettleOne, ClassifyOne, StartOne, SpawnOne,
       SettleVanished, SettleFailed, SettleCompleted, SettleWaiting, SettleWorking,
       ClassifyReady, ClassifyDownstream, ClassifyLeaves, StartOverBudget,
       StartMissingInput, StartTask, SpawnSucceeds, SpawnFails, Settling,
       Classifying, Starting, Spawning, Return
  <2> QED BY <2>1 DEF StopInv
<1> QED BY <1>2, <1>3, <1>4, <1>5 DEF Next

(* A list of tasks that holds none is empty.                               *)
LEMMA NothingListed ==
    ASSUME NEW s \in Seq(Tasks), ToSet(s) = {} PROVE s = <<>>
  BY TailFacts

(* STOP ALL leaves nothing to run: by the time the pass it ends with       *)
(* begins, no task is queued or held and every agent has been told.        *)
THEOREM StopAllIsFinal == Spec => StopAllQuiesces
<1>1. Init => StopInv
  BY DEF Init, StopInv
<1>2. IInv /\ AgentInv /\ StopInv /\ [Next]_vars =>
        [phase = "stop" /\ phase' = "view" =>
            /\ queue' = <<>> /\ running' = <<>>
            /\ \A t \in Tasks : agent'[t].pump => agent'[t].stop]_vars
  <2> SUFFICES ASSUME IInv, AgentInv, StopInv, [Next]_vars, phase = "stop", phase' = "view"
               PROVE  /\ queue' = <<>> /\ running' = <<>>
                      /\ \A t \in Tasks : agent'[t].pump => agent'[t].stop
    OBVIOUS
  <2>1. StopAllCancels /\ cursor > count
    BY OutsideIsIdle DEF Next, vars, callVars, Pass, StopAllCancels, TakeView,
       ObserveDefers, ObserveSettles, SettleEnds, ClassifyEnds, StartEnds, ExecEnds,
       SettleOne, ClassifyOne, StartOne, SpawnOne, SettleVanished, SettleFailed,
       SettleCompleted, SettleWaiting, SettleWorking, ClassifyReady,
       ClassifyDownstream, ClassifyLeaves, StartOverBudget, StartMissingInput,
       StartTask, SpawnSucceeds, SpawnFails, Settling, Classifying, Starting, Spawning
  <2>2. UNCHANGED <<queue, running, agent>>
    BY <2>1 DEF StopAllCancels, schedVars
  <2>3. \A t \in Tasks : status[t] \notin {"Ready", "Running", "Waiting"}
    <3>1. \A t \in Tasks : t < cursor
      BY <2>1 DEF IInv, TypeOK, Tasks
    <3> QED BY <3>1 DEF StopInv
  <2>4. queue \in Seq(Tasks) /\ running \in Seq(Tasks)
    BY DEF IInv, TypeOK
  <2>5. ToSet(queue) = {}
    BY <2>3 DEF IInv, Books, QueueIsReady
  <2>6. ToSet(running) = {}
    BY <2>3, <2>4, ToSetTasks DEF IInv, Books, HeldIsActive, Held
  <2>7. \A t \in Tasks : agent[t].pump => agent[t].stop
    BY TasksAreIds DEF IInv, AgentInv, StopIsTold
  <2> QED BY <2>2, <2>4, <2>5, <2>6, <2>7, NothingListed
<1> QED BY <1>1, <1>2, StopStep, TypeCorrect, Inductive, AgentsKeptAlways, PTL
        DEF Spec, StopAllQuiesces

=============================================================================
