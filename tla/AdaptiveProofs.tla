---------------------------- MODULE AdaptiveProofs ----------------------------
(***************************************************************************)
(* Theorems about Adaptive, for any tasks, limits and bounds: the history  *)
(* of plan versions is one chain, no more plans are proposed than the      *)
(* limits allow, and a human is told once that a limit is used up,         *)
(* whatever is reverted, edited, limited anew, saved and restored.         *)
(***************************************************************************)
EXTENDS Adaptive, FiniteSetTheorems, SequenceTheorems, TLAPS

(* Counters and limits are numbers, and one limit is the highest.          *)
Bounds ==
    /\ MaxTime \in Nat /\ MaxVersions \in Nat
    /\ Limits \subseteq Nat /\ \E n \in Limits : \A m \in Limits : m <= n

Version == [plan : Plans, superseded_by : 0..MaxVersions, approved : BOOLEAN]
Highest == CHOOSE n \in Limits : \A m \in Limits : m <= n

(* What holds of the versions vs, the proposals ps and the count of a      *)
(* state, in memory or in the state file.                                  *)
Typed(vs, ps) ==
    /\ vs \in Seq(Version) /\ Len(vs) <= MaxVersions
    /\ ps \subseteq [id : 1..MaxVersions, plan : Plans]

Chain(vs) ==
    \A v \in DOMAIN vs : vs[v].superseded_by = IF v = Len(vs) THEN 0 ELSE v + 1

PlansOf(vs) == {vs[v].plan : v \in DOMAIN vs}

(* Each plan of the history was counted when it was made.                  *)
Counted(vs, count) ==
    /\ count \in Nat /\ count <= Highest
    /\ IsFiniteSet(PlansOf(vs)) /\ Cardinality(PlansOf(vs)) <= count

Told(escalated, reached) ==
    reached \in BOOLEAN /\ escalated = IF reached THEN 1 ELSE 0

History ==
    /\ Typed(versions, proposals) /\ Chain(versions)
    /\ Counted(versions, replan_count) /\ Told(escalations, limit_reached)
    /\ max_replans \in Limits /\ made \in 0..MaxVersions

(* What a restart brings back.                                             *)
SavedHistory ==
    /\ Typed(saved.versions, saved.proposals) /\ Chain(saved.versions)
    /\ Counted(saved.versions, saved.count) /\ Told(saved.escalations, saved.limit_reached)
    /\ saved.max_replans \in Limits

Gates ==
    /\ now \in 0..MaxTime /\ paused \in BOOLEAN
    /\ world \in [cond : [Tasks -> Conditions], findings : 0..2,
                  budget : {"none", "within", "risk", "over"}]
    /\ registry \in [Keys -> -1..MaxTime]
    /\ signals \subseteq Keys \cup {Manual} /\ saved.signals \subseteq Keys \cup {Manual}
    /\ planner \in [phase : Phases, plan : [of : 0..MaxVersions, edited : BOOLEAN]]

IInv == History /\ SavedHistory /\ Gates

historyVars == <<replan_count, proposals, versions, made, max_replans,
                 limit_reached, escalations>>
surroundVars == <<now, paused, world, registry, signals, planner>>

-----------------------------------------------------------------------------
(* The history.                                                            *)

LEMMA HighestLimit ==
    ASSUME Bounds
    PROVE  Highest \in Limits /\ Highest \in Nat /\ \A m \in Limits : m <= Highest
  BY DEF Bounds, Highest

(* Superseding the last version leaves a history as long as it was, with   *)
(* the same plans.                                                         *)
LEMMA Supersedes ==
    ASSUME Bounds, NEW vs \in Seq(Version), NEW n \in 0..MaxVersions
    PROVE  /\ Superseded(vs, n) \in Seq(Version) /\ Len(Superseded(vs, n)) = Len(vs)
           /\ \A v \in 1..Len(vs) :
                /\ Superseded(vs, n)[v].plan = vs[v].plan
                /\ Superseded(vs, n)[v].superseded_by =
                     IF v = Len(vs) THEN n ELSE vs[v].superseded_by
<1>1. CASE vs = <<>>
  BY <1>1 DEF Superseded
<1>2. CASE vs # <<>>
  <2> DEFINE e == [vs[Len(vs)] EXCEPT !.superseded_by = n]
             s == [vs EXCEPT ![Len(vs)] = e]
  <2>1. Len(vs) \in 1..Len(vs) /\ vs[Len(vs)] \in Version
    BY <1>2
  <2>2. e \in Version /\ e.plan = vs[Len(vs)].plan /\ e.superseded_by = n
    BY <2>1 DEF Version
  <2>3. Superseded(vs, n) = s
    BY <1>2 DEF Superseded
  <2> HIDE DEF e
  <2>4. s \in Seq(Version) /\ Len(s) = Len(vs)
        /\ \A v \in 1..Len(vs) : s[v] = IF v = Len(vs) THEN e ELSE vs[v]
    BY <2>1, <2>2
  <2> HIDE DEF s
  <2> QED BY <2>2, <2>3, <2>4
<1> QED BY <1>1, <1>2

(* The next version ends a chain, and adds its plan to those there were.   *)
LEMMA Nexts ==
    ASSUME Bounds, NEW vs \in Seq(Version), Len(vs) < MaxVersions, Chain(vs),
           NEW plan \in Plans, NEW approved \in BOOLEAN
    PROVE  /\ NextVersion(vs, plan, approved) \in Seq(Version)
           /\ Len(NextVersion(vs, plan, approved)) = Len(vs) + 1
           /\ Chain(NextVersion(vs, plan, approved))
           /\ PlansOf(NextVersion(vs, plan, approved)) = PlansOf(vs) \cup {plan}
<1> DEFINE n == Len(vs) + 1
           e == [plan |-> plan, superseded_by |-> 0, approved |-> approved]
           s == Superseded(vs, n)
           x == NextVersion(vs, plan, approved)
<1>1. n \in 0..MaxVersions /\ Len(vs) \in Nat
  BY DEF Bounds
<1>2. e \in Version /\ e.plan = plan /\ e.superseded_by = 0
  BY DEF Version, Bounds
<1>3. /\ s \in Seq(Version) /\ Len(s) = Len(vs)
      /\ \A v \in 1..Len(vs) :
           /\ s[v].plan = vs[v].plan
           /\ s[v].superseded_by = IF v = Len(vs) THEN n ELSE vs[v].superseded_by
  BY <1>1, Supersedes
<1>4. x = Append(s, e)
  BY DEF NextVersion
<1> SUFFICES /\ x \in Seq(Version) /\ Len(x) = n /\ Chain(x)
             /\ PlansOf(x) = PlansOf(vs) \cup {plan}
  OBVIOUS
<1> HIDE DEF e, s, x
<1>5. x \in Seq(Version) /\ Len(x) = n
      /\ \A v \in 1..n : x[v] = IF v = n THEN e ELSE s[v]
  BY <1>2, <1>3, <1>4
<1>6. DOMAIN x = 1..n /\ DOMAIN vs = 1..Len(vs)
  BY <1>5
<1>7. \A v \in 1..n : x[v].superseded_by = IF v = n THEN 0 ELSE v + 1
  <2> SUFFICES ASSUME NEW v \in 1..n PROVE x[v].superseded_by = IF v = n THEN 0 ELSE v + 1
    OBVIOUS
  <2>1. CASE v = n
    BY <1>2, <1>5, <2>1
  <2>2. CASE v # n
    <3>1. v \in 1..Len(vs) /\ x[v] = s[v]
      BY <1>1, <1>5, <2>2
    <3>2. vs[v].superseded_by = IF v = Len(vs) THEN 0 ELSE v + 1
      BY <1>6, <3>1 DEF Chain
    <3> QED BY <1>1, <1>3, <2>2, <3>1, <3>2
  <2> QED BY <2>1, <2>2
<1>8. \A v \in 1..n : x[v].plan = IF v = n THEN plan ELSE vs[v].plan
  BY <1>1, <1>2, <1>3, <1>5
<1>9. PlansOf(x) = PlansOf(vs) \cup {plan}
  <2>1. 1..n = 1..Len(vs) \cup {n} /\ n \notin 1..Len(vs)
    BY <1>1
  <2> HIDE DEF n
  <2> QED BY <1>6, <1>8, <2>1 DEF PlansOf
<1> QED BY <1>5, <1>6, <1>7, <1>9 DEF Chain

LEMMA OnePlanMore ==
    ASSUME NEW S, IsFiniteSet(S), NEW p
    PROVE  /\ IsFiniteSet(S \cup {p}) /\ Cardinality(S) \in Nat
           /\ Cardinality(S \cup {p}) <= Cardinality(S) + 1
           /\ p \in S => S \cup {p} = S
<1>1. /\ IsFiniteSet(S \cup {p}) /\ Cardinality(S) \in Nat
      /\ Cardinality(S \cup {p}) = IF p \in S THEN Cardinality(S) ELSE Cardinality(S) + 1
  BY FS_AddElement, FS_CardinalityType
<1> QED BY <1>1

(* The approval of the last version leaves the chain and its plans.        *)
LEMMA Approves ==
    ASSUME Bounds, NEW vs \in Seq(Version), Chain(vs)
    PROVE  LET x == [vs EXCEPT ![Len(vs)].approved = TRUE]
           IN /\ x \in Seq(Version) /\ Len(x) = Len(vs) /\ Chain(x)
              /\ PlansOf(x) = PlansOf(vs)
<1> DEFINE e == [vs[Len(vs)] EXCEPT !.approved = TRUE]
           x == [vs EXCEPT ![Len(vs)] = e]
<1> SUFFICES x \in Seq(Version) /\ Len(x) = Len(vs) /\ Chain(x) /\ PlansOf(x) = PlansOf(vs)
  OBVIOUS
<1>1. CASE vs = <<>>
  <2>1. x = vs
    BY <1>1
  <2> QED BY <2>1
<1>2. CASE vs # <<>>
  <2>1. Len(vs) \in 1..Len(vs) /\ vs[Len(vs)] \in Version /\ DOMAIN vs = 1..Len(vs)
    BY <1>2
  <2>2. /\ e \in Version /\ e.plan = vs[Len(vs)].plan
        /\ e.superseded_by = vs[Len(vs)].superseded_by
    BY <2>1 DEF Version
  <2> HIDE DEF e
  <2>3. x \in Seq(Version) /\ Len(x) = Len(vs)
        /\ \A v \in 1..Len(vs) : x[v] = IF v = Len(vs) THEN e ELSE vs[v]
    BY <2>1, <2>2
  <2> HIDE DEF x
  <2>4. DOMAIN x = DOMAIN vs
        /\ \A v \in DOMAIN vs : /\ x[v].plan = vs[v].plan
                                /\ x[v].superseded_by = vs[v].superseded_by
    <3>1. DOMAIN x = 1..Len(vs)
      BY <2>3
    <3>2. \A v \in 1..Len(vs) : x[v].plan = vs[v].plan
      BY <2>2, <2>3
    <3>3. \A v \in 1..Len(vs) : x[v].superseded_by = vs[v].superseded_by
      BY <2>2, <2>3
    <3> QED BY <2>1, <3>1, <3>2, <3>3
  <2>5. PlansOf(x) = PlansOf(vs)
    BY <2>4 DEF PlansOf
  <2>6. Chain(x)
    BY <2>3, <2>4 DEF Chain
  <2> QED BY <2>3, <2>5, <2>6
<1> QED BY <1>1, <1>2

(* Of a chain that is not empty, the last version is the newest current.   *)
LEMMA Newest ==
    ASSUME Bounds, NEW vs \in Seq(Version), Chain(vs), vs # <<>>
    PROVE  LET current == {w \in DOMAIN vs : vs[w].superseded_by = 0}
           IN (CHOOSE w \in current : \A x \in current : x <= w) = Len(vs)
<1> DEFINE current == {w \in DOMAIN vs : vs[w].superseded_by = 0}
<1>1. Len(vs) \in Nat \ {0} /\ DOMAIN vs = 1..Len(vs)
  OBVIOUS
<1>2. current = {Len(vs)}
  BY <1>1 DEF Chain
<1> HIDE DEF current
<1>3. (CHOOSE w \in current : \A x \in current : x <= w) = Len(vs)
  BY <1>1, <1>2
<1> QED BY <1>3 DEF current

-----------------------------------------------------------------------------
(* The steps.                                                              *)

(* A step that changes neither the history nor what is saved of it.        *)
LEMMA HistoryStays ==
    ASSUME IInv, UNCHANGED <<historyVars, saved>>
    PROVE  History' /\ SavedHistory' /\ (saved.signals \subseteq Keys \cup {Manual})'
BY DEF IInv, History, SavedHistory, Gates, historyVars, Typed, Chain, Counted, PlansOf, Told

LEMMA Evaluated ==
    ASSUME world \in [cond : [Tasks -> Conditions], findings : 0..2,
                      budget : {"none", "within", "risk", "over"}]
    PROVE  evaluate \subseteq Keys
<1>1. world.findings \in 0..2
  OBVIOUS
<1>2. world.findings # 0 => world.findings \in 1..2
  BY <1>1
<1> QED BY <1>2 DEF evaluate, Keys, dedupe_key

(* Whatever keys are recorded, a human is told once.                       *)
LEMMA SignalsRecorded ==
    ASSUME Bounds, IInv, detect_replan_signals
    PROVE  IInv'
<1>1. evaluate \subseteq Keys
  BY Evaluated DEF IInv, Gates
<1> DEFINE through == {k \in evaluate : admit(k)}
           escalate == through # {} /\ replan_count >= max_replans /\ ~limit_reached
           first == {k \in through : \A j \in through : Rank(k) <= Rank(j)}
<1>2. /\ registry' = [k \in Keys |-> IF k \in through THEN now ELSE registry[k]]
      /\ limit_reached' = (limit_reached \/ escalate)
      /\ escalations' = escalations + (IF escalate THEN 1 ELSE 0)
      /\ \E lost \in IF escalate THEN {{k} : k \in first} ELSE {{}} :
            signals' = signals \cup (through \ lost)
      /\ UNCHANGED <<now, world, planVars, max_replans, paused, saved>>
  BY DEF detect_replan_signals, record_replan_signals
<1>3. through \subseteq Keys /\ escalate \in BOOLEAN /\ (escalate => ~limit_reached)
  BY <1>1
<1> HIDE DEF through, escalate, first
<1>4. now \in 0..MaxTime /\ registry \in [Keys -> -1..MaxTime] /\ MaxTime \in Nat
  BY DEF IInv, Gates, Bounds
<1>5. registry' \in [Keys -> -1..MaxTime]
  BY <1>2, <1>4
<1>6. signals' \subseteq Keys \cup {Manual}
  BY <1>2, <1>3 DEF IInv, Gates
<1>7. Told(escalations, limit_reached)'
  BY <1>2, <1>3 DEF IInv, History, Told
<1>8. History'
  BY <1>2, <1>7 DEF IInv, History, planVars, Typed, Chain, Counted, PlansOf
<1>9. SavedHistory'
  BY <1>2 DEF IInv, SavedHistory, Typed, Chain, Counted, PlansOf, Told
<1>10. Gates'
  BY <1>2, <1>5, <1>6 DEF IInv, Gates, planVars
<1> QED BY <1>8, <1>9, <1>10 DEF IInv

LEMMA ConflictRecorded ==
    ASSUME Bounds, IInv, NEW t \in Tasks, MergeConflict(t)
    PROVE  IInv'
<1> DEFINE key == dedupe_key("MergeConflict", t, 0)
           escalate == replan_count >= max_replans /\ ~limit_reached
<1>1. /\ registry' = [registry EXCEPT ![key] = now]
      /\ limit_reached' = (limit_reached \/ escalate)
      /\ escalations' = escalations + (IF escalate THEN 1 ELSE 0)
      /\ signals' = IF escalate THEN signals ELSE signals \cup {key}
      /\ UNCHANGED <<now, world, planVars, max_replans, paused, saved>>
  BY DEF MergeConflict
<1>2. key \in Keys /\ escalate \in BOOLEAN /\ (escalate => ~limit_reached)
  BY DEF Keys
<1> HIDE DEF key, escalate
<1>3. now \in 0..MaxTime /\ registry \in [Keys -> -1..MaxTime] /\ MaxTime \in Nat
  BY DEF IInv, Gates, Bounds
<1>4. registry' \in [Keys -> -1..MaxTime]
  BY <1>1, <1>2, <1>3
<1>5. signals' \subseteq Keys \cup {Manual}
  BY <1>1, <1>2 DEF IInv, Gates
<1>6. Told(escalations, limit_reached)'
  BY <1>1, <1>2 DEF IInv, History, Told
<1>7. History'
  BY <1>1, <1>6 DEF IInv, History, planVars, Typed, Chain, Counted, PlansOf
<1>8. SavedHistory'
  BY <1>1 DEF IInv, SavedHistory, Typed, Chain, Counted, PlansOf, Told
<1>9. Gates'
  BY <1>1, <1>4, <1>5 DEF IInv, Gates, planVars
<1> QED BY <1>7, <1>8, <1>9 DEF IInv

LEMMA Replanned ==
    ASSUME Bounds, IInv, NEW outcome \in {"plan", "invalid", "none"},
           replan_workflow(outcome)
    PROVE  IInv'
<1> DEFINE plan == [of |-> made + 1, edited |-> FALSE]
           next == NextVersion(versions, plan, FALSE)
<1>1. /\ Len(versions) < MaxVersions /\ signals' = {}
      /\ UNCHANGED <<now, world, registry, max_replans, paused, saved>>
  BY DEF replan_workflow
<1>2. /\ Typed(versions, proposals) /\ Chain(versions) /\ Counted(versions, replan_count)
      /\ Told(escalations, limit_reached) /\ max_replans \in Limits
      /\ made \in 0..MaxVersions /\ MaxVersions \in Nat
  BY DEF IInv, History, Bounds
<1>3. SavedHistory'
  BY <1>1 DEF IInv, SavedHistory, Typed, Chain, Counted, PlansOf, Told
<1>4. planner' \in [phase : Phases, plan : [of : 0..MaxVersions, edited : BOOLEAN]] => Gates'
  BY <1>1 DEF IInv, Gates
<1>5. CASE replan_count >= max_replans
  <2>1. /\ limit_reached' = TRUE
        /\ escalations' = escalations + (IF limit_reached THEN 0 ELSE 1)
        /\ UNCHANGED planVars
    BY <1>5 DEF replan_workflow
  <2>2. Told(escalations, limit_reached)'
    BY <1>2, <2>1 DEF Told
  <2>3. History'
    BY <1>1, <1>2, <2>1, <2>2 DEF History, planVars, Typed, Chain, Counted, PlansOf
  <2>4. Gates'
    BY <1>4, <2>1 DEF IInv, Gates, planVars
  <2> QED BY <1>3, <2>3, <2>4 DEF IInv
<1>6. CASE ~(replan_count >= max_replans)
  <2>1. made < MaxVersions /\ UNCHANGED <<limit_reached, escalations>>
    BY <1>6 DEF replan_workflow
  <2>1a. outcome = "plan" =>
            /\ versions' = next /\ replan_count' = replan_count + 1
            /\ proposals' = proposals \cup {[id |-> made + 1, plan |-> plan]}
    BY <1>6 DEF replan_workflow, record_plan_version
  <2>1b. outcome # "plan" => UNCHANGED <<versions, proposals, replan_count>>
    BY <1>6 DEF replan_workflow
  <2>1c. made' \in {made, made + 1}
    BY <1>6 DEF replan_workflow
  <2>1d. \E ph \in {"NeedsApproval", "Failed"}, q \in {plan, NoPlan} :
            planner' = [phase |-> ph, plan |-> q]
    BY <1>6 DEF replan_workflow
  <2>2. made + 1 \in 1..MaxVersions
    BY <1>2, <2>1
  <2>3. /\ plan \in Plans /\ plan \in [of : 0..MaxVersions, edited : BOOLEAN]
        /\ NoPlan \in [of : 0..MaxVersions, edited : BOOLEAN]
        /\ [id |-> made + 1, plan |-> plan] \in [id : 1..MaxVersions, plan : Plans]
    BY <1>2, <2>2 DEF Plans, NoPlan
  <2>3a. /\ next \in Seq(Version) /\ Len(next) = Len(versions) + 1
         /\ Chain(next) /\ PlansOf(next) = PlansOf(versions) \cup {plan}
    BY <1>1, <1>2, <2>3, Nexts DEF Typed
  <2> HIDE DEF plan, next
  <2>4. Gates'
    <3>1. planner' \in [phase : Phases, plan : [of : 0..MaxVersions, edited : BOOLEAN]]
      BY <2>3, <2>1d DEF Phases
    <3> QED BY <1>4, <3>1
  <2>5. made' \in 0..MaxVersions
    BY <1>2, <2>2, <2>1c
  <2>6. Told(escalations, limit_reached)' /\ (max_replans \in Limits)'
    BY <1>1, <1>2, <2>1 DEF Told
  <2>7. CASE outcome = "plan"
    <3>1. versions \in Seq(Version) /\ Len(versions) < MaxVersions
      BY <1>1, <1>2 DEF Typed
    <3>2. /\ versions' \in Seq(Version) /\ Len(versions)' = Len(versions) + 1
          /\ Chain(versions') /\ PlansOf(versions') = PlansOf(versions) \cup {plan}
      BY <2>1a, <2>3a, <2>7
    <3>3. Typed(versions, proposals)'
      BY <1>2, <2>3, <2>7, <2>1a, <3>1, <3>2 DEF Typed
    <3>4. Counted(versions, replan_count)'
      <4>1. /\ replan_count \in Nat /\ replan_count' = replan_count + 1
            /\ IsFiniteSet(PlansOf(versions))
            /\ Cardinality(PlansOf(versions)) <= replan_count
        BY <1>2, <2>7, <2>1a DEF Counted
      <4>2. max_replans \in Nat /\ max_replans <= Highest /\ Highest \in Nat
        BY <1>2, HighestLimit DEF Bounds
      <4>3. replan_count' \in Nat /\ replan_count' <= Highest
        BY <1>6, <4>1, <4>2
      <4>4. /\ IsFiniteSet(PlansOf(versions'))
            /\ Cardinality(PlansOf(versions)) \in Nat
            /\ Cardinality(PlansOf(versions')) <= Cardinality(PlansOf(versions)) + 1
        <5>1. LET S == PlansOf(versions)
              IN /\ IsFiniteSet(S \cup {plan}) /\ Cardinality(S) \in Nat
                 /\ Cardinality(S \cup {plan}) <= Cardinality(S) + 1
          BY <4>1, OnePlanMore, Zenon
        <5> QED BY <3>2, <5>1
      <4>5. IsFiniteSet(PlansOf(versions')) => Cardinality(PlansOf(versions')) \in Nat
        BY FS_CardinalityType
      <4>6. Cardinality(PlansOf(versions')) <= replan_count'
        BY <4>1, <4>4, <4>5
      <4> QED BY <4>3, <4>4, <4>6 DEF Counted, PlansOf
    <3>5. Chain(versions)'
      BY <3>2 DEF Chain
    <3> QED BY <1>3, <2>4, <2>5, <2>6, <3>3, <3>4, <3>5 DEF IInv, History
  <2>8. CASE outcome # "plan"
    <3>1. UNCHANGED <<versions, proposals, replan_count>>
      BY <2>8, <2>1b
    <3>2. /\ Typed(versions, proposals)' /\ Chain(versions)'
          /\ Counted(versions, replan_count)'
      BY <1>2, <3>1 DEF Typed, Chain, Counted, PlansOf
    <3> QED BY <1>3, <2>4, <2>5, <2>6, <3>2 DEF IInv, History
  <2> QED BY <2>7, <2>8
<1> QED BY <1>5, <1>6

LEMMA Approved ==
    ASSUME Bounds, IInv, NEW p \in proposals, replan_approve(p)
    PROVE  IInv'
<1>1. /\ planner' = [planner EXCEPT !.phase = "Approved"]
      /\ versions' = [versions EXCEPT ![Len(versions)].approved = TRUE]
      /\ UNCHANGED <<proposals, replan_count, made>>
      /\ UNCHANGED <<now, world, gateVars, max_replans, paused, saved>>
  BY DEF replan_approve, Keep
<1>2. versions \in Seq(Version) /\ Chain(versions)
  BY DEF IInv, History, Typed
<1>3. /\ versions' \in Seq(Version) /\ Len(versions') = Len(versions)
      /\ Chain(versions') /\ PlansOf(versions') = PlansOf(versions)
  BY <1>1, <1>2, Approves
<1>4. Typed(versions, proposals)' /\ Chain(versions)' /\ Counted(versions, replan_count)'
  <2>1. Typed(versions, proposals)'
    BY <1>1, <1>3 DEF IInv, History, Typed
  <2>2. Chain(versions)'
    BY <1>3 DEF Chain
  <2>3. Counted(versions, replan_count)'
    BY <1>1, <1>3 DEF IInv, History, Counted, PlansOf
  <2> QED BY <2>1, <2>2, <2>3
<1>5. Told(escalations, limit_reached)' /\ (max_replans \in Limits /\ made \in 0..MaxVersions)'
  BY <1>1 DEF IInv, History, Told, gateVars
<1>6. SavedHistory'
  BY <1>1 DEF IInv, SavedHistory, Typed, Chain, Counted, PlansOf, Told
<1>7. Gates'
  <2>1. planner \in [phase : Phases, plan : [of : 0..MaxVersions, edited : BOOLEAN]]
    BY DEF IInv, Gates
  <2>2. planner' \in [phase : Phases, plan : [of : 0..MaxVersions, edited : BOOLEAN]]
    BY <1>1, <2>1 DEF Phases
  <2> QED BY <1>1, <2>2 DEF IInv, Gates, gateVars
<1> QED BY <1>4, <1>5, <1>6, <1>7 DEF IInv, History

(* A reverted plan was counted when it was made.                           *)
LEMMA Reverted ==
    ASSUME Bounds, IInv, NEW v \in DOMAIN versions, revert_workflow_to(v)
    PROVE  IInv'
<1>1. /\ Len(versions) < MaxVersions
      /\ UNCHANGED <<proposals, replan_count, planner, made>>
      /\ UNCHANGED <<now, world, gateVars, max_replans, paused, saved>>
  BY DEF revert_workflow_to, Keep
<1>2. versions \in Seq(Version) /\ Chain(versions) /\ versions # <<>>
      /\ Len(versions) \in DOMAIN versions
  BY DEF IInv, History, Typed
<1> DEFINE plan == versions[v].plan
           approved == versions[Len(versions)].approved
<1>3. versions' = NextVersion(versions, plan, approved)
  BY <1>2, Newest DEF revert_workflow_to
<1>4. plan \in Plans /\ approved \in BOOLEAN /\ plan \in PlansOf(versions)
  <2>1. versions[v] \in Version /\ versions[Len(versions)] \in Version
    BY <1>2
  <2>2. plan \in PlansOf(versions)
    BY DEF PlansOf
  <2> QED BY <2>1, <2>2 DEF Version
<1> HIDE DEF plan, approved
<1>5. /\ versions' \in Seq(Version) /\ Len(versions') = Len(versions) + 1
      /\ Chain(versions') /\ PlansOf(versions') = PlansOf(versions) \cup {plan}
  BY <1>1, <1>2, <1>3, <1>4, Nexts
<1>6. PlansOf(versions') = PlansOf(versions)
  BY <1>4, <1>5
<1>7. Typed(versions, proposals)' /\ Chain(versions)' /\ Counted(versions, replan_count)'
  <2>1. Typed(versions, proposals)'
    BY <1>1, <1>2, <1>5 DEF IInv, History, Typed, Bounds
  <2>2. Chain(versions)'
    BY <1>5 DEF Chain
  <2>3. Counted(versions, replan_count)'
    BY <1>1, <1>6 DEF IInv, History, Counted, PlansOf
  <2> QED BY <2>1, <2>2, <2>3
<1>8. Told(escalations, limit_reached)' /\ (max_replans \in Limits /\ made \in 0..MaxVersions)'
  BY <1>1 DEF IInv, History, Told, gateVars
<1>9. SavedHistory'
  BY <1>1 DEF IInv, SavedHistory, Typed, Chain, Counted, PlansOf, Told
<1>10. Gates'
  BY <1>1 DEF IInv, Gates, gateVars
<1> QED BY <1>7, <1>8, <1>9, <1>10 DEF IInv, History

LEMMA SavedAndRestored ==
    ASSUME Bounds, IInv, Save \/ Restart
    PROVE  IInv'
<1>1. CASE Save
  <2>1. /\ saved' = adaptiveState
        /\ UNCHANGED <<now, world, gateVars, planVars, max_replans, paused>>
    BY <1>1 DEF Save
  <2>2. History' /\ Gates'
    BY <2>1 DEF IInv, History, Gates, gateVars, planVars, adaptiveState,
                Typed, Chain, Counted, PlansOf, Told
  <2>3. SavedHistory'
    BY <2>1 DEF IInv, History, SavedHistory, adaptiveState,
                Typed, Chain, Counted, PlansOf, Told
  <2> QED BY <2>2, <2>3 DEF IInv
<1>2. CASE Restart
  <2>1. /\ registry' = [k \in Keys |-> -1]
        /\ planner' = [phase |-> "Idle", plan |-> NoPlan] /\ paused' = FALSE
        /\ signals' = saved.signals /\ versions' = saved.versions
        /\ proposals' = saved.proposals /\ escalations' = saved.escalations
        /\ max_replans' = saved.max_replans /\ replan_count' = saved.count
        /\ limit_reached' = saved.limit_reached
        /\ UNCHANGED <<now, world, made, saved>>
    BY <1>2 DEF Restart
  <2>2. History' /\ SavedHistory'
    BY <2>1 DEF IInv, History, SavedHistory, Typed, Chain, Counted, PlansOf, Told
  <2>3. registry' \in [Keys -> -1..MaxTime]
    BY <2>1 DEF IInv, Gates, Bounds
  <2>4. planner' \in [phase : Phases, plan : [of : 0..MaxVersions, edited : BOOLEAN]]
    BY <2>1 DEF Phases, NoPlan, Bounds
  <2>5. Gates'
    BY <2>1, <2>3, <2>4 DEF IInv, Gates
  <2> QED BY <2>2, <2>5 DEF IInv
<1> QED BY <1>1, <1>2

LEMMA InitKept ==
    ASSUME Bounds
    PROVE  Init => IInv
<1> SUFFICES ASSUME Init PROVE IInv
  OBVIOUS
<1>1. /\ versions = <<>> /\ proposals = {} /\ replan_count = 0 /\ escalations = 0
      /\ limit_reached = FALSE /\ signals = {} /\ max_replans \in Limits /\ made = 0
      /\ now = 0 /\ paused = FALSE /\ planner = [phase |-> "Idle", plan |-> NoPlan]
      /\ world = [cond |-> [t \in Tasks |-> {}], findings |-> 0, budget |-> "within"]
      /\ registry = [k \in Keys |-> -1] /\ saved = adaptiveState
  BY DEF Init
<1>2. /\ <<>> \in Seq(Version) /\ DOMAIN <<>> = {} /\ Len(<<>>) = 0
      /\ MaxVersions \in Nat /\ 0 \in 0..MaxVersions
  <2>1. <<>> \in Seq(Version) /\ Len(<<>>) = 0
    OBVIOUS
  <2>2. DOMAIN <<>> = 1..0
    BY <2>1
  <2> QED BY <2>1, <2>2 DEF Bounds
<1>3. /\ Typed(<<>>, {}) /\ Chain(<<>>) /\ PlansOf(<<>>) = {} /\ Told(0, FALSE)
  BY <1>2 DEF PlansOf, Chain, Typed, Told
<1>3a. Counted(<<>>, 0)
  <2>1. IsFiniteSet({}) /\ Cardinality({}) = 0
    BY FS_EmptySet
  <2>2. 0 <= Highest
    BY HighestLimit
  <2> QED BY <1>3, <2>1, <2>2 DEF Counted
<1>4. History /\ 0 \in 0..MaxVersions
  BY <1>1, <1>2, <1>3, <1>3a DEF History
<1>5. SavedHistory
  BY <1>1, <1>4 DEF History, SavedHistory, adaptiveState
<1>6. world \in [cond : [Tasks -> Conditions], findings : 0..2,
                 budget : {"none", "within", "risk", "over"}]
  <2>1. [t \in Tasks |-> {}] \in [Tasks -> Conditions]
    BY DEF Conditions
  <2> QED BY <1>1, <2>1
<1>7. registry \in [Keys -> -1..MaxTime] /\ now \in 0..MaxTime
  BY <1>1 DEF Bounds
<1>8. planner \in [phase : Phases, plan : [of : 0..MaxVersions, edited : BOOLEAN]]
  BY <1>1, <1>4 DEF Phases, NoPlan
<1>9. Gates
  BY <1>1, <1>6, <1>7, <1>8 DEF Gates, adaptiveState
<1> QED BY <1>4, <1>5, <1>9 DEF IInv

(* The steps that leave the history and what is saved of it alone.         *)
LEMMA SurroundingsKept ==
    ASSUME Bounds, IInv,
           \/ signal_replan
           \/ \E p \in proposals, valid \in BOOLEAN : replan_edit(p, valid)
           \/ \E to \in {"Executing", "Done"} : PlannerElsewhere(to)
           \/ \E b \in BOOLEAN : set_workflow_paused(b)
           \/ \E t \in Tasks, b \in BOOLEAN : invalidate_task(t, b)
           \/ \E t \in Tasks, c \in Conditions : Observe(t, c)
           \/ \E b \in {"none", "within", "risk", "over"} : BudgetMoves(b)
           \/ FindCritical \/ Tick
    PROVE  IInv'
<1> DEFINE W == [cond : [Tasks -> Conditions], findings : 0..2,
                 budget : {"none", "within", "risk", "over"}]
           P == [phase : Phases, plan : [of : 0..MaxVersions, edited : BOOLEAN]]
<1>1. /\ now \in 0..MaxTime /\ paused \in BOOLEAN /\ world \in W
      /\ registry \in [Keys -> -1..MaxTime] /\ signals \subseteq Keys \cup {Manual}
      /\ planner \in P /\ MaxTime \in Nat
  BY DEF IInv, Gates, Bounds
<1> DEFINE Goal == /\ UNCHANGED <<historyVars, saved, registry>>
                   /\ now' \in 0..MaxTime /\ paused' \in BOOLEAN /\ world' \in W
                   /\ signals' \subseteq Keys \cup {Manual} /\ planner' \in P
<1>2. Goal => IInv'
  BY <1>1, HistoryStays DEF IInv, Gates
<1>3. ASSUME signal_replan PROVE Goal
  BY <1>1, <1>3 DEF signal_replan, historyVars, planVars
<1>4. ASSUME NEW p \in proposals, NEW valid \in BOOLEAN, replan_edit(p, valid) PROVE Goal
  <2>1. planner' = [phase |-> IF valid THEN planner.phase ELSE "Failed",
                    plan |-> [planner.plan EXCEPT !.edited = TRUE]]
    BY <1>4 DEF replan_edit
  <2>2. /\ [planner.plan EXCEPT !.edited = TRUE] \in [of : 0..MaxVersions, edited : BOOLEAN]
        /\ (IF valid THEN planner.phase ELSE "Failed") \in Phases
    BY <1>1 DEF Phases
  <2>3. planner' \in P
    BY <2>1, <2>2
  <2> QED BY <1>1, <1>4, <2>3 DEF replan_edit, Keep, historyVars, gateVars
<1>5. ASSUME NEW to \in {"Executing", "Done"}, PlannerElsewhere(to) PROVE Goal
  <2>1. planner' = [planner EXCEPT !.phase = to]
    BY <1>5 DEF PlannerElsewhere
  <2>2. planner' \in P
    BY <1>1, <2>1 DEF Phases
  <2> QED BY <1>1, <1>5, <2>2 DEF PlannerElsewhere, Keep, historyVars, gateVars
<1>6. ASSUME NEW b \in BOOLEAN, set_workflow_paused(b) PROVE Goal
  BY <1>1, <1>6 DEF set_workflow_paused, historyVars, gateVars, planVars
<1>7. ASSUME NEW t \in Tasks, NEW b \in BOOLEAN, invalidate_task(t, b) PROVE Goal
  BY <1>1, <1>7 DEF invalidate_task, historyVars, gateVars, planVars
<1>8. ASSUME NEW t \in Tasks, NEW c \in Conditions, Observe(t, c) PROVE Goal
  <2>1. world' = [world EXCEPT !.cond[t] = c]
    BY <1>8 DEF Observe
  <2>2. world' \in W
    BY <1>1, <2>1
  <2> QED BY <1>1, <1>8, <2>2 DEF Observe, historyVars, gateVars, planVars
<1>9. ASSUME NEW b \in {"none", "within", "risk", "over"}, BudgetMoves(b) PROVE Goal
  <2>1. world' = [world EXCEPT !.budget = b]
    BY <1>9 DEF BudgetMoves
  <2>2. world' \in W
    BY <1>1, <2>1
  <2> QED BY <1>1, <1>9, <2>2 DEF BudgetMoves, historyVars, gateVars, planVars
<1>10. ASSUME FindCritical PROVE Goal
  <2>1. world' = [world EXCEPT !.findings = world.findings + 1] /\ world.findings < 2
    BY <1>10 DEF FindCritical
  <2>2. world.findings + 1 \in 0..2
    BY <1>1, <2>1
  <2>3. world' \in W
    BY <1>1, <2>1, <2>2
  <2> QED BY <1>1, <1>10, <2>3 DEF FindCritical, historyVars, gateVars, planVars
<1>11. ASSUME Tick PROVE Goal
  BY <1>1, <1>11 DEF Tick, historyVars, gateVars, planVars
<1> HIDE DEF Goal
<1> QED BY <1>2, <1>3, <1>4, <1>5, <1>6, <1>7, <1>8, <1>9, <1>10, <1>11

LEMMA StepKept ==
    ASSUME Bounds
    PROVE  IInv /\ [Next]_vars => IInv'
<1> SUFFICES ASSUME IInv, [Next]_vars PROVE IInv'
  OBVIOUS
<1>1. CASE detect_replan_signals
  BY <1>1, SignalsRecorded
<1>2. ASSUME NEW outcome \in {"plan", "invalid", "none"}, replan_workflow(outcome)
      PROVE  IInv'
  BY <1>2, Replanned
<1>3. ASSUME NEW p \in proposals, replan_approve(p) PROVE IInv'
  BY <1>3, Approved
<1>4. ASSUME NEW p \in proposals, replan_reject(p) PROVE IInv'
  <2>1. /\ proposals' = proposals \ {p}
        /\ planner' = IF planner.phase \in {"NeedsApproval", "Approved"}
                      THEN [planner EXCEPT !.phase = "Rejected"] ELSE planner
        /\ UNCHANGED <<versions, replan_count, made>>
        /\ UNCHANGED <<now, world, gateVars, max_replans, paused, saved>>
    BY <1>4 DEF replan_reject, Keep
  <2>2. planner \in [phase : Phases, plan : [of : 0..MaxVersions, edited : BOOLEAN]]
    BY DEF IInv, Gates
  <2>3. planner' \in [phase : Phases, plan : [of : 0..MaxVersions, edited : BOOLEAN]]
    BY <2>1, <2>2 DEF Phases
  <2>4. Gates'
    BY <2>1, <2>3 DEF IInv, Gates, gateVars
  <2>5. History'
    BY <2>1 DEF IInv, History, gateVars, Typed, Chain, Counted, PlansOf, Told
  <2>6. SavedHistory'
    BY <2>1 DEF IInv, SavedHistory, Typed, Chain, Counted, PlansOf, Told
  <2> QED BY <2>4, <2>5, <2>6 DEF IInv
<1>5. ASSUME NEW v \in DOMAIN versions, revert_workflow_to(v) PROVE IInv'
  BY <1>5, Reverted
<1>6. ASSUME NEW n \in Limits, set_adaptive_policy(n) PROVE IInv'
  <2>1. /\ max_replans' = n
        /\ UNCHANGED <<now, world, gateVars, planVars, paused, saved>>
    BY <1>6 DEF set_adaptive_policy
  <2>2. History' /\ Gates'
    BY <2>1 DEF IInv, History, Gates, gateVars, planVars, Typed, Chain, Counted, PlansOf, Told
  <2>3. SavedHistory'
    BY <2>1 DEF IInv, SavedHistory, Typed, Chain, Counted, PlansOf, Told
  <2> QED BY <2>2, <2>3 DEF IInv
<1>7. ASSUME NEW t \in Tasks, MergeConflict(t) PROVE IInv'
  BY <1>7, ConflictRecorded
<1>8. CASE Save \/ Restart
  BY <1>8, SavedAndRestored
<1>9. CASE UNCHANGED vars
  <2>1. UNCHANGED <<historyVars, saved>>
    BY <1>9 DEF vars, historyVars
  <2>2. History' /\ SavedHistory'
    BY <2>1, HistoryStays
  <2> QED BY <1>9, <2>2 DEF IInv, Gates, vars
<1> QED BY <1>1, <1>2, <1>3, <1>4, <1>5, <1>6, <1>7, <1>8, <1>9, SurroundingsKept DEF Next

THEOREM Invariance ==
    ASSUME Bounds
    PROVE  Spec => []IInv
<1>1. Init => IInv
  BY InitKept
<1>2. IInv /\ [Next]_vars => IInv'
  BY StepKept
<1> QED BY <1>1, <1>2, PTL DEF Spec

-----------------------------------------------------------------------------
(* What it gives.                                                          *)

(* Every field holds a value of its kind: each of the calls of adaptive.rs *)
(* and of the engine leaves it so.                                         *)
THEOREM AdaptiveTypes ==
    ASSUME Bounds
    PROVE  Spec => []TypeOK
<1>1. IInv => TypeOK
  BY DEF IInv, History, Gates, Typed, Told, TypeOK, Version
<1> QED BY <1>1, Invariance, PTL

(* The history of plan versions is one chain, through replans, reverts,    *)
(* approvals and restarts (workflow_history, revert_workflow_to).          *)
THEOREM HistoryIsOneChain ==
    ASSUME Bounds
    PROVE  Spec => []HistoryIsAChain
<1>1. IInv => HistoryIsAChain
  BY DEF IInv, History, Chain, HistoryIsAChain
<1> QED BY <1>1, Invariance, PTL

(* The plans ever proposed number no more than the highest limit, and a    *)
(* human is told once that it is used up, however limits change            *)
(* (set_adaptive_policy, replan_workflow, record_replan_signal).           *)
THEOREM ReplansAreBounded ==
    ASSUME Bounds
    PROVE  Spec => []ReplansBounded
<1>1. IInv => ReplansBounded
  <2> SUFFICES ASSUME IInv PROVE ReplansBounded
    OBVIOUS
  <2>1. /\ Cardinality(PlansOf(versions)) <= replan_count /\ replan_count \in Nat
        /\ replan_count <= Highest /\ IsFiniteSet(PlansOf(versions))
    BY DEF IInv, History, Counted
  <2>2. Cardinality(PlansOf(versions)) \in Nat /\ Highest \in Nat
    BY <2>1, FS_CardinalityType, HighestLimit
  <2>3. Cardinality(PlansOf(versions)) <= Highest
    BY <2>1, <2>2
  <2>4. escalations = IF limit_reached THEN 1 ELSE 0
    BY DEF IInv, History, Told
  <2> QED BY <2>3, <2>4 DEF ReplansBounded, PlansOf, Highest
<1> QED BY <1>1, Invariance, PTL

=============================================================================
