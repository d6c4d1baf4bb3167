--------------------------- MODULE WorkflowProofs ---------------------------
(***************************************************************************)
(* Theorems about the components the suite MCWorkflow checks: what the     *)
(* planner shows of a plan is what the scheduler does, a plan called done  *)
(* has earned it, and what reaches the graph is a whole plan a human       *)
(* approved (Planner, for plans of any size and any number of requests,    *)
(* edits, retries and restarts); what tasks hand to each other and what    *)
(* reviewers say of it (Artifacts); and what the record of an agent's work *)
(* tells the user and whoever follows its events, whichever channel is     *)
(* full (AgentWork).  What holds of a component holds of the suite; those  *)
(* that have proofs in a module of their own are cited from there.         *)
(***************************************************************************)
EXTENDS MCWorkflow, FiniteSetTheorems, SequenceTheorems, WellFoundedInduction, TLAPS

-----------------------------------------------------------------------------
(* Without: the positions kept, each once and in their order.              *)

Rank(K, i) == Cardinality({j \in K : j <= i})

LEMMA Ranked ==
    ASSUME NEW n \in Nat, NEW K \in SUBSET (1..n)
    PROVE  /\ IsFiniteSet(K) /\ Cardinality(K) \in Nat /\ Cardinality(K) <= n
           /\ \A i \in K : Rank(K, i) \in 1..Cardinality(K)
           /\ \A k \in 1..Cardinality(K) : \E i \in K : Rank(K, i) = k
           /\ \A i, j \in K : Rank(K, i) = Rank(K, j) => i = j
<1>1. IsFiniteSet(K) /\ Cardinality(K) \in Nat /\ Cardinality(K) <= n
  <2>1. IsFiniteSet(1..n) /\ Cardinality(1..n) = n
    BY FS_Interval
  <2> QED BY <2>1, FS_Subset, FS_CardinalityType
<1> DEFINE Upto(i) == {j \in K : j <= i}
           N == Cardinality(K)
<1>2. \A i : IsFiniteSet(Upto(i)) /\ Cardinality(Upto(i)) \in Nat /\ Cardinality(Upto(i)) <= N
  <2> TAKE i
  <2>1. Upto(i) \in SUBSET K
    OBVIOUS
  <2> HIDE DEF Upto
  <2> QED BY <1>1, <2>1, FS_Subset, FS_CardinalityType
<1>3. \A i \in K : Rank(K, i) \in 1..N
  <2> SUFFICES ASSUME NEW i \in K PROVE Rank(K, i) \in 1..N
    OBVIOUS
  <2>1. i \in Upto(i)
    OBVIOUS
  <2>2. Upto(i) # {}
    BY <2>1
  <2>3. Rank(K, i) = Cardinality(Upto(i))
    BY DEF Rank
  <2> HIDE DEF Upto, N
  <2>4. Cardinality(Upto(i)) # 0
    BY <1>2, <2>2, FS_EmptySet
  <2>5. N \in Nat
    BY <1>1 DEF N
  <2> QED BY <1>2, <2>3, <2>4, <2>5
<1>0. \A x \in K : x \in Int
  OBVIOUS
<1>4. \A i, j \in K : Rank(K, i) = Rank(K, j) => i = j
  <2>1. ASSUME NEW i \in K, NEW j \in K, i < j PROVE Rank(K, i) # Rank(K, j)
    <3>1. Upto(i) \in SUBSET Upto(j) /\ j \in Upto(j) /\ j \notin Upto(i)
      <4>1. ~(j <= i) /\ j <= j /\ \A x \in K : x <= i => x <= j
        BY <1>0, <2>1
      <4> QED BY <4>1
    <3>2. Rank(K, i) = Cardinality(Upto(i)) /\ Rank(K, j) = Cardinality(Upto(j))
      BY DEF Rank
    <3>3. Upto(i) # Upto(j)
      BY <3>1
    <3> HIDE DEF Upto
    <3> QED BY <1>2, <3>1, <3>2, <3>3, FS_Subset
  <2> SUFFICES ASSUME NEW i \in K, NEW j \in K, Rank(K, i) = Rank(K, j) PROVE i = j
    OBVIOUS
  <2>2. i \in Int /\ j \in Int
    OBVIOUS
  <2> QED BY <2>1, <2>2
<1>5. \A k \in 1..N : \E i \in K : Rank(K, i) = k
  <2> DEFINE f == [i \in K |-> Rank(K, i)]
  <2>1. f \in [K -> 1..N] /\ \A i, j \in K : f[i] = f[j] => i = j
    BY <1>3, <1>4
  <2>2. f \in Injection(K, 1..N)
    BY <2>1 DEF Injection, IsInjective
  <2>3. IsFiniteSet(1..N) /\ Cardinality(1..N) = N
    BY <1>1, FS_Interval
  <2>4. f \in Surjection(K, 1..N)
    <3> HIDE DEF f
    <3> QED BY <2>2, <2>3, FS_Injection
  <2> QED BY <2>4 DEF Surjection
<1> QED BY <1>1, <1>3, <1>4, <1>5

PlanSteps == Seq(PlanStep)

LEMMA Steps ==
    ASSUME NEW p \in PlanSteps
    PROVE  /\ DOMAIN p = 1..Len(p) /\ Len(p) \in Nat
           /\ \A i \in DOMAIN p :
                p[i] \in PlanStep /\ p[i].id \in StepIds /\ p[i].depends_on \subseteq StepIds
           /\ Ids(p) \subseteq StepIds
<1>1. DOMAIN p = 1..Len(p) /\ Len(p) \in Nat /\ p \in [1..Len(p) -> PlanStep]
  BY LenProperties DEF PlanSteps
<1>2. \A i \in DOMAIN p : p[i] \in PlanStep
  BY <1>1
<1>3. \A x \in PlanStep : x.id \in StepIds /\ x.depends_on \subseteq StepIds
  BY DEF PlanStep
<1> QED BY <1>1, <1>2, <1>3 DEF Ids

(* What is left of a plan: a plan, of the ids that stay.                   *)
LEMMA Left ==
    ASSUME NEW p \in PlanSteps, NEW gone
    PROVE  /\ Without(p, gone) \in PlanSteps /\ Len(Without(p, gone)) <= Len(p)
           /\ Ids(Without(p, gone)) = Ids(p) \ gone
           /\ Without(p, gone) = <<>> <=> Ids(p) \subseteq gone
<1> DEFINE K == {i \in DOMAIN p : p[i].id \notin gone}
           N == Cardinality(K)
           at(k) == CHOOSE i \in K : Rank(K, i) = k
           q == [k \in 1..N |-> [p[at(k)] EXCEPT !.depends_on = @ \ gone]]
<1>1. Without(p, gone) = q
  BY DEF Without, Rank
<1>2. /\ N \in Nat /\ N <= Len(p) /\ Len(p) \in Nat /\ K \subseteq DOMAIN p
      /\ \A k \in 1..N : \E i \in K : Rank(K, i) = k
      /\ \A i \in K : Rank(K, i) \in 1..N
      /\ \A i, j \in K : Rank(K, i) = Rank(K, j) => i = j
  <2>1. K \in SUBSET (1..Len(p)) /\ Len(p) \in Nat
    BY Steps
  <2> HIDE DEF K
  <2>2. K \subseteq DOMAIN p
    BY DEF K
  <2> QED BY <2>1, <2>2, Ranked
<1>3. \A i \in K : p[i] \in PlanStep /\ p[i].id \in Ids(p) \ gone
  BY Steps DEF Ids
<1>4. \A s \in Ids(p) \ gone : \E i \in K : p[i].id = s
  BY DEF Ids
<1> HIDE DEF K, N
<1>5. \A k \in 1..N : at(k) \in K /\ Rank(K, at(k)) = k
  BY <1>2
<1>6. \A i \in K : \E k \in 1..N : at(k) = i
  BY <1>2, <1>5
<1> HIDE DEF at
<1>7. \A x \in PlanStep :
         /\ [x EXCEPT !.depends_on = @ \ gone] \in PlanStep
         /\ [x EXCEPT !.depends_on = @ \ gone].id = x.id
  BY DEF PlanStep
<1>8. \A k \in 1..N : q[k] \in PlanStep /\ q[k].id = p[at(k)].id
  BY <1>3, <1>5, <1>7
<1>9. q \in [1..N -> PlanStep] /\ DOMAIN q = 1..N
  <2> DEFINE e(k) == [p[at(k)] EXCEPT !.depends_on = @ \ gone]
  <2>1. \A k \in 1..N : e(k) \in PlanStep
    BY <1>3, <1>5, <1>7
  <2>2. q = [k \in 1..N |-> e(k)]
    OBVIOUS
  <2> HIDE DEF e
  <2> QED BY <2>1, <2>2
<1> HIDE DEF q
<1>10. q \in PlanSteps /\ Len(q) = N
  <2>1. q \in Seq(PlanStep)
    BY <1>2, <1>9, SeqDef
  <2>2. Len(q) = N
    BY <1>2, <1>9, <2>1, LenProperties
  <2> QED BY <2>1, <2>2 DEF PlanSteps
<1>11. Ids(q) = Ids(p) \ gone
  <2>1. \A k \in 1..N : q[k].id \in Ids(p) \ gone
    BY <1>3, <1>5, <1>8
  <2>2. \A s \in Ids(p) \ gone : \E k \in 1..N : q[k].id = s
    BY <1>4, <1>6, <1>8
  <2> QED BY <1>9, <2>1, <2>2 DEF Ids
<1>12. q = <<>> <=> Ids(p) \subseteq gone
  <2>1. q = <<>> <=> N = 0
    BY <1>10, EmptySeq DEF PlanSteps
  <2>2. N = 0 <=> Ids(q) = {}
    <3>1. N = 0 => Ids(q) = {}
      BY <1>9 DEF Ids
    <3>2. N # 0 => q[1].id \in Ids(q)
      <4>1. N # 0 => 1 \in DOMAIN q
        BY <1>2, <1>9
      <4> QED BY <4>1 DEF Ids
    <3> QED BY <3>1, <3>2
  <2> QED BY <1>11, <2>1, <2>2
<1> QED BY <1>1, <1>2, <1>10, <1>11, <1>12

-----------------------------------------------------------------------------
(* Type correctness.                                                       *)

Task == [status : TaskStatus, deps : SUBSET StepIds, of : 0..MaxRequests]
Statuses == [StepIds -> PlanStepStatus \cup {"None"}]

LEMMA NoTaskTyped == NoTask \in Task
<1>1. 0 \in 0..MaxRequests
  BY BoundsAssumption
<1> QED BY <1>1 DEF NoTask, Task, TaskStatus

LEMMA Mirrored == \A st \in TaskStatus : from_task(st) \in PlanStepStatus \cup {"None"}
  BY DEF TaskStatus, from_task, PlanStepStatus

(* A pass changes no more than the status of a Pending or Blocked task.    *)
LEMMA Classifies ==
    ASSUME NEW ts \in [StepIds -> Task]
    PROVE  /\ Classified(ts) \in [StepIds -> Task]
           /\ \A s \in StepIds :
                /\ Classified(ts)[s].deps = ts[s].deps /\ Classified(ts)[s].of = ts[s].of
                /\ \/ Classified(ts)[s] = ts[s]
                   \/ /\ ts[s].status \in {"Pending", "Blocked"}
                      /\ Classified(ts)[s].status \in {"Ready", "Blocked"}
<1>1. ASSUME NEW s \in StepIds, NEW t, t = Classified(ts)[s]
      PROVE  /\ t \in Task /\ t.deps = ts[s].deps /\ t.of = ts[s].of
             /\ \/ t = ts[s]
                \/ ts[s].status \in {"Pending", "Blocked"} /\ t.status \in {"Ready", "Blocked"}
  <2>1. ts[s] \in Task
    OBVIOUS
  <2>2. \/ t = ts[s]
        \/ /\ ts[s].status \in {"Pending", "Blocked"}
           /\ t = [ts[s] EXCEPT !.status = "Ready"] \/ t = [ts[s] EXCEPT !.status = "Blocked"]
    BY <1>1 DEF Classified
  <2> QED BY <2>1, <2>2 DEF Task, TaskStatus
<1>2. Classified(ts) = [s \in StepIds |-> Classified(ts)[s]]
  BY DEF Classified
<1> QED BY <1>1, <1>2

LEMMA Removes ==
    ASSUME NEW ts \in [StepIds -> Task], NEW gone
    PROVE  /\ Removed(ts, gone) \in [StepIds -> Task]
           /\ \A s \in StepIds :
                \/ s \in gone /\ Removed(ts, gone)[s] = NoTask
                \/ /\ s \notin gone /\ Removed(ts, gone)[s].status = ts[s].status
                   /\ Removed(ts, gone)[s].of = ts[s].of
                   /\ Removed(ts, gone)[s].deps = ts[s].deps \ gone
<1>1. ASSUME NEW s \in StepIds, s \notin gone
      PROVE  /\ [ts[s] EXCEPT !.deps = @ \ gone] \in Task
             /\ [ts[s] EXCEPT !.deps = @ \ gone].status = ts[s].status
             /\ [ts[s] EXCEPT !.deps = @ \ gone].of = ts[s].of
             /\ [ts[s] EXCEPT !.deps = @ \ gone].deps = ts[s].deps \ gone
  <2>1. ts[s] \in Task
    OBVIOUS
  <2> QED BY <2>1 DEF Task
<1>2. \A s \in StepIds : Removed(ts, gone)[s] \in Task
  BY <1>1, NoTaskTyped DEF Removed
<1>3. Removed(ts, gone) = [s \in StepIds |-> Removed(ts, gone)[s]]
  BY DEF Removed
<1>4. \A s \in StepIds : Removed(ts, gone)[s] =
         IF s \in gone THEN NoTask ELSE [ts[s] EXCEPT !.deps = @ \ gone]
  BY DEF Removed
<1> QED BY <1>1, <1>2, <1>3, <1>4

LEMMA MirrorTypes ==
    ASSUME TypeOK, NEW ts \in [StepIds -> Task], NEW ph \in PlannerPhase, NEW ss \in Statuses,
           Publish(ts, ph, ss)
    PROVE  /\ tasks' = ts /\ step_status' \in Statuses /\ phase' \in PlannerPhase
           /\ completed_steps' \subseteq StepIds /\ earned' \subseteq StepIds
<1> DEFINE seen == IF ph = "Executing" THEN Moved(ts) ELSE {}
           over == {t \in Moved(ts) : ts[t].status = "Completed"}
           ms == on_step_status(ts, seen, ss)
<1>1. /\ tasks' = ts /\ step_status' = ms /\ phase' = Finished(ph, ms)
      /\ completed_steps' = completed_steps \cup (over \cap seen)
      /\ earned' = earned \cup {t \in over : ts[t].of = request}
  BY DEF Publish, Mirror
<1>2. over \subseteq StepIds
  BY DEF Moved
<1>3. ms \in Statuses
  <2>1. \A t \in StepIds : from_task(ts[t].status) \in PlanStepStatus \cup {"None"}
    BY Mirrored DEF Task
  <2> QED BY <2>1 DEF on_step_status, Statuses
<1>4. Finished(ph, ms) \in PlannerPhase
  BY DEF Finished, PlannerPhase
<1> QED BY <1>1, <1>2, <1>3, <1>4 DEF TypeOK

LEMMA Inserted ==
    ASSUME NEW p \in PlanSteps, NEW i \in 1..(Len(p) + 1), NEW e \in PlanStep
    PROVE  InsertAt(p, i, e) \in PlanSteps /\ Len(InsertAt(p, i, e)) = Len(p) + 1
<1> DEFINE a == SubSeq(p, 1, i - 1)
           b == SubSeq(p, i, Len(p))
<1>1. p \in Seq(PlanStep) /\ Len(p) \in Nat
  BY LenProperties DEF PlanSteps
<1>2. a \in Seq(PlanStep) /\ Len(a) = i - 1
  BY <1>1, SubSeqProperties
<1>3. b \in Seq(PlanStep) /\ Len(b) = Len(p) - i + 1
  BY <1>1, SubSeqProperties
<1>4. <<e>> \in Seq(PlanStep) /\ Len(<<e>>) = 1
  OBVIOUS
<1> HIDE DEF a, b
<1>5. a \o <<e>> \in Seq(PlanStep) /\ Len(a \o <<e>>) = i
  BY <1>2, <1>4, ConcatProperties
<1>6. (a \o <<e>>) \o b \in Seq(PlanStep) /\ Len((a \o <<e>>) \o b) = Len(p) + 1
  <2> DEFINE c == a \o <<e>>
  <2> HIDE DEF c
  <2>1. c \in Seq(PlanStep) /\ Len(c) = i
    BY <1>5 DEF c
  <2>2. c \o b \in Seq(PlanStep) /\ Len(c \o b) = i + (Len(p) - i + 1)
    BY <1>3, <2>1, ConcatProperties
  <2>3. i + (Len(p) - i + 1) = Len(p) + 1
    BY <1>1
  <2> QED BY <2>2, <2>3 DEF c
<1> QED BY <1>6 DEF InsertAt, a, b, PlanSteps

(* A plan whose edges stay inside it.                                      *)
Whole(p) == p \in PlanSteps /\ \A i \in DOMAIN p : p[i].depends_on \subseteq Ids(p)

(* The graph with the steps of p in it.                                    *)
Imported(p, ts) ==
    [s \in StepIds |->
        IF s \notin Ids(p) THEN ts[s]
        ELSE [status |-> "Pending", of |-> request,
              deps |-> UNION {p[i].depends_on : i \in {j \in DOMAIN p : p[j].id = s}}]]

LEMMA ImportedTypes ==
    ASSUME TypeOK, NEW p, Whole(p), NEW ts \in [StepIds -> Task]
    PROVE  /\ Imported(p, ts) \in [StepIds -> Task]
           /\ \A s \in Ids(p) : /\ Imported(p, ts)[s].status = "Pending"
                                /\ Imported(p, ts)[s].of = request
                                /\ Imported(p, ts)[s].deps \subseteq Ids(p)
           /\ \A s \in StepIds \ Ids(p) : Imported(p, ts)[s] = ts[s]
<1> DEFINE D(s) == UNION {p[i].depends_on : i \in {j \in DOMAIN p : p[j].id = s}}
           new(s) == [status |-> "Pending", of |-> request, deps |-> D(s)]
<1>1. Ids(p) \subseteq StepIds
  BY Steps DEF Whole
<1>2. \A s : D(s) \subseteq Ids(p)
  BY DEF Whole
<1>3. \A s \in StepIds : Imported(p, ts)[s] = IF s \notin Ids(p) THEN ts[s] ELSE new(s)
  BY DEF Imported
<1> HIDE DEF D
<1>4. \A s : new(s) \in Task /\ new(s).status = "Pending" /\ new(s).of = request /\ new(s).deps = D(s)
  <2>1. request \in 0..MaxRequests
    BY DEF TypeOK
  <2> QED BY <1>1, <1>2, <2>1 DEF Task, TaskStatus
<1> HIDE DEF new
<1>5. Imported(p, ts) = [s \in StepIds |-> Imported(p, ts)[s]]
  BY DEF Imported
<1> QED BY <1>1, <1>2, <1>3, <1>4, <1>5

LEMMA Imports ==
    ASSUME NEW p, NEW ts, Import(p, ts)
    PROVE  \/ /\ Collides(p, ts) /\ phase' = "Executing" /\ step_status' = AllQueued(p)
              /\ tasks' = ts /\ refused' = TRUE /\ UNCHANGED <<completed_steps, earned>>
           \/ /\ ~Collides(p, ts) /\ UNCHANGED refused
              /\ Publish(Classified(Imported(p, ts)), "Executing", AllQueued(p))
<1>1. Imported(p, ts) =
        [s \in StepIds |->
            IF s \notin Ids(p) THEN ts[s]
            ELSE [status |-> "Pending",
                  deps |-> UNION {p[i].depends_on : i \in {j \in DOMAIN p : p[j].id = s}},
                  of |-> request]]
  BY DEF Imported
<1> QED BY <1>1 DEF Import

LEMMA ImportTypes ==
    ASSUME TypeOK, NEW p, Whole(p), NEW ts \in [StepIds -> Task], Import(p, ts)
    PROVE  /\ tasks' \in [StepIds -> Task] /\ step_status' \in Statuses
           /\ phase' \in PlannerPhase /\ refused' \in BOOLEAN
           /\ completed_steps' \subseteq StepIds /\ earned' \subseteq StepIds
<1>1. AllQueued(p) \in Statuses
  BY DEF AllQueued, Statuses, TypeOK, PlanStepStatus
<1>2. CASE Collides(p, ts) /\ phase' = "Executing" /\ step_status' = AllQueued(p)
           /\ tasks' = ts /\ refused' = TRUE /\ UNCHANGED <<completed_steps, earned>>
  BY <1>1, <1>2 DEF TypeOK, PlannerPhase
<1>3. CASE UNCHANGED refused /\ Publish(Classified(Imported(p, ts)), "Executing", AllQueued(p))
  <2> DEFINE cs == Classified(Imported(p, ts))
  <2>1. cs \in [StepIds -> Task]
    BY ImportedTypes, Classifies
  <2> HIDE DEF cs
  <2>2. "Executing" \in PlannerPhase /\ Publish(cs, "Executing", AllQueued(p))
    BY <1>3 DEF PlannerPhase, cs
  <2>3. /\ tasks' \in [StepIds -> Task] /\ step_status' \in Statuses /\ phase' \in PlannerPhase
        /\ completed_steps' \subseteq StepIds /\ earned' \subseteq StepIds
    BY <1>1, <2>1, <2>2, MirrorTypes
  <2> QED BY <1>3, <2>3 DEF TypeOK
<1> QED BY <1>2, <1>3, Imports

(* TypeOK, conjunct by conjunct.                                           *)
Types ==
    /\ phase \in PlannerPhase /\ edited \in BOOLEAN /\ planned \in BOOLEAN
    /\ approved \in BOOLEAN /\ refused \in BOOLEAN
    /\ steps \in PlanSteps /\ Len(steps) <= MaxSteps /\ step_status \in Statuses
    /\ completed_steps \subseteq StepIds /\ earned \subseteq StepIds
    /\ plan_task_ids \subseteq StepIds /\ cap \in Caps
    /\ tasks \in [StepIds -> Task] /\ request \in 0..MaxRequests
    /\ edits \in 0..MaxEdits /\ retries \in 0..MaxRetries /\ restarts \in 0..MaxRestarts

LEMMA Parts == TypeOK <=> Types
  BY DEF TypeOK, Types, PlanSteps, Statuses, Task

LEMMA MovesTask ==
    ASSUME Types, NEW t \in StepIds, NEW to \in TaskStatus
    PROVE  /\ [tasks EXCEPT ![t].status = to] \in [StepIds -> Task]
           /\ \A s \in StepIds :
                /\ [tasks EXCEPT ![t].status = to][s].of = tasks[s].of
                /\ s # t => [tasks EXCEPT ![t].status = to][s] = tasks[s]
           /\ [tasks EXCEPT ![t].status = to][t].status = to
<1>1. /\ [tasks[t] EXCEPT !.status = to] \in Task
      /\ [tasks[t] EXCEPT !.status = to].of = tasks[t].of
      /\ [tasks[t] EXCEPT !.status = to].status = to
  <2>1. tasks[t] \in Task
    BY DEF Types
  <2> QED BY <2>1 DEF Task
<1> DEFINE x == [tasks[t] EXCEPT !.status = to]
<1>2. [tasks EXCEPT ![t].status = to] = [tasks EXCEPT ![t] = x]
  OBVIOUS
<1> HIDE DEF x
<1>3. [tasks EXCEPT ![t] = x] \in [StepIds -> Task] /\ [tasks EXCEPT ![t] = x][t] = x
      /\ \A s \in StepIds : s # t => [tasks EXCEPT ![t] = x][s] = tasks[s]
  BY <1>1 DEF Types, x
<1> QED BY <1>1, <1>2, <1>3 DEF x

LEMMA MoveTypes ==
    ASSUME Types, NEW t \in StepIds, NEW to \in TaskStatus, MoveTask(t, to)
    PROVE  Types'
<1> DEFINE ms == [tasks EXCEPT ![t].status = to]
           cs == Classified(ms)
<1>1. cs \in [StepIds -> Task]
  BY MovesTask, Classifies
<1>2. Publish(cs, phase, step_status)
  BY DEF MoveTask
<1> HIDE DEF cs
<1>3. /\ tasks' \in [StepIds -> Task] /\ step_status' \in Statuses /\ phase' \in PlannerPhase
      /\ completed_steps' \subseteq StepIds /\ earned' \subseteq StepIds
  BY <1>1, <1>2, MirrorTypes, Parts DEF Types
<1>4. retries' \in 0..MaxRetries
  BY BoundsAssumption DEF MoveTask, Types
<1> QED BY <1>3, <1>4 DEF MoveTask, Types, planVars, historyVars

LEMMA RequestTypes ==
    ASSUME Types, PlanRequestFails \/ \E p \in Proposals : PlanRequest(p)
    PROVE  Types'
<1>1. BeginRequest
  BY DEF PlanRequestFails, PlanRequest
<1>2. /\ request' \in 0..MaxRequests /\ edited' = FALSE /\ completed_steps' = {}
      /\ step_status' \in Statuses /\ approved' = FALSE /\ refused' = FALSE /\ earned' = {}
      /\ UNCHANGED <<tasks, plan_task_ids, cap, edits, retries, restarts>>
  BY <1>1, BoundsAssumption DEF BeginRequest, Types, Statuses, boundVars
<1>3. phase' \in PlannerPhase /\ planned' \in BOOLEAN /\ steps' \in PlanSteps /\ Len(steps') <= MaxSteps
  <2>1. CASE PlanRequestFails
    <3>1. <<>> \in PlanSteps /\ Len(<<>>) <= MaxSteps
      BY BoundsAssumption DEF PlanSteps
    <3> QED BY <2>1, <3>1 DEF PlanRequestFails, PlannerPhase
  <2>2. ASSUME NEW p \in Proposals, PlanRequest(p)
        PROVE  phase' \in PlannerPhase /\ planned' \in BOOLEAN /\ steps' \in PlanSteps /\ Len(steps') <= MaxSteps
    <3>1. p \in PlanSteps /\ Len(p) <= MaxSteps
      BY ProposalsAssumption DEF into_plan, PlanSteps
    <3> QED BY <2>2, <3>1 DEF PlanRequest, PlannerPhase
  <2> QED BY <2>1, <2>2
<1> QED BY <1>2, <1>3 DEF Types

Edits ==
    \/ EditText \/ \E s \in StepIds, D \in SUBSET StepIds : EditDependencies(s, D)
    \/ (\E i \in 1..(Len(steps) + 1) : EditAddStep(i)) \/ \E s \in StepIds : EditRemoveStep(s)

LEMMA EditTypes ==
    ASSUME Types, Edits
    PROVE  Types'
<1>1. Edit
  BY DEF Edits, EditText, EditDependencies, EditAddStep, EditRemoveStep
<1>2. /\ edits' \in 0..MaxEdits /\ edited' = TRUE
      /\ UNCHANGED <<planned, mirrorVars, plan_task_ids, cap, historyVars, retries, restarts>>
  BY <1>1, BoundsAssumption DEF Edit, Types
<1>3. steps' \in PlanSteps /\ Len(steps') <= MaxSteps
  <2>0. steps \in PlanSteps /\ Len(steps) <= MaxSteps /\ Len(steps) \in Nat
    BY LenProperties DEF Types, PlanSteps
  <2>1. CASE EditText
    BY <2>1, <2>0 DEF EditText
  <2>2. ASSUME NEW s \in StepIds, NEW D \in SUBSET StepIds, EditDependencies(s, D)
        PROVE  steps' \in PlanSteps /\ Len(steps') <= MaxSteps
    <3>1. PICK i \in DOMAIN steps : steps' = [steps EXCEPT ![i].depends_on = D]
      BY <2>2 DEF EditDependencies
    <3> DEFINE x == [steps[i] EXCEPT !.depends_on = D]
    <3>2. x \in PlanStep
      <4>1. steps[i] \in PlanStep
        BY <2>0, Steps
      <4> QED BY <4>1 DEF PlanStep
    <3>3. steps' = [steps EXCEPT ![i] = x]
      BY <3>1
    <3> HIDE DEF x
    <3>4. steps \in Seq(PlanStep) /\ i \in 1..Len(steps)
      BY <2>0, Steps DEF PlanSteps
    <3> QED BY <2>0, <3>2, <3>3, <3>4, ExceptSeq DEF PlanSteps
  <2>3. ASSUME NEW i \in 1..(Len(steps) + 1), EditAddStep(i)
        PROVE  steps' \in PlanSteps /\ Len(steps') <= MaxSteps
    <3> DEFINE e == [id |-> Len(steps) + 1, depends_on |-> {}]
    <3>1. e \in PlanStep /\ steps' = InsertAt(steps, i, e) /\ Len(steps) < MaxSteps
      BY <2>0, <2>3, BoundsAssumption DEF EditAddStep, PlanStep, StepIds
    <3> HIDE DEF e
    <3>2. MaxSteps \in Nat
      BY BoundsAssumption
    <3> QED BY <2>0, <3>1, <3>2, Inserted
  <2>4. ASSUME NEW s \in StepIds, EditRemoveStep(s)
        PROVE  steps' \in PlanSteps /\ Len(steps') <= MaxSteps
    <3>1. steps' \in PlanSteps /\ Len(steps') <= Len(steps)
      BY <2>0, <2>4, Left DEF EditRemoveStep
    <3>2. Len(steps') \in Nat /\ MaxSteps \in Nat
      BY <3>1, LenProperties, BoundsAssumption DEF PlanSteps
    <3> QED BY <2>0, <3>1, <3>2
  <2> QED BY <2>1, <2>2, <2>3, <2>4 DEF Edits
<1> QED BY <1>2, <1>3 DEF Types, mirrorVars, historyVars

LEMMA Compiled ==
    ASSUME NEW p \in PlanSteps, compile(p)
    PROVE  Whole(p)
  BY DEF compile, Whole

(* What PlanExecute and PlanResume import: p, into ts.                     *)
Importing(p, ts) ==
    \/ PlanExecute /\ p = steps /\ ts = tasks
    \/ PlanResume /\ p = remaining_steps /\ ts = Removed(tasks, plan_task_ids)

LEMMA ImportsWhat ==
    ASSUME Types, PlanExecute \/ PlanResume
    PROVE  \E p, ts : /\ Importing(p, ts) /\ Import(p, ts) /\ Whole(p) /\ ts \in [StepIds -> Task]
                      /\ Acyclic(p) /\ Ids(p) \subseteq Ids(steps)
                      /\ UNCHANGED <<planVars, cap, request, approved, boundVars>>
                      /\ plan_task_ids' \subseteq StepIds
<1>0. steps \in PlanSteps /\ tasks \in [StepIds -> Task]
  BY DEF Types
<1>1. CASE PlanExecute
  <2>1. Whole(steps) /\ Acyclic(steps)
    BY <1>0, <1>1, Compiled DEF PlanExecute, compile
  <2>2. Ids(steps) \subseteq StepIds
    BY <1>0, Steps
  <2> QED BY <1>0, <1>1, <2>1, <2>2 DEF PlanExecute, Importing, Types
<1>2. CASE PlanResume
  <2>1. remaining_steps \in PlanSteps /\ Ids(remaining_steps) \subseteq Ids(steps)
    BY <1>0, Left DEF remaining_steps
  <2>2. Whole(remaining_steps) /\ Acyclic(remaining_steps)
    BY <1>2, <2>1, Compiled DEF PlanResume, compile
  <2>3. Removed(tasks, plan_task_ids) \in [StepIds -> Task]
    BY <1>0, Removes
  <2>4. Ids(remaining_steps) \subseteq StepIds
    BY <2>1, Steps
  <2> QED BY <1>2, <2>1, <2>2, <2>3, <2>4 DEF PlanResume, Importing
<1> QED BY <1>1, <1>2

LEMMA ExecuteTypes ==
    ASSUME Types, PlanExecute \/ PlanResume
    PROVE  Types'
<1>1. PICK p, ts : /\ Import(p, ts) /\ Whole(p) /\ ts \in [StepIds -> Task]
                   /\ UNCHANGED <<planVars, cap, request, approved, boundVars>>
                   /\ plan_task_ids' \subseteq StepIds
  BY ImportsWhat
<1>2. /\ tasks' \in [StepIds -> Task] /\ step_status' \in Statuses
      /\ phase' \in PlannerPhase /\ refused' \in BOOLEAN
      /\ completed_steps' \subseteq StepIds /\ earned' \subseteq StepIds
  BY <1>1, ImportTypes, Parts
<1> QED BY <1>1, <1>2 DEF Types, planVars, boundVars

LEMMA RestoreTypes ==
    ASSUME Types, NEW keep \in BOOLEAN, PlanRestore(keep)
    PROVE  Types'
<1>1. restarts' \in 0..MaxRestarts
  BY BoundsAssumption DEF PlanRestore, Types
<1>2. step_status' \in Statuses
  BY DEF PlanRestore, Statuses, PlanStepStatus
<1>3. tasks' \in [StepIds -> Task]
  <2>1. ASSUME NEW s \in StepIds
        PROVE  [tasks[s] EXCEPT !.status = "Interrupted"] \in Task /\ tasks[s] \in Task
    <3>1. tasks[s] \in Task
      BY DEF Types
    <3> QED BY <3>1 DEF Task, TaskStatus
  <2> QED BY <2>1, NoTaskTyped DEF PlanRestore
<1> QED BY <1>1, <1>2, <1>3 DEF PlanRestore, Types, historyVars, PlannerPhase

(* The calls that only move the planner from one phase to another.         *)
Entries ==
    PlanValidate \/ PlanApprove \/ PlanReject \/ PlanCancel \/ PlanResumeDone

LEMMA OtherTypes ==
    ASSUME Types, Entries \/ PlanInterrupt \/ (\E c \in Caps : SetPolicy(c)) \/ UNCHANGED vars
    PROVE  Types'
<1>1. CASE Entries
  BY <1>1 DEF Entries, PlanValidate, PlanApprove, PlanReject, PlanCancel, PlanResumeDone, Enter,
              Types, planVars, boundVars, PlannerPhase
<1>2. CASE PlanInterrupt
  <2>1. step_status' \in Statuses
    BY <1>2 DEF PlanInterrupt, Types, Statuses, PlanStepStatus
  <2> QED BY <1>2, <2>1 DEF PlanInterrupt, Types, planVars, historyVars, boundVars, PlannerPhase
<1>3. ASSUME NEW c \in Caps, SetPolicy(c) PROVE Types'
  BY <1>3 DEF SetPolicy, Types, planVars, mirrorVars, historyVars, boundVars
<1>4. CASE UNCHANGED vars
  BY <1>4 DEF vars, Types, planVars, mirrorVars, historyVars, boundVars
<1> QED BY <1>1, <1>2, <1>3, <1>4

(* The actions of Next, by what they do.                                   *)
LEMMA Steppings ==
    ASSUME [Next]_vars
    PROVE  \/ \E t \in StepIds, to \in TaskStatus : MoveTask(t, to)
           \/ PlanRequestFails \/ \E p \in Proposals : PlanRequest(p)
           \/ Edits
           \/ PlanExecute \/ PlanResume
           \/ \E keep \in BOOLEAN : PlanRestore(keep)
           \/ Entries \/ PlanInterrupt \/ (\E c \in Caps : SetPolicy(c)) \/ UNCHANGED vars
  BY DEF Next, Edits, Entries

LEMMA TypesKept == Types /\ [Next]_vars => Types'
  BY Steppings, MoveTypes, RequestTypes, EditTypes, ExecuteTypes, RestoreTypes, OtherTypes

LEMMA TypesStart == Init => Types
<1>1. Init => steps \in PlanSteps /\ Len(steps) = 0
  BY DEF Init, PlanSteps
<1>2. Init => tasks \in [StepIds -> Task]
  BY NoTaskTyped DEF Init
<1>3. Init => step_status \in Statuses /\ phase \in PlannerPhase
  BY DEF Init, Statuses, PlannerPhase
<1>4. /\ 0 \in 0..MaxRequests /\ 0 \in 0..MaxEdits /\ 0 \in 0..MaxRetries /\ 0 \in 0..MaxRestarts
      /\ 0 <= MaxSteps
  BY BoundsAssumption
<1> QED BY <1>1, <1>2, <1>3, <1>4 DEF Init, Types

(* Every variable of the planner keeps its type: no edit, resume or        *)
(* restart leaves a step without an id or a task without a status.         *)
THEOREM PlannerTypes == Spec => []TypeOK
<1> QED BY TypesStart, TypesKept, Parts, PTL DEF Spec

-----------------------------------------------------------------------------
(* The invariant.                                                          *)

Executes == phase = "Executing" /\ ~refused

NotTasks == \A s \in StepIds : tasks[s].status = "None" => tasks[s] = NoTask

(* What executes, or did, was approved; a plan still to be approved has    *)
(* neither results nor tasks.                                              *)
Vetted ==
    /\ phase \in {"Approved", "Executing", "Interrupted"} => approved
    /\ phase \in {"NeedsApproval", "Approved"} =>
         completed_steps = {} /\ \A s \in StepIds : tasks[s].of # request
    /\ \A s \in StepIds : tasks[s].of <= request

(* A step is recorded complete when its task completed it, shows as such,  *)
(* and its task never moves again.                                         *)
Recorded ==
    ~refused =>
      /\ completed_steps \cap Ids(steps) \subseteq earned
      /\ phase \in {"Executing", "Interrupted"} =>
           \A s \in completed_steps \cap Ids(steps) :
              step_status[s] = "Completed" /\ tasks[s].status \in {"None", "Completed"}

(* The other steps of a plan that executes have tasks of this request, and *)
(* show what they do.                                                      *)
Tracked ==
    Executes => \A s \in Ids(steps) \ completed_steps :
        /\ tasks[s].of = request /\ tasks[s].status \notin {"None", "Completed"}
        /\ step_status[s] = from_task(tasks[s].status)

Open == Executes /\ steps # <<>> => \E s \in Ids(steps) : step_status[s] \notin Settled

IInv == Types /\ NotTasks /\ Vetted /\ Recorded /\ Tracked /\ Open /\ DoneIsEarned

LEMMA InvMirrors == IInv => MirrorAgrees
<1> SUFFICES ASSUME IInv, phase = "Executing", ~refused
             PROVE  /\ \A s \in Ids(steps) \ completed_steps :
                         step_status[s] = from_task(tasks[s].status)
                    /\ steps # <<>> => \E s \in Ids(steps) :
                         s \notin completed_steps /\ from_task(tasks[s].status) \notin Settled
  BY DEF MirrorAgrees
<1>1. \A s \in Ids(steps) \ completed_steps : step_status[s] = from_task(tasks[s].status)
  BY DEF IInv, Tracked, Executes
<1>2. \A s \in Ids(steps) : step_status[s] \notin Settled => s \notin completed_steps
  BY DEF IInv, Recorded, Settled
<1> QED BY <1>1, <1>2 DEF IInv, Open, Executes

LEMMA CompletedOnly == \A st \in TaskStatus : from_task(st) = "Completed" <=> st = "Completed"
  BY DEF TaskStatus, from_task

(* The end of a call while a plan executes.                                *)
LEMMA Publishes ==
    ASSUME Types, NEW ts \in [StepIds -> Task], NEW ss \in Statuses,
           Publish(ts, "Executing", ss), UNCHANGED <<steps, request>>, ~refused', refused' = refused,
           completed_steps \cap Ids(steps) \subseteq earned,
           \A s \in Ids(steps) \cap completed_steps :
              /\ ss[s] = "Completed" /\ ts[s].status \in {"None", "Completed"}
              /\ ts[s].status = "Completed" => tasks[s].status = "Completed",
           \A s \in Ids(steps) \ completed_steps :
              /\ ts[s].of = request /\ ts[s].status # "None"
              /\ ts[s].status = tasks[s].status =>
                   ss[s] = from_task(ts[s].status) /\ ts[s].status # "Completed"
    PROVE  (Recorded /\ Tracked /\ Open /\ DoneIsEarned)'
<1> DEFINE over == {t \in Moved(ts) : ts[t].status = "Completed"}
           ms == on_step_status(ts, Moved(ts), ss)
<1>1. /\ tasks' = ts /\ step_status' = ms /\ phase' = Finished("Executing", ms)
      /\ completed_steps' = completed_steps \cup over
      /\ earned' = earned \cup {t \in over : ts[t].of = request}
  BY DEF Publish, Mirror
<1>2. Ids(steps) \subseteq StepIds
  BY Steps DEF Types
<1>3. ASSUME NEW s \in Ids(steps), s \in completed_steps
      PROVE  ms[s] = "Completed" /\ ts[s].status \in {"None", "Completed"}
             /\ s \in completed_steps' /\ s \in earned'
  <2>1. s \notin Moved(ts)
    BY <1>3 DEF Moved
  <2> QED BY <1>1, <1>2, <1>3, <2>1 DEF on_step_status
<1>4. ASSUME NEW s \in Ids(steps), s \notin completed_steps
      PROVE  /\ ms[s] = from_task(ts[s].status) /\ ts[s].of = request /\ ts[s].status # "None"
             /\ ts[s].status = "Completed" <=> s \in completed_steps'
             /\ ts[s].status = "Completed" => s \in earned'
  <2>1. s \in StepIds /\ ts[s].of = request /\ ts[s].status # "None"
    BY <1>2, <1>4
  <2>2. CASE s \in Moved(ts)
    BY <1>1, <1>4, <2>1, <2>2 DEF on_step_status
  <2>3. CASE s \notin Moved(ts)
    <3>1. ts[s].status = tasks[s].status
      BY <2>1, <2>3 DEF Moved
    <3>2. ms[s] = ss[s]
      BY <2>1, <2>3 DEF on_step_status
    <3> QED BY <1>1, <1>4, <2>1, <2>3, <3>1, <3>2
  <2> QED BY <2>2, <2>3
<1> HIDE DEF ms, over
<1>5. \A s \in Ids(steps) : ts[s].status \in TaskStatus
  BY <1>2 DEF Task
<1>6. \A s \in Ids(steps) : ms[s] = "Completed" => s \in earned'
  BY <1>3, <1>4, <1>5, CompletedOnly
<1>7. Recorded'
  <2>1. \A s \in Ids(steps) \cap completed_steps' :
           s \in earned' /\ ms[s] = "Completed" /\ ts[s].status \in {"None", "Completed"}
    BY <1>3, <1>4, <1>5, CompletedOnly
  <2> QED BY <1>1, <2>1 DEF Recorded, Ids
<1>8. Tracked'
  <2>1. \A s \in Ids(steps) : s \notin completed_steps' => s \notin completed_steps
    BY <1>3
  <2> QED BY <1>1, <1>4, <2>1 DEF Tracked, Ids
<1>9. /\ Finished("Executing", ms) = "Executing" =>
           steps = <<>> \/ \E s \in Ids(steps) : ms[s] \notin Settled
      /\ Finished("Executing", ms) = "Done" => \A s \in Ids(steps) : ms[s] = "Completed"
  BY DEF Finished
<1>10. Open' /\ DoneIsEarned'
  BY <1>1, <1>6, <1>9 DEF Open, Executes, DoneIsEarned, Ids
<1> QED BY <1>7, <1>8, <1>10

(* ... and while none does.                                                *)
LEMMA PublishesNothing ==
    ASSUME Types, NEW ts \in [StepIds -> Task], NEW ss \in Statuses, NEW ph, ph # "Executing",
           Publish(ts, ph, ss)
    PROVE  /\ tasks' = ts /\ step_status' = ss /\ phase' = ph
           /\ completed_steps' = completed_steps /\ earned \subseteq earned'
<1>1. on_step_status(ts, {}, ss) = ss
  BY DEF on_step_status, Statuses
<1>2. \A x : Finished(ph, x) = ph
  BY DEF Finished
<1> QED BY <1>1, <1>2 DEF Publish, Mirror

LEMMA PhaseAfter ==
    ASSUME NEW ts, NEW ss, Publish(ts, "Executing", ss)
    PROVE  tasks' = ts /\ phase' \in {"Executing", "Done", "Cancelled"}
  BY DEF Publish, Mirror, Finished

LEMMA MoveInv ==
    ASSUME IInv, NEW t \in StepIds, NEW to \in TaskStatus, MoveTask(t, to)
    PROVE  (NotTasks /\ Vetted /\ Recorded /\ Tracked /\ Open /\ DoneIsEarned)'
<1> DEFINE m == [tasks EXCEPT ![t].status = to]
           cs == Classified(m)
<1>1. /\ Types /\ Publish(cs, phase, step_status) /\ <<tasks[t].status, to>> \in TaskMoves
      /\ UNCHANGED <<steps, request, refused, approved>>
  BY DEF IInv, MoveTask, planVars, historyVars
<1>2. tasks[t].status \notin {"None", "Completed"} /\ to # "None"
  BY <1>1 DEF TaskMoves
<1>3. /\ m \in [StepIds -> Task] /\ m[t].status = to
      /\ \A s \in StepIds : m[s].of = tasks[s].of /\ (s # t => m[s] = tasks[s])
  BY <1>1, MovesTask
<1> HIDE DEF m
<1>4. /\ cs \in [StepIds -> Task]
      /\ \A s \in StepIds :
            /\ cs[s].of = tasks[s].of
            /\ cs[s] = m[s] \/ (/\ m[s].status \in {"Pending", "Blocked"}
                                /\ cs[s].status \in {"Ready", "Blocked"})
  BY <1>3, Classifies
<1> HIDE DEF cs
<1>5. \A s \in StepIds : tasks[s].status \in {"None", "Completed"} => cs[s] = tasks[s]
  BY <1>2, <1>3, <1>4
<1>6. \A s \in StepIds : cs[s].status = "None" => tasks[s].status = "None"
  BY <1>2, <1>3, <1>4
<1>7. Ids(steps) \subseteq StepIds /\ step_status \in Statuses
  BY <1>1, Steps DEF Types
<1>8. NotTasks' /\ \A s \in StepIds : tasks'[s].of = tasks[s].of
  <2>1. tasks' = cs
    BY <1>1 DEF Publish, Mirror
  <2> QED BY <1>4, <1>5, <1>6, <2>1 DEF IInv, NotTasks
<1>9. CASE phase = "Executing"
  <2>1. Vetted'
    BY <1>1, <1>8, <1>9, PhaseAfter DEF IInv, Vetted
  <2>2. CASE refused
    BY <1>1, <1>8, <2>1, <2>2 DEF Recorded, Tracked, Open, Executes, DoneIsEarned
  <2>3. CASE ~refused
    <3>1. /\ completed_steps \cap Ids(steps) \subseteq earned
          /\ \A s \in Ids(steps) \cap completed_steps :
                step_status[s] = "Completed" /\ cs[s] = tasks[s]
                /\ tasks[s].status \in {"None", "Completed"}
      BY <1>5, <1>7, <1>9, <2>3 DEF IInv, Recorded
    <3>2. \A s \in Ids(steps) \ completed_steps :
             /\ cs[s].of = request /\ cs[s].status # "None"
             /\ cs[s].status = tasks[s].status =>
                  step_status[s] = from_task(cs[s].status) /\ cs[s].status # "Completed"
      BY <1>4, <1>6, <1>7, <1>9, <2>3 DEF IInv, Tracked, Executes
    <3> QED BY <1>1, <1>4, <1>7, <1>8, <1>9, <2>1, <2>3, <3>1, <3>2, Publishes
  <2> QED BY <2>2, <2>3
<1>10. CASE phase # "Executing"
  <2>1. /\ tasks' = cs /\ UNCHANGED <<step_status, phase, completed_steps>>
        /\ earned \subseteq earned'
    BY <1>1, <1>4, <1>7, <1>10, PublishesNothing
  <2>2. Vetted'
    BY <1>1, <1>8, <2>1 DEF IInv, Vetted
  <2>3. Recorded'
    BY <1>1, <1>5, <1>7, <2>1 DEF IInv, Recorded, Ids
  <2>4. (Tracked /\ Open /\ DoneIsEarned)'
    BY <1>1, <1>10, <2>1 DEF IInv, Tracked, Open, Executes, DoneIsEarned, Ids
  <2> QED BY <1>8, <2>2, <2>3, <2>4
<1> QED BY <1>9, <1>10

(* The tasks a plan is imported as start Pending or Ready, whatever else   *)
(* the graph holds.                                                        *)
LEMMA FreshTasks ==
    ASSUME TypeOK, NEW p, Whole(p), NEW ts \in [StepIds -> Task]
    PROVE  LET cs == Classified(Imported(p, ts))
           IN  /\ cs \in [StepIds -> Task]
               /\ \A s \in Ids(p) : /\ cs[s].status \in {"Pending", "Ready"}
                                    /\ cs[s].of = request /\ cs[s].deps \subseteq Ids(p)
               /\ \A s \in StepIds \ Ids(p) :
                     /\ cs[s].of = ts[s].of /\ cs[s].deps = ts[s].deps
                     /\ cs[s] = ts[s] \/ (/\ ts[s].status \in {"Pending", "Blocked"}
                                          /\ cs[s].status \in {"Ready", "Blocked"})
<1> DEFINE im == Imported(p, ts)
           cs == Classified(im)
<1>1. /\ im \in [StepIds -> Task] /\ Ids(p) \subseteq StepIds
      /\ \A s \in Ids(p) : im[s].status = "Pending" /\ im[s].of = request /\ im[s].deps \subseteq Ids(p)
      /\ \A s \in StepIds \ Ids(p) : im[s] = ts[s]
  BY ImportedTypes, Steps DEF Whole
<1> HIDE DEF im
<1>2. /\ cs \in [StepIds -> Task]
      /\ \A s \in StepIds :
            /\ cs[s].deps = im[s].deps /\ cs[s].of = im[s].of
            /\ cs[s] = im[s] \/ (/\ im[s].status \in {"Pending", "Blocked"}
                                 /\ cs[s].status \in {"Ready", "Blocked"})
  BY <1>1, Classifies
<1>3. ASSUME NEW s \in Ids(p) PROVE cs[s].status \in {"Pending", "Ready"}
  <2>1. ~\E d \in im[s].deps : im[d].status \in {"Failed", "Cancelled"}
    BY <1>1
  <2>2. im[s].status = "Pending" /\ s \in StepIds /\ im[s] \in Task
    BY <1>1
  <2>3. cs[s] = im[s] \/ cs[s] = [im[s] EXCEPT !.status = "Ready"]
    BY <2>1, <2>2 DEF Classified
  <2> QED BY <2>2, <2>3 DEF Task
<1> HIDE DEF cs
<1>4. /\ cs \in [StepIds -> Task]
      /\ \A s \in Ids(p) : /\ cs[s].status \in {"Pending", "Ready"}
                           /\ cs[s].of = request /\ cs[s].deps \subseteq Ids(p)
      /\ \A s \in StepIds \ Ids(p) :
            /\ cs[s].of = ts[s].of /\ cs[s].deps = ts[s].deps
            /\ cs[s] = ts[s] \/ (/\ ts[s].status \in {"Pending", "Blocked"}
                                 /\ cs[s].status \in {"Ready", "Blocked"})
  BY <1>1, <1>2, <1>3
<1> QED BY <1>4 DEF cs, im

LEMMA NoTaskIs ==
    /\ NoTask.status = "None" /\ NoTask.of = 0 /\ NoTask.deps = {}
    /\ \A x \in Task : x.status = "None" /\ x.of = 0 /\ x.deps = {} => x = NoTask
  BY DEF NoTask, Task

(* The graph an import finds: the tasks there are, without some.           *)
LEMMA GraphBefore ==
    ASSUME IInv, NEW p, NEW ts, Importing(p, ts)
    PROVE  /\ ts \in [StepIds -> Task]
           /\ \A s \in StepIds :
                /\ ts[s] = NoTask \/ (ts[s].status = tasks[s].status /\ ts[s].of = tasks[s].of)
                /\ ts[s].status = "None" => ts[s] = NoTask
                /\ ts[s] # NoTask => tasks[s] # NoTask /\ (PlanResume => s \notin plan_task_ids)
<1>1. tasks \in [StepIds -> Task] /\ \A s \in StepIds : tasks[s].status = "None" => tasks[s] = NoTask
  BY DEF IInv, Types, NotTasks
<1>2. CASE PlanExecute /\ ts = tasks
  <2>1. ~PlanResume
    BY <1>2 DEF PlanExecute, PlanResume
  <2> QED BY <1>1, <1>2, <2>1
<1>3. CASE ts = Removed(tasks, plan_task_ids)
  <2>1. /\ ts \in [StepIds -> Task]
        /\ \A s \in StepIds :
             \/ s \in plan_task_ids /\ ts[s] = NoTask
             \/ /\ s \notin plan_task_ids /\ ts[s].status = tasks[s].status
                /\ ts[s].of = tasks[s].of /\ ts[s].deps = tasks[s].deps \ plan_task_ids
    BY <1>1, <1>3, Removes
  <2>2. ASSUME NEW s \in StepIds, s \notin plan_task_ids, tasks[s] = NoTask PROVE ts[s] = NoTask
    BY <2>1, <2>2, NoTaskIs
  <2> QED BY <1>1, <2>1, <2>2, NoTaskIs
<1> QED BY <1>2, <1>3 DEF Importing

LEMMA ImportInv ==
    ASSUME IInv, PlanExecute \/ PlanResume
    PROVE  (NotTasks /\ Vetted /\ Recorded /\ Tracked /\ Open /\ DoneIsEarned)'
<1>1. PICK p, ts : /\ Importing(p, ts) /\ Import(p, ts) /\ Whole(p) /\ ts \in [StepIds -> Task]
                   /\ Ids(p) \subseteq Ids(steps)
                   /\ UNCHANGED <<planVars, cap, request, approved, boundVars>>
  BY ImportsWhat DEF IInv
<1> DEFINE cs == Classified(Imported(p, ts))
<1>2. \A s \in StepIds :
         /\ ts[s] = NoTask \/ (ts[s].status = tasks[s].status /\ ts[s].of = tasks[s].of)
         /\ ts[s].status = "None" => ts[s] = NoTask
  BY <1>1, GraphBefore
<1>3. /\ cs \in [StepIds -> Task]
      /\ \A s \in Ids(p) : /\ cs[s].status \in {"Pending", "Ready"} /\ cs[s].of = request
      /\ \A s \in StepIds \ Ids(p) :
            /\ cs[s].of = ts[s].of
            /\ cs[s] = ts[s] \/ (/\ ts[s].status \in {"Pending", "Blocked"}
                                 /\ cs[s].status \in {"Ready", "Blocked"})
  BY <1>1, FreshTasks, Parts DEF IInv
<1>4. /\ Types /\ UNCHANGED <<steps, request, approved>> /\ approved
      /\ Ids(steps) \subseteq StepIds /\ Ids(p) \subseteq StepIds /\ request \in Nat
  <2>1. Types /\ UNCHANGED <<steps, request, approved>> /\ request \in Nat
    BY <1>1, BoundsAssumption DEF IInv, planVars, Types
  <2>2. approved
    BY <1>1 DEF IInv, Vetted, Importing, PlanExecute, PlanResume
  <2> QED BY <1>1, <2>1, <2>2, Steps DEF Types, Whole
<1>5. /\ ~refused => completed_steps \cap Ids(steps) \subseteq earned
      /\ Ids(p) = Ids(steps) \ completed_steps
      /\ ~refused => \A s \in Ids(steps) \cap completed_steps :
             step_status[s] = "Completed" /\ tasks[s].status \in {"None", "Completed"}
  <2>1. CASE PlanExecute /\ p = steps
    BY <2>1 DEF IInv, Vetted, Recorded, PlanExecute
  <2>2. CASE PlanResume /\ p = remaining_steps
    <3>1. Ids(p) = Ids(steps) \ completed_steps
      BY <1>4, <2>2, Left DEF remaining_steps, Types
    <3> QED BY <2>2, <3>1 DEF IInv, Recorded, PlanResume
  <2> QED BY <1>1, <2>1, <2>2 DEF Importing
<1>6. \A s \in StepIds : ts[s].of <= request /\ cs[s].of <= request
  <2>1. \A s \in StepIds : tasks[s].of <= request
    BY DEF IInv, Vetted
  <2>2. 0 <= request /\ request <= request
    BY <1>4
  <2> QED BY <1>2, <1>3, <1>4, <2>1, <2>2, NoTaskIs
<1>7. \A s \in StepIds : cs[s].status = "None" => cs[s] = NoTask
  BY <1>2, <1>3
<1>8. CASE /\ phase' = "Executing" /\ tasks' = ts /\ refused' = TRUE
           /\ UNCHANGED <<completed_steps, earned>>
  BY <1>2, <1>4, <1>6, <1>8
     DEF NotTasks, Vetted, Recorded, Tracked, Open, Executes, DoneIsEarned
<1>9. CASE UNCHANGED refused /\ Publish(cs, "Executing", AllQueued(p))
  <2> HIDE DEF cs
  <2>1. tasks' = cs /\ phase' \in {"Executing", "Done", "Cancelled"}
    BY <1>9, PhaseAfter
  <2>2. NotTasks' /\ Vetted'
    BY <1>4, <1>6, <1>7, <2>1 DEF NotTasks, Vetted
  <2>3. CASE refused
    BY <1>9, <2>1, <2>2, <2>3 DEF Recorded, Tracked, Open, Executes, DoneIsEarned
  <2>4. CASE ~refused
    <3>1. AllQueued(p) \in Statuses
      BY <1>4 DEF AllQueued, Types, Statuses, PlanStepStatus
    <3>2. \A s \in StepIds : AllQueued(p)[s] = IF s \in Ids(p) THEN "Queued" ELSE step_status[s]
      BY DEF AllQueued
    <3>3. \A s \in Ids(steps) \cap completed_steps :
             /\ AllQueued(p)[s] = "Completed" /\ cs[s].status \in {"None", "Completed"}
             /\ cs[s].status = "Completed" => tasks[s].status = "Completed"
      <4>1. \A s \in Ids(steps) \cap completed_steps :
               /\ s \in StepIds \ Ids(p) /\ step_status[s] = "Completed"
               /\ tasks[s].status \in {"None", "Completed"}
        BY <1>4, <1>5, <2>4
      <4>2. \A s \in Ids(steps) \cap completed_steps :
               ts[s].status \in {"None", "Completed"}
               /\ (ts[s].status = "Completed" => tasks[s].status = "Completed")
        BY <1>2, <4>1, NoTaskIs
      <4> QED BY <1>3, <3>2, <4>1, <4>2
    <3>4. \A s \in Ids(steps) \ completed_steps :
             /\ cs[s].of = request /\ cs[s].status # "None"
             /\ AllQueued(p)[s] = from_task(cs[s].status) /\ cs[s].status # "Completed"
      <4>1. \A st \in {"Pending", "Ready"} : from_task(st) = "Queued"
        BY DEF from_task
      <4> QED BY <1>3, <1>4, <1>5, <3>2, <4>1
    <3>5. (Recorded /\ Tracked /\ Open /\ DoneIsEarned)'
      BY <1>3, <1>4, <1>5, <1>9, <2>4, <3>1, <3>3, <3>4, Publishes
    <3> QED BY <2>2, <3>5
  <2> QED BY <2>3, <2>4
<1> QED BY <1>1, <1>8, <1>9, Imports

LEMMA RequestInv ==
    ASSUME IInv, PlanRequestFails \/ \E p \in Proposals : PlanRequest(p)
    PROVE  (NotTasks /\ Vetted /\ Recorded /\ Tracked /\ Open /\ DoneIsEarned)'
<1>1. /\ request' = request + 1 /\ completed_steps' = {} /\ UNCHANGED tasks
      /\ phase' \in {"NeedsApproval", "Failed"}
  BY DEF PlanRequestFails, PlanRequest, BeginRequest
<1>2. \A s \in StepIds : tasks[s].of \in Nat /\ request \in Nat /\ tasks[s].of <= request
  BY BoundsAssumption DEF IInv, Types, Vetted, Task
<1>3. \A s \in StepIds : tasks'[s].of <= request' /\ tasks'[s].of # request'
  BY <1>1, <1>2
<1>4. NotTasks' /\ Vetted'
  BY <1>1, <1>3 DEF IInv, NotTasks, Vetted
<1> QED BY <1>1, <1>4 DEF Recorded, Tracked, Open, Executes, DoneIsEarned

(* A plan is edited before it has results.                                 *)
LEMMA EditInv ==
    ASSUME IInv, Edits
    PROVE  (NotTasks /\ Vetted /\ Recorded /\ Tracked /\ Open /\ DoneIsEarned)'
<1>1. Edit
  BY DEF Edits, EditText, EditDependencies, EditAddStep, EditRemoveStep
<1>2. /\ phase \in {"NeedsApproval", "Approved"}
      /\ UNCHANGED <<mirrorVars, historyVars>>
  BY <1>1 DEF Edit
<1>3. completed_steps = {}
  BY <1>2 DEF IInv, Vetted
<1>4. NotTasks' /\ Vetted'
  BY <1>2 DEF IInv, NotTasks, Vetted, mirrorVars, historyVars
<1> QED BY <1>2, <1>3, <1>4
       DEF Recorded, Tracked, Open, Executes, DoneIsEarned, mirrorVars, historyVars

(* A resumed plan of which nothing remains has every step recorded.        *)
LEMMA EntriesInv ==
    ASSUME IInv, Entries
    PROVE  (NotTasks /\ Vetted /\ Recorded /\ Tracked /\ Open /\ DoneIsEarned)'
<1>1. /\ UNCHANGED <<steps, completed_steps, tasks, earned, request, refused>>
      /\ phase' \in {"Failed", "Approved", "Rejected", "Cancelled", "Done"}
  BY DEF Entries, PlanValidate, PlanApprove, PlanReject, PlanCancel, PlanResumeDone, Enter,
         planVars
<1>2. phase' = "Approved" => approved' /\ phase = "NeedsApproval"
  BY DEF Entries, PlanValidate, PlanApprove, PlanReject, PlanCancel, PlanResumeDone, Enter
<1>3. phase' = "Done" => phase = "Interrupted" /\ remaining_steps = <<>>
  BY DEF Entries, PlanValidate, PlanApprove, PlanReject, PlanCancel, PlanResumeDone, Enter
<1>4. NotTasks' /\ Vetted'
  BY <1>1, <1>2 DEF IInv, NotTasks, Vetted
<1>5. (Recorded /\ Tracked /\ Open)'
  BY <1>1 DEF IInv, Recorded, Tracked, Open, Executes, Ids
<1>6. DoneIsEarned'
  <2>1. remaining_steps = <<>> => Ids(steps) \subseteq completed_steps
    BY Left DEF IInv, Types, remaining_steps
  <2>2. ~refused => completed_steps \cap Ids(steps) \subseteq earned
    BY DEF IInv, Recorded
  <2> QED BY <1>1, <1>3, <2>1, <2>2 DEF DoneIsEarned, Ids
<1> QED BY <1>4, <1>5, <1>6

(* An interruption and a restart leave results as they are.                *)
LEMMA InterruptInv ==
    ASSUME IInv, PlanInterrupt \/ \E keep \in BOOLEAN : PlanRestore(keep)
    PROVE  (NotTasks /\ Vetted /\ Recorded /\ Tracked /\ Open /\ DoneIsEarned)'
<1>1. /\ UNCHANGED <<steps, completed_steps, earned, request, refused, approved>>
      /\ phase \in {"Approved", "Executing", "Interrupted"} /\ phase' = "Interrupted"
  BY DEF PlanInterrupt, PlanRestore, planVars, historyVars
<1>2. /\ Ids(steps) \subseteq StepIds /\ tasks \in [StepIds -> Task]
      /\ phase = "Approved" => completed_steps = {}
      /\ approved /\ request \in Nat /\ \A s \in StepIds : tasks[s].of <= request
      /\ \A s \in StepIds : tasks[s].status = "None" => tasks[s] = NoTask
  BY <1>1, Steps, BoundsAssumption DEF IInv, Types, Vetted, NotTasks
<1>3. \A s \in StepIds :
         /\ tasks'[s].of <= request /\ (tasks'[s].status = "None" => tasks'[s] = NoTask)
         /\ tasks[s].status \in {"None", "Completed"} =>
               tasks'[s].status \in {"None", "Completed"}
  <2>1. CASE UNCHANGED tasks
    BY <1>2, <2>1
  <2>2. ASSUME NEW keep \in BOOLEAN, PlanRestore(keep), NEW s \in StepIds
        PROVE  /\ tasks'[s].of <= request /\ (tasks'[s].status = "None" => tasks'[s] = NoTask)
               /\ tasks[s].status \in {"None", "Completed"} =>
                    tasks'[s].status \in {"None", "Completed"}
    <3>1. tasks'[s] = IF ~keep THEN NoTask
                      ELSE IF tasks[s].status = "Running"
                           THEN [tasks[s] EXCEPT !.status = "Interrupted"] ELSE tasks[s]
      BY <2>2 DEF PlanRestore
    <3>2. tasks[s] \in Task /\ tasks[s].of <= request /\ 0 <= request
      BY <1>2
    <3>3. [tasks[s] EXCEPT !.status = "Interrupted"].of = tasks[s].of
          /\ [tasks[s] EXCEPT !.status = "Interrupted"].status = "Interrupted"
      BY <3>2 DEF Task
    <3> QED BY <1>2, <3>1, <3>2, <3>3, NoTaskIs
  <2> QED BY <2>1, <2>2 DEF PlanInterrupt
<1>4. NotTasks' /\ Vetted'
  BY <1>1, <1>2, <1>3 DEF NotTasks, Vetted
<1>5. Recorded'
  <2>1. ~refused => completed_steps \cap Ids(steps) \subseteq earned
    BY DEF IInv, Recorded
  <2>2. ASSUME ~refused, NEW s \in completed_steps \cap Ids(steps)
        PROVE  step_status'[s] = "Completed" /\ tasks'[s].status \in {"None", "Completed"}
    <3>1. s \in StepIds /\ step_status[s] = "Completed" /\ tasks[s].status \in {"None", "Completed"}
      BY <1>1, <1>2, <2>2 DEF IInv, Recorded
    <3> QED BY <1>3, <2>2, <3>1 DEF PlanInterrupt, PlanRestore
  <2> QED BY <1>1, <2>1, <2>2 DEF Recorded, Ids
<1> QED BY <1>1, <1>4, <1>5 DEF Tracked, Open, Executes, DoneIsEarned

LEMMA StillInv ==
    ASSUME IInv, (\E c \in Caps : SetPolicy(c)) \/ UNCHANGED vars
    PROVE  (NotTasks /\ Vetted /\ Recorded /\ Tracked /\ Open /\ DoneIsEarned)'
<1>1. UNCHANGED <<planVars, mirrorVars, historyVars>>
  BY DEF SetPolicy, vars
<1> QED BY <1>1 DEF IInv, NotTasks, Vetted, Recorded, Tracked, Open, Executes, DoneIsEarned,
                    Ids, planVars, mirrorVars, historyVars

LEMMA KeptInv == IInv /\ [Next]_vars => IInv'
<1> SUFFICES ASSUME IInv, [Next]_vars PROVE IInv'
  OBVIOUS
<1>1. Types'
  BY TypesKept DEF IInv
<1>2. (NotTasks /\ Vetted /\ Recorded /\ Tracked /\ Open /\ DoneIsEarned)'
  BY Steppings, MoveInv, RequestInv, EditInv, ImportInv, InterruptInv, EntriesInv, StillInv
<1> QED BY <1>1, <1>2 DEF IInv

LEMMA StartInv == Init => IInv
<1> SUFFICES ASSUME Init PROVE IInv
  OBVIOUS
<1>1. \A s \in StepIds : tasks[s] = NoTask
  BY DEF Init
<1>2. NotTasks /\ Vetted
  BY <1>1, NoTaskIs DEF Init, NotTasks, Vetted
<1> QED BY <1>2, TypesStart DEF Init, IInv, Recorded, Tracked, Open, Executes, DoneIsEarned

(* While a plan it imported executes, what the planner shows of each step  *)
(* is what the scheduler says of its task, and one step at least is open:  *)
(* maybe_finish_plan looks after every event, and no event is missed.      *)
THEOREM MirrorIsTrue == Spec => []MirrorAgrees
<1> QED BY StartInv, KeptInv, InvMirrors, PTL DEF Spec

(* A plan is called done, by maybe_finish_plan or by plan_resume with      *)
(* nothing left, only when its own tasks have completed each of its steps. *)
THEOREM DoneEarned == Spec => []DoneIsEarned
<1>1. IInv => DoneIsEarned
  BY DEF IInv
<1> QED BY <1>1, StartInv, KeptInv, PTL DEF Spec

-----------------------------------------------------------------------------
(* What an import makes of the graph.                                      *)

(* With as many ids as steps, no two steps share one.                      *)
LEMMA OwnIds ==
    ASSUME NEW p \in PlanSteps, Cardinality(Ids(p)) = Len(p)
    PROVE  \A i, j \in DOMAIN p : p[i].id = p[j].id => i = j
<1> DEFINE f == [i \in 1..Len(p) |-> p[i].id]
<1>1. DOMAIN p = 1..Len(p) /\ Len(p) \in Nat
  BY Steps
<1>2. f \in Surjection(1..Len(p), Ids(p))
  <2>1. f \in [1..Len(p) -> Ids(p)] /\ \A x \in Ids(p) : \E i \in 1..Len(p) : f[i] = x
    BY <1>1 DEF Ids
  <2> QED BY <2>1 DEF Surjection
<1>3. IsFiniteSet(1..Len(p)) /\ Cardinality(1..Len(p)) = Len(p)
  <2>1. \A n \in Nat : IsFiniteSet(1..n) /\ Cardinality(1..n) = n
    BY FS_Interval
  <2> QED BY <1>1, <2>1
<1>4. f \in Injection(1..Len(p), Ids(p))
  <2> HIDE DEF f
  <2> QED BY <1>2, <1>3, FS_Surjection
<1>5. \A i, j \in 1..Len(p) : f[i] = f[j] => i = j
  <2> HIDE DEF f
  <2> QED BY <1>4 DEF Injection, IsInjective
<1> QED BY <1>1, <1>5

(* A task waits for what its step depends on.                              *)
LEMMA OwnDeps ==
    ASSUME NEW p \in PlanSteps, Cardinality(Ids(p)) = Len(p), NEW ts, NEW i \in DOMAIN p
    PROVE  Imported(p, ts)[p[i].id].deps = p[i].depends_on
<1> DEFINE s == p[i].id
<1>1. s \in StepIds /\ s \in Ids(p)
  BY Steps DEF Ids
<1>2. {j \in DOMAIN p : p[j].id = s} = {i}
  BY OwnIds
<1>3. Imported(p, ts)[s].deps =
        UNION {p[j].depends_on : j \in {j \in DOMAIN p : p[j].id = s}}
  BY <1>1 DEF Imported
<1> QED BY <1>2, <1>3

(* The tasks of a step of the system that were not there before, or that   *)
(* an import has replaced.                                                 *)
Resumed(s) ==
    /\ phase # "Executing" /\ phase' = "Executing"
    /\ s \in plan_task_ids /\ tasks'[s].of = request

NewTasks == {s \in StepIds : tasks'[s] # NoTask /\ (tasks[s] = NoTask \/ Resumed(s))}

ImportsRight ==
    NewTasks # {} =>
        /\ approved /\ phase' = "Executing"
        /\ NewTasks = Ids(steps) \ completed_steps
        /\ \A s \in NewTasks : tasks'[s].deps \subseteq NewTasks
        /\ \A S \in SUBSET NewTasks \ {{}} :
             \E s \in S : tasks'[s].deps \cap S = {}

(* Only an import makes tasks.                                             *)
LEMMA NothingNew ==
    ASSUME IInv, [Next]_vars, ~PlanExecute, ~PlanResume
    PROVE  NewTasks = {}
<1>0. \A s \in StepIds : tasks[s].status = "None" => tasks[s] = NoTask
  BY DEF IInv, NotTasks
<1>1. CASE UNCHANGED <<phase, tasks>>
  BY <1>1 DEF NewTasks, Resumed
<1>2. ASSUME NEW t \in StepIds, NEW to \in TaskStatus, MoveTask(t, to)
      PROVE  NewTasks = {}
  <2> DEFINE m == [tasks EXCEPT ![t].status = to]
  <2>1. /\ tasks' = Classified(m) /\ <<tasks[t].status, to>> \in TaskMoves
        /\ phase' = "Executing" => phase = "Executing"
    BY <1>2 DEF MoveTask, Publish, Mirror, Finished
  <2>2. tasks[t] # NoTask
    BY <2>1, NoTaskIs DEF TaskMoves
  <2>3. m \in [StepIds -> Task] /\ \A s \in StepIds : s # t => m[s] = tasks[s]
    BY MovesTask DEF IInv, Types
  <2> HIDE DEF m
  <2>4. \A s \in StepIds : tasks[s] = NoTask => tasks'[s] = NoTask
    <3>1. \A s \in StepIds : Classified(m)[s] = m[s] \/ m[s].status \in {"Pending", "Blocked"}
      BY <2>3, Classifies
    <3> QED BY <2>1, <2>2, <2>3, <3>1, NoTaskIs
  <2> QED BY <2>1, <2>4 DEF NewTasks, Resumed
<1>3. CASE PlanRequestFails \/ \E p \in Proposals : PlanRequest(p)
  <2>1. UNCHANGED tasks /\ phase' # "Executing"
    BY <1>3 DEF PlanRequestFails, PlanRequest, BeginRequest
  <2> QED BY <2>1 DEF NewTasks, Resumed
<1>4. CASE Edits
  <2>1. UNCHANGED <<phase, tasks>>
    BY <1>4 DEF Edits, EditText, EditDependencies, EditAddStep, EditRemoveStep, Edit, mirrorVars
  <2> QED BY <1>1, <2>1
<1>5. ASSUME NEW keep \in BOOLEAN, PlanRestore(keep)
      PROVE  NewTasks = {}
  <2>1. phase' = "Interrupted" /\ \A s \in StepIds :
           tasks'[s] = IF ~keep THEN NoTask
                       ELSE IF tasks[s].status = "Running"
                            THEN [tasks[s] EXCEPT !.status = "Interrupted"] ELSE tasks[s]
    BY <1>5 DEF PlanRestore
  <2> QED BY <2>1, NoTaskIs DEF NewTasks, Resumed
<1>6. CASE Entries \/ PlanInterrupt
  <2>1. UNCHANGED tasks /\ phase' # "Executing"
    BY <1>6 DEF Entries, PlanValidate, PlanApprove, PlanReject, PlanCancel, PlanResumeDone, Enter,
                PlanInterrupt
  <2> QED BY <2>1 DEF NewTasks, Resumed
<1>7. CASE (\E c \in Caps : SetPolicy(c)) \/ UNCHANGED vars
  <2>1. UNCHANGED <<phase, tasks>>
    BY <1>7 DEF SetPolicy, vars, mirrorVars
  <2> QED BY <1>1, <2>1
<1> QED BY <1>2, <1>3, <1>4, <1>5, <1>6, <1>7, Steppings

LEMMA ImportsAll ==
    ASSUME IInv, PlanExecute \/ PlanResume
    PROVE  ImportsRight
<1>1. PICK p, ts : /\ Importing(p, ts) /\ Import(p, ts) /\ Whole(p) /\ ts \in [StepIds -> Task]
                   /\ Acyclic(p) /\ Ids(p) \subseteq Ids(steps)
  BY ImportsWhat DEF IInv
<1>2. /\ Types /\ p \in PlanSteps /\ Ids(p) \subseteq StepIds
      /\ Cardinality(Ids(p)) = Len(p) /\ approved
      /\ \A s \in StepIds : tasks[s].status = "None" => tasks[s] = NoTask
  <2>1. Cardinality(Ids(p)) = Len(p)
    BY <1>1 DEF Importing, PlanExecute, PlanResume, compile
  <2>2. approved
    BY <1>1 DEF IInv, Vetted, Importing, PlanExecute, PlanResume
  <2> QED BY <1>1, <2>1, <2>2, Steps DEF IInv, Whole, NotTasks
(* Every open step is imported.                                            *)
<1>3. Ids(p) = Ids(steps) \ completed_steps
  <2>1. CASE PlanExecute /\ p = steps
    BY <2>1 DEF IInv, Vetted, PlanExecute
  <2>2. CASE PlanResume /\ p = remaining_steps
    BY <1>2, <2>2, Left DEF remaining_steps, Types
  <2> QED BY <1>1, <2>1, <2>2 DEF Importing
(* What the graph keeps is not new.                                        *)
<1>4. \A s \in StepIds :
         ts[s] # NoTask => tasks[s] # NoTask /\ (s \notin plan_task_ids \/ ts[s].of # request)
  <2>1. CASE PlanExecute /\ ts = tasks
    BY <2>1 DEF IInv, Vetted, PlanExecute
  <2>2. CASE PlanResume
    BY <1>1, <2>2, GraphBefore
  <2> QED BY <1>1, <2>1, <2>2 DEF Importing
<1>5. CASE tasks' = ts
  BY <1>4, <1>5 DEF ImportsRight, NewTasks, Resumed
<1>6. ASSUME ~Collides(p, ts), Publish(Classified(Imported(p, ts)), "Executing", AllQueued(p))
      PROVE  ImportsRight
  <2> DEFINE cs == Classified(Imported(p, ts))
  <2>1. /\ cs \in [StepIds -> Task]
        /\ \A s \in Ids(p) : /\ cs[s].status \in {"Pending", "Ready"} /\ cs[s].of = request
                             /\ cs[s].deps \subseteq Ids(p)
        /\ \A s \in StepIds \ Ids(p) :
              /\ cs[s].of = ts[s].of
              /\ cs[s] = ts[s] \/ (/\ ts[s].status \in {"Pending", "Blocked"}
                                   /\ cs[s].status \in {"Ready", "Blocked"})
    BY <1>1, <1>2, FreshTasks, Parts
  <2>2. \A i \in DOMAIN p : cs[p[i].id].deps = p[i].depends_on
    <3> SUFFICES ASSUME NEW i \in DOMAIN p PROVE cs[p[i].id].deps = p[i].depends_on
      OBVIOUS
    <3>1. Imported(p, ts) \in [StepIds -> Task] /\ p[i].id \in StepIds
      BY <1>1, <1>2, ImportedTypes, Parts, Steps
    <3> QED BY <1>2, <3>1, OwnDeps, Classifies
  <2>3. /\ tasks' = cs
        /\ phase' = Finished("Executing", on_step_status(cs, Moved(cs), AllQueued(p)))
    BY <1>6 DEF Publish, Mirror
  <2> HIDE DEF cs
  <2>4. NewTasks \subseteq Ids(p)
    <3> SUFFICES ASSUME NEW s \in StepIds, s \notin Ids(p), cs[s] # NoTask
                 PROVE  tasks[s] # NoTask /\ (s \notin plan_task_ids \/ cs[s].of # request)
      BY <2>3 DEF NewTasks, Resumed
    <3>1. ts[s] # NoTask /\ cs[s].of = ts[s].of
      BY <2>1, NoTaskIs
    <3> QED BY <1>4, <3>1
  <2>5. ASSUME NEW s \in Ids(p) PROVE s \in NewTasks /\ phase' = "Executing"
    <3>1. s \in StepIds /\ cs[s] # NoTask /\ ts[s] = NoTask /\ cs[s].of = request
      BY <1>2, <1>6, <2>1, NoTaskIs DEF Collides
    <3>2. phase' = "Executing"
      <4>1. on_step_status(cs, Moved(cs), AllQueued(p))[s] = "Queued"
        BY <2>1, <3>1 DEF on_step_status, AllQueued, from_task
      <4>2. s \in Ids(steps)
        BY <1>1
      <4> QED BY <2>3, <4>1, <4>2 DEF Finished, Settled
    <3>3. tasks[s] = NoTask \/ s \in plan_task_ids
      <4>1. CASE PlanExecute /\ ts = tasks
        BY <3>1, <4>1
      <4>2. CASE ts = Removed(tasks, plan_task_ids)
        <5>1. tasks \in [StepIds -> Task]
          BY <1>2 DEF Types
        <5>2. s \in plan_task_ids \/ ts[s].status = tasks[s].status
          BY <3>1, <4>2, <5>1, Removes
        <5> QED BY <1>2, <3>1, <5>2, NoTaskIs
      <4> QED BY <1>1, <4>1, <4>2 DEF Importing
    <3>4. phase # "Executing"
      BY DEF PlanExecute, PlanResume
    <3> QED BY <2>3, <3>1, <3>2, <3>3, <3>4 DEF NewTasks, Resumed
  <2>6. NewTasks = Ids(p)
    BY <2>4, <2>5
  <2>7. ASSUME NEW S \in SUBSET Ids(p) \ {{}} PROVE \E s \in S : cs[s].deps \cap S = {}
    BY <1>1, <2>2 DEF Acyclic
  <2> QED BY <1>2, <1>3, <2>1, <2>3, <2>5, <2>6, <2>7 DEF ImportsRight
<1> QED BY <1>1, <1>5, <1>6, Imports

(* Tasks come into being only when a plan a human approved is imported:    *)
(* all its open steps at once, acyclic, waiting for each other only, and   *)
(* none that was completed before (plan_execute, plan_resume).             *)
THEOREM ImportsWhole == Spec => ImportIsWhole
<1>1. IInv /\ [Next]_vars => ImportsRight
  BY NothingNew, ImportsAll DEF ImportsRight
<1>2. ImportsRight <=>
        LET resumed(s) == /\ phase # "Executing" /\ phase' = "Executing"
                          /\ s \in plan_task_ids /\ tasks'[s].of = request
            new == {s \in StepIds : tasks'[s] # NoTask
                                     /\ (tasks[s] = NoTask \/ resumed(s))}
        IN new # {} =>
             /\ approved /\ phase' = "Executing"
             /\ new = Ids(steps) \ completed_steps
             /\ \A s \in new : tasks'[s].deps \subseteq new
             /\ \A S \in SUBSET new \ {{}} :
                  \E s \in S : tasks'[s].deps \cap S = {}
  BY DEF ImportsRight, NewTasks, Resumed
<1> QED BY <1>1, <1>2, StartInv, KeptInv, PTL DEF Spec, ImportIsWhole

-----------------------------------------------------------------------------
(* What tasks hand to each other.                                          *)

(* The ids of findings are not those of outputs: both are made by the same *)
(* process and are unique.                                                 *)
ArtifactBounds ==
    /\ MaxIds \in Nat /\ MaxArtifacts \in Nat
    /\ Findings \cap Handover!Outputs = {} /\ Grades \subseteq Handover!Severity

Stages == {"Pending", "Ready", "Running", "Completed", "Blocked", "Interrupted"}
Report == [verdict : Handover!Verdicts, findings : Seq(Grades)]

HandoverTypes ==
    /\ ar_made \in 0..MaxIds
    /\ ar_task \in [Handed -> [status : Stages, inputs : SUBSET Handover!Refs,
                           outputs : SUBSET (1..ar_made)]]
    /\ ar_given \in [Handed -> SUBSET Handover!Outputs]
    /\ ar_reports \in [Handed -> Seq(Report)]

(* A store is a map from ids to records, within the cap.                   *)
IsStore(S) ==
    /\ IsFiniteSet(S) /\ Cardinality(S) <= MaxArtifacts
    /\ \A q, r \in S : q.id = r.id => q = r

(* What the records say was produced has been, by the task they name; only *)
(* what was produced has a payload.                                        *)
RecordsAreTrue ==
    \A rec \in ar_store :
        /\ rec.payload => rec.id \in Handover!Outputs
        /\ rec.id \in Handover!Outputs =>
              /\ rec.id <= ar_made
              /\ \A x \in Handed : rec.id \in ar_task[x].outputs <=> rec.creator = x

HandoverInv ==
    HandoverTypes /\ IsStore(ar_store) /\ RecordsAreTrue /\ Handover!GivenWasGranted

(* The library's operators, seen through an instance, are the same.        *)
LEMMA SameOperators ==
    /\ \A S : Handover!Cardinality(S) = Cardinality(S)
    /\ \A f : Handover!Range(f) = Range(f)
  BY DEF Handover!Cardinality, Cardinality, Handover!Range, Range

LEMMA OneMore ==
    ASSUME NEW S, IsFiniteSet(S), NEW e
    PROVE  /\ IsFiniteSet(S \cup {e}) /\ Cardinality(S) \in Nat
           /\ Cardinality(S \cup {e}) \in Nat
           /\ Cardinality(S \cup {e}) <= Cardinality(S) + 1
<1>1. IsFiniteSet(S \cup {e})
  BY FS_AddElement
<1>2. Cardinality(S \cup {e}) = IF e \in S THEN Cardinality(S) ELSE Cardinality(S) + 1
  BY FS_AddElement
<1>3. Cardinality(S) \in Nat
  BY FS_CardinalityType
<1> QED BY <1>1, <1>2, <1>3

(* Whichever record makes room, a store stays one (ArtifactStore.register).*)
LEMMA Registered ==
    ASSUME ArtifactBounds, NEW S, IsStore(S), NEW rec,
           NEW T \in Handover!register(S, rec)
    PROVE  IsStore(T) /\ rec \in T /\ T \subseteq S \cup {rec}
<1>1. IsFiniteSet(S) /\ Cardinality(S) \in Nat /\ Cardinality(S) <= MaxArtifacts
      /\ MaxArtifacts \in Nat /\ \A q, r \in S : q.id = r.id => q = r
  BY FS_CardinalityType DEF IsStore, ArtifactBounds
<1>2. PICK R : /\ T = {q \in R : q.id # rec.id} \cup {rec}
               /\ \/ Cardinality(S) < MaxArtifacts /\ R = S
                  \/ \E r \in S : R = S \ {r}
  <2>1. CASE Cardinality(S) >= MaxArtifacts
    BY <2>1, SameOperators DEF Handover!register, Handover!Oldest
  <2>2. CASE ~(Cardinality(S) >= MaxArtifacts)
    <3>1. T \in {{q \in R : q.id # rec.id} \cup {rec} : R \in {S}}
      BY <2>2, SameOperators DEF Handover!register
    <3> QED BY <1>1, <2>2, <3>1
  <2> QED BY <2>1, <2>2
<1>3. R \subseteq S /\ IsFiniteSet(R) /\ Cardinality(R) \in Nat
      /\ Cardinality(R) + 1 <= MaxArtifacts
  <2>1. CASE Cardinality(S) < MaxArtifacts /\ R = S
    BY <1>1, <2>1
  <2>2. CASE \E r \in S : R = S \ {r}
    <3>1. PICK r \in S : R = S \ {r}
      BY <2>2
    <3>2. IsFiniteSet(R) /\ Cardinality(R) = Cardinality(S) - 1
      BY <1>1, <3>1, FS_RemoveElement
    <3>3. Cardinality(R) \in Nat
      BY <3>2, FS_CardinalityType
    <3> QED BY <1>1, <3>1, <3>2, <3>3
  <2> QED BY <1>2, <2>1, <2>2
<1> DEFINE U == {q \in R : q.id # rec.id}
<1>4. IsFiniteSet(U) /\ Cardinality(U) <= Cardinality(R) /\ Cardinality(U) \in Nat
  <2>1. U \in SUBSET R
    OBVIOUS
  <2> HIDE DEF U
  <2> QED BY <1>3, <2>1, FS_Subset, FS_CardinalityType
<1>5. T = U \cup {rec}
  BY <1>2
<1>6. \A q, r \in T : q.id = r.id => q = r
  BY <1>1, <1>3, <1>5
<1>7. rec \in T /\ T \subseteq S \cup {rec}
  BY <1>3, <1>5
<1> HIDE DEF U
<1>8. IsFiniteSet(T) /\ Cardinality(T) \in Nat /\ Cardinality(T) <= Cardinality(U) + 1
  BY <1>4, <1>5, OneMore
<1>9. Cardinality(T) <= MaxArtifacts
  BY <1>1, <1>3, <1>4, <1>8
<1> QED BY <1>6, <1>7, <1>8, <1>9 DEF IsStore

(* What a task finds in its worktree stays granted while inputs and        *)
(* outputs only grow.                                                      *)
LEMMA GrantsStay ==
    ASSUME HandoverInv, ar_given' = ar_given,
           \A x \in Handed : /\ ar_task[x].inputs \subseteq ar_task'[x].inputs
                            /\ ar_task[x].outputs \subseteq ar_task'[x].outputs
    PROVE  Handover!GivenWasGranted'
<1>1. Handover!GivenWasGranted
  BY DEF HandoverInv
<1> SUFFICES ASSUME NEW x \in Handed, NEW id \in ar_given[x]
             PROVE  /\ \E r \in ar_task'[x].inputs : r.id = id
                    /\ \/ [uri |-> FALSE, id |-> id] \in ar_task'[x].inputs
                       \/ \E p \in Handed : id \in ar_task'[p].outputs
                                           /\ Handover!is_dependency(x, p)
  BY DEF Handover!GivenWasGranted
<1> QED BY <1>1 DEF Handover!GivenWasGranted

(* What a spawn copies was granted (materialize_inputs).                   *)
LEMMA CopiesAreGranted ==
    ASSUME HandoverInv, NEW x \in Handed, NEW id \in Handover!Materialized(x)
    PROVE  /\ id \in Handover!Outputs
           /\ \E r \in ar_task[x].inputs : r.id = id
           /\ \/ [uri |-> FALSE, id |-> id] \in ar_task[x].inputs
              \/ \E p \in Handed : id \in ar_task[p].outputs /\ Handover!is_dependency(x, p)
<1>1. PICK q \in ar_task[x].inputs :
          /\ q.id = id /\ Handover!can_access(x, id)
          /\ \E rec \in ar_store : rec.id = id /\ rec.payload
  BY DEF Handover!Materialized
<1>2. id \in Handover!Outputs
  BY <1>1 DEF HandoverInv, RecordsAreTrue
<1>3. ar_task[x].inputs \subseteq Handover!Refs
  BY DEF HandoverInv, HandoverTypes
<1>4. \A r \in Handover!Refs : ~r.uri => r = [uri |-> FALSE, id |-> r.id]
  BY DEF Handover!Refs
<1>5. \/ [uri |-> FALSE, id |-> id] \in ar_task[x].inputs
      \/ \E p \in Handed : id \in ar_task[p].outputs /\ Handover!is_dependency(x, p)
  BY <1>1, <1>3, <1>4 DEF Handover!can_access, Handover!producer_of
<1> QED BY <1>1, <1>2, <1>5

(* A pass: what its one ended task made is new, and becomes that task's.   *)
LEMMA PassKeepsHandover ==
    ASSUME ArtifactBounds, HandoverInv, Handover!Step
    PROVE  HandoverInv'
<1> DEFINE Running == {x \in Handed : ar_task[x].status = "Running"}
<1>1a. PICK ended \in {{}} \cup {{x} : x \in Running}, popped \in SUBSET Handed :
        \E n \in 0..(IF ended = {} THEN 0
                     ELSE Handover!Min({Handover!MaxOutputs, MaxIds - ar_made})),
           payload \in BOOLEAN :
        Handover!step_tasks(ended, popped, n, payload)
  BY DEF Handover!Step
<1>1. PICK n \in 0..(IF ended = {} THEN 0
                     ELSE Handover!Min({Handover!MaxOutputs, MaxIds - ar_made})),
           payload \in BOOLEAN :
        Handover!step_tasks(ended, popped, n, payload)
  BY <1>1a
<1>2. /\ ar_made \in 0..MaxIds /\ MaxIds \in Nat
      /\ ar_task \in [Handed -> [status : Stages, inputs : SUBSET Handover!Refs,
                             outputs : SUBSET (1..ar_made)]]
      /\ ar_given \in [Handed -> SUBSET Handover!Outputs]
      /\ ar_reports \in [Handed -> Seq(Report)]
      /\ IsStore(ar_store) /\ RecordsAreTrue /\ Handover!GivenWasGranted
  BY DEF HandoverInv, HandoverTypes, ArtifactBounds
<1>3. n \in Nat /\ n <= 1 /\ ar_made + n <= MaxIds /\ (n = 1 => ended # {})
  <2>1. CASE ended = {}
    BY <1>2, <2>1
  <2>2. CASE ended # {}
    <3>1. Handover!Min({1, MaxIds - ar_made}) <= 1
          /\ Handover!Min({1, MaxIds - ar_made}) <= MaxIds - ar_made
          /\ Handover!Min({1, MaxIds - ar_made}) \in {1, MaxIds - ar_made}
      <4> DEFINE m == MaxIds - ar_made
      <4>1. m \in Nat
        BY <1>2
      <4> HIDE DEF m
      <4>2. \E e \in {1, m} : \A f \in {1, m} : e <= f
        BY <4>1
      <4>3. Handover!Min({1, m}) \in {1, m} /\ \A f \in {1, m} : Handover!Min({1, m}) <= f
        BY <4>2 DEF Handover!Min
      <4> QED BY <4>3 DEF m
    <3> QED BY <1>2, <2>2, <3>1 DEF Handover!MaxOutputs
  <2> QED BY <2>1, <2>2
<1>4. /\ \A x \in Handed : /\ ar_task'[x].inputs = ar_task[x].inputs
                          /\ ar_task'[x].outputs = Handover!OutputsAfter(x, ended, n)
      /\ \A x \in Handed : ar_task'[x].status \in Stages
      /\ \A x \in Handed : ar_given'[x] \in {ar_given[x], Handover!Materialized(x)}
      /\ DOMAIN ar_given' = Handed /\ ar_given' = [x \in Handed |-> ar_given'[x]]
      /\ ar_task' = [x \in Handed |-> [status |-> ar_task'[x].status, inputs |-> ar_task'[x].inputs,
                                   outputs |-> ar_task'[x].outputs]]
      /\ ar_made' = ar_made + n /\ ar_reports' = ar_reports
  <2>1. \A x \in Handed : ar_task[x].status \in Stages
    BY <1>2
  <2> QED BY <1>1, <2>1 DEF Handover!step_tasks, Stages
<1>5. \A x \in Handed : /\ ar_task[x].outputs \subseteq 1..ar_made
                       /\ ar_task'[x].outputs =
                            ar_task[x].outputs \cup (IF n = 1 /\ x \in ended THEN {ar_made + 1} ELSE {})
  <2>1. n = 0 => (ar_made + 1)..(ar_made + n) = {}
    BY <1>2
  <2>2. n = 1 => (ar_made + 1)..(ar_made + n) = {ar_made + 1}
    BY <1>2
  <2>3. n = 0 \/ n = 1
    BY <1>3
  <2>4. \A x \in Handed : Handover!OutputsAfter(x, ended, n) =
            ar_task[x].outputs \cup (IF n = 1 /\ x \in ended THEN {ar_made + 1} ELSE {})
    BY <2>1, <2>2, <2>3 DEF Handover!OutputsAfter
  <2> QED BY <1>2, <1>4, <2>4
<1>6. HandoverTypes'
  <2>1. ar_made' \in 0..MaxIds /\ (1..ar_made) \subseteq 1..ar_made' /\ (n = 1 => ar_made + 1 \in 1..ar_made')
    BY <1>2, <1>3, <1>4
  <2>2. \A x \in Handed : ar_task'[x].outputs \subseteq 1..ar_made'
    BY <1>5, <2>1
  <2>3. \A x \in Handed : ar_task'[x].inputs \subseteq Handover!Refs
    BY <1>2, <1>4
  <2>4. ar_task' \in [Handed -> [status : Stages, inputs : SUBSET Handover!Refs,
                             outputs : SUBSET (1..ar_made')]]
    <3> DEFINE T == [status : Stages, inputs : SUBSET Handover!Refs,
                     outputs : SUBSET (1..ar_made')]
               t(x) == [status |-> ar_task'[x].status, inputs |-> ar_task'[x].inputs,
                        outputs |-> ar_task'[x].outputs]
    <3>1. \A x \in Handed : t(x) \in T
      BY <1>4, <2>2, <2>3
    <3>2. ar_task' = [x \in Handed |-> t(x)]
      BY <1>4
    <3> HIDE DEF T, t
    <3>3. ar_task' \in [Handed -> T]
      BY <3>1, <3>2
    <3> QED BY <3>3 DEF T
  <2>5. \A x \in Handed : ar_given'[x] \subseteq Handover!Outputs
    <3> TAKE x \in Handed
    <3>1. ar_given[x] \subseteq Handover!Outputs
      BY <1>2
    <3>2. Handover!Materialized(x) \subseteq Handover!Outputs
      BY CopiesAreGranted
    <3>3. ar_given'[x] \in {ar_given[x], Handover!Materialized(x)}
      BY <1>4
    <3> QED BY <3>1, <3>2, <3>3, Zenon
  <2>6. ar_given' \in [Handed -> SUBSET Handover!Outputs]
    BY <1>4, <2>5
  <2> QED BY <1>2, <1>4, <2>1, <2>4, <2>6 DEF HandoverTypes
<1>7. Handover!GivenWasGranted'
  <2> SUFFICES ASSUME NEW x \in Handed, NEW id \in ar_given'[x]
               PROVE  /\ \E r \in ar_task'[x].inputs : r.id = id
                      /\ \/ [uri |-> FALSE, id |-> id] \in ar_task'[x].inputs
                         \/ \E p \in Handed : id \in ar_task'[p].outputs
                                             /\ Handover!is_dependency(x, p)
    BY DEF Handover!GivenWasGranted
  <2>1. /\ \E r \in ar_task[x].inputs : r.id = id
        /\ \/ [uri |-> FALSE, id |-> id] \in ar_task[x].inputs
           \/ \E p \in Handed : id \in ar_task[p].outputs /\ Handover!is_dependency(x, p)
    <3>1. CASE ar_given'[x] = ar_given[x]
      BY <1>2, <3>1 DEF Handover!GivenWasGranted
    <3>2. CASE ar_given'[x] = Handover!Materialized(x)
      BY <3>2, CopiesAreGranted
    <3> QED BY <1>4, <3>1, <3>2
  <2>2. \A p \in Handed : ar_task[p].outputs \subseteq ar_task'[p].outputs
    BY <1>5
  <2>3. ar_task'[x].inputs = ar_task[x].inputs
    BY <1>4
  <2> QED BY <2>1, <2>2, <2>3
<1>8. IsStore(ar_store)' /\ RecordsAreTrue'
  <2>1. CASE n = 0
    <3>1. ar_store' = ar_store
      BY <1>1, <2>1 DEF Handover!step_tasks
    <3>2. ar_made' = ar_made /\ \A x \in Handed : ar_task'[x].outputs = ar_task[x].outputs
      BY <1>2, <1>4, <1>5, <2>1
    <3> QED BY <1>2, <3>1, <3>2 DEF IsStore, RecordsAreTrue
  <2>2. CASE n = 1
    <3>1. PICK e \in ended : ar_store' \in Handover!register(ar_store,
             [id |-> ar_made + 1, creator |-> e, at |-> ar_made + 1, payload |-> payload])
      <4>1. n # 0
        BY <2>2
      <4>2. n # 0 => \E x \in ended : ar_store' \in Handover!register(ar_store,
                [id |-> ar_made + 1, creator |-> x, at |-> ar_made + 1, payload |-> payload])
        BY <1>1, Zenon DEF Handover!step_tasks
      <4> QED BY <4>1, <4>2, Zenon
    <3> DEFINE rec == [id |-> ar_made + 1, creator |-> e, at |-> ar_made + 1, payload |-> payload]
    <3>2. ended = {e} /\ rec.id = ar_made + 1 /\ rec.creator = e
      BY <3>1
    <3>3. ar_store' \in Handover!register(ar_store, rec)
      BY <3>1
    <3> HIDE DEF rec
    <3>4. IsStore(ar_store') /\ ar_store' \subseteq ar_store \cup {rec}
      BY <1>2, <3>3, Registered
    <3>5. ar_made + 1 \in Handover!Outputs /\ ar_made' = ar_made + 1
      BY <1>2, <1>3, <1>4, <2>2 DEF Handover!Outputs
    <3>6. \A x \in Handed : ar_made + 1 \notin ar_task[x].outputs
      <4>1. ar_made + 1 \notin 1..ar_made
        BY <1>2
      <4> QED BY <1>5, <4>1
    <3>7. \A r \in ar_store : r.id \in Handover!Outputs =>
             r.id <= ar_made /\ r.id # ar_made + 1 /\ r.id <= ar_made + 1
      BY <1>2 DEF RecordsAreTrue, Handover!Outputs
    <3>8. RecordsAreTrue'
      <4> SUFFICES ASSUME NEW r \in ar_store'
                   PROVE  /\ r.payload => r.id \in Handover!Outputs
                          /\ r.id \in Handover!Outputs =>
                               /\ r.id <= ar_made'
                               /\ \A x \in Handed : r.id \in ar_task'[x].outputs <=> r.creator = x
        BY DEF RecordsAreTrue
      <4>1. CASE r = rec
        <5>1. \A x \in Handed : ar_made + 1 \in ar_task'[x].outputs <=> e = x
          BY <1>5, <2>2, <3>2, <3>6
        <5>2. ar_made + 1 <= ar_made'
          BY <1>2, <3>5
        <5> QED BY <3>2, <3>5, <4>1, <5>1, <5>2
      <4>2. CASE r \in ar_store
        <5>1. /\ r.payload => r.id \in Handover!Outputs
              /\ r.id \in Handover!Outputs =>
                     /\ r.id <= ar_made' /\ r.id # ar_made + 1
                     /\ \A x \in Handed : r.id \in ar_task[x].outputs <=> r.creator = x
          BY <1>2, <3>5, <3>7, <4>2 DEF RecordsAreTrue
        <5>2. \A x \in Handed : r.id # ar_made + 1 =>
                 (r.id \in ar_task'[x].outputs <=> r.id \in ar_task[x].outputs)
          BY <1>5
        <5> QED BY <5>1, <5>2
      <4> QED BY <3>4, <4>1, <4>2
    <3> QED BY <3>4, <3>8 DEF IsStore
  <2> QED BY <1>3, <2>1, <2>2
<1> QED BY <1>6, <1>7, <1>8 DEF HandoverInv

(* A step that leaves the store, and lets inputs grow at most.             *)
LEMMA InputsGrow ==
    ASSUME ArtifactBounds, HandoverInv, UNCHANGED <<ar_store, ar_given, ar_made>>,
           ar_task' \in [Handed -> [status : Stages, inputs : SUBSET Handover!Refs,
                                outputs : SUBSET (1..ar_made)]],
           \A x \in Handed : /\ ar_task[x].inputs \subseteq ar_task'[x].inputs
                            /\ ar_task[x].outputs = ar_task'[x].outputs,
           ar_reports' \in [Handed -> Seq(Report)]
    PROVE  HandoverInv'
<1>1. HandoverTypes'
  BY DEF HandoverInv, HandoverTypes
<1>2. IsStore(ar_store)' /\ RecordsAreTrue'
  BY DEF HandoverInv, IsStore, RecordsAreTrue
<1>3. Handover!GivenWasGranted'
  BY GrantsStay
<1> QED BY <1>1, <1>2, <1>3 DEF HandoverInv

LEMMA HandoverKept ==
    ASSUME ArtifactBounds, HandoverInv, [Handover!Next]_(Handover!vars)
    PROVE  HandoverInv'
<1> DEFINE Typed == [status : Stages, inputs : SUBSET Handover!Refs,
                     outputs : SUBSET (1..ar_made)]
<1>1. /\ ar_task \in [Handed -> Typed] /\ ar_reports \in [Handed -> Seq(Report)]
      /\ IsStore(ar_store) /\ RecordsAreTrue
  BY DEF HandoverInv, HandoverTypes
<1>2. ASSUME NEW x \in Handed, NEW ref \in Handover!Refs,
             Handover!task_add_input_artifact(x, ref)
      PROVE  HandoverInv'
  <2>1. /\ ar_task' = [ar_task EXCEPT ![x].inputs = ar_task[x].inputs \cup {ref}]
        /\ UNCHANGED <<ar_store, ar_given, ar_made, ar_reports>>
    BY <1>2 DEF Handover!task_add_input_artifact
  <2>2. ar_task' \in [Handed -> Typed]
        /\ \A y \in Handed : /\ ar_task[y].inputs \subseteq ar_task'[y].inputs
                            /\ ar_task[y].outputs = ar_task'[y].outputs
    BY <1>1, <2>1
  <2> QED BY <1>1, <2>1, <2>2, InputsGrow
<1>3. ASSUME NEW id, Handover!invalidate_artifact(id) PROVE HandoverInv'
  <2>1. UNCHANGED <<ar_task, ar_store, ar_given, ar_made, ar_reports>>
    BY <1>3 DEF Handover!invalidate_artifact
  <2> QED BY <1>1, <2>1, InputsGrow
<1>4. ASSUME NEW x \in Handed, NEW v \in Handover!Verdicts, NEW id \in Findings,
             NEW fs \in {<<>>} \cup {<<s>> : s \in Grades},
             Handover!record_review_report(x, v, fs, id)
      PROVE  HandoverInv'
  <2> DEFINE rep == [verdict |-> v, findings |-> fs]
             rec == [id |-> id, creator |-> x, at |-> ar_made, payload |-> FALSE]
  <2>1. /\ ar_reports' = [ar_reports EXCEPT ![x] = Append(ar_reports[x], rep)]
        /\ fs # <<>> => ar_store' \in Handover!register(ar_store, rec)
        /\ fs = <<>> => ar_store' = ar_store
        /\ UNCHANGED <<ar_task, ar_given, ar_made>>
    BY <1>4 DEF Handover!record_review_report, Handover!WithReport
  <2>2. fs \in Seq(Grades)
    <3>1. <<>> \in Seq(Grades) /\ \A s \in Grades : <<s>> \in Seq(Grades)
      OBVIOUS
    <3> QED BY <3>1, Zenon
  <2>3. rep \in Report
    BY <2>2 DEF Report
  <2>4. rec.id \notin Handover!Outputs /\ rec.payload = FALSE
    BY DEF ArtifactBounds
  <2> HIDE DEF rep, rec
  <2>5. ar_reports' \in [Handed -> Seq(Report)]
    BY <1>1, <2>1, <2>3
  <2>6. IsStore(ar_store') /\ ar_store' \subseteq ar_store \cup {rec}
    BY <1>1, <2>1, Registered
  <2>7. RecordsAreTrue'
    BY <1>1, <2>1, <2>4, <2>6 DEF RecordsAreTrue
  <2>8. HandoverTypes'
    BY <2>1, <2>5 DEF HandoverInv, HandoverTypes
  <2>9. Handover!GivenWasGranted'
    BY <2>1, GrantsStay
  <2> QED BY <2>6, <2>7, <2>8, <2>9 DEF HandoverInv, IsStore
<1>5. CASE Handover!Restart
  <2>1. /\ ar_task' = [x \in Handed |-> [ar_task[x] EXCEPT
                  !.status = IF ar_task[x].status = "Running" THEN "Interrupted"
                             ELSE ar_task[x].status]]
        /\ UNCHANGED <<ar_store, ar_given, ar_made, ar_reports>>
    BY <1>5 DEF Handover!Restart
  <2>2. ar_task' \in [Handed -> Typed]
        /\ \A y \in Handed : /\ ar_task[y].inputs \subseteq ar_task'[y].inputs
                            /\ ar_task[y].outputs = ar_task'[y].outputs
    BY <1>1, <2>1 DEF Stages
  <2> QED BY <1>1, <2>1, <2>2, InputsGrow
<1>6. CASE UNCHANGED Handover!vars
  <2>1. UNCHANGED <<ar_task, ar_store, ar_given, ar_made, ar_reports>>
    BY <1>6 DEF Handover!vars
  <2> QED BY <1>1, <2>1, InputsGrow
<1> QED BY <1>2, <1>3, <1>4, <1>5, <1>6, PassKeepsHandover DEF Handover!Next

LEMMA HandoverInit ==
    ASSUME ArtifactBounds, Handover!Init
    PROVE  HandoverInv
<1>1. /\ ar_made = 0 /\ 0 \in 0..MaxIds /\ ar_store = {}
      /\ ar_task = [x \in Handed |-> [status |-> IF Deps[x] = {} THEN "Ready" ELSE "Pending",
                                inputs |-> {}, outputs |-> {}]]
      /\ ar_given = [x \in Handed |-> {}] /\ ar_reports = [x \in Handed |-> <<>>]
  BY DEF Handover!Init, ArtifactBounds
<1>2. HandoverTypes
  BY <1>1 DEF HandoverTypes, Stages
<1>3. IsStore(ar_store) /\ RecordsAreTrue
  BY <1>1, FS_EmptySet DEF IsStore, RecordsAreTrue, ArtifactBounds
<1>4. Handover!GivenWasGranted
  BY <1>1 DEF Handover!GivenWasGranted
<1> QED BY <1>2, <1>3, <1>4 DEF HandoverInv

LEMMA HandoverInductive ==
    ASSUME ArtifactBounds
    PROVE  Handover!Spec => []HandoverInv
<1>1. Handover!Init => HandoverInv
  BY HandoverInit
<1>2. HandoverInv /\ [Handover!Next]_(Handover!vars) => HandoverInv'
  BY HandoverKept
<1> QED BY <1>1, <1>2, PTL DEF Handover!Spec

(* The store is a map from ids to records within its cap, and everything   *)
(* tasks and reviewers say is of its kind (ArtifactStore.register).        *)
THEOREM HandoverIsTyped ==
    ASSUME ArtifactBounds
    PROVE  Handover!Spec => []Handover!TypeOK
<1>1. HandoverInv => Handover!TypeOK
  <2> SUFFICES ASSUME HandoverInv PROVE Handover!TypeOK
    OBVIOUS
  <2>1. /\ ar_made \in 0..MaxIds /\ MaxIds \in Nat
        /\ ar_task \in [Handed -> [status : Stages, inputs : SUBSET Handover!Refs,
                               outputs : SUBSET (1..ar_made)]]
        /\ ar_given \in [Handed -> SUBSET Handover!Outputs]
        /\ ar_reports \in [Handed -> Seq(Report)]
        /\ IsFiniteSet(ar_store) /\ Cardinality(ar_store) <= MaxArtifacts
        /\ \A q, r \in ar_store : q.id = r.id => q = r
    BY DEF HandoverInv, HandoverTypes, IsStore, ArtifactBounds
  <2>2. Cardinality(Handover!Ids(ar_store)) = Cardinality(ar_store)
    <3> DEFINE f == [r \in ar_store |-> r.id]
               I == Handover!Ids(ar_store)
    <3>1. f \in Surjection(ar_store, I) /\ f \in Injection(ar_store, I)
      BY <2>1 DEF Surjection, Injection, IsInjective, Handover!Ids
    <3> HIDE DEF f, I
    <3>2. Cardinality(I) = Cardinality(ar_store)
      BY <2>1, <3>1, FS_Surjection
    <3> QED BY <3>2 DEF I
  <2>3. \A x \in Handed : \A r \in Range(ar_reports[x]) :
            Range(r.findings) \subseteq Handover!Severity
    <3> SUFFICES ASSUME NEW x \in Handed, NEW i \in DOMAIN ar_reports[x]
                 PROVE  Range(ar_reports[x][i].findings) \subseteq Handover!Severity
      BY DEF Range
    <3>1. ar_reports[x] \in Seq(Report)
      BY <2>1
    <3>2. ar_reports[x][i] \in Report
      BY <3>1
    <3>3. ar_reports[x][i].findings \in Seq(Grades)
      BY <3>2 DEF Report
    <3> DEFINE g == ar_reports[x][i].findings
    <3> HIDE DEF g
    <3>4. g \in Seq(Grades) => \A j \in DOMAIN g : g[j] \in Grades
      OBVIOUS
    <3> QED BY <3>3, <3>4 DEF Range, ArtifactBounds, g
  <2>4. \A x \in Handed : /\ ar_task[x].inputs \subseteq Handover!Refs
                         /\ ar_task[x].outputs \subseteq Handover!Outputs
                         /\ ar_given[x] \subseteq Handover!Outputs
    <3>1. 1..ar_made \subseteq Handover!Outputs
      BY <2>1 DEF Handover!Outputs
    <3> QED BY <2>1, <3>1
  <2> QED BY <2>1, <2>2, <2>3, <2>4, SameOperators DEF Handover!TypeOK
<1> QED BY <1>1, HandoverInductive, PTL

(* What a task finds in its worktree it declared, by its id or downstream  *)
(* of the task that made it, whatever was evicted, invalidated or restored *)
(* since (can_access, materialize_inputs).                                 *)
THEOREM GivenGranted ==
    ASSUME ArtifactBounds
    PROVE  Handover!Spec => []Handover!GivenWasGranted
<1>1. HandoverInv => Handover!GivenWasGranted
  BY DEF HandoverInv
<1> QED BY <1>1, HandoverInductive, PTL

(* Store and graph agree on who made an artifact (register_task_artifacts).*)
THEOREM LineageTrue ==
    ASSUME ArtifactBounds
    PROVE  Handover!Spec => []Handover!LineageIsTrue
<1>1. HandoverInv => Handover!LineageIsTrue
  BY DEF HandoverInv, RecordsAreTrue, Handover!LineageIsTrue
<1> QED BY <1>1, HandoverInductive, PTL

-----------------------------------------------------------------------------
(* The reviewers' verdict: only one action touches the reports, and it     *)
(* adds one.                                                               *)

LEMMA MoreToRead ==
    ASSUME NEW S, NEW s \in Seq(S), NEW e \in S
    PROVE  Range(s) \subseteq Range(Append(s, e))
<1>1. DOMAIN s \subseteq DOMAIN Append(s, e) /\ \A i \in DOMAIN s : Append(s, e)[i] = s[i]
  OBVIOUS
<1> QED BY <1>1 DEF Range

(* A reader of more reports is no milder.                                  *)
LEMMA NoMilder ==
    ASSUME NEW rs, NEW more, Range(rs) \subseteq Range(more)
    PROVE  Handover!aggregate(more) >= Handover!aggregate(rs)
<1> DEFINE found(q) == UNION {Range(r.findings) : r \in Range(q)}
           failed(q) == \E r \in Range(q) : r.verdict = "Fail"
           verdict(q) == IF Handover!Critical \in found(q) THEN 3
                         ELSE IF failed(q) \/ Handover!High \in found(q) THEN 2
                         ELSE IF \E s \in found(q) : s >= Handover!Medium THEN 1 ELSE 0
<1>1. \A q : Handover!aggregate(q) = verdict(q)
  BY SameOperators DEF Handover!aggregate, Handover!Consensus
<1>2. found(rs) \subseteq found(more) /\ (failed(rs) => failed(more))
  OBVIOUS
<1> HIDE DEF found, failed
<1>3. verdict(more) >= verdict(rs)
  BY <1>2
<1> QED BY <1>1, <1>3

(* Another report never makes the reviewers' verdict on a task milder, nor *)
(* does anything else (record_review_report, aggregate).                   *)
THEOREM VerdictOnlyWorsens ==
    ASSUME ArtifactBounds
    PROVE  Handover!Spec => Handover!ConsensusOnlyWorsens
<1> DEFINE Worse == \A x \in Handed :
             Handover!aggregate(ar_reports'[x]) >= Handover!aggregate(ar_reports[x])
<1>1. HandoverInv /\ [Handover!Next]_(Handover!vars) => [Worse]_(Handover!vars)
  <2> SUFFICES ASSUME HandoverInv, Handover!Next, NEW x \in Handed
               PROVE  Handover!aggregate(ar_reports'[x]) >= Handover!aggregate(ar_reports[x])
    OBVIOUS
  <2>1. ar_reports \in [Handed -> Seq(Report)]
    BY DEF HandoverInv, HandoverTypes
  <2>2. CASE ar_reports' = ar_reports
    BY <2>2, NoMilder
  <2>3. ASSUME NEW y \in Handed, NEW v \in Handover!Verdicts, NEW id \in Findings,
               NEW fs \in {<<>>} \cup {<<s>> : s \in Grades},
               Handover!record_review_report(y, v, fs, id)
        PROVE  Handover!aggregate(ar_reports'[x]) >= Handover!aggregate(ar_reports[x])
    <3> DEFINE rep == [verdict |-> v, findings |-> fs]
    <3>1. ar_reports' = [ar_reports EXCEPT ![y] = Append(ar_reports[y], rep)]
      BY <2>3 DEF Handover!record_review_report, Handover!WithReport
    <3>2. rep \in Report
      <4>1. <<>> \in Seq(Grades) /\ \A s \in Grades : <<s>> \in Seq(Grades)
        OBVIOUS
      <4>2. fs \in Seq(Grades)
        BY <4>1, Zenon
      <4> QED BY <4>2 DEF Report
    <3> HIDE DEF rep
    <3>3. ar_reports[x] \in Seq(Report)
          /\ ar_reports'[x] \in {ar_reports[x], Append(ar_reports[x], rep)}
      BY <2>1, <3>1
    <3>4. Range(ar_reports[x]) \subseteq Range(ar_reports'[x])
      BY <3>2, <3>3, MoreToRead
    <3> QED BY <3>4, NoMilder
  <2>4. CASE Handover!Step
    BY <2>2, <2>4 DEF Handover!Step, Handover!step_tasks
  <2>5. CASE Handover!Restart
    BY <2>2, <2>5 DEF Handover!Restart
  <2>6. ASSUME NEW y \in Handed, NEW ref \in Handover!Refs,
               Handover!task_add_input_artifact(y, ref)
        PROVE  ar_reports' = ar_reports
    BY <2>6 DEF Handover!task_add_input_artifact
  <2>7. ASSUME NEW id, Handover!invalidate_artifact(id) PROVE ar_reports' = ar_reports
    BY <2>7 DEF Handover!invalidate_artifact
  <2> QED BY <2>2, <2>3, <2>4, <2>5, <2>6, <2>7 DEF Handover!Next
<1> QED BY <1>1, HandoverInductive, PTL DEF Handover!Spec, Handover!ConsensusOnlyWorsens

-----------------------------------------------------------------------------
(* The record of an agent's work.                                          *)

(* The rings hold something, adapters hint at states of an agent, and a    *)
(* line that is no hint is never taken for waiting (detect_activity_kind). *)
HintKinds == {"WaitingForPermission", "WaitingForInput", "Unknown"}
WorkBounds ==
    /\ ActivityCapacity \in Nat \ {0} /\ TimelineCapacity \in Nat \ {0}
    /\ EVENT_CAPACITY \in Nat
    /\ \A l \in Lines : /\ l.hint \in Told!Hints \cup {Told!None}
                        /\ l.kind \notin HintKinds \ {"Unknown"}

TimelineEntries == {"Started", "Approval", "Activity", "File", "Command", "Completed", "Error"}
Kinds == HintKinds \cup {Told!None} \cup {l.kind : l \in Lines}
Names == {Told!None} \cup {l.command : l \in Lines} \cup {l.file : l \in Lines}
Activity == [kind : Kinds, count : Nat]
Works == [status : {"Running", "Completed", "Failed"}, activity : Seq(Activity),
          timeline : Seq(TimelineEntries), commands : Seq(Names), files : SUBSET Names,
          errors : 0..1]
Agents == [state : Told!AgentStates, life : {"alive", "dead"},
           code : ExitCodes \cup {Told!None, "signal"}, stop : BOOLEAN]
Sent == [kind : {"StateChanged", "Completed"}, of : Told!AgentStates \cup {Told!None}]
Pumps == [at : {"starting", "recv", "finish", "last", "done"}, out : Seq(Sent),
          state : Told!Hints \cup {Told!None}, kind : Kinds]

News(ring) == \A i \in 1..Len(ring) - 1 : ring[i].kind # ring[i + 1].kind

(* The rings keep to their limits, and the files are those of the lines.   *)
Fits(w) == /\ Len(w.activity) <= ActivityCapacity
           /\ Len(w.timeline) <= TimelineCapacity
           /\ w.files \subseteq Told!Files

(* The newest record is of what one of the two trackers holds.             *)
Followed ==
    wk_work.activity # <<>> =>
        LET newest == wk_work.activity[Len(wk_work.activity)].kind
        IN  \/ newest = wk_pump.kind
            \/ wk_pump.state \in Told!Hints /\ newest = Told!HintKind(wk_pump.state)

(* A verdict comes with the end of the pump, and a stop is never forgotten.*)
Ends ==
    /\ wk_stopping \/ wk_agent.state = "Stopped" => wk_agent.stop
    /\ wk_agent.state \in Told!Verdicts => wk_pump.at \in {"last", "done"}
    /\ wk_pump.at \in {"starting", "recv", "finish"} =>
          wk_work.status = "Running" /\ wk_work.errors = 0
    /\ wk_pump.at = "finish" \/ wk_work.status # "Running" => wk_agent.life = "dead"

WorkInv ==
    /\ wk_agent \in Agents /\ wk_pump \in Pumps /\ wk_work \in Works /\ wk_stopping \in BOOLEAN
    /\ wk_pump.kind \notin HintKinds
    /\ Fits(wk_work) /\ News(wk_work.activity) /\ Followed /\ Ends /\ Told!VerdictIsOne

LEMMA TheLast == \A s : Told!Last(s) = s[Len(s)]
  BY DEF Told!Last

(* A ring ends with what was put in last, and is news if that is.          *)
LEMMA RingTurns ==
    ASSUME NEW S, NEW ring \in Seq(S), NEW capacity \in Nat \ {0}, NEW e \in S
    PROVE  /\ Told!Pushed(ring, capacity, e) \in Seq(S)
           /\ Told!Pushed(ring, capacity, e) # <<>>
           /\ Told!Pushed(ring, capacity, e)[Len(Told!Pushed(ring, capacity, e))] = e
           /\ Len(ring) <= capacity => Len(Told!Pushed(ring, capacity, e)) <= capacity
           /\ News(ring) /\ (ring # <<>> => ring[Len(ring)].kind # e.kind)
                => News(Told!Pushed(ring, capacity, e))
<1> DEFINE cut == IF Len(ring) >= capacity THEN Tail(ring) ELSE ring
           p == Append(cut, e)
<1>1. Told!Pushed(ring, capacity, e) = p
  BY DEF Told!Pushed
<1>2. /\ cut \in Seq(S)
      /\ Len(ring) <= capacity => Len(cut) <= capacity - 1
      /\ News(ring) => News(cut)
      /\ cut # <<>> => ring # <<>> /\ cut[Len(cut)] = ring[Len(ring)]
  <2>1. CASE Len(ring) >= capacity
    <3> DEFINE r == Tail(ring)
               n == Len(ring)
    <3>1. /\ cut = r /\ n \in Nat \ {0} /\ ring # <<>> /\ r \in Seq(S)
          /\ Len(r) = n - 1 /\ \A i \in 1..(n - 1) : r[i] = ring[i + 1]
      BY <2>1
    <3> HIDE DEF r, cut
    <3>2. r # <<>> => Len(r) # 0
      BY <3>1
    <3>3. News(ring) => News(r)
      <4> SUFFICES ASSUME News(ring), NEW i \in 1..Len(r) - 1
                   PROVE  r[i].kind # r[i + 1].kind
        BY DEF News
      <4>1. \A j \in 1..(n - 1) : ring[j].kind # ring[j + 1].kind
        BY DEF News
      <4> HIDE DEF n
      <4>2. i \in 1..(n - 1) /\ i + 1 \in 1..(n - 1)
        BY <3>1
      <4> QED BY <3>1, <4>1, <4>2
    <3>4. r # <<>> => r[Len(r)] = ring[n]
      <4> HIDE DEF n
      <4>1. r # <<>> => n - 1 \in 1..(n - 1) /\ (n - 1) + 1 = n
        BY <3>1, <3>2
      <4> QED BY <3>1, <4>1
    <3>5. Len(ring) <= capacity => Len(r) <= capacity - 1
      BY <3>1
    <3> QED BY <3>1, <3>3, <3>4, <3>5
  <2>2. CASE ~(Len(ring) >= capacity)
    BY <2>2
  <2> QED BY <2>1, <2>2
<1> HIDE DEF cut
<1>3. /\ p \in Seq(S) /\ p # <<>> /\ Len(p) = Len(cut) + 1 /\ Len(cut) \in Nat
      /\ p[Len(p)] = e /\ \A i \in 1..Len(cut) : p[i] = cut[i]
  <2>1. /\ p \in Seq(S) /\ Len(p) = Len(cut) + 1 /\ Len(cut) \in Nat
        /\ p[Len(cut) + 1] = e /\ \A i \in 1..Len(cut) : p[i] = cut[i]
    BY <1>2
  <2> HIDE DEF p
  <2>2. p # <<>>
    BY <2>1
  <2> QED BY <2>1, <2>2
<1>4. ASSUME News(ring), ring # <<>> => ring[Len(ring)].kind # e.kind
      PROVE  News(p)
  <2> HIDE DEF p
  <2> SUFFICES ASSUME NEW i \in 1..Len(p) - 1 PROVE p[i].kind # p[i + 1].kind
    BY DEF News
  <2>1. i \in 1..Len(cut) /\ p[i] = cut[i]
    BY <1>3
  <2>2. CASE i = Len(cut)
    <3>1. cut # <<>> /\ p[i + 1] = e
      BY <1>2, <1>3, <2>1, <2>2
    <3> QED BY <1>2, <1>4, <2>1, <2>2, <3>1
  <2>3. CASE i # Len(cut)
    <3>1. i \in 1..Len(cut) - 1 /\ i + 1 \in 1..Len(cut)
      BY <1>3, <2>1, <2>3
    <3>2. p[i + 1] = cut[i + 1] /\ cut[i].kind # cut[i + 1].kind
      BY <1>2, <1>3, <1>4, <3>1 DEF News
    <3> QED BY <2>1, <3>2
  <2> QED BY <2>2, <2>3
<1>5. Len(ring) <= capacity => Len(p) <= capacity
  <2> HIDE DEF p
  <2> QED BY <1>2, <1>3
<1> HIDE DEF p
<1> QED BY <1>1, <1>3, <1>4, <1>5

LEMMA OnTimeline ==
    ASSUME WorkBounds, NEW w \in Works, NEW e \in TimelineEntries
    PROVE  /\ Told!AddTimeline(w, e) \in Works
           /\ Told!AddTimeline(w, e).status = w.status
           /\ Told!AddTimeline(w, e).errors = w.errors
           /\ Told!AddTimeline(w, e).activity = w.activity
           /\ Told!Last(Told!AddTimeline(w, e).timeline) = e
           /\ Fits(w) => Fits(Told!AddTimeline(w, e))
<1> DEFINE p == Told!Pushed(w.timeline, TimelineCapacity, e)
<1>1. w.timeline \in Seq(TimelineEntries) /\ TimelineCapacity \in Nat \ {0}
  BY DEF Works, WorkBounds
<1>2. p \in Seq(TimelineEntries) /\ p[Len(p)] = e
  <2>1. p \in Seq(TimelineEntries)
    BY <1>1, RingTurns
  <2>2. p[Len(p)] = e
    BY <1>1, RingTurns
  <2> QED BY <2>1, <2>2
<1>3. Told!AddTimeline(w, e) = [w EXCEPT !.timeline = p]
  BY DEF Told!AddTimeline
<1>4. Len(w.timeline) <= TimelineCapacity => Len(p) <= TimelineCapacity
  BY <1>1, RingTurns
<1> HIDE DEF p
<1>5. /\ Told!AddTimeline(w, e) \in Works
      /\ Told!AddTimeline(w, e).status = w.status
      /\ Told!AddTimeline(w, e).errors = w.errors
      /\ Told!AddTimeline(w, e).activity = w.activity
      /\ Told!AddTimeline(w, e).files = w.files
      /\ Told!AddTimeline(w, e).timeline = p
  BY <1>2, <1>3 DEF Works
<1>6. Told!Last(Told!AddTimeline(w, e).timeline) = e
  BY <1>2, <1>5, TheLast
<1>7. Fits(w) => Fits(Told!AddTimeline(w, e))
  BY <1>4, <1>5 DEF Fits
<1> QED BY <1>5, <1>6, <1>7

(* An activity of another kind than the newest is a record of its own.     *)
LEMMA OnActivity ==
    ASSUME WorkBounds, NEW w \in Works, NEW kind \in Kinds, NEW recent \in BOOLEAN,
           News(w.activity),
           w.activity # <<>> => w.activity[Len(w.activity)].kind # kind
    PROVE  LET v == Told!AddActivity(w, kind, recent)
           IN /\ v \in Works /\ v.status = w.status /\ v.errors = w.errors
              /\ News(v.activity) /\ v.activity[Len(v.activity)].kind = kind
              /\ Fits(w) => Fits(v)
<1> DEFINE e == [kind |-> kind, count |-> 1]
           p == Told!Pushed(w.activity, ActivityCapacity, e)
<1>1. /\ w.activity \in Seq(Activity) /\ ActivityCapacity \in Nat \ {0}
      /\ e \in Activity /\ e.kind = kind
  BY DEF Works, WorkBounds, Activity
<1>2. Told!push_activity(w.activity, kind, recent) = p
  BY TheLast DEF Told!push_activity
<1> HIDE DEF e
<1>3. p \in Seq(Activity) /\ p[Len(p)].kind = kind /\ News(p)
  <2>1. p \in Seq(Activity)
    BY <1>1, RingTurns
  <2>2. p[Len(p)] = e
    BY <1>1, RingTurns
  <2>3. News(p)
    BY <1>1, RingTurns
  <2> QED BY <1>1, <2>1, <2>2, <2>3
<1>4. Told!AddActivity(w, kind, recent) = [w EXCEPT !.activity = p]
  BY <1>2 DEF Told!AddActivity
<1>5. Len(w.activity) <= ActivityCapacity => Len(p) <= ActivityCapacity
  BY <1>1, RingTurns
<1> HIDE DEF p
<1> DEFINE v == Told!AddActivity(w, kind, recent)
<1> HIDE DEF v
<1>6. /\ v \in Works /\ v.status = w.status /\ v.errors = w.errors /\ v.activity = p
      /\ v.timeline = w.timeline /\ v.files = w.files
  BY <1>3, <1>4 DEF Works, v
<1>7. Fits(w) => Fits(v)
  BY <1>5, <1>6 DEF Fits
<1> QED BY <1>3, <1>6, <1>7 DEF v

(* What an update that adds no activity leaves of a record of work.        *)
Goes(v, w) == /\ v \in Works /\ v.status = w.status /\ v.errors = w.errors
              /\ v.activity = w.activity /\ (Fits(w) => Fits(v))

LEMMA OnFiles ==
    ASSUME WorkBounds, NEW w \in Works, NEW l \in Lines
    PROVE  Goes(Told!AddFile(w, l), w)
<1> DEFINE w2 == [w EXCEPT !.files = w.files \cup {l.file}]
<1>1. Goes(w, w)
  BY DEF Goes
<1>2. "File" \in TimelineEntries
  BY DEF TimelineEntries
<1>3. CASE l.file = Told!None \/ l.kind # "Editing"
  BY <1>1, <1>3 DEF Told!AddFile
<1> SUFFICES ASSUME l.file # Told!None PROVE Goes(Told!AddFile(w, l), w)
  BY <1>3
<1>5. Goes(w2, w)
  <2>1. l.file \in Names /\ l.file \in Told!Files
    BY DEF Names, Told!Files
  <2>2. /\ w2 \in Works /\ w2.status = w.status /\ w2.errors = w.errors
        /\ w2.activity = w.activity /\ w2.timeline = w.timeline
        /\ w2.files = w.files \cup {l.file}
    BY <2>1 DEF Works
  <2> HIDE DEF w2
  <2>3. Fits(w) => Fits(w2)
    BY <2>1, <2>2 DEF Fits
  <2> QED BY <2>2, <2>3 DEF Goes
<1>6. Told!AddFile(w, l) \in {w, w2, Told!AddTimeline(w2, "File")}
  BY DEF Told!AddFile
<1> HIDE DEF w2
<1>4. Goes(Told!AddTimeline(w2, "File"), w)
  BY <1>2, <1>5, OnTimeline DEF Goes
<1> QED BY <1>1, <1>4, <1>5, <1>6

LEMMA OnCommands ==
    ASSUME WorkBounds, NEW w \in Works, NEW l \in Lines
    PROVE  Goes(Told!AddCommand(w, l.command), w)
<1> DEFINE w2 == [w EXCEPT !.commands = Append(w.commands, l.command)]
<1>1. Goes(w, w) /\ Goes(w2, w)
  <2>1. Append(w.commands, l.command) \in Seq(Names)
    BY DEF Works, Names
  <2> DEFINE c == Append(w.commands, l.command)
  <2> HIDE DEF c
  <2>2. w2 = [w EXCEPT !.commands = c]
    BY DEF c
  <2> HIDE DEF w2
  <2>3. /\ w2 \in Works /\ w2.status = w.status /\ w2.errors = w.errors
        /\ w2.activity = w.activity /\ w2.timeline = w.timeline /\ w2.files = w.files
    BY <2>1, <2>2 DEF Works, c
  <2>4. Fits(w) => Fits(w2)
    BY <2>3 DEF Fits
  <2> QED BY <2>3, <2>4 DEF Goes
<1>2. "Command" \in TimelineEntries
  BY DEF TimelineEntries
<1>3. Told!AddCommand(w, l.command) \in {w, Told!AddTimeline(w2, "Command")}
  BY DEF Told!AddCommand
<1> HIDE DEF w2
<1>4. Goes(Told!AddTimeline(w2, "Command"), w)
  BY <1>1, <1>2, OnTimeline DEF Goes
<1> QED BY <1>1, <1>3, <1>4

LEMMA OnKinds ==
    ASSUME WorkBounds, NEW w \in Works, NEW l \in Lines, NEW recent \in BOOLEAN,
           News(w.activity),
           w.activity # <<>> => w.activity[Len(w.activity)].kind # l.kind
    PROVE  LET v == Told!AddKind(w, l, recent)
           IN /\ v \in Works /\ v.status = w.status /\ v.errors = w.errors
              /\ News(v.activity) /\ v.activity[Len(v.activity)].kind = l.kind
              /\ Fits(w) => Fits(v)
<1> DEFINE w2 == Told!AddActivity(w, l.kind, recent)
           w3 == IF Told!timeline_worthy(l.kind) THEN Told!AddTimeline(w2, "Activity") ELSE w2
           v == Told!AddKind(w, l, recent)
<1>1. l.kind \in Kinds /\ "Activity" \in TimelineEntries
  BY DEF Kinds, TimelineEntries
<1>2. /\ w2 \in Works /\ w2.status = w.status /\ w2.errors = w.errors
      /\ News(w2.activity) /\ w2.activity[Len(w2.activity)].kind = l.kind
      /\ Fits(w) => Fits(w2)
  BY <1>1, OnActivity
<1>3. v = Told!AddFile(w3, l)
  BY DEF Told!AddKind
<1> HIDE DEF w2, v
<1>4. Goes(Told!AddTimeline(w2, "Activity"), w2) /\ Goes(w2, w2)
  BY <1>1, <1>2, OnTimeline DEF Goes
<1>5. Goes(w3, w2)
  BY <1>4
<1> HIDE DEF w3
<1>6. Goes(v, w3)
  BY <1>3, <1>5, OnFiles DEF Goes
<1>7. Goes(v, w2)
  BY <1>5, <1>6 DEF Goes
<1> QED BY <1>2, <1>7 DEF Goes, v

(* The verdict that the end of the pump puts on a record of work under way.*)
LEMMA OnEnd ==
    ASSUME WorkBounds, NEW w \in Works, w.status = "Running", w.errors = 0, NEW c,
           NEW git \in SUBSET Told!Files
    PROVE  LET v == Told!EndOfWork(w, c, git)
           IN /\ v \in Works /\ v.activity = w.activity
              /\ c = "zero" => v.status = "Completed"
              /\ c # "zero" => /\ v.status = "Failed" /\ v.errors = 1
                               /\ Told!Last(v.timeline) = "Error"
              /\ Fits(w) => Fits(v)
<1> DEFINE good == [Told!Finished(w, "Completed") EXCEPT !.files =
                       Told!Finished(w, "Completed").files \cup git]
           bad == [Told!Finished(w, "Failed") EXCEPT !.errors =
                       Told!Finished(w, "Failed").errors + 1]
<1>1. git \subseteq Names
  BY DEF Told!Files, Names
<1>2. /\ good \in Works /\ good.status = "Completed" /\ good.activity = w.activity
      /\ bad \in Works /\ bad.status = "Failed" /\ bad.errors = 1
      /\ bad.activity = w.activity
      /\ Fits(w) => Fits(good) /\ Fits(bad)
  <2>1. /\ Told!Finished(w, "Completed") = [w EXCEPT !.status = "Completed"]
        /\ Told!Finished(w, "Failed") = [w EXCEPT !.status = "Failed"]
    BY DEF Told!Finished
  <2> DEFINE done == [w EXCEPT !.status = "Completed"]
             lost == [w EXCEPT !.status = "Failed"]
  <2>2. /\ done \in Works /\ done.status = "Completed" /\ done.activity = w.activity
        /\ lost \in Works /\ lost.status = "Failed" /\ lost.activity = w.activity
        /\ lost.errors = 0 /\ done.files = w.files /\ done.timeline = w.timeline
        /\ lost.files = w.files /\ lost.timeline = w.timeline
    BY DEF Works
  <2> HIDE DEF done, lost
  <2>3. good = [done EXCEPT !.files = done.files \cup git]
        /\ bad = [lost EXCEPT !.errors = lost.errors + 1]
    BY <2>1 DEF done, lost
  <2> HIDE DEF good, bad
  <2>4. /\ good \in Works /\ good.status = "Completed" /\ good.activity = w.activity
        /\ good.files = w.files \cup git /\ good.timeline = w.timeline
    BY <1>1, <2>2, <2>3 DEF Works
  <2>5. /\ bad \in Works /\ bad.status = "Failed" /\ bad.errors = 1 /\ bad.activity = w.activity
        /\ bad.files = w.files /\ bad.timeline = w.timeline
    <3>1. bad = [lost EXCEPT !.errors = 1]
      BY <2>2, <2>3
    <3>2. 1 \in 0..1
      OBVIOUS
    <3> QED BY <2>2, <3>1, <3>2 DEF Works
  <2>6. Fits(w) => Fits(good) /\ Fits(bad)
    BY <2>4, <2>5 DEF Fits
  <2> QED BY <2>4, <2>5, <2>6
<1>3. /\ c = "zero" => Told!EndOfWork(w, c, git) = Told!AddTimeline(good, "Completed")
      /\ c # "zero" => Told!EndOfWork(w, c, git) = Told!AddTimeline(bad, "Error")
  BY DEF Told!EndOfWork
<1> HIDE DEF good, bad
<1>4. "Completed" \in TimelineEntries /\ "Error" \in TimelineEntries
  BY DEF TimelineEntries
<1>5. CASE c = "zero"
  BY <1>2, <1>3, <1>4, <1>5, OnTimeline
<1>6. CASE c # "zero"
  BY <1>2, <1>3, <1>4, <1>6, OnTimeline
<1> QED BY <1>5, <1>6

(* A step of the pump that says something, or looks up.                    *)
LEMMA OnReturn ==
    ASSUME NEW p \in Pumps
    PROVE  LET q == Told!Returned(p)
           IN /\ q \in Pumps /\ q.state = p.state /\ q.kind = p.kind /\ q.out = p.out
              /\ q.at \in {p.at, "done"} /\ (p.at # "last" => q.at = p.at)
  BY DEF Told!Returned, Pumps

LEMMA StatesOf ==
    /\ Told!Verdicts = {"Completed", "Failed", "Crashed"}
    /\ Told!Hints = {"Working", "Waiting", "NeedsApproval"}
    /\ Told!AgentStates = {"Starting", "Stopped", "Working", "Waiting", "NeedsApproval",
                           "Completed", "Failed", "Crashed"}
    /\ Told!None = "none"
  BY DEF Told!Verdicts, Told!Hints, Told!AgentStates, Told!None

(* Steps that touch neither the record nor what the pump has tracked.      *)
LEMMA RecordStays ==
    ASSUME WorkInv, wk_work' = wk_work, wk_agent' \in Agents, wk_pump' \in Pumps,
           wk_stopping' \in BOOLEAN, wk_pump'.state = wk_pump.state, wk_pump'.kind = wk_pump.kind,
           Ends', Told!VerdictIsOne'
    PROVE  WorkInv'
  BY DEF WorkInv, News, Followed, Fits

LEMMA PumpsKept ==
    ASSUME WorkInv, Told!PumpStart \/ Told!PumpSend \/ Told!PumpCheck
    PROVE  WorkInv'
<1>1. wk_agent \in Agents /\ wk_pump \in Pumps /\ wk_work \in Works /\ wk_stopping \in BOOLEAN
      /\ Ends /\ Told!VerdictIsOne
  BY DEF WorkInv
<1>2. CASE Told!PumpStart
  <2>1. /\ wk_pump.at = "starting"
        /\ wk_agent' = [wk_agent EXCEPT !.state = "Starting"]
        /\ wk_pump' = [wk_pump EXCEPT !.at = "recv", !.out = <<Told!StateChanged("Starting")>>]
        /\ UNCHANGED <<wk_stopping, wk_work>>
    BY <1>2 DEF Told!PumpStart, Told!PumpIdle, Told!Enters
  <2>2. Told!StateChanged("Starting") \in Sent
    BY StatesOf DEF Sent, Told!StateChanged
  <2>3. /\ wk_pump' \in Pumps /\ wk_pump'.at = "recv"
        /\ wk_pump'.state = wk_pump.state /\ wk_pump'.kind = wk_pump.kind
    <3> DEFINE o == <<Told!StateChanged("Starting")>>
    <3>1. o \in Seq(Sent)
      BY <2>2
    <3> HIDE DEF o
    <3>2. wk_pump' = [wk_pump EXCEPT !.at = "recv", !.out = o]
      BY <2>1 DEF o
    <3> QED BY <1>1, <3>1, <3>2 DEF Pumps
  <2>4. /\ wk_agent' \in Agents /\ wk_agent'.state = "Starting" /\ wk_agent'.stop = wk_agent.stop
        /\ wk_agent'.code = wk_agent.code /\ wk_agent'.life = wk_agent.life
    BY <1>1, <2>1, StatesOf DEF Agents
  <2>5. wk_work.status = "Running"
    BY <1>1, <2>1 DEF Ends
  <2>6. Ends'
    BY <1>1, <2>1, <2>3, <2>4, <2>5, StatesOf DEF Ends
  <2>7. Told!VerdictIsOne'
    BY <2>1, <2>3, <2>5 DEF Told!VerdictIsOne
  <2> QED BY <1>1, <2>1, <2>3, <2>4, <2>6, <2>7, RecordStays
<1>3. CASE Told!PumpSend
  <2>1. /\ wk_pump.out # <<>>
        /\ wk_pump' = Told!Returned([wk_pump EXCEPT !.out = Tail(wk_pump.out)])
        /\ UNCHANGED <<wk_agent, wk_stopping, wk_work>>
    BY <1>3 DEF Told!PumpSend
  <2> DEFINE p == [wk_pump EXCEPT !.out = Tail(wk_pump.out)]
  <2>2. p \in Pumps /\ p.at = wk_pump.at /\ p.state = wk_pump.state /\ p.kind = wk_pump.kind
    <3>1. wk_pump.out \in Seq(Sent)
      BY <1>1 DEF Pumps
    <3>2. Tail(wk_pump.out) \in Seq(Sent)
      BY <2>1, <3>1
    <3> QED BY <1>1, <3>2 DEF Pumps
  <2> HIDE DEF p
  <2>3. /\ wk_pump' \in Pumps /\ wk_pump'.state = wk_pump.state /\ wk_pump'.kind = wk_pump.kind
        /\ wk_pump'.at \in {wk_pump.at, "done"} /\ (wk_pump.at # "last" => wk_pump'.at = wk_pump.at)
    BY <2>1, <2>2, OnReturn DEF p
  <2>4. Ends'
    BY <1>1, <2>1, <2>3 DEF Ends
  <2>5. Told!VerdictIsOne'
    BY <1>1, <2>1, <2>3 DEF Told!VerdictIsOne
  <2> QED BY <1>1, <2>1, <2>3, <2>4, <2>5, RecordStays
<1>4. CASE Told!PumpCheck
  <2>1. /\ wk_pump.at = "recv" /\ (wk_agent.stop \/ wk_agent.life = "dead")
        /\ wk_pump' = [wk_pump EXCEPT !.at = IF wk_agent.stop THEN "done" ELSE "finish"]
        /\ UNCHANGED <<wk_agent, wk_stopping, wk_work>>
    BY <1>4 DEF Told!PumpCheck, Told!PumpIdle
  <2>2. /\ wk_pump' \in Pumps /\ wk_pump'.state = wk_pump.state /\ wk_pump'.kind = wk_pump.kind
        /\ wk_pump'.at = IF wk_agent.stop THEN "done" ELSE "finish"
    BY <1>1, <2>1 DEF Pumps
  <2>3. wk_work.status = "Running" /\ wk_work.errors = 0
    BY <1>1, <2>1 DEF Ends
  <2>4. Ends'
    BY <1>1, <2>1, <2>2, <2>3 DEF Ends
  <2>5. Told!VerdictIsOne'
    BY <2>1, <2>2, <2>3 DEF Told!VerdictIsOne
  <2> QED BY <1>1, <2>1, <2>2, <2>4, <2>5, RecordStays
<1> QED BY <1>2, <1>3, <1>4

(* The hints are told apart.                                               *)
LEMMA HintsDiffer ==
    /\ \A h \in Told!Hints : Told!HintKind(h) \in HintKinds /\ Told!HintKind(h) \in Kinds
    /\ \A h, g \in Told!Hints : Told!HintKind(h) = Told!HintKind(g) => h = g
<1>1. /\ Told!HintKind("Working") = "Unknown"
      /\ Told!HintKind("Waiting") = "WaitingForInput"
      /\ Told!HintKind("NeedsApproval") = "WaitingForPermission"
  BY DEF Told!HintKind
<1> QED BY <1>1, StatesOf DEF HintKinds, Kinds

LEMMA LinesKept ==
    ASSUME WorkBounds, WorkInv, NEW l \in Lines,
           Told!HintLine(l) \/ Told!KindLine(l) \/ Told!CommandLine(l)
    PROVE  WorkInv'
<1>1. wk_agent \in Agents /\ wk_pump \in Pumps /\ wk_work \in Works /\ wk_stopping \in BOOLEAN
      /\ Ends /\ wk_pump.kind \notin HintKinds /\ News(wk_work.activity) /\ Followed
      /\ Fits(wk_work)
  BY DEF WorkInv
<1>2. wk_pump.at = "recv" /\ UNCHANGED wk_stopping
  BY DEF Told!HintLine, Told!KindLine, Told!CommandLine, Told!ReadLine, Told!PumpIdle
<1>3. wk_work.status = "Running" /\ wk_work.errors = 0
  BY <1>1, <1>2 DEF Ends
<1>4. l.hint \in Told!Hints \cup {Told!None} /\ l.kind \notin HintKinds \ {"Unknown"}
      /\ l.kind \in Kinds
  BY DEF WorkBounds, Kinds
(* It remains to show what the step does to the trackers and the record.   *)
<1>5. ASSUME wk_agent' \in Agents, wk_agent'.stop = wk_agent.stop, wk_agent'.life = wk_agent.life,
             wk_agent'.state \in {wk_agent.state} \cup Told!Hints,
             wk_pump' \in Pumps, wk_pump'.at = "recv", wk_pump'.kind \notin HintKinds,
             wk_work' \in Works, wk_work'.status = "Running", wk_work'.errors = 0,
             Fits(wk_work'), News(wk_work'.activity), Followed'
      PROVE  WorkInv'
  <2>1. Ends'
    BY <1>1, <1>2, <1>5, StatesOf DEF Ends
  <2>2. Told!VerdictIsOne'
    BY <1>5 DEF Told!VerdictIsOne
  <2> QED BY <1>1, <1>2, <1>5, <2>1, <2>2 DEF WorkInv, News, Fits
<1>6. CASE Told!HintLine(l)
  <2>1. CASE l.hint = wk_pump.state
    <3>1. UNCHANGED <<wk_pump, wk_agent, wk_work>>
      BY <1>6, <2>1 DEF Told!HintLine
    <3> QED BY <1>1, <1>2, <1>3, <1>5, <3>1 DEF Followed
  <2>2. CASE l.hint # wk_pump.state
    <3>1. PICK recent \in BOOLEAN :
            wk_work' = Told!AddTimeline(Told!AddActivity(wk_work, Told!HintKind(l.hint), recent),
                     IF l.hint = "NeedsApproval" THEN "Approval" ELSE "Activity")
      BY <1>6, <2>2 DEF Told!HintLine
    <3>2. /\ wk_agent' = [wk_agent EXCEPT !.state = l.hint]
          /\ wk_pump' = [wk_pump EXCEPT !.state = l.hint, !.out = <<Told!StateChanged(l.hint)>>]
          /\ l.hint \in Told!Hints
      BY <1>4, <1>6, <2>2 DEF Told!HintLine, Told!Enters
    <3> DEFINE k == Told!HintKind(l.hint)
               v == Told!AddActivity(wk_work, k, recent)
               e == IF l.hint = "NeedsApproval" THEN "Approval" ELSE "Activity"
    <3>3. k \in Kinds /\ e \in TimelineEntries
      BY <3>2, HintsDiffer DEF TimelineEntries
    <3>4. wk_work.activity # <<>> => wk_work.activity[Len(wk_work.activity)].kind # k
      BY <1>1, <2>2, <3>2, HintsDiffer DEF Followed
    <3> HIDE DEF k
    <3>5. /\ v \in Works /\ v.status = "Running" /\ v.errors = 0
          /\ News(v.activity) /\ v.activity[Len(v.activity)].kind = k /\ Fits(v)
      BY <1>1, <1>3, <3>3, <3>4, OnActivity
    <3>6. wk_work' = Told!AddTimeline(v, e)
      BY <3>1 DEF k
    <3> HIDE DEF v, e
    <3>7. /\ wk_work' \in Works /\ wk_work'.status = "Running" /\ wk_work'.errors = 0
          /\ wk_work'.activity = v.activity /\ Fits(wk_work')
      BY <3>3, <3>5, <3>6, OnTimeline
    <3>8. /\ wk_pump' \in Pumps /\ wk_pump'.at = "recv" /\ wk_pump'.kind = wk_pump.kind
          /\ wk_pump'.state = l.hint
      <4> DEFINE o == <<Told!StateChanged(l.hint)>>
      <4>1. o \in Seq(Sent)
        <5>1. Told!StateChanged(l.hint) \in Sent
          BY <3>2, StatesOf DEF Told!StateChanged, Sent
        <5> QED BY <5>1
      <4>2. wk_pump' = [wk_pump EXCEPT !.state = l.hint, !.out = o]
        BY <3>2
      <4> HIDE DEF o
      <4> QED BY <1>1, <1>2, <3>2, <4>1, <4>2 DEF Pumps
    <3>9. /\ wk_agent' \in Agents /\ wk_agent'.stop = wk_agent.stop /\ wk_agent'.life = wk_agent.life
          /\ wk_agent'.state \in Told!Hints
      BY <1>1, <3>2, StatesOf DEF Agents
    <3>10. Followed'
      BY <3>2, <3>5, <3>7, <3>8 DEF Followed, k
    <3> QED BY <1>1, <1>5, <3>5, <3>7, <3>8, <3>9, <3>10
  <2> QED BY <2>1, <2>2
<1>7. CASE Told!KindLine(l)
  <2>1. PICK recent \in BOOLEAN : wk_work' = Told!AddKind(wk_work, l, recent)
    BY <1>7 DEF Told!KindLine
  <2>2. /\ l.kind \notin {"Unknown", wk_pump.kind} /\ UNCHANGED wk_agent
        /\ wk_pump' = [wk_pump EXCEPT !.kind = l.kind]
    BY <1>7 DEF Told!KindLine
  <2>3. l.kind \notin HintKinds
    BY <1>4, <2>2
  <2>4. wk_work.activity # <<>> => wk_work.activity[Len(wk_work.activity)].kind # l.kind
    BY <1>1, <2>2, <2>3, HintsDiffer DEF Followed
  <2>5. /\ wk_work' \in Works /\ wk_work'.status = "Running" /\ wk_work'.errors = 0
        /\ News(wk_work'.activity) /\ wk_work'.activity[Len(wk_work'.activity)].kind = l.kind
        /\ Fits(wk_work')
    BY <1>1, <1>3, <2>1, <2>4, OnKinds
  <2>6. wk_pump' \in Pumps /\ wk_pump'.at = "recv" /\ wk_pump'.kind = l.kind
    BY <1>1, <1>2, <1>4, <2>2 DEF Pumps
  <2>7. Followed'
    BY <2>5, <2>6 DEF Followed
  <2> QED BY <1>1, <1>5, <2>2, <2>3, <2>5, <2>6, <2>7
<1>8. CASE Told!CommandLine(l)
  <2>1. /\ wk_work' = IF l.command = Told!None THEN wk_work ELSE Told!AddCommand(wk_work, l.command)
        /\ UNCHANGED <<wk_pump, wk_agent>>
    BY <1>8 DEF Told!CommandLine
  <2>2. Goes(wk_work', wk_work)
    BY <1>1, <2>1, OnCommands DEF Goes
  <2>3. Followed'
    BY <1>1, <2>1, <2>2 DEF Goes, Followed
  <2> QED BY <1>1, <1>2, <1>3, <1>5, <2>1, <2>2, <2>3 DEF Goes
<1> QED BY <1>6, <1>7, <1>8

(* The pump's end: the state and the work get the same verdict, unless the *)
(* session is Stopped by then.                                             *)
LEMMA FinishKeeps ==
    ASSUME WorkBounds, WorkInv, Told!finish
    PROVE  WorkInv'
<1>1. wk_agent \in Agents /\ wk_pump \in Pumps /\ wk_work \in Works /\ wk_stopping \in BOOLEAN
      /\ Ends /\ wk_pump.kind \notin HintKinds /\ News(wk_work.activity) /\ Followed
      /\ Fits(wk_work)
  BY DEF WorkInv
<1> DEFINE final == Told!FinalState(wk_agent.code)
           over == Told!terminal(wk_agent.state)
           said == (IF over THEN <<>> ELSE <<Told!StateChanged(final)>>)
                      \o (IF final = "Completed" THEN <<Told!Completed>> ELSE <<>>)
           p == [wk_pump EXCEPT !.at = "last", !.out = said]
<1>2. /\ wk_pump.at = "finish" /\ UNCHANGED wk_stopping
      /\ IF over THEN wk_agent' = wk_agent ELSE wk_agent' = [wk_agent EXCEPT !.state = final]
      /\ wk_pump' = Told!Returned(p)
      /\ \E git \in {{}, Told!Files} : wk_work' = Told!EndOfWork(wk_work, wk_agent.code, git)
  BY DEF Told!finish, Told!PumpIdle, Told!Enters
<1>3. /\ wk_work.status = "Running" /\ wk_work.errors = 0 /\ wk_agent.life = "dead"
      /\ wk_agent.state \notin Told!Verdicts
  BY <1>1, <1>2 DEF Ends
<1>4. /\ final \in Told!Verdicts
      /\ wk_agent.code = "zero" => final = "Completed"
      /\ wk_agent.code # "zero" => final \in {"Failed", "Crashed"}
  BY StatesOf DEF Told!FinalState
<1>5. over => wk_agent.state = "Stopped" /\ wk_agent.stop
  BY <1>1, <1>3 DEF Told!terminal, Ends
<1>6. /\ wk_work' \in Works /\ wk_work'.activity = wk_work.activity
      /\ wk_agent.code = "zero" => wk_work'.status = "Completed"
      /\ wk_agent.code # "zero" => /\ wk_work'.status = "Failed" /\ wk_work'.errors = 1
                                /\ Told!Last(wk_work'.timeline) = "Error"
      /\ Fits(wk_work')
  <2>1. PICK git \in {{}, Told!Files} : wk_work' = Told!EndOfWork(wk_work, wk_agent.code, git)
    BY <1>2
  <2>2. git \in SUBSET Told!Files
    OBVIOUS
  <2> QED BY <1>1, <1>3, <2>1, <2>2, OnEnd
<1>7. /\ wk_pump' \in Pumps /\ wk_pump'.state = wk_pump.state /\ wk_pump'.kind = wk_pump.kind
      /\ wk_pump'.at \in {"last", "done"}
  <2>1. Told!StateChanged(final) \in Sent /\ Told!Completed \in Sent
    BY <1>4, StatesOf DEF Told!StateChanged, Told!Completed, Sent
  <2> HIDE DEF final, over
  <2>2. said \in Seq(Sent)
    BY <2>1
  <2> HIDE DEF said
  <2>3. p \in Pumps /\ p.at = "last" /\ p.state = wk_pump.state /\ p.kind = wk_pump.kind
    BY <1>1, <2>2 DEF Pumps
  <2> HIDE DEF p
  <2> QED BY <1>2, <2>3, OnReturn
<1> HIDE DEF final, over, said, p
<1>8. /\ wk_agent' \in Agents /\ wk_agent'.stop = wk_agent.stop /\ wk_agent'.code = wk_agent.code
      /\ wk_agent'.life = "dead"
      /\ over => wk_agent'.state = "Stopped"
      /\ ~over => wk_agent'.state = final
  <2>1. final \in Told!AgentStates
    BY <1>4, StatesOf
  <2>2. CASE over
    BY <1>1, <1>2, <1>3, <1>5, <2>2
  <2>3. CASE ~over
    BY <1>1, <1>2, <1>3, <2>1, <2>3 DEF Agents
  <2> QED BY <2>2, <2>3
<1>9. Ends'
  <2>1. wk_stopping' \/ wk_agent'.state = "Stopped" => wk_agent'.stop
    BY <1>1, <1>2, <1>4, <1>5, <1>8, StatesOf DEF Ends
  <2> QED BY <1>7, <1>8, <2>1 DEF Ends
<1>10. Told!VerdictIsOne'
  <2>1. wk_pump'.at \in {"last", "done"} /\ ~wk_agent'.stop =>
           wk_agent'.state = Told!FinalState(wk_agent'.code) /\ wk_work'.status # "Running"
    BY <1>5, <1>6, <1>8 DEF final
  <2>2. wk_work'.status = "Completed" =>
           wk_agent'.code = "zero" /\ wk_agent'.state \in {"Completed", "Stopped"}
    BY <1>4, <1>6, <1>8
  <2>3. wk_work'.status = "Failed" =>
          /\ wk_agent'.code # "zero" /\ wk_agent'.state \in {"Failed", "Crashed", "Stopped"}
          /\ wk_work'.errors = 1 /\ Told!Last(wk_work'.timeline) = "Error"
    BY <1>4, <1>6, <1>8
  <2>4. Told!Last(wk_work.timeline)' = Told!Last(wk_work'.timeline)
    BY DEF Told!Last
  <2>5. Told!FinalState(wk_agent.code)' = Told!FinalState(wk_agent'.code)
    BY DEF Told!FinalState
  <2> QED BY <2>1, <2>2, <2>3, <2>4, <2>5 DEF Told!VerdictIsOne
<1>11. News(wk_work.activity)' /\ Followed' /\ Fits(wk_work)'
  BY <1>1, <1>6, <1>7 DEF News, Followed, Fits
<1> QED BY <1>1, <1>2, <1>6, <1>7, <1>8, <1>9, <1>10, <1>11 DEF WorkInv

(* What happens around the pump: the process ends, the engine stops it.    *)
LEMMA ProcessKeeps ==
    ASSUME WorkInv,
           Told!StopBegins \/ Told!StopEnds \/ \E c \in ExitCodes : Told!ProcessEnds(c)
    PROVE  WorkInv'
<1>1. wk_agent \in Agents /\ wk_stopping \in BOOLEAN /\ Ends /\ Told!VerdictIsOne
  BY DEF WorkInv
<1>2. UNCHANGED <<wk_pump, wk_work>>
  BY DEF Told!StopBegins, Told!StopEnds, Told!ProcessEnds
<1>3. wk_pump' \in Pumps
  BY <1>2 DEF WorkInv
<1>4. CASE Told!StopBegins
  <2>1. /\ wk_stopping' = TRUE
        /\ wk_agent' = [wk_agent EXCEPT !.stop = TRUE, !.life = "dead",
                       !.code = IF wk_agent.life = "alive" THEN "signal" ELSE wk_agent.code]
    BY <1>4 DEF Told!StopBegins
  <2>2. /\ wk_agent' \in Agents /\ wk_agent'.stop = TRUE /\ wk_agent'.state = wk_agent.state
        /\ wk_agent'.life = "dead" /\ (wk_agent.life = "dead" => wk_agent'.code = wk_agent.code)
    BY <1>1, <2>1 DEF Agents
  <2>3. Ends'
    BY <1>1, <1>2, <2>1, <2>2 DEF Ends
  <2>4. wk_work.status # "Running" => wk_agent'.code = wk_agent.code
    BY <1>1, <2>2 DEF Ends
  <2>5. Told!VerdictIsOne'
    BY <1>1, <1>2, <2>2, <2>4 DEF Told!VerdictIsOne
  <2> QED BY <1>2, <1>3, <2>1, <2>2, <2>3, <2>5, RecordStays
<1>5. CASE Told!StopEnds
  <2>1. /\ wk_stopping /\ wk_stopping' = FALSE
        /\ IF wk_agent.state \in Told!Verdicts THEN wk_agent' = wk_agent
           ELSE wk_agent' = [wk_agent EXCEPT !.state = "Stopped"]
    BY <1>5 DEF Told!StopEnds
  <2>2. /\ wk_agent' \in Agents /\ wk_agent'.stop = wk_agent.stop /\ wk_agent'.life = wk_agent.life
        /\ wk_agent'.code = wk_agent.code
        /\ \/ wk_agent'.state = wk_agent.state /\ wk_agent.state \in Told!Verdicts
           \/ wk_agent'.state = "Stopped"
    BY <1>1, <2>1, StatesOf DEF Agents
  <2>3. wk_agent.stop
    BY <1>1, <2>1 DEF Ends
  <2>4. Ends'
    BY <1>1, <1>2, <2>1, <2>2, <2>3, StatesOf DEF Ends
  <2>5. Told!VerdictIsOne'
    BY <1>1, <1>2, <2>2, <2>3 DEF Told!VerdictIsOne
  <2> QED BY <1>2, <1>3, <2>1, <2>2, <2>4, <2>5, RecordStays
<1>6. CASE \E c \in ExitCodes : Told!ProcessEnds(c)
  <2>1. PICK c \in ExitCodes : Told!ProcessEnds(c)
    BY <1>6
  <2>2. /\ wk_agent.life = "alive" /\ UNCHANGED wk_stopping
        /\ wk_agent' = [wk_agent EXCEPT !.life = "dead", !.code = c]
    BY <2>1 DEF Told!ProcessEnds
  <2>3. /\ wk_agent' \in Agents /\ wk_agent'.stop = wk_agent.stop /\ wk_agent'.state = wk_agent.state
        /\ wk_agent'.life = "dead"
    BY <1>1, <2>2 DEF Agents
  <2>4. Ends'
    BY <1>1, <1>2, <2>2, <2>3 DEF Ends
  <2>5. wk_work.status = "Running"
    BY <1>1, <2>2 DEF Ends
  <2>6. Told!VerdictIsOne'
    BY <1>1, <1>2, <2>3, <2>5 DEF Told!VerdictIsOne
  <2> QED BY <1>1, <1>2, <1>3, <2>2, <2>3, <2>4, <2>6, RecordStays
<1> QED BY <1>4, <1>5, <1>6

(* A run begins.                                                           *)
LEMMA RunBegins ==
    ASSUME WorkBounds
    PROVE  /\ Told!NewAgent \in Agents /\ Told!NewPump \in Pumps
           /\ Told!NewWork \in Works
           /\ Told!NewAgent.state = "Starting" /\ Told!NewPump.at = "starting"
           /\ Told!NewPump.kind = Told!None /\ Told!None \notin HintKinds
           /\ Told!NewWork.status = "Running" /\ Told!NewWork.errors = 0
           /\ Told!NewWork.activity = <<>> /\ Fits(Told!NewWork)
<1>1. Told!NewAgent \in Agents /\ Told!NewAgent.state = "Starting"
  BY StatesOf DEF Told!NewAgent, Agents
<1>2. /\ Told!NewPump \in Pumps /\ Told!NewPump.at = "starting"
      /\ Told!NewPump.kind = Told!None
  <2>1. <<>> \in Seq(Sent)
    OBVIOUS
  <2> QED BY <2>1, StatesOf DEF Told!NewPump, Pumps, Kinds
<1>3. /\ Told!NewWork \in Works /\ Told!NewWork.status = "Running"
      /\ Told!NewWork.errors = 0 /\ Told!NewWork.activity = <<>> /\ Fits(Told!NewWork)
  <2> DEFINE begun == <<"Started">>
             none == <<>>
  <2>1. begun \in Seq(TimelineEntries) /\ none \in Seq(Activity) /\ none \in Seq(Names)
    BY DEF TimelineEntries
  <2> HIDE DEF begun, none
  <2>2. Told!NewWork = [status |-> "Running", activity |-> none, timeline |-> begun,
            commands |-> none, files |-> {}, errors |-> 0]
    BY DEF Told!NewWork, begun, none
  <2>3. Len(begun) = 1 /\ Len(none) = 0
    BY DEF begun, none
  <2>4. Told!NewWork.activity = none /\ Told!NewWork.timeline = begun /\ Told!NewWork.files = {}
    BY <2>2
  <2>5. Fits(Told!NewWork)
    BY <2>3, <2>4 DEF Fits, WorkBounds
  <2> QED BY <2>1, <2>2, <2>5 DEF Works, none
<1>4. Told!None \notin HintKinds
  BY StatesOf DEF HintKinds
<1> QED BY <1>1, <1>2, <1>3, <1>4

LEMMA RunIsRight ==
    ASSUME WorkBounds, wk_stopping = FALSE, wk_agent = Told!NewAgent, wk_pump = Told!NewPump,
           wk_work = Told!NewWork
    PROVE  WorkInv
<1>1. /\ wk_agent \in Agents /\ wk_pump \in Pumps /\ wk_work \in Works /\ wk_stopping = FALSE
      /\ wk_agent.state = "Starting" /\ wk_pump.at = "starting" /\ wk_pump.kind \notin HintKinds
      /\ wk_work.status = "Running" /\ wk_work.errors = 0 /\ wk_work.activity = <<>>
      /\ Fits(wk_work)
  BY RunBegins
<1>2. News(wk_work.activity) /\ Followed
  <2>1. Len(wk_work.activity) = 0
    BY <1>1
  <2>2. News(wk_work.activity)
    BY <2>1 DEF News
  <2> QED BY <1>1, <2>2 DEF Followed
<1>3. Ends /\ Told!VerdictIsOne
  BY <1>1, StatesOf DEF Ends, Told!VerdictIsOne
<1> QED BY <1>1, <1>2, <1>3 DEF WorkInv

LEMMA WorkKept ==
    ASSUME WorkBounds
    PROVE  WorkInv /\ [Told!Next]_Told!vars => WorkInv'
<1> SUFFICES ASSUME WorkInv, [Told!Next]_Told!vars PROVE WorkInv'
  OBVIOUS
<1>1. ASSUME UNCHANGED <<wk_agent, wk_stopping, wk_pump, wk_work>> PROVE WorkInv'
  <2>1. wk_agent \in Agents /\ wk_stopping \in BOOLEAN /\ wk_pump \in Pumps
        /\ Ends /\ Told!VerdictIsOne
    BY DEF WorkInv
  <2>2. Ends' /\ Told!VerdictIsOne'
    BY <1>1, <2>1 DEF Ends, Told!VerdictIsOne
  <2> QED BY <1>1, <2>1, <2>2, RecordStays
<1>2. CASE Told!Pump
  BY <1>2, PumpsKept, FinishKeeps, LinesKept DEF Told!Pump
<1>3. CASE Told!StopBegins \/ Told!StopEnds \/ \E c \in ExitCodes : Told!ProcessEnds(c)
  BY <1>3, ProcessKeeps
<1>4. CASE Told!Restart
  <2>1. wk_stopping \in BOOLEAN
    BY DEF WorkInv
  <2>2. /\ wk_stopping' = FALSE /\ wk_agent' = Told!NewAgent /\ wk_pump' = Told!NewPump
        /\ wk_work' = Told!NewWork
    BY <1>4, <2>1 DEF Told!Restart, Told!Idle
  <2>3. /\ wk_agent' \in Agents /\ wk_pump' \in Pumps /\ wk_work' \in Works
        /\ wk_agent'.state = "Starting" /\ wk_pump'.at = "starting"
        /\ wk_pump'.kind \notin HintKinds
        /\ wk_work'.status = "Running" /\ wk_work'.errors = 0 /\ wk_work'.activity = <<>>
        /\ Fits(wk_work')
    BY <2>2, RunBegins
  <2>4. News(wk_work.activity)' /\ Followed'
    <3>1. Len(wk_work'.activity) = 0
      BY <2>3
    <3>2. News(wk_work.activity)'
      BY <3>1 DEF News
    <3> QED BY <2>3, <3>2 DEF Followed
  <2>5. Ends' /\ Told!VerdictIsOne'
    BY <2>2, <2>3, StatesOf DEF Ends, Told!VerdictIsOne
  <2> QED BY <2>2, <2>3, <2>4, <2>5 DEF WorkInv, Fits
<1>5. ASSUME NEW p, Told!SetPrefs(p) PROVE WorkInv'
  BY <1>1, <1>5 DEF Told!SetPrefs
<1>6. CASE Told!OldSend \/ Told!Frame \/ Told!ToggleQuietMode
  BY <1>1, <1>5, <1>6 DEF Told!OldSend, Told!Frame, Told!ToggleQuietMode
<1>7. CASE UNCHANGED Told!vars
  BY <1>1, <1>7 DEF Told!vars
<1> QED BY <1>2, <1>3, <1>4, <1>5, <1>6, <1>7 DEF Told!Next

LEMMA WorkInductive ==
    ASSUME WorkBounds
    PROVE  Told!Spec => []WorkInv
<1>1. Told!Init => WorkInv
  BY RunIsRight DEF Told!Init
<1>2. WorkInv /\ [Told!Next]_Told!vars => WorkInv'
  BY WorkKept
<1> QED BY <1>1, <1>2, PTL DEF Told!Spec

(* VerdictIsOne (AgentWork): the record of the work and the session tell   *)
(* the same end, whatever stop comes between the exit and the verdict      *)
(* (finish, stop).                                                         *)
THEOREM VerdictsAgree ==
    ASSUME WorkBounds
    PROVE  Told!Spec => []Told!VerdictIsOne
<1>1. WorkInv => Told!VerdictIsOne
  BY DEF WorkInv
<1> QED BY <1>1, WorkInductive, PTL

(* ActivityIsNews (AgentWork): no two neighbours of the activity history   *)
(* are of one kind, for rings of any length (process_chunk, push_activity).*)
THEOREM ActivityIsNew ==
    ASSUME WorkBounds
    PROVE  Told!Spec => []Told!ActivityIsNews
<1>1. WorkInv => Told!ActivityIsNews
  BY DEF WorkInv, News, Told!ActivityIsNews
<1> QED BY <1>1, WorkInductive, PTL

(* The least of some numbers, and the last of some positions.              *)
LEMMA LeastOf ==
    ASSUME NEW T \in SUBSET Nat, T # {}
    PROVE  \E x \in T : \A y \in T : x <= y
<1> DEFINE R == {ss \in Nat \X Nat : ss[1] < ss[2]}
<1>1. IsWellFoundedOn(R, Nat)
  BY NatLessThanWellFounded DEF OpToRel
<1>2. ASSUME NEW x \in T, NEW y \in T, y < x PROVE <<y, x>> \in R
  <2>1. x \in Nat /\ y \in Nat
    OBVIOUS
  <2>2. <<y, x>> \in Nat \X Nat /\ <<y, x>>[1] = y /\ <<y, x>>[2] = x
    BY <2>1
  <2> DEFINE pair == <<y, x>>
  <2> HIDE DEF pair
  <2>3. pair \in Nat \X Nat /\ pair[1] < pair[2]
    BY <1>2, <2>2 DEF pair
  <2>4. pair \in R
    BY <2>3
  <2> QED BY <2>4 DEF pair
<1> HIDE DEF R
<1>3. PICK x \in T : \A y \in T : ~ (<<y, x>> \in R)
  BY <1>1, WFMin
<1>4. \A y \in T : ~(y < x) /\ x \in Nat /\ y \in Nat
  BY <1>2, <1>3
<1> QED BY <1>4

LEMMA LastOf ==
    ASSUME NEW n \in Nat, NEW K \in SUBSET (1..n), K # {}
    PROVE  Told!Max(K) \in K /\ \A y \in K : y <= Told!Max(K)
<1> DEFINE T == {m \in Nat : n - m \in K}
<1>0. \A k \in K : n - k \in Nat /\ n - (n - k) = k /\ k \in Nat
  OBVIOUS
<1>1. T \in SUBSET Nat /\ T # {} /\ \A k \in K : n - k \in T
  BY <1>0
<1>2. PICK x \in T : \A y \in T : x <= y
  BY <1>1, LeastOf
<1>3. PICK k \in K : k = n - x
  BY <1>2
<1>4. \A y \in K : k >= y
  <2> SUFFICES ASSUME NEW y \in K PROVE k >= y
    OBVIOUS
  <2>1. n - y \in T /\ y \in Nat /\ k \in Nat /\ x \in Nat
    BY <1>0, <1>1
  <2> HIDE DEF T
  <2> QED BY <1>2, <1>3, <2>1
<1>5. Told!Max(K) \in K /\ \A y \in K : Told!Max(K) >= y
  BY <1>4 DEF Told!Max
<1> DEFINE m == Told!Max(K)
<1> HIDE DEF m, T
<1>6. m \in K /\ \A y \in K : m >= y
  BY <1>5 DEF m
<1>7. \A y \in K : y <= m
  BY <1>6
<1> QED BY <1>6, <1>7 DEF m

-----------------------------------------------------------------------------
(* What is on its way to the user.                                         *)

(* The messages of a list, when one is put at its end or taken off.        *)
LEMMA MessagesOf ==
    ASSUME NEW q \in Seq(Sent)
    PROVE  /\ \A e \in Sent : /\ Append(q, e) \in Seq(Sent)
                              /\ Told!ToSet(Append(q, e)) = Told!ToSet(q) \cup {e}
           /\ q # <<>> => /\ Head(q) \in Sent /\ Tail(q) \in Seq(Sent)
                          /\ Told!ToSet(q) = Told!ToSet(Tail(q)) \cup {Head(q)}
           /\ \A r \in Seq(Sent) : Told!ToSet(q \o r) = Told!ToSet(q) \cup Told!ToSet(r)
<1>1. ASSUME NEW e \in Sent
      PROVE  /\ Append(q, e) \in Seq(Sent)
             /\ Told!ToSet(Append(q, e)) = Told!ToSet(q) \cup {e}
  <2> DEFINE p == Append(q, e)
  <2>1. /\ p \in Seq(Sent) /\ Len(p) = Len(q) + 1 /\ Len(q) \in Nat
        /\ p[Len(q) + 1] = e /\ \A i \in 1..Len(q) : p[i] = q[i]
    OBVIOUS
  <2> HIDE DEF p
  <2>2. DOMAIN p = 1..(Len(q) + 1) /\ DOMAIN q = 1..Len(q)
    BY <2>1
  <2>3. ASSUME NEW i \in DOMAIN p PROVE p[i] \in Told!ToSet(q) \cup {e}
    <3>1. i \in 1..Len(q) \/ i = Len(q) + 1
      BY <2>1, <2>2
    <3> QED BY <2>1, <2>2, <3>1 DEF Told!ToSet
  <2>4. ASSUME NEW i \in DOMAIN q PROVE q[i] \in Told!ToSet(p)
    <3>1. i \in DOMAIN p
      BY <2>1, <2>2
    <3> QED BY <2>1, <2>2, <3>1 DEF Told!ToSet
  <2>5. e \in Told!ToSet(p)
    BY <2>1, <2>2 DEF Told!ToSet
  <2>6. Told!ToSet(p) = Told!ToSet(q) \cup {e}
    BY <2>3, <2>4, <2>5 DEF Told!ToSet
  <2> QED BY <2>1, <2>6 DEF p
<1>2. ASSUME q # <<>>
      PROVE  /\ Head(q) \in Sent /\ Tail(q) \in Seq(Sent)
             /\ Told!ToSet(q) = Told!ToSet(Tail(q)) \cup {Head(q)}
  <2>1. /\ Head(q) \in Sent /\ Tail(q) \in Seq(Sent) /\ Len(q) \in Nat \ {0}
        /\ Len(Tail(q)) = Len(q) - 1 /\ Head(q) = q[1]
        /\ \A i \in 1..(Len(q) - 1) : Tail(q)[i] = q[i + 1]
    BY <1>2
  <2>2. ASSUME NEW i \in 1..Len(q) PROVE q[i] \in Told!ToSet(Tail(q)) \cup {Head(q)}
    <3>1. CASE i = 1
      BY <2>1, <3>1
    <3>2. CASE i # 1
      <4>1. i - 1 \in 1..(Len(q) - 1) /\ (i - 1) + 1 = i
        BY <2>1, <3>2
      <4>2. Tail(q)[i - 1] = q[i] /\ i - 1 \in DOMAIN Tail(q)
        BY <2>1, <4>1
      <4> QED BY <4>2 DEF Told!ToSet
    <3> QED BY <3>1, <3>2
  <2>3. ASSUME NEW i \in DOMAIN Tail(q) PROVE Tail(q)[i] \in Told!ToSet(q)
    <3>1. i \in 1..(Len(q) - 1) /\ i + 1 \in DOMAIN q
      BY <2>1
    <3> QED BY <2>1, <3>1 DEF Told!ToSet
  <2>4. Head(q) \in Told!ToSet(q)
    BY <2>1 DEF Told!ToSet
  <2> QED BY <2>1, <2>2, <2>3, <2>4 DEF Told!ToSet
<1>3. ASSUME NEW r \in Seq(Sent)
      PROVE  Told!ToSet(q \o r) = Told!ToSet(q) \cup Told!ToSet(r)
  <2> DEFINE p == q \o r
  <2>1. /\ p \in Seq(Sent) /\ Len(p) = Len(q) + Len(r) /\ Len(q) \in Nat /\ Len(r) \in Nat
        /\ \A i \in 1..Len(q) : p[i] = q[i]
        /\ \A i \in 1..Len(r) : p[Len(q) + i] = r[i]
    OBVIOUS
  <2> HIDE DEF p
  <2>2. ASSUME NEW i \in DOMAIN p PROVE p[i] \in Told!ToSet(q) \cup Told!ToSet(r)
    <3>1. CASE i <= Len(q)
      BY <2>1, <3>1 DEF Told!ToSet
    <3>2. CASE ~(i <= Len(q))
      <4>1. i - Len(q) \in 1..Len(r) /\ Len(q) + (i - Len(q)) = i
        BY <2>1, <3>2
      <4> QED BY <2>1, <4>1 DEF Told!ToSet
    <3> QED BY <3>1, <3>2
  <2>3. ASSUME NEW i \in DOMAIN q PROVE q[i] \in Told!ToSet(p)
    BY <2>1 DEF Told!ToSet
  <2>4. ASSUME NEW i \in DOMAIN r PROVE r[i] \in Told!ToSet(p)
    <3>1. i \in 1..Len(r)
      BY <2>1
    <3>2. Len(q) + i \in DOMAIN p /\ p[Len(q) + i] = r[i]
      BY <2>1, <3>1
    <3> HIDE DEF p
    <3> QED BY <3>2 DEF Told!ToSet
  <2>5. Told!ToSet(p) = Told!ToSet(q) \cup Told!ToSet(r)
    BY <2>2, <2>3, <2>4 DEF Told!ToSet
  <2> QED BY <2>5 DEF p
<1> QED BY <1>1, <1>2, <1>3

Changes(q) == {i \in 1..Len(q) : q[i].kind = "StateChanged"}

LEMMA LatestOf ==
    ASSUME NEW q \in Seq(Sent), NEW s
    PROVE  /\ Changes(q) = {} => Told!Latest(q, s) = s
           /\ \A i \in Changes(q) : (\A j \in Changes(q) : j <= i) =>
                 Told!Latest(q, s) = q[i].of
<1>1. Changes(q) = {} => Told!Latest(q, s) = s
  BY DEF Changes, Told!Latest
<1>2. ASSUME NEW i \in Changes(q), \A j \in Changes(q) : j <= i
      PROVE  Told!Latest(q, s) = q[i].of
  <2> DEFINE K == Changes(q)
             m == Told!Max(K)
  <2>1. Len(q) \in Nat /\ K \in SUBSET (1..Len(q)) /\ K # {}
    BY DEF Changes
  <2>2. m \in K /\ \A y \in K : y <= m
    BY <2>1, LastOf
  <2>3. m = i
    BY <1>2, <2>1, <2>2
  <2>4. Told!Latest(q, s) = IF K = {} THEN s ELSE q[m].of
    <3>1. K = {j \in DOMAIN q : q[j].kind = "StateChanged"}
      BY DEF Changes
    <3> QED BY <3>1 DEF Told!Latest
  <2> QED BY <2>1, <2>3, <2>4
<1> QED BY <1>1, <1>2

(* A list tells of the latest state what its parts tell, one by one.       *)
LEMMA LatestIsLast ==
    ASSUME NEW q \in Seq(Sent), NEW s
    PROVE  /\ Told!Latest(<<>>, s) = s
           /\ \A e \in Sent : Told!Latest(Append(q, e), s) =
                 IF e.kind = "StateChanged" THEN e.of ELSE Told!Latest(q, s)
           /\ q # <<>> => Told!Latest(q, s) = Told!Latest(Tail(q),
                 IF Head(q).kind = "StateChanged" THEN Head(q).of ELSE s)
<1>1. Told!Latest(<<>>, s) = s
  <2>1. <<>> \in Seq(Sent) /\ Changes(<<>>) = {}
    BY DEF Changes
  <2> QED BY <2>1, LatestOf
<1>2. ASSUME NEW n \in Nat, NEW K \in SUBSET (1..n)
      PROVE  K = {} \/ \E i \in K : \A j \in K : j <= i
  BY LastOf
<1>3. Len(q) \in Nat /\ Changes(q) \in SUBSET (1..Len(q))
  BY DEF Changes
<1>4. ASSUME NEW e \in Sent
      PROVE  Told!Latest(Append(q, e), s) =
                 IF e.kind = "StateChanged" THEN e.of ELSE Told!Latest(q, s)
  <2> DEFINE p == Append(q, e)
             n == Len(q)
  <2>1. /\ p \in Seq(Sent) /\ Len(p) = n + 1 /\ p[n + 1] = e /\ n \in Nat
        /\ \A i \in 1..n : p[i] = q[i]
    OBVIOUS
  <2> HIDE DEF p
  <2>2. CASE e.kind = "StateChanged"
    <3>1. n + 1 \in Changes(p) /\ \A j \in Changes(p) : j <= n + 1
      BY <2>1, <2>2 DEF Changes
    <3>2. Told!Latest(p, s) = p[n + 1].of
      BY <2>1, <3>1, LatestOf
    <3> QED BY <2>1, <2>2, <3>2 DEF p
  <2>3. CASE e.kind # "StateChanged"
    <3>1. Changes(p) = Changes(q)
      BY <2>1, <2>3 DEF Changes
    <3>2. CASE Changes(q) = {}
      <4>1. Told!Latest(p, s) = s /\ Told!Latest(q, s) = s
        BY <2>1, <3>1, <3>2, LatestOf
      <4> QED BY <2>3, <4>1 DEF p
    <3>3. CASE Changes(q) # {}
      <4>1. PICK i \in Changes(q) : \A j \in Changes(q) : j <= i
        BY <1>2, <1>3, <3>3
      <4>2. Told!Latest(p, s) = p[i].of /\ Told!Latest(q, s) = q[i].of
        BY <2>1, <3>1, <4>1, LatestOf
      <4>3. p[i] = q[i]
        BY <1>3, <2>1
      <4> QED BY <2>3, <4>2, <4>3 DEF p
    <3> QED BY <3>2, <3>3
  <2> QED BY <2>2, <2>3
<1>5. ASSUME q # <<>>
      PROVE  Told!Latest(q, s) = Told!Latest(Tail(q),
                 IF Head(q).kind = "StateChanged" THEN Head(q).of ELSE s)
  <2> DEFINE t == Tail(q)
             n == Len(q)
             u == IF Head(q).kind = "StateChanged" THEN Head(q).of ELSE s
  <2>1. /\ t \in Seq(Sent) /\ Len(t) = n - 1 /\ n \in Nat \ {0} /\ Head(q) = q[1]
        /\ \A i \in 1..(n - 1) : t[i] = q[i + 1]
    BY <1>5
  <2>0. n - 1 \in Nat
    BY <2>1
  <2> HIDE DEF t, n
  <2>2. Changes(t) \in SUBSET (1..(n - 1)) /\ Len(q) = n
    BY <2>1 DEF Changes, n
  <2>3. \A i \in 1..(n - 1) : i \in Changes(t) <=> i + 1 \in Changes(q)
    BY <2>1, <2>2 DEF Changes
  <2>4. ASSUME NEW j \in Changes(q), j # 1 PROVE j - 1 \in Changes(t)
    <3>1. j - 1 \in 1..(n - 1) /\ (j - 1) + 1 = j
      BY <2>1, <2>2, <2>4 DEF Changes
    <3> QED BY <2>3, <3>1
  <2>5. CASE Changes(t) = {}
    <3>1. Told!Latest(t, u) = u
      BY <2>1, <2>5, LatestOf
    <3>2. \A j \in Changes(q) : j = 1
      BY <2>4, <2>5
    <3>3. CASE q[1].kind = "StateChanged"
      <4>1. 1 \in Changes(q) /\ \A j \in Changes(q) : j <= 1
        BY <2>1, <2>2, <3>2, <3>3 DEF Changes
      <4>2. Told!Latest(q, s) = q[1].of
        BY <4>1, LatestOf
      <4> QED BY <2>1, <3>1, <3>3, <4>2 DEF t
    <3>4. CASE q[1].kind # "StateChanged"
      <4>1. Changes(q) = {}
        BY <3>2, <3>4 DEF Changes
      <4>2. Told!Latest(q, s) = s
        BY <4>1, LatestOf
      <4> QED BY <2>1, <3>1, <3>4, <4>2 DEF t
    <3> QED BY <3>3, <3>4
  <2>6. CASE Changes(t) # {}
    <3>1. PICK i \in Changes(t) : \A j \in Changes(t) : j <= i
      BY <1>2, <2>0, <2>2, <2>6
    <3>2. Told!Latest(t, u) = t[i].of
      BY <2>1, <3>1, LatestOf
    <3>3. i + 1 \in Changes(q) /\ t[i] = q[i + 1] /\ i \in 1..(n - 1)
      BY <2>1, <2>2, <2>3
    <3>4. ASSUME NEW j \in Changes(q) PROVE j <= i + 1
      <4>1. j \in 1..n
        BY <2>2 DEF Changes
      <4>2. j # 1 => j - 1 <= i
        BY <2>4, <3>1
      <4> QED BY <2>1, <3>3, <4>1, <4>2
    <3>5. Told!Latest(q, s) = q[i + 1].of
      BY <3>3, <3>4, LatestOf
    <3> QED BY <3>2, <3>3, <3>5 DEF t
  <2> QED BY <2>5, <2>6
<1> QED BY <1>1, <1>4, <1>5

LEMMA OneMessage ==
    ASSUME NEW e \in Sent
    PROVE  /\ <<e>> \in Seq(Sent) /\ Told!ToSet(<<e>>) = {e}
           /\ \A s : Told!Latest(<<e>>, s) = IF e.kind = "StateChanged" THEN e.of ELSE s
<1> DEFINE q == <<>>
<1>1. q \in Seq(Sent) /\ <<e>> = Append(q, e)
  OBVIOUS
<1>2. Told!ToSet(q) = {} /\ \A s : Told!Latest(q, s) = s
  <2>1. Told!ToSet(q) = {}
    BY DEF Told!ToSet
  <2>2. \A s : Told!Latest(<<>>, s) = s
    BY <1>1, LatestIsLast
  <2> QED BY <2>1, <2>2
<1> HIDE DEF q
<1> DEFINE one == <<e>>
<1> HIDE DEF one
<1>3. one \in Seq(Sent) /\ one = Append(q, e)
  BY <1>1 DEF one
<1>4. Told!ToSet(Append(q, e)) = Told!ToSet(q) \cup {e}
  BY <1>1, MessagesOf
<1>5. ASSUME NEW s
      PROVE  Told!Latest(one, s) = IF e.kind = "StateChanged" THEN e.of ELSE s
  <2>1. Told!Latest(Append(q, e), s) =
                 IF e.kind = "StateChanged" THEN e.of ELSE Told!Latest(q, s)
    BY <1>1, LatestIsLast
  <2> QED BY <1>2, <1>3, <2>1
<1>6. Told!ToSet(one) = {e}
  BY <1>2, <1>3, <1>4
<1> QED BY <1>3, <1>5, <1>6 DEF one

LEMMA LatestIsAState ==
    ASSUME NEW q \in Seq(Sent), NEW s \in Told!AgentStates \cup {Told!None}
    PROVE  Told!Latest(q, s) \in Told!AgentStates \cup {Told!None}
<1>1. CASE Changes(q) = {}
  BY <1>1, LatestOf
<1>2. CASE Changes(q) # {}
  <2>1. Len(q) \in Nat /\ Changes(q) \in SUBSET (1..Len(q))
    BY DEF Changes
  <2>2. PICK i \in Changes(q) : \A j \in Changes(q) : j <= i
    BY <1>2, <2>1, LastOf
  <2>3. Told!Latest(q, s) = q[i].of
    BY <2>2, LatestOf
  <2>4. q[i] \in Sent
    BY <2>1
  <2> QED BY <2>3, <2>4 DEF Sent
<1> QED BY <1>1, <1>2

LEMMA AttentionOf ==
    /\ Told!Attention = {"NeedsApproval", "Waiting", "Failed", "Crashed"}
    /\ \A s \in Told!AgentStates : Told!StateChanged(s) \in Sent
    /\ Told!Completed \in Sent /\ Told!Completed.kind = "Completed"
    /\ \A s : Told!StateChanged(s).kind = "StateChanged" /\ Told!StateChanged(s).of = s
<1>1. Told!Attention = {"NeedsApproval", "Waiting", "Failed", "Crashed"}
  BY StatesOf DEF Told!Attention, Told!attention_for
<1>2. /\ \A s \in Told!AgentStates : Told!StateChanged(s) \in Sent
      /\ Told!Completed \in Sent /\ Told!Completed.kind = "Completed"
      /\ \A s : Told!StateChanged(s).kind = "StateChanged" /\ Told!StateChanged(s).of = s
  BY DEF Told!StateChanged, Told!Completed, Sent
<1> QED BY <1>1, <1>2

(* What a list tells of depends on its messages alone.                     *)
LEMMA WantingOf ==
    /\ Told!Wanting(<<>>) = {}
    /\ \A q : Told!Wanting(q) \subseteq Told!Attention
    /\ \A q, S : Told!ToSet(q) = S =>
          Told!Wanting(q) = {s \in Told!Attention : Told!StateChanged(s) \in S}
<1>1. Told!ToSet(<<>>) = {}
  BY DEF Told!ToSet
<1> QED BY <1>1 DEF Told!Wanting

LEMMA WantingMoves ==
    ASSUME NEW q \in Seq(Sent), NEW r \in Seq(Sent)
    PROVE  /\ \A e \in Sent : Told!Wanting(q) \subseteq Told!Wanting(Append(q, e))
           /\ q # <<>> => Told!Wanting(q) \cup Told!Wanting(r)
                 = Told!Wanting(Tail(q)) \cup Told!Wanting(Append(r, Head(q)))
           /\ Told!Wanting(q \o r) = Told!Wanting(q) \cup Told!Wanting(r)
           /\ \A s \in Told!Attention : Told!StateChanged(s) \in Sent
                  /\ s \in Told!Wanting(<<Told!StateChanged(s)>>)
<1>1. ASSUME NEW e \in Sent PROVE Told!Wanting(q) \subseteq Told!Wanting(Append(q, e))
  <2>1. Told!ToSet(Append(q, e)) = Told!ToSet(q) \cup {e}
    BY MessagesOf
  <2> QED BY <2>1 DEF Told!Wanting
<1>2. ASSUME q # <<>>
      PROVE  Told!Wanting(q) \cup Told!Wanting(r)
                 = Told!Wanting(Tail(q)) \cup Told!Wanting(Append(r, Head(q)))
  <2>1. /\ Head(q) \in Sent /\ Told!ToSet(q) = Told!ToSet(Tail(q)) \cup {Head(q)}
    BY <1>2, MessagesOf
  <2>2. Told!ToSet(Append(r, Head(q))) = Told!ToSet(r) \cup {Head(q)}
    BY <2>1, MessagesOf
  <2> QED BY <2>1, <2>2 DEF Told!Wanting
<1>3. Told!Wanting(q \o r) = Told!Wanting(q) \cup Told!Wanting(r)
  <2>1. Told!ToSet(q \o r) = Told!ToSet(q) \cup Told!ToSet(r)
    BY MessagesOf
  <2> QED BY <2>1 DEF Told!Wanting
<1>4. ASSUME NEW s \in Told!Attention
      PROVE  Told!StateChanged(s) \in Sent /\ s \in Told!Wanting(<<Told!StateChanged(s)>>)
  <2>1. Told!StateChanged(s) \in Sent
    BY AttentionOf, StatesOf
  <2>2. Told!ToSet(<<Told!StateChanged(s)>>) = {Told!StateChanged(s)}
    BY <2>1, OneMessage
  <2> QED BY <2>1, <2>2 DEF Told!Wanting
<1> QED BY <1>1, <1>2, <1>3, <1>4

Uis == [notified : SUBSET Told!Attention, notices : SUBSET (Told!Attention \cup {"Completed"}),
        twice : BOOLEAN, seen : Told!AgentStates \cup {Told!None}]

(* What a user with the pane has still to hear of is on its way.           *)
Heard(entered, told, out, left, sent) ==
    entered \subseteq told \cup Told!Wanting(out) \cup Told!Wanting(left) \cup Told!Wanting(sent)

HeardInv ==
    /\ wk_pane \in BOOLEAN /\ wk_ui \in Uis
    /\ wk_events \in Seq(Sent) /\ Len(wk_events) <= EVENT_CAPACITY /\ wk_old \in Seq(Sent)
    /\ wk_entered \subseteq Told!Attention
    /\ wk_pump.at \in {"starting", "finish"} => wk_pump.out = <<>>
    /\ wk_pane => Heard(wk_entered, wk_ui.notified, wk_pump.out, wk_old, wk_events)
    /\ wk_ui.notices \cap Told!Attention \subseteq wk_ui.notified
    /\ ~wk_ui.twice

LEMMA HeardLater ==
    ASSUME HeardInv, wk_pane' = wk_pane, wk_ui' \in Uis, wk_events' \in Seq(Sent),
           Len(wk_events') <= EVENT_CAPACITY, wk_old' \in Seq(Sent),
           wk_entered' \subseteq Told!Attention,
           wk_pump'.at \in {"starting", "finish"} => wk_pump'.out = <<>>,
           wk_pane => Heard(wk_entered', wk_ui'.notified, wk_pump'.out, wk_old', wk_events'),
           wk_ui'.notices \cap Told!Attention \subseteq wk_ui'.notified, ~wk_ui'.twice
    PROVE  HeardInv'
<1>1. Heard(wk_entered, wk_ui.notified, wk_pump.out, wk_old, wk_events)'
         <=> Heard(wk_entered', wk_ui'.notified, wk_pump'.out, wk_old', wk_events')
  BY DEF Heard, Told!Wanting, Told!ToSet
<1>2. wk_pane \in BOOLEAN
  BY DEF HeardInv
<1>3. (wk_ui.notices \cap Told!Attention \subseteq wk_ui.notified)'
         <=> wk_ui'.notices \cap Told!Attention \subseteq wk_ui'.notified
  OBVIOUS
<1> QED BY <1>1, <1>2, <1>3 DEF HeardInv, Uis, Sent

LEMMA PumpTells ==
    ASSUME HeardInv, UNCHANGED <<wk_pane, wk_ui, wk_events, wk_old>>,
           wk_pump'.at \in {"starting", "finish"} => wk_pump'.out = <<>>,
           wk_pump.out = <<>> \/ wk_pump'.out = wk_pump.out,
           \/ wk_entered' = wk_entered
           \/ \E s \in Told!Attention : /\ wk_entered' = wk_entered \cup {s}
                                        /\ s \in Told!Wanting(wk_pump'.out)
    PROVE  HeardInv'
<1>1. /\ wk_ui \in Uis /\ wk_events \in Seq(Sent) /\ Len(wk_events) <= EVENT_CAPACITY
      /\ wk_old \in Seq(Sent) /\ wk_entered \subseteq Told!Attention
      /\ wk_pane => Heard(wk_entered, wk_ui.notified, wk_pump.out, wk_old, wk_events)
      /\ wk_ui.notices \cap Told!Attention \subseteq wk_ui.notified /\ ~wk_ui.twice
  BY DEF HeardInv
<1>2. Told!Wanting(wk_pump.out) \subseteq Told!Wanting(wk_pump'.out)
  BY WantingOf
<1>3. wk_pane => Heard(wk_entered', wk_ui'.notified, wk_pump'.out, wk_old', wk_events')
  BY <1>1, <1>2 DEF Heard
<1>4. wk_entered' \subseteq Told!Attention
  BY <1>1
<1> QED BY <1>1, <1>3, <1>4, HeardLater

(* A message moves from the pump, or from what is left of a replaced run,  *)
(* into the channel.                                                       *)
LEMMA SendsTell ==
    ASSUME WorkBounds, WorkInv, HeardInv, Told!PumpSend \/ Told!OldSend
    PROVE  HeardInv'
<1>1. /\ wk_ui \in Uis /\ wk_events \in Seq(Sent) /\ wk_old \in Seq(Sent)
      /\ wk_entered \subseteq Told!Attention
      /\ wk_pump.at \in {"starting", "finish"} => wk_pump.out = <<>>
      /\ wk_pane => Heard(wk_entered, wk_ui.notified, wk_pump.out, wk_old, wk_events)
      /\ wk_ui.notices \cap Told!Attention \subseteq wk_ui.notified /\ ~wk_ui.twice
  BY DEF HeardInv
<1>2. wk_pump.out \in Seq(Sent) /\ wk_pump \in Pumps
  BY DEF WorkInv, Pumps
<1>3. CASE Told!PumpSend
  <2> DEFINE p == [wk_pump EXCEPT !.out = Tail(wk_pump.out)]
  <2>1. /\ wk_pump.out # <<>> /\ Len(wk_events) < EVENT_CAPACITY
        /\ wk_pump' = Told!Returned(p)
        /\ wk_events' = Append(wk_events, Head(wk_pump.out))
        /\ UNCHANGED <<wk_pane, wk_old, wk_ui, wk_entered>>
    BY <1>3 DEF Told!PumpSend
  <2>2. /\ Head(wk_pump.out) \in Sent /\ Tail(wk_pump.out) \in Seq(Sent)
    BY <1>2, <2>1, MessagesOf
  <2>3. p \in Pumps /\ p.out = Tail(wk_pump.out) /\ p.at = wk_pump.at
    BY <1>2, <2>2 DEF Pumps
  <2> HIDE DEF p
  <2>4. wk_pump'.out = Tail(wk_pump.out) /\ wk_pump'.at \in {wk_pump.at, "done"}
    BY <2>1, <2>3, OnReturn
  <2>5. wk_events' \in Seq(Sent) /\ Len(wk_events') = Len(wk_events) + 1
    BY <1>1, <2>1, <2>2
  <2>6. Len(wk_events') <= EVENT_CAPACITY
    BY <1>1, <2>1, <2>5 DEF WorkBounds
  <2>7. Told!Wanting(wk_pump.out) \cup Told!Wanting(wk_events)
           = Told!Wanting(wk_pump'.out) \cup Told!Wanting(wk_events')
    BY <1>1, <1>2, <2>1, <2>4, WantingMoves
  <2>8. wk_pane => Heard(wk_entered', wk_ui'.notified, wk_pump'.out, wk_old', wk_events')
    BY <1>1, <2>1, <2>7 DEF Heard
  <2> QED BY <1>1, <2>1, <2>4, <2>5, <2>6, <2>8, HeardLater
<1>4. CASE Told!OldSend
  <2>1. /\ wk_old # <<>> /\ Len(wk_events) < EVENT_CAPACITY
        /\ wk_events' = Append(wk_events, Head(wk_old)) /\ wk_old' = Tail(wk_old)
        /\ UNCHANGED <<wk_pane, wk_pump, wk_ui, wk_entered>>
    BY <1>4 DEF Told!OldSend
  <2>2. /\ Head(wk_old) \in Sent /\ Tail(wk_old) \in Seq(Sent)
    BY <1>1, <2>1, MessagesOf
  <2>5. wk_events' \in Seq(Sent) /\ Len(wk_events') = Len(wk_events) + 1
    BY <1>1, <2>1, <2>2
  <2>6. Len(wk_events') <= EVENT_CAPACITY
    BY <1>1, <2>1, <2>5 DEF WorkBounds
  <2>7. Told!Wanting(wk_old) \cup Told!Wanting(wk_events)
           = Told!Wanting(wk_old') \cup Told!Wanting(wk_events')
    BY <1>1, <2>1, WantingMoves
  <2>8. wk_pane => Heard(wk_entered', wk_ui'.notified, wk_pump'.out, wk_old', wk_events')
    BY <1>1, <2>1, <2>7 DEF Heard
  <2> QED BY <1>1, <2>1, <2>2, <2>5, <2>6, <2>8, HeardLater
<1> QED BY <1>3, <1>4

(* A stop puts its own message in, and a restart takes what is left over.  *)
LEMMA EndsTell ==
    ASSUME WorkBounds, WorkInv, HeardInv, Told!StopEnds \/ Told!Restart
    PROVE  HeardInv'
<1>1. /\ wk_ui \in Uis /\ wk_events \in Seq(Sent) /\ wk_old \in Seq(Sent)
      /\ wk_entered \subseteq Told!Attention /\ Len(wk_events) <= EVENT_CAPACITY
      /\ wk_pump.at \in {"starting", "finish"} => wk_pump.out = <<>>
      /\ wk_pane => Heard(wk_entered, wk_ui.notified, wk_pump.out, wk_old, wk_events)
      /\ wk_ui.notices \cap Told!Attention \subseteq wk_ui.notified /\ ~wk_ui.twice
  BY DEF HeardInv
<1>2. wk_pump.out \in Seq(Sent) /\ wk_pump \in Pumps
  BY DEF WorkInv, Pumps
<1>3. CASE Told!StopEnds
  <2>1. /\ UNCHANGED <<wk_pane, wk_old, wk_ui, wk_entered, wk_pump>>
        /\ \/ wk_events' = wk_events
           \/ /\ Len(wk_events) < EVENT_CAPACITY
              /\ wk_events' = Append(wk_events, Told!StateChanged("Stopped"))
    BY <1>3 DEF Told!StopEnds
  <2>2. Told!StateChanged("Stopped") \in Sent
    BY AttentionOf, StatesOf
  <2>3. /\ wk_events' \in Seq(Sent) /\ Len(wk_events') <= EVENT_CAPACITY
        /\ Told!Wanting(wk_events) \subseteq Told!Wanting(wk_events')
    <3>1. CASE wk_events' = wk_events
      BY <1>1, <3>1
    <3>2. CASE /\ Len(wk_events) < EVENT_CAPACITY
               /\ wk_events' = Append(wk_events, Told!StateChanged("Stopped"))
      <4>1. wk_events' \in Seq(Sent) /\ Len(wk_events') = Len(wk_events) + 1
        BY <1>1, <2>2, <3>2
      <4>2. Told!Wanting(wk_events) \subseteq Told!Wanting(wk_events')
        BY <1>1, <2>2, <3>2, WantingMoves
      <4>3. Len(wk_events') <= EVENT_CAPACITY
        BY <1>1, <3>2, <4>1 DEF WorkBounds
      <4> QED BY <4>1, <4>2, <4>3
    <3> QED BY <2>1, <3>1, <3>2
  <2>4. wk_pane => Heard(wk_entered', wk_ui'.notified, wk_pump'.out, wk_old', wk_events')
    BY <1>1, <2>1, <2>3 DEF Heard
  <2> QED BY <1>1, <2>1, <2>3, <2>4, HeardLater
<1>4. CASE Told!Restart
  <2>1. /\ wk_old = <<>> /\ wk_old' \in Told!Leavings /\ wk_pump' = Told!NewPump
        /\ UNCHANGED <<wk_pane, wk_events, wk_ui, wk_entered>>
    BY <1>4 DEF Told!Restart, Told!Idle
  <2> DEFINE Lines1 == {l \in Lines : l.hint \notin {Told!None, wk_pump.state}}
             States == {<<>>} \cup {<<Told!StateChanged(l.hint)>> : l \in Lines1}
  <2>2. \A more \in States : more \in Seq(Sent)
    <3> SUFFICES ASSUME NEW more \in States PROVE more \in Seq(Sent)
      OBVIOUS
    <3>1. CASE more = <<>>
      BY <3>1
    <3>2. CASE more # <<>>
      <4>1. PICK l \in Lines1 : more = <<Told!StateChanged(l.hint)>>
        BY <3>2
      <4>2. l.hint \in Told!AgentStates
        BY <4>1, StatesOf DEF WorkBounds
      <4>3. Told!StateChanged(l.hint) \in Sent
        BY <4>2, AttentionOf
      <4> QED BY <4>1, <4>3, OneMessage
    <3> QED BY <3>1, <3>2
  <2>3. wk_old' \in Seq(Sent) /\ Told!Wanting(wk_pump.out) \subseteq Told!Wanting(wk_old')
    <3>1. CASE wk_pump.at = "starting"
      <4>1. wk_old' \in {<<Told!StateChanged("Starting")>> \o more : more \in States}
        BY <2>1, <3>1 DEF Told!Leavings
      <4>2. PICK more \in States : wk_old' = <<Told!StateChanged("Starting")>> \o more
        BY <4>1
      <4>3. Told!StateChanged("Starting") \in Sent
        BY AttentionOf, StatesOf
      <4>4. <<Told!StateChanged("Starting")>> \in Seq(Sent) /\ more \in Seq(Sent)
        BY <2>2, <4>3, OneMessage
      <4>5. wk_old' \in Seq(Sent)
        BY <4>2, <4>4
      <4> QED BY <1>1, <3>1, <4>5, WantingOf
    <3>2. CASE wk_pump.at = "recv"
      <4>1. wk_old' \in {wk_pump.out \o more : more \in States}
        BY <2>1, <3>2 DEF Told!Leavings
      <4>2. PICK more \in States : wk_old' = wk_pump.out \o more
        BY <4>1
      <4>3. more \in Seq(Sent)
        BY <2>2
      <4>4. wk_old' \in Seq(Sent)
        BY <1>2, <4>2, <4>3
      <4>5. Told!Wanting(wk_old') = Told!Wanting(wk_pump.out) \cup Told!Wanting(more)
        BY <1>2, <4>2, <4>3, WantingMoves
      <4> QED BY <4>4, <4>5
    <3>3. CASE wk_pump.at = "finish"
      <4>1. wk_old' = IF wk_agent.code = "zero" THEN <<Told!Completed>> ELSE <<>>
        BY <2>1, <3>3 DEF Told!Leavings
      <4>2. <<Told!Completed>> \in Seq(Sent)
        BY AttentionOf, OneMessage
      <4>3. wk_old' \in Seq(Sent)
        BY <4>1, <4>2
      <4> QED BY <1>1, <3>3, <4>3, WantingOf
    <3>4. CASE wk_pump.at \notin {"starting", "recv", "finish"}
      <4>1. wk_old' = wk_pump.out
        BY <2>1, <3>4 DEF Told!Leavings
      <4> QED BY <1>2, <4>1
    <3> QED BY <3>1, <3>2, <3>3, <3>4
  <2> HIDE DEF States, Lines1
  <2>4. wk_pump'.at = "starting" /\ wk_pump'.out = <<>>
    BY <2>1 DEF Told!NewPump
  <2>5. Told!Wanting(<<>>) = {}
    BY WantingOf
  <2>6. wk_pane => Heard(wk_entered', wk_ui'.notified, wk_pump'.out, wk_old', wk_events')
    BY <1>1, <2>1, <2>3, <2>4, <2>5 DEF Heard
  <2> QED BY <1>1, <2>1, <2>3, <2>4, <2>6, HeardLater
<1> QED BY <1>3, <1>4

(* A frame: what the channel holds is told, each state once.               *)
LEMMA FrameTells ==
    ASSUME WorkBounds, HeardInv, Told!Frame
    PROVE  HeardInv' /\ wk_ui'.seen = Told!Latest(wk_events, wk_ui.seen)
<1> DEFINE W == Told!Wanting(wk_events)
           given == {s \in W \ wk_ui.notified :
                        IF Told!attention_for(s) = "ErrorIntervention" THEN wk_prefs.failure
                        ELSE wk_prefs.needs_me}
           ends == IF wk_prefs.completion /\ Told!Completed \in Told!ToSet(wk_events)
                   THEN {"Completed"} ELSE {}
           told == [wk_ui EXCEPT !.notified = wk_ui.notified \cup W,
                                 !.notices = wk_ui.notices \cup given,
                                 !.twice = wk_ui.twice \/ given \cap wk_ui.notices # {}]
           u == [told EXCEPT !.notices = told.notices \cup ends]
           v == IF ~wk_pane THEN wk_ui ELSE u
<1>1. /\ wk_pane \in BOOLEAN /\ wk_ui \in Uis /\ wk_events \in Seq(Sent) /\ wk_old \in Seq(Sent)
      /\ wk_entered \subseteq Told!Attention
      /\ wk_pump.at \in {"starting", "finish"} => wk_pump.out = <<>>
      /\ wk_pane => Heard(wk_entered, wk_ui.notified, wk_pump.out, wk_old, wk_events)
      /\ wk_ui.notices \cap Told!Attention \subseteq wk_ui.notified /\ ~wk_ui.twice
  BY DEF HeardInv
<1>2. /\ UNCHANGED <<wk_pane, wk_pump, wk_old, wk_entered>> /\ wk_events' = <<>>
      /\ wk_ui' = Told!Published(Told!emit_agent_notifications(wk_ui, wk_events), wk_events)
  BY DEF Told!Frame, Told!Idle
<1>3. Told!emit_agent_notifications(wk_ui, wk_events) = v
  BY DEF Told!emit_agent_notifications, Told!Tell
<1>4. W \subseteq Told!Attention /\ given \subseteq W \ wk_ui.notified
  BY WantingOf
<1>5. "Completed" \notin Told!Attention /\ ends \subseteq {"Completed"}
  BY AttentionOf
<1> HIDE DEF W, given, ends
<1>6. given \cap wk_ui.notices = {}
  BY <1>1, <1>4
<1>7. /\ told \in Uis /\ told.notified = wk_ui.notified \cup W
      /\ told.notices = wk_ui.notices \cup given /\ told.seen = wk_ui.seen
      /\ ~told.twice
  BY <1>1, <1>4, <1>6 DEF Uis
<1> HIDE DEF told
<1>8. /\ u \in Uis /\ u.notified = wk_ui.notified \cup W
      /\ u.notices = (wk_ui.notices \cup given) \cup ends /\ u.seen = wk_ui.seen
      /\ ~u.twice
  BY <1>5, <1>7 DEF Uis
<1> HIDE DEF u
<1>9. /\ v \in Uis /\ v.seen = wk_ui.seen /\ ~v.twice
      /\ v.notices \cap Told!Attention \subseteq v.notified
      /\ wk_pane => v.notified = wk_ui.notified \cup W
  <2>1. u.notices \cap Told!Attention \subseteq u.notified
    BY <1>1, <1>4, <1>5, <1>8
  <2> QED BY <1>1, <1>8, <2>1
<1> HIDE DEF v
<1>10. wk_ui' = [v EXCEPT !.seen = Told!Latest(wk_events, v.seen)]
  BY <1>2, <1>3 DEF Told!Published
<1>11. Told!Latest(wk_events, v.seen) \in Told!AgentStates \cup {Told!None}
  BY <1>1, <1>9, LatestIsAState DEF Uis
<1> DEFINE last == Told!Latest(wk_events, v.seen)
<1> HIDE DEF last
<1>12. /\ wk_ui' \in Uis /\ wk_ui'.seen = last /\ ~wk_ui'.twice
       /\ wk_ui'.notices = v.notices /\ wk_ui'.notified = v.notified
  BY <1>9, <1>10, <1>11 DEF Uis, last
<1>13. Told!Wanting(<<>>) = {}
  BY WantingOf
<1>14. wk_pane => Heard(wk_entered', wk_ui'.notified, wk_pump'.out, wk_old', wk_events')
  BY <1>1, <1>2, <1>9, <1>12, <1>13 DEF Heard, W
<1>15. wk_events' \in Seq(Sent) /\ Len(wk_events') <= EVENT_CAPACITY
  BY <1>2 DEF WorkBounds
<1>16. HeardInv'
  BY <1>1, <1>2, <1>9, <1>12, <1>14, <1>15, HeardLater
<1> QED BY <1>9, <1>12, <1>16 DEF last

(* A step of the pump that has nothing left to send says at most one state,*)
(* the one it enters.                                                      *)
Says(f) == /\ wk_agent'.state = f
           /\ wk_entered' = IF f \in Told!Attention THEN wk_entered \cup {f} ELSE wk_entered
           /\ \A s : Told!Latest(wk_pump'.out, s) = f
           /\ f \in Told!Attention => f \in Told!Wanting(wk_pump'.out)

Silent == /\ wk_pump.at # "starting" /\ wk_agent'.state = wk_agent.state
          /\ wk_entered' = wk_entered /\ \A s : Told!Latest(wk_pump'.out, s) = s

Speaks == /\ UNCHANGED <<wk_pane, wk_ui, wk_events, wk_old, wk_stopping, wk_mixed>>
          /\ wk_pump.out = <<>> /\ wk_pump'.at # "starting"
          /\ wk_pump'.at = "finish" => wk_pump'.out = <<>>
          /\ Silent \/ \E f \in Told!AgentStates : Says(f)

LEMMA SaysOne ==
    ASSUME NEW f \in Told!AgentStates, wk_agent'.state = f,
           wk_entered' = IF f \in Told!Attention THEN wk_entered \cup {f} ELSE wk_entered,
           NEW more \in {<<>>, <<Told!Completed>>},
           wk_pump'.out = <<Told!StateChanged(f)>> \o more
    PROVE  Says(f)
<1> DEFINE one == <<Told!StateChanged(f)>>
<1>1. Told!StateChanged(f) \in Sent /\ Told!Completed \in Sent
  BY AttentionOf
<1>2. one \in Seq(Sent) /\ \A s : Told!Latest(one, s) = f
  BY <1>1, OneMessage, AttentionOf
<1>3. f \in Told!Attention => f \in Told!Wanting(one)
  BY <1>2, WantingMoves
<1> HIDE DEF one
<1>4. CASE more = <<>>
  <2>1. one \o <<>> = one
    BY <1>2
  <2> QED BY <1>2, <1>3, <1>4, <2>1 DEF Says, one
<1>5. CASE more = <<Told!Completed>>
  <2>1. one \o <<Told!Completed>> = Append(one, Told!Completed)
    BY <1>1, <1>2
  <2>2. \A s : Told!Latest(Append(one, Told!Completed), s) = f
    <3> TAKE s
    <3>1. Told!Latest(Append(one, Told!Completed), s) = Told!Latest(one, s)
      BY <1>1, <1>2, AttentionOf, LatestIsLast
    <3> QED BY <1>2, <3>1
  <2>3. Told!Wanting(one) \subseteq Told!Wanting(Append(one, Told!Completed))
    BY <1>1, <1>2, WantingMoves
  <2> QED BY <1>3, <1>5, <2>1, <2>2, <2>3 DEF Says, one
<1> QED BY <1>4, <1>5

LEMMA SilentOf ==
    /\ \A s : Told!Latest(<<>>, s) = s
    /\ \A s : Told!Latest(<<Told!Completed>>, s) = s
<1>1. <<>> \in Seq(Sent)
  OBVIOUS
<1>2. \A s : Told!Latest(<<>>, s) = s
  BY <1>1, LatestIsLast
<1>3. \A s : Told!Latest(<<Told!Completed>>, s) = s
  BY AttentionOf, OneMessage
<1> QED BY <1>2, <1>3

LEMMA PumpSpeaks ==
    ASSUME WorkBounds, WorkInv, HeardInv,
           \/ Told!PumpStart \/ Told!PumpCheck \/ Told!finish
           \/ \E l \in Lines : Told!HintLine(l) \/ Told!KindLine(l) \/ Told!CommandLine(l)
    PROVE  Speaks
<1>1. wk_agent \in Agents /\ wk_pump \in Pumps
  BY DEF WorkInv
<1>2. ASSUME NEW f \in Told!AgentStates, Told!Enters(f)
      PROVE  /\ wk_agent'.state = f
             /\ wk_entered' = IF f \in Told!Attention THEN wk_entered \cup {f} ELSE wk_entered
  BY <1>1, <1>2 DEF Told!Enters, Agents
<1>3. ASSUME NEW f \in Told!AgentStates, Told!Enters(f),
             wk_pump'.out = <<Told!StateChanged(f)>>
      PROVE  Says(f)
  <2>1. <<Told!StateChanged(f)>> \o <<>> = <<Told!StateChanged(f)>>
    BY AttentionOf, OneMessage
  <2> QED BY <1>2, <1>3, <2>1, SaysOne
<1>4. CASE Told!PumpStart
  <2>1. /\ UNCHANGED <<wk_pane, wk_ui, wk_events, wk_old, wk_stopping, wk_mixed>>
        /\ wk_pump.out = <<>> /\ Told!Enters("Starting")
        /\ wk_pump' = [wk_pump EXCEPT !.at = "recv", !.out = <<Told!StateChanged("Starting")>>]
    BY <1>4 DEF Told!PumpStart, Told!PumpIdle
  <2>2. wk_pump'.at = "recv" /\ wk_pump'.out = <<Told!StateChanged("Starting")>>
    BY <1>1, <2>1 DEF Pumps
  <2>3. Says("Starting")
    BY <1>3, <2>1, <2>2, StatesOf
  <2> QED BY <2>1, <2>2, <2>3, StatesOf DEF Speaks
<1>5. CASE Told!PumpCheck
  <2>1. /\ UNCHANGED <<wk_pane, wk_ui, wk_events, wk_old, wk_stopping, wk_mixed, wk_agent,
                      wk_entered>>
        /\ wk_pump.out = <<>> /\ wk_pump.at = "recv"
        /\ wk_pump' = [wk_pump EXCEPT !.at = IF wk_agent.stop THEN "done" ELSE "finish"]
    BY <1>5 DEF Told!PumpCheck, Told!PumpIdle
  <2>2. wk_pump'.at \in {"done", "finish"} /\ wk_pump'.out = <<>>
    BY <1>1, <2>1 DEF Pumps
  <2>3. Silent
    BY <2>1, <2>2, SilentOf DEF Silent
  <2> QED BY <2>1, <2>2, <2>3 DEF Speaks
<1>6. CASE Told!finish
  <2> DEFINE final == Told!FinalState(wk_agent.code)
             over == Told!terminal(wk_agent.state)
             more == IF final = "Completed" THEN <<Told!Completed>> ELSE <<>>
             said == (IF over THEN <<>> ELSE <<Told!StateChanged(final)>>) \o more
             p == [wk_pump EXCEPT !.at = "last", !.out = said]
  <2>1. /\ UNCHANGED <<wk_pane, wk_ui, wk_events, wk_old, wk_stopping, wk_mixed>>
        /\ wk_pump.out = <<>> /\ wk_pump.at = "finish"
        /\ IF over THEN UNCHANGED <<wk_agent, wk_entered>> ELSE Told!Enters(final)
        /\ wk_pump' = Told!Returned(p)
    BY <1>6 DEF Told!finish, Told!PumpIdle
  <2>2. final \in Told!AgentStates /\ more \in {<<>>, <<Told!Completed>>}
    BY StatesOf DEF Told!FinalState
  <2>3. /\ Told!StateChanged(final) \in Sent /\ <<Told!StateChanged(final)>> \in Seq(Sent)
        /\ <<Told!Completed>> \in Seq(Sent)
    BY <2>2, AttentionOf, OneMessage
  <2> HIDE DEF final, over, more
  <2> DEFINE start == IF over THEN <<>> ELSE <<Told!StateChanged(final)>>
  <2>9. start \in Seq(Sent) /\ more \in Seq(Sent)
    <3> DEFINE one == <<Told!StateChanged(final)>>
               none == <<>>
    <3>1. one \in Seq(Sent) /\ none \in Seq(Sent)
      BY <2>3
    <3>2. start = IF over THEN none ELSE one
      OBVIOUS
    <3> HIDE DEF one, none, start
    <3>3. start \in Seq(Sent)
      BY <3>1, <3>2
    <3>4. more \in Seq(Sent)
      BY <2>2, <2>3, <3>1 DEF none
    <3> QED BY <3>3, <3>4
  <2>4. more \in Seq(Sent) /\ said \in Seq(Sent) /\ <<>> \o more = more
    <3> HIDE DEF start
    <3>1. start \o more \in Seq(Sent)
      BY <2>9
    <3>2. <<>> \o more = more
      BY <2>9
    <3> QED BY <2>9, <3>1, <3>2 DEF start
  <2> HIDE DEF said
  <2>5. p \in Pumps /\ p.out = said /\ p.at = "last"
    BY <1>1, <2>4 DEF Pumps
  <2> HIDE DEF p
  <2>6. wk_pump'.out = said /\ wk_pump'.at \in {"last", "done"}
    BY <2>1, <2>5, OnReturn
  <2>7. CASE over
    <3>1. wk_pump'.out = more
      BY <2>4, <2>6, <2>7 DEF said
    <3>2. Silent
      BY <2>1, <2>2, <2>7, <3>1, SilentOf DEF Silent
    <3> QED BY <2>1, <2>6, <3>2 DEF Speaks
  <2>8. CASE ~over
    <3>1. wk_pump'.out = <<Told!StateChanged(final)>> \o more
      BY <2>6, <2>8 DEF said
    <3>2. Says(final)
      BY <1>2, <2>1, <2>2, <2>8, <3>1, SaysOne
    <3> QED BY <2>1, <2>2, <2>6, <3>2 DEF Speaks
  <2> QED BY <2>7, <2>8
<1>7. ASSUME NEW l \in Lines, Told!HintLine(l) \/ Told!KindLine(l) \/ Told!CommandLine(l)
      PROVE  Speaks
  <2>1. /\ UNCHANGED <<wk_pane, wk_ui, wk_events, wk_old, wk_stopping, wk_mixed>>
        /\ wk_pump.out = <<>> /\ wk_pump.at = "recv"
    BY <1>7 DEF Told!HintLine, Told!KindLine, Told!CommandLine, Told!ReadLine, Told!PumpIdle
  <2>2. \/ /\ wk_pump' = wk_pump \/ wk_pump' = [wk_pump EXCEPT !.kind = l.kind]
           /\ UNCHANGED <<wk_agent, wk_entered>>
        \/ /\ l.hint # Told!None /\ Told!Enters(l.hint)
           /\ wk_pump' = [wk_pump EXCEPT !.state = l.hint, !.out = <<Told!StateChanged(l.hint)>>]
    BY <1>7 DEF Told!HintLine, Told!KindLine, Told!CommandLine
  <2>3. CASE /\ wk_pump' = wk_pump \/ wk_pump' = [wk_pump EXCEPT !.kind = l.kind]
             /\ UNCHANGED <<wk_agent, wk_entered>>
    <3>1. wk_pump'.at = "recv" /\ wk_pump'.out = <<>>
      BY <1>1, <2>1, <2>3 DEF Pumps
    <3>2. Silent
      BY <2>1, <2>3, <3>1, SilentOf DEF Silent
    <3> QED BY <2>1, <3>1, <3>2 DEF Speaks
  <2>4. CASE /\ l.hint # Told!None /\ Told!Enters(l.hint)
             /\ wk_pump' = [wk_pump EXCEPT !.state = l.hint, !.out = <<Told!StateChanged(l.hint)>>]
    <3>1. wk_pump'.at = "recv" /\ wk_pump'.out = <<Told!StateChanged(l.hint)>>
      BY <1>1, <2>1, <2>4 DEF Pumps
    <3>2. l.hint \in Told!AgentStates
      BY <2>4, StatesOf DEF WorkBounds
    <3>3. Says(l.hint)
      BY <1>3, <2>4, <3>1, <3>2
    <3> QED BY <2>1, <3>1, <3>2, <3>3 DEF Speaks
  <2> QED BY <2>2, <2>3, <2>4
<1> QED BY <1>4, <1>5, <1>6, <1>7

LEMMA SpeakingTells ==
    ASSUME HeardInv, Speaks
    PROVE  HeardInv'
<1>1. /\ UNCHANGED <<wk_pane, wk_ui, wk_events, wk_old>> /\ wk_pump.out = <<>>
      /\ wk_pump'.at \in {"starting", "finish"} => wk_pump'.out = <<>>
  BY DEF Speaks
<1>2. \/ wk_entered' = wk_entered
      \/ \E s \in Told!Attention : /\ wk_entered' = wk_entered \cup {s}
                                   /\ s \in Told!Wanting(wk_pump'.out)
  BY DEF Speaks, Silent, Says
<1> QED BY <1>1, <1>2, PumpTells

LEMMA HeardKept ==
    ASSUME WorkBounds
    PROVE  WorkInv /\ HeardInv /\ [Told!Next]_Told!vars => HeardInv'
<1> SUFFICES ASSUME WorkInv, HeardInv, [Told!Next]_Told!vars PROVE HeardInv'
  OBVIOUS
<1>1. ASSUME UNCHANGED <<wk_pane, wk_ui, wk_events, wk_old, wk_entered, wk_pump>>
      PROVE  HeardInv'
  <2>1. wk_pump.at \in {"starting", "finish"} => wk_pump.out = <<>>
    BY DEF HeardInv
  <2> QED BY <1>1, <2>1, PumpTells
<1>2. CASE Told!Pump
  BY <1>2, PumpSpeaks, SpeakingTells, SendsTell DEF Told!Pump
<1>3. CASE Told!OldSend
  BY <1>3, SendsTell
<1>4. CASE Told!StopEnds \/ Told!Restart
  BY <1>4, EndsTell
<1>5. CASE Told!Frame
  BY <1>5, FrameTells
<1>6. ASSUME NEW p, Told!SetPrefs(p) PROVE HeardInv'
  BY <1>1, <1>6 DEF Told!SetPrefs, Told!Idle
<1>7. CASE Told!ToggleQuietMode
  BY <1>6, <1>7 DEF Told!ToggleQuietMode
<1>8. CASE Told!StopBegins \/ \E c \in ExitCodes : Told!ProcessEnds(c)
  BY <1>1, <1>8 DEF Told!StopBegins, Told!ProcessEnds, Told!Idle
<1>9. CASE UNCHANGED Told!vars
  BY <1>1, <1>9 DEF Told!vars
<1> QED BY <1>2, <1>3, <1>4, <1>5, <1>6, <1>7, <1>8, <1>9 DEF Told!Next

LEMMA HeardInductive ==
    ASSUME WorkBounds
    PROVE  Told!Spec => [](WorkInv /\ HeardInv)
<1>1. Told!Init => WorkInv
  BY RunIsRight DEF Told!Init
<1>2. Told!Init => HeardInv
  <2> SUFFICES ASSUME Told!Init PROVE HeardInv
    OBVIOUS
  <2>1. /\ wk_pane \in BOOLEAN /\ wk_pump = Told!NewPump /\ wk_events = <<>> /\ wk_old = <<>>
        /\ wk_ui = [notified |-> {}, notices |-> {}, twice |-> FALSE, seen |-> Told!None]
        /\ wk_entered = {}
    BY DEF Told!Init
  <2>2. wk_ui \in Uis /\ wk_ui.notices = {} /\ ~wk_ui.twice
    BY <2>1 DEF Uis
  <2>3. wk_pump.out = <<>>
    BY <2>1 DEF Told!NewPump
  <2>4. wk_events \in Seq(Sent) /\ Len(wk_events) <= EVENT_CAPACITY /\ wk_old \in Seq(Sent)
    BY <2>1 DEF WorkBounds
  <2> QED BY <2>1, <2>2, <2>3, <2>4 DEF HeardInv, Heard
<1>3. WorkInv /\ [Told!Next]_Told!vars => WorkInv'
  BY WorkKept
<1>4. WorkInv /\ HeardInv /\ [Told!Next]_Told!vars => HeardInv'
  BY HeardKept
<1> QED BY <1>1, <1>2, <1>3, <1>4, PTL DEF Told!Spec

(* AttentionIsHeard (AgentWork): whatever is full, stopped and restarted,  *)
(* a user with the agent's pane is told of every state that wants          *)
(* attention once what was sent is drained, and of none of them twice      *)
(* (transition_state_with, emit_agent_notifications).                      *)
THEOREM AttentionHeard ==
    ASSUME WorkBounds
    PROVE  Told!Spec => []Told!AttentionIsHeard
<1>1. HeardInv => Told!AttentionIsHeard
  BY WantingOf DEF HeardInv, Heard, Told!AttentionIsHeard, Told!NothingInFlight
<1> QED BY <1>1, HeardInductive, PTL

-----------------------------------------------------------------------------
(* What who follows the events makes of them.                              *)

(* Applied to what is published, the messages on their way end in the state*)
(* the session has.                                                        *)
Agreed(out, sent, seen, state) == Told!Latest(out, Told!Latest(sent, seen)) = state

WatchInv ==
    /\ wk_mixed \in BOOLEAN /\ (wk_stopping => wk_mixed)
    /\ ~wk_mixed => wk_old = <<>>
    /\ ~wk_mixed /\ wk_pump.at # "starting" =>
          Agreed(wk_pump.out, wk_events, wk_ui.seen, wk_agent.state)

LEMMA WatchLater ==
    ASSUME wk_mixed' \in BOOLEAN, wk_stopping' => wk_mixed', ~wk_mixed' => wk_old' = <<>>,
           ~wk_mixed' /\ wk_pump'.at # "starting" =>
               Agreed(wk_pump'.out, wk_events', wk_ui'.seen, wk_agent'.state)
    PROVE  WatchInv'
<1>1. Agreed(wk_pump.out, wk_events, wk_ui.seen, wk_agent.state)'
         <=> Agreed(wk_pump'.out, wk_events', wk_ui'.seen, wk_agent'.state)
  BY DEF Agreed, Told!Latest, Told!Max
<1> QED BY <1>1 DEF WatchInv

LEMMA SpeakingAgrees ==
    ASSUME WatchInv, Speaks
    PROVE  WatchInv'
<1>1. /\ UNCHANGED <<wk_ui, wk_events, wk_old, wk_stopping, wk_mixed>> /\ wk_pump.out = <<>>
      /\ wk_mixed \in BOOLEAN /\ (wk_stopping => wk_mixed) /\ (~wk_mixed => wk_old = <<>>)
  BY DEF Speaks, WatchInv
<1>2. CASE Silent
  <2>1. /\ wk_pump.at # "starting" /\ wk_agent'.state = wk_agent.state
        /\ \A s : Told!Latest(wk_pump'.out, s) = s
    BY <1>2 DEF Silent
  <2>2. ~wk_mixed => Told!Latest(wk_pump.out, Told!Latest(wk_events, wk_ui.seen)) = wk_agent.state
    BY <2>1 DEF WatchInv, Agreed
  <2>3. ~wk_mixed => Told!Latest(wk_events, wk_ui.seen) = wk_agent.state
    BY <1>1, <2>2, SilentOf
  <2>4. ~wk_mixed' /\ wk_pump'.at # "starting" =>
               Agreed(wk_pump'.out, wk_events', wk_ui'.seen, wk_agent'.state)
    BY <1>1, <2>1, <2>3 DEF Agreed
  <2> QED BY <1>1, <2>4, WatchLater
<1>3. CASE \E f \in Told!AgentStates : Says(f)
  <2>1. \A s : Told!Latest(wk_pump'.out, s) = wk_agent'.state
    BY <1>3 DEF Says
  <2>2. Agreed(wk_pump'.out, wk_events', wk_ui'.seen, wk_agent'.state)
    BY <2>1 DEF Agreed
  <2> QED BY <1>1, <2>2, WatchLater
<1> QED BY <1>2, <1>3 DEF Speaks

LEMMA WatchKept ==
    ASSUME WorkBounds
    PROVE  WorkInv /\ HeardInv /\ WatchInv /\ [Told!Next]_Told!vars => WatchInv'
<1> SUFFICES ASSUME WorkInv, HeardInv, WatchInv, [Told!Next]_Told!vars PROVE WatchInv'
  OBVIOUS
<1>1. /\ wk_agent \in Agents /\ wk_pump \in Pumps /\ wk_pump.out \in Seq(Sent)
      /\ wk_events \in Seq(Sent) /\ wk_ui \in Uis
  BY DEF WorkInv, HeardInv, Pumps
<1>2. /\ wk_mixed \in BOOLEAN /\ (wk_stopping => wk_mixed)
      /\ ~wk_mixed => wk_old = <<>>
      /\ ~wk_mixed /\ wk_pump.at # "starting" =>
            Agreed(wk_pump.out, wk_events, wk_ui.seen, wk_agent.state)
  BY DEF WatchInv
<1>3. ASSUME UNCHANGED <<wk_mixed, wk_stopping, wk_old, wk_pump, wk_events, wk_ui>>,
             wk_agent'.state = wk_agent.state
      PROVE  WatchInv'
  BY <1>2, <1>3, WatchLater
<1>4. CASE Told!PumpSend
  <2> DEFINE p == [wk_pump EXCEPT !.out = Tail(wk_pump.out)]
             e == Head(wk_pump.out)
             s == Told!Latest(wk_events, wk_ui.seen)
             t == Told!Latest(wk_events', wk_ui.seen)
  <2>1. /\ wk_pump.out # <<>> /\ wk_pump' = Told!Returned(p)
        /\ wk_events' = Append(wk_events, Head(wk_pump.out))
        /\ UNCHANGED <<wk_old, wk_ui, wk_agent, wk_stopping, wk_mixed>>
    BY <1>4 DEF Told!PumpSend
  <2>2. /\ e \in Sent /\ Tail(wk_pump.out) \in Seq(Sent)
    BY <1>1, <2>1, MessagesOf
  <2>3. p \in Pumps /\ p.out = Tail(wk_pump.out) /\ p.at = wk_pump.at
    BY <1>1, <2>2 DEF Pumps
  <2> HIDE DEF p
  <2>4. wk_pump'.out = Tail(wk_pump.out) /\ wk_pump'.at \in {wk_pump.at, "done"}
    BY <2>1, <2>3, OnReturn
  <2>5. wk_pump.at # "starting"
    BY <2>1 DEF HeardInv
  <2>6. t = IF e.kind = "StateChanged" THEN e.of ELSE s
    BY <1>1, <2>1, <2>2, LatestIsLast
  <2>7. Told!Latest(wk_pump.out, s) = Told!Latest(Tail(wk_pump.out),
                 IF e.kind = "StateChanged" THEN e.of ELSE s)
    BY <1>1, <2>1, LatestIsLast
  <2> HIDE DEF e
  <2>8. ~wk_mixed => Told!Latest(wk_pump.out, s) = wk_agent.state
    BY <1>2, <2>5 DEF Agreed
  <2> HIDE DEF s
  <2>9. ~wk_mixed => Agreed(wk_pump'.out, wk_events', wk_ui'.seen, wk_agent'.state)
    BY <2>1, <2>4, <2>6, <2>7, <2>8 DEF Agreed
  <2> QED BY <1>2, <2>1, <2>9, WatchLater
<1>5. CASE Told!Pump
  BY <1>4, <1>5, PumpSpeaks, SpeakingAgrees DEF Told!Pump
<1>6. CASE Told!OldSend \/ Told!StopEnds
  <2>1. wk_mixed /\ wk_mixed' = wk_mixed
    BY <1>2, <1>6 DEF Told!OldSend, Told!StopEnds
  <2> QED BY <2>1, WatchLater
<1>7. CASE Told!StopBegins
  <2>1. wk_mixed' = TRUE
    BY <1>7 DEF Told!StopBegins
  <2> QED BY <2>1, WatchLater
<1>8. CASE Told!Restart
  <2>1. /\ wk_pump' = Told!NewPump /\ wk_mixed' = (wk_mixed \/ wk_old' # <<>>)
        /\ ~wk_stopping /\ UNCHANGED wk_stopping
    BY <1>8 DEF Told!Restart, Told!Idle
  <2>2. wk_pump'.at = "starting"
    BY <2>1 DEF Told!NewPump
  <2> QED BY <1>2, <2>1, <2>2, WatchLater
<1>9. CASE Told!Frame
  <2>1. /\ UNCHANGED <<wk_agent, wk_stopping, wk_pump, wk_old, wk_mixed>> /\ wk_events' = <<>>
    BY <1>9 DEF Told!Frame
  <2>2. wk_ui'.seen = Told!Latest(wk_events, wk_ui.seen)
    BY <1>9, FrameTells
  <2>3. Told!Latest(<<>>, wk_ui'.seen) = wk_ui'.seen
    BY SilentOf
  <2>4. ~wk_mixed' /\ wk_pump'.at # "starting" =>
               Agreed(wk_pump'.out, wk_events', wk_ui'.seen, wk_agent'.state)
    BY <1>2, <2>1, <2>2, <2>3 DEF Agreed
  <2> QED BY <1>2, <2>1, <2>4, WatchLater
<1>10. ASSUME NEW p, Told!SetPrefs(p) PROVE WatchInv'
  BY <1>3, <1>10 DEF Told!SetPrefs
<1>11. CASE Told!ToggleQuietMode
  BY <1>10, <1>11 DEF Told!ToggleQuietMode
<1>12. ASSUME NEW c \in ExitCodes, Told!ProcessEnds(c) PROVE WatchInv'
  <2>1. /\ wk_agent' = [wk_agent EXCEPT !.life = "dead", !.code = c]
        /\ UNCHANGED <<wk_mixed, wk_stopping, wk_old, wk_pump, wk_events, wk_ui>>
    BY <1>12 DEF Told!ProcessEnds
  <2>2. wk_agent'.state = wk_agent.state
    BY <1>1, <2>1 DEF Agents
  <2> QED BY <1>3, <2>1, <2>2
<1>13. CASE UNCHANGED Told!vars
  BY <1>3, <1>13 DEF Told!vars
<1> QED BY <1>5, <1>6, <1>7, <1>8, <1>9, <1>10, <1>11, <1>12, <1>13 DEF Told!Next

LEMMA WatchInductive ==
    ASSUME WorkBounds
    PROVE  Told!Spec => []WatchInv
<1>1. Told!Init => WatchInv
  <2> SUFFICES ASSUME Told!Init PROVE WatchInv
    OBVIOUS
  <2>1. wk_stopping = FALSE /\ wk_pump = Told!NewPump /\ wk_old = <<>> /\ wk_mixed = FALSE
    BY DEF Told!Init
  <2>2. wk_pump.at = "starting"
    BY <2>1 DEF Told!NewPump
  <2> QED BY <2>1, <2>2 DEF WatchInv
<1>2. WorkInv /\ HeardInv /\ WatchInv /\ [Told!Next]_Told!vars => WatchInv'
  BY WatchKept
<1> QED BY <1>1, <1>2, HeardInductive, PTL DEF Told!Spec

(* WatcherAgrees (AgentWork): without a stop, and with no replaced run     *)
(* still sending, who follows the events ends up with the state of the     *)
(* session (transition_state_with, drain_frame).                           *)
THEOREM WatchersAgree ==
    ASSUME WorkBounds
    PROVE  Told!Spec => []Told!WatcherAgrees
<1>1. WatchInv => Told!WatcherAgrees
  <2> SUFFICES ASSUME WatchInv, ~wk_mixed, Told!NothingInFlight, wk_pump.at # "starting"
               PROVE  wk_ui.seen = wk_agent.state
    BY DEF Told!WatcherAgrees
  <2>1. wk_pump.out = <<>> /\ wk_events = <<>>
    BY DEF Told!NothingInFlight
  <2>2. Told!Latest(wk_pump.out, Told!Latest(wk_events, wk_ui.seen)) = wk_agent.state
    BY DEF WatchInv, Agreed
  <2> QED BY <2>1, <2>2, SilentOf
<1> QED BY <1>1, WatchInductive, PTL

(* TypeOK (AgentWork), with the rings and the channel within their limits. *)
THEOREM WorkTypes ==
    ASSUME WorkBounds
    PROVE  Told!Spec => []Told!TypeOK
<1>1. WorkInv /\ HeardInv /\ WatchInv => Told!TypeOK
  <2> SUFFICES ASSUME WorkInv, HeardInv, WatchInv PROVE Told!TypeOK
    OBVIOUS
  <2>1. /\ wk_agent \in Agents /\ wk_pump \in Pumps /\ wk_work \in Works /\ wk_stopping \in BOOLEAN
        /\ Fits(wk_work)
    BY DEF WorkInv
  <2>2. /\ wk_pane \in BOOLEAN /\ wk_ui \in Uis /\ Len(wk_events) <= EVENT_CAPACITY
        /\ wk_entered \subseteq Told!Attention /\ wk_mixed \in BOOLEAN
    BY DEF HeardInv, WatchInv
  <2>3. /\ wk_ui.notified \subseteq Told!Attention
        /\ wk_ui.seen \in Told!AgentStates \cup {Told!None}
    BY <2>2 DEF Uis
  <2>4. /\ wk_pump.at \in {"starting", "recv", "finish", "last", "done"}
        /\ wk_pump.state \in Told!Hints \cup {Told!None}
    BY <2>1 DEF Pumps
  <2>5. wk_work.status \in {"Running", "Completed", "Failed"} /\ wk_work.errors \in 0..1
    BY <2>1 DEF Works
  <2> QED BY <2>1, <2>2, <2>3, <2>4, <2>5 DEF Told!TypeOK, Agents, Fits
<1> QED BY <1>1, HeardInductive, WatchInductive, PTL

-----------------------------------------------------------------------------
(* The suite: each of its components takes its own steps and no other, and *)
(* what is proved of a component is cited from the module of its proofs.   *)

Isolated == INSTANCE WorktreeProofs WITH
    task <- wt_task, rec <- wt_rec, known <- wt_known, policy <- wt_policy,
    manager <- wt_manager, cleanup <- wt_cleanup, dirs <- wt_dirs,
    branches <- wt_branches, tip <- wt_tip, head <- wt_head, saved <- wt_saved,
    approvedTip <- wt_approved, merges <- wt_merges, unsaved <- wt_unsaved,
    doubtful <- wt_doubtful, acts <- wt_acts, restarts <- wt_restarts

Granted == INSTANCE PolicyProofs WITH
    MaxActs <- MaxUses,
    now <- po_now, config <- po_config, approvals <- po_approvals,
    requested <- po_requested, audit <- po_audit, saved <- po_saved,
    granted <- po_granted, honored <- po_honored, acts <- po_acts,
    restarts <- po_restarts

Chained == INSTANCE AdaptiveProofs WITH
    now <- ad_now, world <- ad_world, registry <- ad_registry,
    signals <- ad_signals, replan_count <- ad_count, max_replans <- ad_max,
    limit_reached <- ad_reached, escalations <- ad_escalations,
    proposals <- ad_proposals, versions <- ad_versions,
    invalidated <- ad_invalidated, paused <- ad_paused, planner <- ad_planner,
    saved <- ad_saved, made <- ad_made, acts <- ad_acts, restarts <- ad_restarts

(* The module a proof is about and the one in the suite are the same,      *)
(* read through two instances: their definitions agree, word for word.     *)
LEMMA SameTrees ==
    /\ Trees!Init <=> Isolated!Init
    /\ Trees!Next <=> Isolated!Next
    /\ Trees!vars = Isolated!vars
    /\ Trees!TypeOK <=> Isolated!TypeOK
    /\ Trees!OwnersKnown <=> Isolated!OwnersKnown
    /\ Trees!ApprovedIsFrozen <=> Isolated!ApprovedIsFrozen
    /\ Trees!VerdictReachesTree <=> Isolated!VerdictReachesTree
<1> USE DEF Trees!None, Isolated!None, Trees!NoWorktree, Isolated!NoWorktree,
        Trees!Wt, Isolated!Wt, Trees!Branch, Isolated!Branch,
        Trees!DefaultPolicy, Isolated!DefaultPolicy, Trees!Managed,
        Isolated!Managed, Trees!gitVars, Isolated!gitVars, Trees!managerVars,
        Isolated!managerVars, Trees!historyVars, Isolated!historyVars,
        Trees!vars, Isolated!vars, Trees!Act, Isolated!Act, Trees!NoRecord,
        Isolated!NoRecord, Trees!NoTask, Isolated!NoTask, Trees!Init,
        Isolated!Init, Trees!Recorded, Isolated!Recorded, Trees!SetState,
        Isolated!SetState, Trees!NewRecord, Isolated!NewRecord, Trees!Reuses,
        Isolated!Reuses, Trees!create_fails, Isolated!create_fails,
        Trees!Removed, Isolated!Removed, Trees!Sweeps, Isolated!Sweeps,
        Trees!diff, Isolated!diff, Trees!capture_worktree_result,
        Isolated!capture_worktree_result, Trees!preserve_worktree,
        Isolated!preserve_worktree, Trees!TaskCreate, Isolated!TaskCreate,
        Trees!Reimport, Isolated!Reimport, Trees!may_retry, Isolated!may_retry,
        Trees!Fails, Isolated!Fails, Trees!SpawnIn, Isolated!SpawnIn,
        Trees!Spawn, Isolated!Spawn, Trees!Commit, Isolated!Commit,
        Trees!Complete, Isolated!Complete, Trees!Fail, Isolated!Fail,
        Trees!Cancel, Isolated!Cancel, Trees!Retry, Isolated!Retry,
        Trees!Approve, Isolated!Approve, Trees!Reject, Isolated!Reject,
        Trees!Merge, Isolated!Merge, Trees!Discard, Isolated!Discard,
        Trees!Cleanup, Isolated!Cleanup, Trees!SetTaskPolicy,
        Isolated!SetTaskPolicy, Trees!SetCleanup, Isolated!SetCleanup,
        Trees!Checkout, Isolated!Checkout, Trees!RemovedByHand,
        Isolated!RemovedByHand, Trees!Save, Isolated!Save, Trees!Imported,
        Isolated!Imported, Trees!scan, Isolated!scan, Trees!Restart,
        Isolated!Restart, Trees!Next, Isolated!Next, Trees!TypeOK,
        Isolated!TypeOK, Trees!OwnersKnown, Isolated!OwnersKnown,
        Trees!ApprovedIsFrozen, Isolated!ApprovedIsFrozen,
        Trees!VerdictReachesTree, Isolated!VerdictReachesTree,
        Trees!Cardinality, Isolated!Cardinality
<1>1. Trees!Init <=> Isolated!Init
  OBVIOUS
<1>2. Trees!Next <=> Isolated!Next
  OBVIOUS
<1>3. Trees!vars = Isolated!vars
  OBVIOUS
<1>4. Trees!TypeOK <=> Isolated!TypeOK
  OBVIOUS
<1>5. Trees!OwnersKnown <=> Isolated!OwnersKnown
  OBVIOUS
<1>6. Trees!ApprovedIsFrozen <=> Isolated!ApprovedIsFrozen
  OBVIOUS
<1>7. Trees!VerdictReachesTree <=> Isolated!VerdictReachesTree
  OBVIOUS
<1> QED BY ONLY <1>1, <1>2, <1>3, <1>4, <1>5, <1>6, <1>7

LEMMA SameApprovals ==
    /\ Approvals!Init <=> Granted!Init
    /\ Approvals!Next <=> Granted!Next
    /\ Approvals!vars = Granted!vars
    /\ Approvals!TypeOK <=> Granted!TypeOK
    /\ Approvals!HonoredOnce <=> Granted!HonoredOnce
<1> USE DEF Approvals!None, Granted!None, Approvals!Low, Granted!Low,
        Approvals!Medium, Granted!Medium, Approvals!High, Granted!High,
        Approvals!Critical, Granted!Critical, Approvals!Ids, Granted!Ids,
        Approvals!FilesystemScope, Granted!FilesystemScope,
        Approvals!NetworkPolicy, Granted!NetworkPolicy, Approvals!Grantors,
        Granted!Grantors, Approvals!AuditEventKind, Granted!AuditEventKind,
        Approvals!policyState, Granted!policyState, Approvals!vars,
        Granted!vars, Approvals!Room, Granted!Room, Approvals!Act, Granted!Act,
        Approvals!Unlimited, Granted!Unlimited, Approvals!auto_threshold,
        Granted!auto_threshold, Approvals!autonomy_decision,
        Granted!autonomy_decision, Approvals!filesystem_in_scope,
        Granted!filesystem_in_scope, Approvals!RuleClasses,
        Granted!RuleClasses, Approvals!RiskClasses, Granted!RiskClasses,
        Approvals!evaluate_process, Granted!evaluate_process,
        Approvals!evaluate_shell, Granted!evaluate_shell, Approvals!roots,
        Granted!roots, Approvals!validate, Granted!validate, Approvals!FsRisk,
        Granted!FsRisk, Approvals!evaluate_filesystem,
        Granted!evaluate_filesystem, Approvals!network_permits,
        Granted!network_permits, Approvals!evaluate_network,
        Granted!evaluate_network, Approvals!SecretCategories,
        Granted!SecretCategories, Approvals!secrets_evaluate,
        Granted!secrets_evaluate, Approvals!evaluate_secret,
        Granted!evaluate_secret, Approvals!can_afford, Granted!can_afford,
        Approvals!evaluate_agent_spawn, Granted!evaluate_agent_spawn,
        Approvals!A, Granted!A, Approvals!Actions, Granted!Actions,
        Approvals!evaluate, Granted!evaluate, Approvals!Truncated,
        Granted!Truncated, Approvals!Recorded, Granted!Recorded,
        Approvals!record, Granted!record, Approvals!RecordedAgain,
        Granted!RecordedAgain, Approvals!from_events, Granted!from_events,
        Approvals!Init, Granted!Init, Approvals!Tick, Granted!Tick,
        Approvals!DeniedKind, Granted!DeniedKind, Approvals!EvaluateAction,
        Granted!EvaluateAction, Approvals!Configure, Granted!Configure,
        Approvals!SetAutonomy, Granted!SetAutonomy,
        Approvals!SetFilesystemScope, Granted!SetFilesystemScope,
        Approvals!SetNetworkPolicy, Granted!SetNetworkPolicy,
        Approvals!GrantSecretAllowance, Granted!GrantSecretAllowance,
        Approvals!IncreaseBudget, Granted!IncreaseBudget,
        Approvals!RecordBudget, Granted!RecordBudget, Approvals!Status,
        Granted!Status, Approvals!Known, Granted!Known, Approvals!SetStatus,
        Granted!SetStatus, Approvals!Kept, Granted!Kept, Approvals!prune,
        Granted!prune, Approvals!NewApproval, Granted!NewApproval,
        Approvals!Request, Granted!Request, Approvals!Grant, Granted!Grant,
        Approvals!Reject, Granted!Reject, Approvals!Honored, Granted!Honored,
        Approvals!Honor, Granted!Honor, Approvals!Save, Granted!Save,
        Approvals!Restart, Granted!Restart, Approvals!Next, Granted!Next,
        Approvals!TypeOK, Granted!TypeOK, Approvals!HonoredOnce,
        Granted!HonoredOnce, Approvals!Cardinality, Granted!Cardinality
<1>1. Approvals!Init <=> Granted!Init
  OBVIOUS
<1>2. Approvals!Next <=> Granted!Next
  OBVIOUS
<1>3. Approvals!vars = Granted!vars
  OBVIOUS
<1>4. Approvals!TypeOK <=> Granted!TypeOK
  OBVIOUS
<1>5. Approvals!HonoredOnce <=> Granted!HonoredOnce
  OBVIOUS
<1> QED BY ONLY <1>1, <1>2, <1>3, <1>4, <1>5

LEMMA SameRules ==
    /\ Approvals!GrantIsHonest <=> Granted!GrantIsHonest
    /\ Approvals!AutonomyOnlyAsks <=> Granted!AutonomyOnlyAsks
    /\ Approvals!AuditIsRecentHistory <=> Granted!AuditIsRecentHistory
<1> USE DEF Approvals!None, Granted!None, Approvals!Low, Granted!Low,
        Approvals!Medium, Granted!Medium, Approvals!High, Granted!High,
        Approvals!Critical, Granted!Critical, Approvals!Ids, Granted!Ids,
        Approvals!vars, Granted!vars, Approvals!Unlimited, Granted!Unlimited,
        Approvals!auto_threshold, Granted!auto_threshold,
        Approvals!autonomy_decision, Granted!autonomy_decision,
        Approvals!filesystem_in_scope, Granted!filesystem_in_scope,
        Approvals!RuleClasses, Granted!RuleClasses, Approvals!RiskClasses,
        Granted!RiskClasses, Approvals!evaluate_process,
        Granted!evaluate_process, Approvals!evaluate_shell,
        Granted!evaluate_shell, Approvals!roots, Granted!roots,
        Approvals!validate, Granted!validate, Approvals!FsRisk, Granted!FsRisk,
        Approvals!evaluate_filesystem, Granted!evaluate_filesystem,
        Approvals!network_permits, Granted!network_permits,
        Approvals!evaluate_network, Granted!evaluate_network,
        Approvals!SecretCategories, Granted!SecretCategories,
        Approvals!secrets_evaluate, Granted!secrets_evaluate,
        Approvals!evaluate_secret, Granted!evaluate_secret,
        Approvals!can_afford, Granted!can_afford,
        Approvals!evaluate_agent_spawn, Granted!evaluate_agent_spawn,
        Approvals!A, Granted!A, Approvals!Actions, Granted!Actions,
        Approvals!evaluate, Granted!evaluate, Approvals!Known, Granted!Known,
        Approvals!SetStatus, Granted!SetStatus, Approvals!Honored,
        Granted!Honored, Approvals!Honor, Granted!Honor,
        Approvals!GrantIsHonest, Granted!GrantIsHonest,
        Approvals!AutonomyOnlyAsks, Granted!AutonomyOnlyAsks,
        Approvals!AuditIsRecentHistory, Granted!AuditIsRecentHistory,
        Approvals!Cardinality, Granted!Cardinality
<1>1. Approvals!GrantIsHonest <=> Granted!GrantIsHonest
  OBVIOUS
<1>2. Approvals!AutonomyOnlyAsks <=> Granted!AutonomyOnlyAsks
  OBVIOUS
<1>3. Approvals!AuditIsRecentHistory <=> Granted!AuditIsRecentHistory
  OBVIOUS
<1> QED BY <1>1, <1>2, <1>3, PTL

LEMMA SameReplans ==
    /\ Replans!Init <=> Chained!Init
    /\ Replans!Next <=> Chained!Next
    /\ Replans!vars = Chained!vars
    /\ Replans!TypeOK <=> Chained!TypeOK
    /\ Replans!HistoryIsAChain <=> Chained!HistoryIsAChain
    /\ Replans!ReplansBounded <=> Chained!ReplansBounded
<1> USE DEF Replans!None, Chained!None, Replans!NoPlan, Chained!NoPlan,
        Replans!Plans, Chained!Plans, Replans!Conditions, Chained!Conditions,
        Replans!Phases, Chained!Phases, Replans!gateVars, Chained!gateVars,
        Replans!planVars, Chained!planVars, Replans!vars, Chained!vars,
        Replans!Act, Chained!Act, Replans!adaptiveState, Chained!adaptiveState,
        Replans!dedupe_key, Chained!dedupe_key, Replans!Rules, Chained!Rules,
        Replans!Rank, Chained!Rank, Replans!covered, Chained!covered,
        Replans!evaluate, Chained!evaluate, Replans!admit, Chained!admit,
        Replans!Keys, Chained!Keys, Replans!Manual, Chained!Manual,
        Replans!record_replan_signals, Chained!record_replan_signals,
        Replans!detect_replan_signals, Chained!detect_replan_signals,
        Replans!MergeConflict, Chained!MergeConflict, Replans!signal_replan,
        Chained!signal_replan, Replans!Superseded, Chained!Superseded,
        Replans!NextVersion, Chained!NextVersion, Replans!record_plan_version,
        Chained!record_plan_version, Replans!replan_workflow,
        Chained!replan_workflow, Replans!Keep, Chained!Keep,
        Replans!replan_approve, Chained!replan_approve, Replans!replan_reject,
        Chained!replan_reject, Replans!replan_edit, Chained!replan_edit,
        Replans!revert_workflow_to, Chained!revert_workflow_to,
        Replans!PlannerElsewhere, Chained!PlannerElsewhere,
        Replans!set_adaptive_policy, Chained!set_adaptive_policy,
        Replans!set_workflow_paused, Chained!set_workflow_paused,
        Replans!invalidate_task, Chained!invalidate_task, Replans!Observe,
        Chained!Observe, Replans!FindCritical, Chained!FindCritical,
        Replans!BudgetMoves, Chained!BudgetMoves, Replans!Tick, Chained!Tick,
        Replans!Save, Chained!Save, Replans!Restart, Chained!Restart,
        Replans!Init, Chained!Init, Replans!Next, Chained!Next, Replans!TypeOK,
        Chained!TypeOK, Replans!HistoryIsAChain, Chained!HistoryIsAChain,
        Replans!ReplansBounded, Chained!ReplansBounded, Replans!Cardinality,
        Chained!Cardinality
<1>1. Replans!Init <=> Chained!Init
  OBVIOUS
<1>2. Replans!Next <=> Chained!Next
  OBVIOUS
<1>3. Replans!vars = Chained!vars
  OBVIOUS
<1>4. Replans!TypeOK <=> Chained!TypeOK
  OBVIOUS
<1>5. Replans!HistoryIsAChain <=> Chained!HistoryIsAChain
  OBVIOUS
<1>6. Replans!ReplansBounded <=> Chained!ReplansBounded
  OBVIOUS
<1> QED BY ONLY <1>1, <1>2, <1>3, <1>4, <1>5, <1>6

LEMMA WorkflowParts ==
    /\ WorkflowInit => /\ Init /\ Trees!Init /\ Approvals!Init
                       /\ Replans!Init /\ Handover!Init /\ Told!Init
    /\ [WorkflowNext]_allVars => /\ [Next]_vars
                                 /\ [Trees!Next]_(Trees!vars)
                                 /\ [Approvals!Next]_(Approvals!vars)
                                 /\ [Replans!Next]_(Replans!vars)
                                 /\ [Handover!Next]_(Handover!vars)
                                 /\ [Told!Next]_(Told!vars)
<1>1. UNCHANGED allVars => UNCHANGED <<vars, wtVars, poVars, adVars, arVars, wkVars>>
  BY DEF allVars
<1>2. WorkflowNext => /\ Next \/ UNCHANGED vars
                      /\ Trees!Next \/ UNCHANGED wtVars
                      /\ Approvals!Next \/ UNCHANGED poVars
                      /\ Replans!Next \/ UNCHANGED adVars
                      /\ Handover!Next \/ UNCHANGED arVars
                      /\ Told!Next \/ UNCHANGED wkVars
  BY DEF WorkflowNext
<1>3. UNCHANGED wtVars => UNCHANGED Trees!vars
  BY DEF wtVars, Trees!vars
<1>4. UNCHANGED poVars => UNCHANGED Approvals!vars
  BY DEF poVars, Approvals!vars
<1>5. UNCHANGED adVars => UNCHANGED Replans!vars
  BY DEF adVars, Replans!vars
<1>6. UNCHANGED arVars => UNCHANGED Handover!vars
  BY DEF arVars, Handover!vars
<1>7. UNCHANGED wkVars => UNCHANGED Told!vars
  BY DEF wkVars, Told!vars
<1> QED BY <1>1, <1>2, <1>3, <1>4, <1>5, <1>6, <1>7 DEF WorkflowInit

LEMMA WorkflowOfParts ==
    WorkflowSpec => /\ Spec /\ Isolated!Spec /\ Granted!Spec /\ Chained!Spec
                    /\ Handover!Spec /\ Told!Spec
<1>1. WorkflowInit => Isolated!Init /\ Granted!Init /\ Chained!Init
  BY WorkflowParts, SameTrees, SameApprovals, SameReplans
<1>2. [Trees!Next]_(Trees!vars) => [Isolated!Next]_(Isolated!vars)
  BY SameTrees DEF Trees!vars, Isolated!vars
<1>3. [Approvals!Next]_(Approvals!vars) => [Granted!Next]_(Granted!vars)
  BY SameApprovals DEF Approvals!vars, Granted!vars
<1>4. [Replans!Next]_(Replans!vars) => [Chained!Next]_(Chained!vars)
  BY SameReplans DEF Replans!vars, Chained!vars
<1> QED BY <1>1, <1>2, <1>3, <1>4, WorkflowParts, PTL
        DEF WorkflowSpec, Spec, Isolated!Spec, Granted!Spec, Chained!Spec,
            Handover!Spec, Told!Spec

(* What the suite says of worktrees: each has one owner that is found      *)
(* again after a crash, what was approved is what is merged, and a task's  *)
(* verdict is its worktree's (restore, scan, capture_worktree_result).     *)
THEOREM WorkflowIsolates ==
    ASSUME Isolated!Bounds
    PROVE  WorkflowSpec => []IsolationHolds
<1>1. Isolated!OwnersKnown /\ Isolated!ApprovedIsFrozen /\ Isolated!VerdictReachesTree
        => IsolationHolds
  BY SameTrees DEF IsolationHolds
<1> QED BY <1>1, WorkflowOfParts, Isolated!OwnersAreKnown, Isolated!ApprovedStays,
           Isolated!VerdictStays, PTL

(* What the suite says of replans: plan versions are a chain with one end, *)
(* and there are no more of them than the highest limit set allows         *)
(* (replan_trigger, revert_workflow_to, restore).                          *)
THEOREM WorkflowReplans ==
    ASSUME Chained!Bounds
    PROVE  WorkflowSpec => []ReplanningHolds
<1>1. Chained!HistoryIsAChain /\ Chained!ReplansBounded => ReplanningHolds
  BY SameReplans DEF ReplanningHolds
<1> QED BY <1>1, WorkflowOfParts, Chained!HistoryIsOneChain, Chained!ReplansAreBounded,
           PTL

(* What the suite says of approvals: one lets one action through, once and *)
(* the one asked for, after a human granted it; a level of autonomy only   *)
(* asks; the trail is recent history (honor, autonomy_decision, record).   *)
THEOREM WorkflowAsks ==
    ASSUME Granted!Bounds
    PROVE  WorkflowSpec => ApprovalsHold
<1>1. Granted!HonoredOnce => Approvals!HonoredOnce
  BY SameApprovals
<1> QED BY <1>1, WorkflowOfParts, SameRules, Granted!GrantedOnce,
           Granted!GrantHonest, Granted!LevelsAsk, Granted!AuditIsRecent, PTL
        DEF ApprovalsHold

(* What the suite says of artifacts: a task is given what it declared, the *)
(* store knows who made it, and no report makes the verdict milder         *)
(* (can_access, register_task_artifacts, aggregate).                       *)
THEOREM WorkflowHandsOver ==
    ASSUME ArtifactBounds
    PROVE  WorkflowSpec => ArtifactsHold
<1> QED BY WorkflowOfParts, GivenGranted, LineageTrue, VerdictOnlyWorsens, PTL
        DEF ArtifactsHold

(* What the suite says of an agent at work: its record never repeats       *)
(* itself and ends as the session does; a user with its pane hears of      *)
(* every state that wants attention, once; and who follows its events ends *)
(* up where it is (process_chunk, finish, emit_agent_notifications).       *)
THEOREM WorkflowTells ==
    ASSUME WorkBounds
    PROVE  WorkflowSpec => []WorkHolds
<1>1. Told!ActivityIsNews /\ Told!VerdictIsOne /\ Told!AttentionIsHeard /\ Told!WatcherAgrees
        => WorkHolds
  BY DEF WorkHolds
<1> QED BY <1>1, WorkflowOfParts, ActivityIsNew, VerdictsAgree, AttentionHeard,
           WatchersAgree, PTL

(* The state of every component of the suite has its type.                 *)
THEOREM WorkflowTypes ==
    ASSUME Isolated!Bounds, Granted!Bounds, Chained!Bounds, ArtifactBounds, WorkBounds
    PROVE  WorkflowSpec => []TypesOK
<1>1. (/\ TypeOK /\ Isolated!TypeOK /\ Granted!TypeOK /\ Chained!TypeOK
       /\ Handover!TypeOK /\ Told!TypeOK)
      => TypesOK
  BY SameTrees, SameApprovals, SameReplans DEF TypesOK
<1>2. Spec => []TypeOK
  BY PlannerTypes
<1>3. Isolated!Spec => []Isolated!TypeOK
  BY Isolated!WorktreeTypes
<1>4. Granted!Spec => []Granted!TypeOK
  BY Granted!PolicyTypes
<1>5. Chained!Spec => []Chained!TypeOK
  BY Chained!AdaptiveTypes
<1> QED BY <1>1, <1>2, <1>3, <1>4, <1>5, WorkflowOfParts, HandoverIsTyped, WorkTypes, PTL
=============================================================================
