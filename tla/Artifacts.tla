----------------------------- MODULE Artifacts -----------------------------
(***************************************************************************)
(* What tasks hand to one another: the artifact store, the grants that let *)
(* a task have an artifact, the copy into its worktree when its agent is   *)
(* spawned, and the reviewers' reports with their consensus.               *)
(* TaskScheduler says how a task comes to run and end; here a pass of the  *)
(* scheduler is one action, because where in it the inputs are looked at,  *)
(* copied and registered is what decides who gets what.                    *)
(***************************************************************************)
EXTENDS Integers, Sequences, SequencesExt, FiniteSets, FiniteSetsExt, Relation

CONSTANTS
    Tasks, Deps,     \* the graph: Deps[x] is what x depends on
    Findings,        \* ids that reviewers give their findings
    Grades,          \* the severities they give them
    MaxArtifacts,    \* max_artifacts
    MaxIds,          \* bound: artifacts the tasks produce
    MaxReports,      \* bound: reports of one task
    MaxActs,         \* bound: what users and clients do
    MaxRestarts      \* bound: restarts

VARIABLES
    task,     \* [status, inputs, outputs] of each task
    store,    \* the records: [id, creator, at, payload], payload when there
              \* is one to copy, in the store or the producer's worktree
    reports,  \* review_reports
    invalid,  \* artifact_invalidations
    given,    \* what was copied into each task's worktree
    made,     \* artifacts produced so far: their ids, and the time
    acts, restarts

vars == <<task, store, reports, invalid, given, made, acts, restarts>>

(* Info, Low, Medium, High, Critical.                                      *)
Severity == 1..5
Medium == 3
High == 4
Critical == 5
Verdicts == {"Pass", "Warning", "Fail"}

Outputs == 1..MaxIds
Refs == [uri : BOOLEAN, id : Outputs \cup Findings]

Init ==
    /\ task = [x \in Tasks |-> [status |-> IF Deps[x] = {} THEN "Ready" ELSE "Pending",
                                inputs |-> {}, outputs |-> {}]]
    /\ store = {} /\ invalid = {} /\ made = 0
    /\ reports = [x \in Tasks |-> <<>>]
    /\ given = [x \in Tasks |-> {}]
    /\ acts = 0 /\ restarts = 0

Ids(S) == {r.id : r \in S}

-----------------------------------------------------------------------------
(* The store.                                                              *)

Oldest(S) == {r \in S : \A q \in S : r.at <= q.at}

(* What the store may be after a record came in: at the cap the oldest     *)
(* record goes first, even when the new one takes the place of another.    *)
register(S, rec) ==
    LET room == IF Cardinality(S) >= MaxArtifacts
                THEN {S \ {r} : r \in Oldest(S)} ELSE {S}
    IN {{q \in R : q.id # rec.id} \cup {rec} : R \in room}

-----------------------------------------------------------------------------
(* Who may have what.                                                      *)

producer_of(id) == {x \in Tasks : id \in task[x].outputs}

is_dependency(x, d) ==
    x # d /\ TransitiveClosure([a, b \in Tasks |-> b \in Deps[a]], Tasks)[x, d]

(* Fault: naming an artifact is enough, in whatever form.                  *)
FaultAccessNamed(x, id) == \E r \in task[x].inputs : r.id = id

(* The declared input is compared as it was written: a URI names the id,   *)
(* but is not the id.                                                      *)
can_access(x, id) ==
    \/ \E r \in task[x].inputs : ~r.uri /\ r.id = id
    \/ \E p \in producer_of(id) : is_dependency(x, p)

(* What the spawn of x copies: the declared inputs it may have, when there *)
(* is something to copy, in the store or in the producer's worktree.       *)
Materialized(x) ==
    {r.id : r \in {q \in task[x].inputs :
        /\ can_access(x, q.id)
        /\ \E rec \in store : rec.id = q.id /\ rec.payload}}

-----------------------------------------------------------------------------
(* What users and clients ask.                                             *)

Asked == acts < MaxActs /\ acts' = acts + 1

task_add_input_artifact(x, ref) ==
    /\ Asked /\ task[x].status \in {"Pending", "Ready"}
    /\ task' = [task EXCEPT ![x].inputs = @ \cup {ref}]
    /\ UNCHANGED <<store, reports, invalid, given, made, restarts>>

invalidate_artifact(id) ==
    /\ Asked /\ id \in Ids(store)
    /\ invalid' = invalid \cup {id}
    /\ UNCHANGED <<task, store, reports, given, made, restarts>>

(* Fault: a reviewer's report takes the place of the one before.           *)
FaultLastReport(before, report) == <<report>>

WithReport(before, report) == Append(before, report)

(* A report with at most one finding; the finding is an artifact too, with *)
(* the path it is about and no payload.                                    *)
record_review_report(x, verdict, severities, id) ==
    /\ Asked /\ Len(reports[x]) < MaxReports
    /\ reports' = [reports EXCEPT ![x] = WithReport(@,
                    [verdict |-> verdict, findings |-> severities])]
    /\ IF severities = <<>> THEN UNCHANGED store
       ELSE store' \in register(store, [id |-> id, creator |-> x, at |-> made,
                                        payload |-> FALSE])
    /\ UNCHANGED <<task, invalid, given, made, restarts>>

(* The default policy: any Critical, any Fail, one High.  The findings of  *)
(* all the reports count.                                                  *)
Consensus == [ApprovedCandidate |-> 0, Warning |-> 1, NeedsReview |-> 2,
              Critical |-> 3]

aggregate(rs) ==
    LET found == UNION {Range(r.findings) : r \in Range(rs)}
        failed == \E r \in Range(rs) : r.verdict = "Fail"
    IN IF Critical \in found THEN Consensus.Critical
       ELSE IF failed \/ High \in found THEN Consensus.NeedsReview
       ELSE IF \E s \in found : s >= Medium THEN Consensus.Warning
       ELSE Consensus.ApprovedCandidate

-----------------------------------------------------------------------------
(* A pass of the scheduler and what the engine does with its commands and  *)
(* events: the inputs of the tasks that are Ready are looked up, then      *)
(* agents that ended are observed, tasks become Ready and are started, and *)
(* last the outputs of what ended are registered.                          *)

Missing(x) == {r \in task[x].inputs : r.id \notin Ids(store)}
artifact_blocked == {x \in Tasks : task[x].status = "Ready" /\ Missing(x) # {}}

(* Fault: what was registered is not listed among the task's outputs.      *)
FaultUnlisted(x, ended, n) == task[x].outputs

OutputsAfter(x, ended, n) ==
    task[x].outputs \cup (IF x \in ended THEN (made + 1)..(made + n) ELSE {})

(* At most one agent ends in a pass, with at most one artifact that is not *)
(* in the store yet: MaxOutputs == 1.                                      *)
MaxOutputs == 1

step_tasks(ended, popped, n, payload) ==
    LET completed == ended \cup {x \in Tasks : task[x].status = "Completed"}
        promoted == {x \in Tasks : task[x].status = "Pending"
                                   /\ Deps[x] \subseteq completed}
        ready == promoted \cup {x \in Tasks : task[x].status = "Ready"}
        started == popped \ artifact_blocked
        status(x) == IF x \in ended THEN "Completed"
                     ELSE IF x \in started THEN "Running"
                     ELSE IF x \in popped THEN "Blocked"
                     ELSE IF x \in promoted THEN "Ready" ELSE task[x].status
    IN /\ popped \subseteq ready /\ ended \cup popped # {}
       /\ task' = [x \in Tasks |-> [status |-> status(x), inputs |-> task[x].inputs,
                                    outputs |-> OutputsAfter(x, ended, n)]]
       /\ given' = [x \in Tasks |-> IF x \in started THEN Materialized(x) ELSE given[x]]
       /\ made' = made + n
       /\ IF n = 0 THEN UNCHANGED store
          ELSE \E x \in ended : store' \in register(store,
                 [id |-> made + 1, creator |-> x, at |-> made + 1, payload |-> payload])
       /\ UNCHANGED <<reports, invalid, acts, restarts>>

Step ==
    LET Running == {x \in Tasks : task[x].status = "Running"}
    IN \E ended \in {{}} \cup {{x} : x \in Running}, popped \in SUBSET Tasks :
         \E n \in 0..(IF ended = {} THEN 0 ELSE Min({MaxOutputs, MaxIds - made})),
            payload \in BOOLEAN :
           step_tasks(ended, popped, n, payload)

-----------------------------------------------------------------------------
(* Closing the application, and starting it again from what it saved       *)
(* (StateFile says what a crash leaves of the file).  Records come back    *)
(* with their payloads; an agent that ran is gone.                         *)

Restart ==
    /\ restarts < MaxRestarts /\ restarts' = restarts + 1
    /\ task' = [x \in Tasks |-> [task[x] EXCEPT
                  !.status = IF @ = "Running" THEN "Interrupted" ELSE @]]
    /\ UNCHANGED <<store, reports, invalid, given, made, acts>>

Next ==
    \/ Step
    \/ \E x \in Tasks, ref \in Refs : task_add_input_artifact(x, ref)
    \/ \E id \in Outputs \cup Findings : invalidate_artifact(id)
    \/ \E x \in Tasks, v \in Verdicts, id \in Findings :
         \E fs \in {<<>>} \cup {<<s>> : s \in Grades} :
           record_review_report(x, v, fs, id)
    \/ Restart

Spec == Init /\ [][Next]_vars

-----------------------------------------------------------------------------
(* Properties.                                                             *)

(* TypeOK: the store is a map, within its cap.                             *)
TypeOK ==
    /\ Cardinality(store) <= MaxArtifacts
    /\ \A x \in Tasks : \A r \in Range(reports[x]) : Range(r.findings) \subseteq Severity
    /\ Cardinality(Ids(store)) = Cardinality(store)
    /\ \A x \in Tasks : /\ task[x].inputs \subseteq Refs
                        /\ task[x].outputs \subseteq Outputs
                        /\ given[x] \subseteq Outputs

(* GivenWasGranted: what a task finds in its worktree it has declared, and *)
(* it declared it by its id or is downstream of the task that made it,     *)
(* whatever was evicted, invalidated or restored since (can_access).       *)
GivenWasGranted ==
    \A x \in Tasks : \A id \in given[x] :
      /\ \E r \in task[x].inputs : r.id = id
      /\ \/ [uri |-> FALSE, id |-> id] \in task[x].inputs
         \/ \E p \in Tasks : id \in task[p].outputs /\ is_dependency(x, p)

(* LineageIsTrue: a record that a task made is listed by that task, by no  *)
(* other, and only by it: lineage is the same read from the store and from *)
(* the graph, after a restart too (register_task_artifacts, build).        *)
LineageIsTrue ==
    \A rec \in store : rec.id \in Outputs =>
      \A x \in Tasks : rec.id \in task[x].outputs <=> rec.creator = x

(* ConsensusOnlyWorsens: another report never makes the reviewers' verdict *)
(* on a task milder, nor does anything else (record_review_report,         *)
(* aggregate).                                                             *)
ConsensusOnlyWorsens ==
    [][\A x \in Tasks : aggregate(reports'[x]) >= aggregate(reports[x])]_vars

=============================================================================
