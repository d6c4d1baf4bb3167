---------------------------- MODULE WorktreeProofs ----------------------------
(***************************************************************************)
(* What is proved about Worktrees, for every set of tasks, every policy    *)
(* and every number of retries, restarts and acts of the user: who owns a  *)
(* worktree is never mistaken, what a human approved is not touched again, *)
(* and the verdict is not lost, whenever the application is killed and     *)
(* whatever it had saved by then.                                          *)
(*                                                                         *)
(* The state file is why the invariants are not inductive: what a restart  *)
(* brings back was true when it was saved.  Each has a counterpart about   *)
(* the saved state, which says that nothing has happened since to what it  *)
(* calls approved.                                                         *)
(***************************************************************************)
EXTENDS Worktrees, TLAPS

(* The tasks may be tried again any number of times, also never.           *)
Bounds == MaxRetries \in Nat

Trees == Wt \cup {NoWorktree}
Statuses == {"None", "Ready", "Running", "NeedsReview", "Completed", "Failed",
             "Cancelled", "Interrupted"}
Task == [status : Statuses, attempt : 0..(MaxRetries + 1), worktree : Trees]
States == {"Active", "Completed", "NeedsReview", "Approved", "Merged"}
Record == [state : States, base : BOOLEAN, orphaned : BOOLEAN, owner : Tasks \cup {None}]
Frozen == {"Approved", "Merged"}

(* Every variable the invariants look at has its type; a saved state is a  *)
(* state there was.                                                        *)
Types ==
    /\ task \in [Tasks -> Task] /\ saved.task \in [Tasks -> Task]
    /\ rec \in [Wt -> Record \cup {NoRecord}] /\ saved.rec \in [Wt -> Record \cup {NoRecord}]
    /\ dirs \subseteq branches /\ branches \subseteq Wt
    /\ tip \in [Wt -> Nat] /\ approvedTip \in [Wt -> Nat]

(* The worktree of a task is one of its own attempts.                      *)
OwnIn(tk) ==
    \A t \in Tasks : tk[t].worktree # NoWorktree => tk[t].worktree[1] = t
Own == OwnIn(task) /\ OwnIn(saved.task)

(* A record has a branch, unless a restart brought it back from before the *)
(* branch was removed.                                                     *)
Branched ==
    /\ \A w \in Recorded(rec) \ doubtful : w \in branches
    /\ \A w \in Recorded(saved.rec) \ (doubtful \cup unsaved) : w \in branches

(* Who has a worktree that is approved or merged is done with it.          *)
Done(tk, w) == \A t \in Tasks : tk[t].worktree = w => tk[t].status = "Completed"

(* What is approved stays as it was approved.                              *)
FrozenNow ==
    \A w \in Wt \ doubtful : rec[w].state \in Frozen =>
        tip[w] = approvedTip[w] /\ Done(task, w)

(* What was approved when it was saved still is, or is known to be gone.   *)
FrozenSaved ==
    \A w \in Wt \ (doubtful \cup unsaved) : saved.rec[w].state \in Frozen =>
        rec[w].state \in Frozen /\ Done(saved.task, w)

(* A task that was done when it was saved has not been touched since.      *)
DoneStays ==
    \A t \in Tasks : saved.task[t].status = "Completed" => task[t] = saved.task[t]

(* The verdict on a task that was done when it was saved is with it, or    *)
(* the worktree has gone for good.                                         *)
VerdictSaved ==
    \A t \in Tasks :
        LET w == saved.task[t].worktree IN
        saved.task[t].status = "Completed" /\ w \in Wt \ (doubtful \cup unsaved) =>
            \/ saved.rec[w].state \in Frozen
            \/ w \notin Recorded(saved.rec) /\ w \notin dirs

Reviewed == \A m \in merges : m.reviewed

IInv ==
    /\ Types /\ Own /\ Branched /\ FrozenNow /\ FrozenSaved /\ Reviewed
    /\ DoneStays /\ VerdictSaved /\ OwnersKnown /\ VerdictReachesTree

-----------------------------------------------------------------------------
(* The operators of the manager.                                           *)

LEMMA NotATree == NoWorktree \notin Wt
  BY DEF NoWorktree, Wt

LEMMA Unrecorded == NoRecord \notin Record /\ NoRecord.state \notin Frozen
  BY DEF NoRecord, Record, States, Frozen

(* SetState moves one record, if there is one, and nothing else of it.     *)
LEMMA Sets ==
    ASSUME NEW S, NEW s \in S, NEW w \in Wt,
           NEW r \in [Wt -> [state : S, base : BOOLEAN, orphaned : BOOLEAN,
                             owner : Tasks \cup {None}] \cup {NoRecord}]
    PROVE  /\ SetState(r, w, s) \in
                [Wt -> [state : S, base : BOOLEAN, orphaned : BOOLEAN,
                        owner : Tasks \cup {None}] \cup {NoRecord}]
           /\ \A x \in Wt \ {w} : SetState(r, w, s)[x] = r[x]
           /\ r[w] = NoRecord => SetState(r, w, s)[w] = NoRecord
           /\ r[w] # NoRecord =>
                SetState(r, w, s)[w] = [state |-> s, base |-> r[w].base,
                                        orphaned |-> r[w].orphaned, owner |-> r[w].owner]
<1> DEFINE R == [state : S, base : BOOLEAN, orphaned : BOOLEAN, owner : Tasks \cup {None}]
           e == IF r[w] = NoRecord THEN r[w] ELSE [r[w] EXCEPT !.state = s]
<1>1. SetState(r, w, s) = [r EXCEPT ![w] = e]
  BY DEF SetState
<1>2. r[w] \in R \cup {NoRecord}
  OBVIOUS
<1>3. r[w] # NoRecord =>
        /\ e = [state |-> s, base |-> r[w].base, orphaned |-> r[w].orphaned, owner |-> r[w].owner]
        /\ e \in R
  BY <1>2
<1>4. e \in R \cup {NoRecord} /\ (r[w] = NoRecord => e = NoRecord)
  BY <1>3
<1> HIDE DEF e, R
<1>5. /\ SetState(r, w, s) \in [Wt -> R \cup {NoRecord}]
      /\ SetState(r, w, s)[w] = e
      /\ \A x \in Wt \ {w} : SetState(r, w, s)[x] = r[x]
  <2>1. r \in [Wt -> R \cup {NoRecord}]
    BY DEF R
  <2> QED BY <1>1, <1>4, <2>1
<1> QED BY <1>3, <1>4, <1>5 DEF R

(* What moves the worktree w of a task that is not done: nobody approves,  *)
(* makes, removes or gives away a record by it.                            *)
Moved(r, w, s) ==
    /\ s \in [Wt -> Record \cup {NoRecord}]
    /\ \A x \in Wt \ {w} : s[x] = r[x]
    /\ w \in Wt =>
        /\ s[w] = NoRecord <=> r[w] = NoRecord
        /\ s[w].owner = r[w].owner /\ s[w].orphaned = r[w].orphaned
        /\ s[w].state \in Frozen => r[w].state \in Frozen

Records == [Wt -> Record \cup {NoRecord}]

LEMMA Stills == ASSUME NEW r \in Records, NEW w \in Trees PROVE Moved(r, w, r)
  BY DEF Records, Moved

LEMMA SetsMoved ==
    ASSUME NEW r \in Records, NEW w \in Wt, NEW s \in States \ Frozen
    PROVE  Moved(r, w, SetState(r, w, s))
<1>1. r[w] \in Record \cup {NoRecord} /\ s \in States
  BY DEF Records
<1>2. r \in [Wt -> [state : States, base : BOOLEAN, orphaned : BOOLEAN,
                    owner : Tasks \cup {None}] \cup {NoRecord}]
  BY DEF Records, Record
<1> DEFINE u == SetState(r, w, s)
<1>3. /\ u \in Records
      /\ \A x \in Wt \ {w} : u[x] = r[x]
      /\ r[w] = NoRecord => u[w] = NoRecord
      /\ r[w] # NoRecord => u[w] = [state |-> s, base |-> r[w].base,
                                    orphaned |-> r[w].orphaned, owner |-> r[w].owner]
  BY <1>1, <1>2, Sets DEF Records, Record
<1> SUFFICES Moved(r, w, u)
  OBVIOUS
<1> HIDE DEF u
<1>4. CASE r[w] = NoRecord
  BY <1>3, <1>4 DEF Moved, Records
<1>5. CASE r[w] # NoRecord
  <2>1. u[w].state = s /\ u[w].owner = r[w].owner /\ u[w].orphaned = r[w].orphaned
    BY <1>3, <1>5
  <2>2. u[w] # NoRecord
    <3>1. s # "None"
      BY DEF States
    <3> QED BY <2>1, <3>1 DEF NoRecord
  <2>3. s \notin Frozen
    OBVIOUS
  <2> QED BY <1>3, <1>5, <2>1, <2>2, <2>3 DEF Moved, Records
<1> QED BY <1>4, <1>5

LEMMA Captures ==
    ASSUME NEW r \in Records, NEW w \in Trees
    PROVE  /\ Moved(r, w, capture_worktree_result(r, w))
           /\ w \in Wt /\ r[w].state \in Frozen => capture_worktree_result(r, w) = r
<1>1. "NeedsReview" \in States \ Frozen
  BY DEF States, Frozen
<1>2. w # NoWorktree => w \in Wt
  BY DEF Trees
<1>3. w # NoWorktree => Moved(r, w, SetState(r, w, "NeedsReview"))
  BY <1>1, <1>2, SetsMoved
<1>4. Moved(r, w, r)
  BY Stills
<1>5. Moved(r, w, capture_worktree_result(r, w))
  BY <1>3, <1>4 DEF capture_worktree_result
<1> QED BY <1>5 DEF capture_worktree_result, Frozen

LEMMA Preserves ==
    ASSUME NEW r \in Records, NEW w \in Trees
    PROVE  Moved(r, w, preserve_worktree(r, w))
<1>1. "Completed" \in States \ Frozen
  BY DEF States, Frozen
<1>2. CASE w = NoWorktree
  BY <1>2, Stills DEF preserve_worktree
<1>3. CASE w # NoWorktree
  <2>1. w \in Wt
    BY <1>3 DEF Trees
  <2> QED BY <1>1, <1>3, <2>1, SetsMoved DEF preserve_worktree
<1> QED BY <1>2, <1>3

-----------------------------------------------------------------------------
(* The steps of the tasks.                                                 *)

Elsewhere == UNCHANGED <<saved, merges, unsaved, doubtful>>

(* A task that is not done takes a step, in its worktree or back to none.  *)
TaskMoves(t, e) ==
    /\ task[t].status # "Completed" /\ e.status # "Completed"
    /\ e \in Task /\ e.worktree \in {task[t].worktree, NoWorktree}
    /\ task' = [task EXCEPT ![t] = e]
    /\ Moved(rec, task[t].worktree, rec')
    /\ UNCHANGED <<dirs, branches, tip, approvedTip>>
    /\ Elsewhere

LEMMA OthersElsewhere ==
    ASSUME Types, Own, NEW t \in Tasks, NEW x \in Tasks, x # t, task[t].worktree # NoWorktree
    PROVE  task[x].worktree # task[t].worktree
  BY DEF Own, OwnIn

LEMMA MovesKept ==
    ASSUME Bounds, IInv, NEW t \in Tasks, NEW e, TaskMoves(t, e)
    PROVE  IInv'
<1> DEFINE w == task[t].worktree
<1> USE DEF IInv
<1>1. w \in Trees /\ task \in [Tasks -> Task] /\ NoWorktree \notin Wt
  BY NotATree DEF Types, Task
<1>2. /\ task' \in [Tasks -> Task]
      /\ \A x \in Tasks : x # t => task'[x] = task[x]
      /\ task'[t] = e
  BY <1>1 DEF TaskMoves
<1>3. /\ rec' \in [Wt -> Record \cup {NoRecord}]
      /\ \A x \in Wt \ {w} : rec'[x] = rec[x]
      /\ w \in Wt =>
          /\ rec'[w] = NoRecord <=> rec[w] = NoRecord
          /\ rec'[w].owner = rec[w].owner /\ rec'[w].orphaned = rec[w].orphaned
          /\ rec'[w].state \in Frozen => rec[w].state \in Frozen
  BY DEF TaskMoves, Moved
<1>4. UNCHANGED <<dirs, branches, tip, approvedTip, saved, merges, unsaved, doubtful>>
  BY DEF TaskMoves, Elsewhere
<1>5. /\ task[t].status # "Completed" /\ e.status # "Completed"
      /\ e.worktree \in {w, NoWorktree}
  BY DEF TaskMoves
<1>6. w \in Wt \ doubtful => rec[w].state \notin Frozen
  BY <1>5 DEF FrozenNow, Done
<1>7. Recorded(rec)' = Recorded(rec)
  BY <1>3 DEF Recorded
<1>8. \A x \in Tasks : x # t => task[x].worktree # w \/ w = NoWorktree
  BY OthersElsewhere
<1> HIDE DEF w
<1>9. Types' /\ Branched' /\ Reviewed'
  BY <1>2, <1>3, <1>4, <1>7 DEF Types, Branched, Reviewed
<1>10. Own'
  BY <1>2, <1>4, <1>5 DEF Own, OwnIn, w
<1>11. FrozenNow'
  <2> SUFFICES ASSUME NEW x \in Wt \ doubtful, rec'[x].state \in Frozen
               PROVE  tip[x] = approvedTip[x] /\ Done(task', x)
    BY <1>4 DEF FrozenNow
  <2>1. x # w /\ rec'[x] = rec[x]
    BY <1>3, <1>6
  <2>2. tip[x] = approvedTip[x] /\ Done(task, x)
    BY <2>1 DEF FrozenNow
  <2>3. e.worktree # x
    BY <1>1, <1>5, <2>1
  <2> QED BY <1>2, <2>2, <2>3 DEF Done
<1>12. FrozenSaved'
  <2> SUFFICES ASSUME NEW x \in Wt \ (doubtful \cup unsaved), saved.rec[x].state \in Frozen
               PROVE  rec'[x].state \in Frozen /\ Done(saved.task, x)
    BY <1>4 DEF FrozenSaved
  <2>1. rec[x].state \in Frozen /\ Done(saved.task, x)
    BY DEF FrozenSaved
  <2>2. x # w
    BY <1>6, <2>1
  <2> QED BY <1>3, <2>1, <2>2
<1>13. DoneStays' /\ VerdictSaved'
  BY <1>2, <1>4, <1>5, <1>7 DEF DoneStays, VerdictSaved
<1>14. OwnersKnown'
  <2> SUFFICES ASSUME NEW x \in Tasks, task'[x].worktree \in dirs \ doubtful
               PROVE  LET r == rec'[task'[x].worktree]
                      IN  r # NoRecord /\ r.owner = x /\ ~r.orphaned
    BY <1>4 DEF OwnersKnown
  <2>1. dirs \subseteq Wt
    BY DEF Types
  <2>2. task'[x].worktree = task[x].worktree
    BY <1>1, <1>2, <1>5, <2>1 DEF w
  <2>3. LET r == rec[task[x].worktree] IN r # NoRecord /\ r.owner = x /\ ~r.orphaned
    BY <2>2 DEF OwnersKnown
  <2>4. task[x].worktree \in Wt
    BY <2>1, <2>2
  <2> QED BY <1>3, <2>2, <2>3, <2>4
<1>15. VerdictReachesTree'
  <2> SUFFICES ASSUME NEW x \in Tasks, task'[x].status = "Completed",
                      task'[x].worktree \notin doubtful \cup {NoWorktree}
               PROVE  \/ task'[x].worktree \notin Recorded(rec)
                      \/ rec'[task'[x].worktree].state \in {"Approved", "Merged"}
    BY <1>4, <1>7 DEF VerdictReachesTree
  <2>1. x # t /\ task'[x] = task[x]
    BY <1>2, <1>5
  <2>2. task[x].worktree \in Wt /\ task[x].worktree # w
    BY <1>1, <1>8, <2>1 DEF Types, Task, Trees
  <2> QED BY <1>3, <2>1, <2>2 DEF VerdictReachesTree
<1> QED BY <1>9, <1>10, <1>11, <1>12, <1>13, <1>14, <1>15

(* A task that is not done gets a new worktree.                            *)
TreeMade(t, w, e) ==
    /\ task[t].status # "Completed" /\ e.status # "Completed"
    /\ e \in Task /\ e.worktree = w /\ w[1] = t
    /\ w \notin Recorded(rec)
    /\ task' = [task EXCEPT ![t] = e]
    /\ rec' \in [Wt -> Record \cup {NoRecord}]
    /\ \A x \in Wt \ {w} : rec'[x] = rec[x]
    /\ rec'[w] # NoRecord /\ rec'[w].state \notin Frozen
    /\ rec'[w].owner = t /\ ~rec'[w].orphaned
    /\ dirs' = dirs \cup {w} /\ branches' = branches \cup {w}
    /\ tip' = [tip EXCEPT ![w] = 0]
    /\ UNCHANGED approvedTip /\ Elsewhere

LEMMA MadeKept ==
    ASSUME Bounds, IInv, NEW t \in Tasks, NEW w \in Wt, NEW e, TreeMade(t, w, e)
    PROVE  IInv'
<1> USE DEF IInv
<1>1. /\ task \in [Tasks -> Task] /\ NoWorktree \notin Wt
      /\ tip \in [Wt -> Nat] /\ dirs \subseteq branches /\ branches \subseteq Wt
  BY NotATree DEF Types
<1>2. /\ task' \in [Tasks -> Task]
      /\ \A x \in Tasks : x # t => task'[x] = task[x]
      /\ task'[t] = e /\ e.worktree = w
  BY <1>1 DEF TreeMade
<1>3. /\ rec' \in [Wt -> Record \cup {NoRecord}]
      /\ \A x \in Wt \ {w} : rec'[x] = rec[x]
      /\ rec[w] = NoRecord /\ rec'[w] # NoRecord
      /\ rec'[w].state \notin Frozen /\ rec'[w].owner = t /\ ~rec'[w].orphaned
  BY DEF TreeMade, Recorded
<1>4. /\ UNCHANGED <<approvedTip, saved, merges, unsaved, doubtful>>
      /\ dirs' = dirs \cup {w} /\ branches' = branches \cup {w}
  BY DEF TreeMade, Elsewhere
<1>5. task[t].status # "Completed" /\ e.status # "Completed" /\ w[1] = t
  BY DEF TreeMade
<1>6. tip' \in [Wt -> Nat] /\ \A x \in Wt \ {w} : tip'[x] = tip[x]
  <2>1. tip' = [tip EXCEPT ![w] = 0] /\ 0 \in Nat
    BY DEF TreeMade
  <2> QED BY <1>1, <2>1
<1>7. Recorded(rec)' = Recorded(rec) \cup {w}
  BY <1>3 DEF Recorded
<1>8. w # NoWorktree
  BY <1>1
<1>9. \A x \in Tasks : x # t => task[x].worktree # w /\ saved.task[x].worktree # w
  BY <1>5, <1>8 DEF Own, OwnIn
<1>10. Types' /\ Branched' /\ Reviewed'
  <2>1. saved'.rec = saved.rec /\ saved'.task = saved.task
    BY <1>4
  <2>2. Types'
    BY <1>1, <1>2, <1>3, <1>4, <1>6, <2>1 DEF Types
  <2>3. Branched' /\ Reviewed'
    BY <1>4, <1>7, <2>1 DEF Branched, Reviewed, Recorded
  <2> QED BY <2>2, <2>3
<1>11. Own'
  BY <1>2, <1>4, <1>5 DEF Own, OwnIn
<1>12. FrozenNow'
  <2> SUFFICES ASSUME NEW x \in Wt \ doubtful, rec'[x].state \in Frozen
               PROVE  tip'[x] = approvedTip[x] /\ Done(task', x)
    BY <1>4 DEF FrozenNow
  <2>1. x # w /\ rec'[x] = rec[x] /\ tip'[x] = tip[x]
    BY <1>3, <1>6
  <2> QED BY <1>2, <2>1 DEF FrozenNow, Done
<1>13. FrozenSaved'
  <2> SUFFICES ASSUME NEW x \in Wt \ (doubtful \cup unsaved), saved.rec[x].state \in Frozen
               PROVE  rec'[x].state \in Frozen /\ Done(saved.task, x)
    BY <1>4 DEF FrozenSaved
  <2>1. rec[x].state \in Frozen /\ Done(saved.task, x)
    BY DEF FrozenSaved
  <2>2. x # w
    BY <1>3, <2>1, Unrecorded
  <2> QED BY <1>3, <2>1, <2>2
<1>14. DoneStays'
  BY <1>2, <1>4, <1>5 DEF DoneStays
<1>15. VerdictSaved'
  <2> SUFFICES ASSUME NEW x \in Tasks, saved.task[x].status = "Completed",
                      saved.task[x].worktree \in Wt \ (doubtful \cup unsaved)
               PROVE  \/ saved.rec[saved.task[x].worktree].state \in Frozen
                      \/ /\ saved.task[x].worktree \notin Recorded(saved.rec)
                         /\ saved.task[x].worktree \notin dirs'
    BY <1>4 DEF VerdictSaved
  <2>1. x # t
    BY <1>5 DEF DoneStays
  <2>2. saved.task[x].worktree # w
    BY <1>9, <2>1
  <2> QED BY <1>4, <2>2 DEF VerdictSaved
<1>16. OwnersKnown'
  <2> SUFFICES ASSUME NEW x \in Tasks, task'[x].worktree \in dirs' \ doubtful
               PROVE  LET r == rec'[task'[x].worktree]
                      IN  r # NoRecord /\ r.owner = x /\ ~r.orphaned
    BY <1>4 DEF OwnersKnown
  <2>1. CASE x = t
    BY <1>2, <1>3, <2>1
  <2>2. CASE x # t
    <3>1. task'[x] = task[x] /\ task[x].worktree # w /\ task[x].worktree \in dirs \ doubtful
      BY <1>2, <1>4, <1>9, <2>2
    <3>2. rec'[task[x].worktree] = rec[task[x].worktree]
      BY <1>1, <1>3, <3>1
    <3> QED BY <3>1, <3>2 DEF OwnersKnown
  <2> QED BY <2>1, <2>2
<1>17. VerdictReachesTree'
  <2> SUFFICES ASSUME NEW x \in Tasks, task'[x].status = "Completed",
                      task'[x].worktree \notin doubtful \cup {NoWorktree}
               PROVE  \/ task'[x].worktree \notin Recorded(rec)'
                      \/ rec'[task'[x].worktree].state \in {"Approved", "Merged"}
    BY <1>4 DEF VerdictReachesTree
  <2>1. x # t /\ task'[x] = task[x] /\ task[x].worktree # w
    BY <1>2, <1>5, <1>9
  <2>2. task[x].worktree \in Wt
    BY <1>1, <2>1 DEF Task, Trees
  <2> QED BY <1>3, <1>7, <2>1, <2>2 DEF VerdictReachesTree
<1> QED BY <1>10, <1>11, <1>12, <1>13, <1>14, <1>15, <1>16, <1>17

(* An agent that runs works in a worktree nobody has approved.             *)
LEMMA CommitKept == ASSUME Bounds, IInv, NEW t \in Tasks, Commit(t) PROVE IInv'
<1> DEFINE w == task[t].worktree
<1> USE DEF IInv
<1>1. /\ UNCHANGED <<task, rec, dirs, branches, approvedTip, saved, merges, unsaved, doubtful>>
      /\ w \in dirs /\ task[t].status = "Running" /\ tip' = [tip EXCEPT ![w] = @ + 1]
  BY DEF Commit, managerVars, historyVars
<1>2. w \in Wt /\ tip \in [Wt -> Nat]
  BY <1>1 DEF Types
<1>3. tip' \in [Wt -> Nat] /\ \A x \in Wt \ {w} : tip'[x] = tip[x]
  <2>1. tip[w] + 1 \in Nat
    BY <1>2
  <2> HIDE DEF w
  <2> QED BY <1>1, <1>2, <2>1
<1>4. FrozenNow'
  <2>1. w \notin doubtful => rec[w].state \notin Frozen
    BY <1>1, <1>2 DEF FrozenNow, Done
  <2> HIDE DEF w
  <2> QED BY <1>1, <1>3, <2>1 DEF FrozenNow, Done
<1>5. Types' /\ Own' /\ Branched' /\ Reviewed'
  BY <1>1, <1>3 DEF Types, Own, OwnIn, Branched, Recorded, Reviewed
<1>6. FrozenSaved' /\ DoneStays' /\ VerdictSaved'
  BY <1>1 DEF FrozenSaved, Done, DoneStays, VerdictSaved, Recorded
<1>7. OwnersKnown' /\ VerdictReachesTree'
  BY <1>1 DEF OwnersKnown, VerdictReachesTree, Recorded
<1> QED BY <1>4, <1>5, <1>6, <1>7

-----------------------------------------------------------------------------
(* Review and integration.                                                 *)

(* SetState of a verdict, on the record of w: what is not w stays, what    *)
(* was recorded is, and the rest of the record stays.                      *)
LEMMA Judges ==
    ASSUME NEW r \in Records, NEW w \in Wt, NEW s \in Frozen
    PROVE  /\ SetState(r, w, s) \in Records
           /\ \A x \in Wt \ {w} : SetState(r, w, s)[x] = r[x]
           /\ SetState(r, w, s)[w] = NoRecord <=> r[w] = NoRecord
           /\ r[w] # NoRecord => /\ SetState(r, w, s)[w].state = s
                                 /\ SetState(r, w, s)[w].owner = r[w].owner
                                 /\ SetState(r, w, s)[w].orphaned = r[w].orphaned
<1>1. s \in States /\ s # "None"
  BY DEF States, Frozen
<1>2. r \in [Wt -> [state : States, base : BOOLEAN, orphaned : BOOLEAN,
                    owner : Tasks \cup {None}] \cup {NoRecord}]
  BY DEF Records, Record
<1> DEFINE u == SetState(r, w, s)
<1>3. /\ u \in Records
      /\ \A x \in Wt \ {w} : u[x] = r[x]
      /\ r[w] = NoRecord => u[w] = NoRecord
      /\ r[w] # NoRecord => u[w] = [state |-> s, base |-> r[w].base,
                                    orphaned |-> r[w].orphaned, owner |-> r[w].owner]
  BY <1>1, <1>2, Sets DEF Records, Record
<1> HIDE DEF u
<1>4. r[w] # NoRecord => u[w].state = s /\ u[w].owner = r[w].owner /\ u[w].orphaned = r[w].orphaned
  BY <1>3
<1>5. r[w] # NoRecord => u[w] # NoRecord
  BY <1>1, <1>4 DEF NoRecord
<1> QED BY <1>3, <1>4, <1>5 DEF u

(* The event the approval publishes takes nothing back.                    *)
LEMMA ApproveKept == ASSUME Bounds, IInv, NEW t \in Tasks, Approve(t) PROVE IInv'
<1> DEFINE w == task[t].worktree
           u == SetState(rec, w, "Approved")
           e == [task[t] EXCEPT !.status = "Completed"]
<1> USE DEF IInv
<1>1. /\ task[t].status = "NeedsReview"
      /\ task' = [task EXCEPT ![t] = e]
      /\ rec' = IF w = NoWorktree THEN rec ELSE capture_worktree_result(u, w)
      /\ approvedTip' = IF w = NoWorktree THEN approvedTip ELSE [approvedTip EXCEPT ![w] = tip[w]]
      /\ UNCHANGED <<dirs, branches, tip, saved, merges, unsaved, doubtful>>
  BY DEF Approve, gitVars
<1>2. task \in [Tasks -> Task] /\ task[t] \in Task /\ w \in Trees /\ NoWorktree \notin Wt
  BY NotATree DEF Types, Task
<1>3. e \in Task /\ e.status = "Completed" /\ e.worktree = w
  BY <1>2 DEF Task, Statuses
<1> HIDE DEF e
<1>4. /\ task' \in [Tasks -> Task]
      /\ \A x \in Tasks : x # t => task'[x] = task[x]
      /\ task'[t].status = "Completed" /\ task'[t].worktree = w
  BY <1>1, <1>2, <1>3
<1>5. rec \in Records
  BY DEF Types, Records
<1>6. /\ rec' \in Records
      /\ \A x \in Wt \ {w} : rec'[x] = rec[x]
      /\ w \in Wt =>
          /\ rec'[w] = NoRecord <=> rec[w] = NoRecord
          /\ rec[w] # NoRecord => /\ rec'[w].state = "Approved"
                                  /\ rec'[w].owner = rec[w].owner
                                  /\ rec'[w].orphaned = rec[w].orphaned
  <2>1. CASE w = NoWorktree
    BY <1>1, <1>2, <1>5, <2>1
  <2>2. CASE w # NoWorktree
    <3>1. w \in Wt /\ "Approved" \in Frozen
      BY <1>2, <2>2 DEF Trees, Frozen
    <3>2. /\ u \in Records
          /\ \A x \in Wt \ {w} : u[x] = rec[x]
          /\ u[w] = NoRecord <=> rec[w] = NoRecord
          /\ rec[w] # NoRecord => /\ u[w].state = "Approved"
                                  /\ u[w].owner = rec[w].owner
                                  /\ u[w].orphaned = rec[w].orphaned
      BY <1>5, <3>1, Judges
    <3> HIDE DEF u
    <3>3. capture_worktree_result(u, w) = u
      BY <3>1, <3>2 DEF capture_worktree_result, diff, Recorded
    <3> QED BY <1>1, <2>2, <3>2, <3>3
  <2> QED BY <2>1, <2>2
<1>7. /\ approvedTip' \in [Wt -> Nat]
      /\ \A x \in Wt \ {w} : approvedTip'[x] = approvedTip[x]
      /\ w \in Wt => approvedTip'[w] = tip[w]
  <2>1. approvedTip \in [Wt -> Nat] /\ tip \in [Wt -> Nat]
    BY DEF Types
  <2> HIDE DEF w
  <2>2. w \in Wt => tip[w] \in Nat
    BY <2>1
  <2> QED BY <1>1, <1>2, <2>1, <2>2 DEF Trees
<1>8. Recorded(rec)' = Recorded(rec)
  BY <1>6 DEF Recorded
<1>9. \A x \in Tasks : x # t => task[x].worktree # w \/ w = NoWorktree
  BY OthersElsewhere
<1>10. Own'
  BY <1>1, <1>4 DEF Own, OwnIn
<1> HIDE DEF w, u
<1>11. Types' /\ Branched' /\ Reviewed'
  BY <1>1, <1>4, <1>6, <1>7, <1>8 DEF Types, Branched, Reviewed, Records
<1>12. FrozenNow'
  <2> SUFFICES ASSUME NEW x \in Wt \ doubtful, rec'[x].state \in Frozen
               PROVE  tip[x] = approvedTip'[x] /\ Done(task', x)
    BY <1>1 DEF FrozenNow
  <2>1. CASE x = w
    BY <1>2, <1>4, <1>7, <1>9, <2>1 DEF Done
  <2>2. CASE x # w
    <3>1. tip[x] = approvedTip[x] /\ Done(task, x)
      BY <1>6, <2>2 DEF FrozenNow
    <3> QED BY <1>4, <1>7, <2>2, <3>1 DEF Done
  <2> QED BY <2>1, <2>2
<1>13. FrozenSaved'
  <2> SUFFICES ASSUME NEW x \in Wt \ (doubtful \cup unsaved), saved.rec[x].state \in Frozen
               PROVE  rec'[x].state \in Frozen /\ Done(saved.task, x)
    BY <1>1 DEF FrozenSaved
  <2>1. rec[x].state \in Frozen /\ Done(saved.task, x)
    BY DEF FrozenSaved
  <2>2. x = w => rec[w] # NoRecord
    BY <2>1, Unrecorded
  <2> QED BY <1>6, <2>1, <2>2 DEF Frozen
<1>14. DoneStays' /\ VerdictSaved'
  BY <1>1, <1>4, <1>8 DEF DoneStays, VerdictSaved
<1>15. OwnersKnown'
  <2> SUFFICES ASSUME NEW x \in Tasks, task'[x].worktree \in dirs \ doubtful
               PROVE  LET r == rec'[task'[x].worktree]
                      IN  r # NoRecord /\ r.owner = x /\ ~r.orphaned
    BY <1>1 DEF OwnersKnown
  <2>1. task'[x].worktree = task[x].worktree /\ task[x].worktree \in Wt
    BY <1>4 DEF Types, w
  <2>2. LET r == rec[task[x].worktree] IN r # NoRecord /\ r.owner = x /\ ~r.orphaned
    BY <2>1 DEF OwnersKnown
  <2> QED BY <1>6, <2>1, <2>2
<1>16. VerdictReachesTree'
  <2> SUFFICES ASSUME NEW x \in Tasks, task'[x].status = "Completed",
                      task'[x].worktree \notin doubtful \cup {NoWorktree}
               PROVE  \/ task'[x].worktree \notin Recorded(rec)
                      \/ rec'[task'[x].worktree].state \in {"Approved", "Merged"}
    BY <1>1, <1>8 DEF VerdictReachesTree
  <2>1. CASE x = t
    <3>1. task'[x].worktree = w /\ w \in Wt
      BY <1>2, <1>4, <2>1 DEF Trees
    <3> QED BY <1>6, <3>1 DEF Recorded
  <2>2. CASE x # t
    <3>1. task'[x] = task[x] /\ task[x].worktree # w /\ task[x].worktree \in Wt
      BY <1>4, <1>9, <2>2 DEF Types, Task, Trees
    <3> QED BY <1>6, <3>1 DEF VerdictReachesTree
  <2> QED BY <2>1, <2>2
<1> QED BY <1>10, <1>11, <1>12, <1>13, <1>14, <1>15, <1>16

(* What is merged was approved as it is.                                   *)
LEMMA MergeKept ==
    ASSUME Bounds, IInv, NEW w \in Wt, NEW target \in Branch, Merge(w, target)
    PROVE  IInv'
<1> DEFINE m == [worktree |-> w, target |-> target, into |-> head,
                 reviewed |-> w \in doubtful \/ tip[w] = approvedTip[w]]
<1> USE DEF IInv
<1>1. /\ rec[w].state = "Approved" /\ rec[w] # NoRecord
      /\ rec' = SetState(rec, w, "Merged") /\ merges' = merges \cup {m}
      /\ UNCHANGED <<task, dirs, branches, tip, approvedTip, saved, unsaved, doubtful>>
  BY DEF Merge, gitVars, Recorded
<1>2. m.reviewed
  BY <1>1 DEF FrozenNow, Frozen
<1> HIDE DEF m
<1>3. rec \in Records /\ "Merged" \in Frozen
  BY DEF Types, Records, Frozen
<1>4. /\ rec' \in Records
      /\ \A x \in Wt \ {w} : rec'[x] = rec[x]
      /\ rec'[w] # NoRecord /\ rec'[w].state = "Merged"
      /\ rec'[w].owner = rec[w].owner /\ rec'[w].orphaned = rec[w].orphaned
  BY <1>1, <1>3, Judges
<1>5. Recorded(rec)' = Recorded(rec) /\ \A x \in Wt : rec'[x].state \in Frozen <=> rec[x].state \in Frozen
  BY <1>1, <1>4 DEF Recorded, Frozen
<1>6. Types' /\ Own' /\ Branched' /\ Reviewed'
  BY <1>1, <1>2, <1>4, <1>5 DEF Types, Own, OwnIn, Branched, Reviewed, Records
<1>7. FrozenNow' /\ FrozenSaved' /\ DoneStays' /\ VerdictSaved'
  BY <1>1, <1>5 DEF FrozenNow, FrozenSaved, DoneStays, VerdictSaved, Done, Recorded
<1>8. OwnersKnown'
  <2> SUFFICES ASSUME NEW x \in Tasks, task[x].worktree \in dirs \ doubtful
               PROVE  LET r == rec'[task[x].worktree]
                      IN  r # NoRecord /\ r.owner = x /\ ~r.orphaned
    BY <1>1 DEF OwnersKnown
  <2>1. task[x].worktree \in Wt
    BY DEF Types
  <2> QED BY <1>4, <2>1 DEF OwnersKnown
<1>9. VerdictReachesTree'
  <2> SUFFICES ASSUME NEW x \in Tasks, task[x].status = "Completed",
                      task[x].worktree \notin doubtful \cup {NoWorktree}
               PROVE  \/ task[x].worktree \notin Recorded(rec)
                      \/ rec'[task[x].worktree].state \in {"Approved", "Merged"}
    BY <1>1, <1>5 DEF VerdictReachesTree
  <2>1. task[x].worktree \in Wt
    BY DEF Types, Task, Trees
  <2> QED BY <1>4, <2>1 DEF VerdictReachesTree
<1> QED BY <1>6, <1>7, <1>8, <1>9

(* Whatever is removed takes its record, its directory and its branch.     *)
LEMMA RemovedKept ==
    ASSUME Bounds, IInv, NEW W \in SUBSET Wt, Removed(W),
           UNCHANGED <<task, saved, approvedTip, merges, doubtful>>
    PROVE  IInv'
<1> USE DEF IInv
<1>1. /\ dirs' = dirs \ W /\ branches' = branches \ W /\ unsaved' = unsaved \cup W
      /\ rec' = [w \in Wt |-> IF w \in W THEN NoRecord ELSE rec[w]]
      /\ tip' = [w \in Wt |-> IF w \in W THEN 0 ELSE tip[w]]
  BY DEF Removed
<1>2. \A w \in Wt : w \notin W => rec'[w] = rec[w] /\ tip'[w] = tip[w]
  BY <1>1
<1>3. \A w \in W : rec'[w] = NoRecord /\ rec'[w].state \notin Frozen
  BY <1>1, Unrecorded
<1>4. Types'
  BY <1>1 DEF Types
<1>5. Recorded(rec)' = Recorded(rec) \ W
  BY <1>1, <1>2, <1>3 DEF Recorded
<1>6. Own' /\ Branched' /\ Reviewed' /\ DoneStays' /\ VerdictSaved'
  BY <1>1, <1>5 DEF Own, OwnIn, Branched, Reviewed, DoneStays, VerdictSaved, Recorded
<1>7. FrozenNow' /\ FrozenSaved'
  BY <1>1, <1>2, <1>3 DEF FrozenNow, FrozenSaved, Done
<1>8. OwnersKnown'
  <2> SUFFICES ASSUME NEW x \in Tasks, task[x].worktree \in (dirs \ W) \ doubtful
               PROVE  LET r == rec'[task[x].worktree]
                      IN  r # NoRecord /\ r.owner = x /\ ~r.orphaned
    BY <1>1 DEF OwnersKnown
  <2>1. task[x].worktree \in Wt
    BY DEF Types
  <2> QED BY <1>2, <2>1 DEF OwnersKnown
<1>9. VerdictReachesTree'
  <2> SUFFICES ASSUME NEW x \in Tasks, task[x].status = "Completed",
                      task[x].worktree \notin doubtful \cup {NoWorktree}
               PROVE  \/ task[x].worktree \notin Recorded(rec) \ W
                      \/ rec'[task[x].worktree].state \in {"Approved", "Merged"}
    BY <1>5 DEF VerdictReachesTree
  <2>1. task[x].worktree \in Wt
    BY DEF Types, Task, Trees
  <2> QED BY <1>2, <2>1 DEF VerdictReachesTree
<1> QED BY <1>4, <1>6, <1>7, <1>8, <1>9

-----------------------------------------------------------------------------
(* The state file and restarts.                                            *)

(* What is saved is what is; nothing is gone that the file still names.    *)
LEMMA SaveKept == ASSUME Bounds, IInv, Save PROVE IInv'
<1> USE DEF IInv
<1>1. /\ saved'.task = task /\ saved'.rec = rec /\ unsaved' = {}
      /\ UNCHANGED <<task, rec, dirs, branches, tip, approvedTip, merges, doubtful>>
  BY DEF Save, managerVars, gitVars
<1>2. Types' /\ Own' /\ Branched' /\ Reviewed'
  BY <1>1 DEF Types, Own, OwnIn, Branched, Reviewed, Recorded
<1>3. FrozenNow' /\ FrozenSaved' /\ DoneStays'
  BY <1>1 DEF FrozenNow, FrozenSaved, DoneStays, Done
<1>4. OwnersKnown' /\ VerdictReachesTree'
  BY <1>1 DEF OwnersKnown, VerdictReachesTree, Recorded
<1>5. VerdictSaved'
  <2> SUFFICES ASSUME NEW x \in Tasks, task[x].status = "Completed",
                      task[x].worktree \in Wt \ doubtful
               PROVE  \/ rec[task[x].worktree].state \in Frozen
                      \/ task[x].worktree \notin Recorded(rec) /\ task[x].worktree \notin dirs
    BY <1>1 DEF VerdictSaved, Recorded
  <2>1. task[x].worktree # NoWorktree
    BY NotATree
  <2>2. \/ task[x].worktree \notin Recorded(rec)
        \/ rec[task[x].worktree].state \in Frozen
    BY <2>1 DEF VerdictReachesTree, Frozen
  <2>3. task[x].worktree \in dirs => task[x].worktree \in Recorded(rec)
    BY DEF OwnersKnown, Recorded
  <2> QED BY <2>2, <2>3
<1> QED BY <1>2, <1>3, <1>4, <1>5

(* The scan of a restart: the records of the saved state keep their state, *)
(* those that are made are in review, and whose worktree it is, is right.  *)
LEMMA Scans ==
    ASSUME NEW tk \in [Tasks -> Task], OwnIn(tk), NEW r \in Records, dirs \subseteq Wt
    PROVE  /\ scan(tk, r) \in Records
           /\ \A w \in Wt :
                /\ r[w] # NoRecord => scan(tk, r)[w] # NoRecord /\ scan(tk, r)[w].state = r[w].state
                /\ r[w] = NoRecord /\ w \notin dirs => scan(tk, r)[w] = NoRecord
                /\ r[w] = NoRecord /\ w \in dirs => scan(tk, r)[w].state = "NeedsReview"
                /\ w \in dirs => scan(tk, r)[w] # NoRecord
           /\ \A t \in Tasks : tk[t].worktree \in dirs =>
                scan(tk, r)[tk[t].worktree].owner = t /\ ~scan(tk, r)[tk[t].worktree].orphaned
<1> DEFINE owners == {t \in Tasks : tk[t].worktree # NoWorktree}
           owner(w) == {t \in owners : tk[t].worktree = w}
           one(w) == CHOOSE t \in owner(w) : TRUE
           reclaimed == [w \in Wt |->
               IF w \in Recorded(r) /\ owner(w) # {}
               THEN [r[w] EXCEPT !.owner = CHOOSE t \in owner(w) : TRUE, !.orphaned = FALSE]
               ELSE r[w]]
           sc == scan(tk, r)
<1>1. sc = [w \in Wt |->
            IF w \notin dirs THEN reclaimed[w]
            ELSE IF w \in Recorded(reclaimed)
                 THEN [reclaimed[w] EXCEPT !.orphaned = reclaimed[w].owner \notin owners]
                 ELSE [state |-> "NeedsReview", base |-> FALSE, orphaned |-> owner(w) = {},
                       owner |-> IF owner(w) = {} THEN None ELSE one(w)]]
  BY DEF scan
<1>2. \A w : owner(w) # {} => one(w) \in owner(w)
  OBVIOUS
<1>3. \A t \in Tasks : tk[t].worktree \in Wt => owner(tk[t].worktree) = {t}
  BY NotATree DEF OwnIn
<1>4. owners \subseteq Tasks /\ \A w : owner(w) \subseteq owners
  OBVIOUS
<1> SUFFICES /\ sc \in Records
             /\ \A w \in Wt :
                  /\ r[w] # NoRecord => sc[w] # NoRecord /\ sc[w].state = r[w].state
                  /\ r[w] = NoRecord /\ w \notin dirs => sc[w] = NoRecord
                  /\ r[w] = NoRecord /\ w \in dirs => sc[w].state = "NeedsReview"
                  /\ w \in dirs => sc[w] # NoRecord
             /\ \A t \in Tasks : tk[t].worktree \in dirs =>
                  sc[tk[t].worktree].owner = t /\ ~sc[tk[t].worktree].orphaned
  OBVIOUS
<1>5. \A w \in Wt :
        /\ reclaimed[w] = IF r[w] # NoRecord /\ owner(w) # {}
                          THEN [r[w] EXCEPT !.owner = one(w), !.orphaned = FALSE]
                          ELSE r[w]
        /\ sc[w] = IF w \notin dirs THEN reclaimed[w]
                   ELSE IF reclaimed[w] # NoRecord
                        THEN [reclaimed[w] EXCEPT !.orphaned = reclaimed[w].owner \notin owners]
                        ELSE [state |-> "NeedsReview", base |-> FALSE, orphaned |-> owner(w) = {},
                              owner |-> IF owner(w) = {} THEN None ELSE one(w)]
  BY <1>1 DEF Recorded
<1>6. sc = [w \in Wt |-> sc[w]]
  BY <1>1
<1> HIDE DEF owners, owner, one, reclaimed, sc
<1>7. ASSUME NEW w \in Wt
      PROVE  /\ r[w] # NoRecord =>
                  reclaimed[w] \in Record /\ reclaimed[w].state = r[w].state
             /\ r[w] = NoRecord => reclaimed[w] = NoRecord
             /\ r[w] # NoRecord /\ owner(w) # {} => reclaimed[w].owner = one(w)
             /\ r[w] # NoRecord => reclaimed[w] # NoRecord
  <2>1. r[w] \in Record \cup {NoRecord}
    BY DEF Records
  <2>2. owner(w) # {} => one(w) \in Tasks
    BY <1>2, <1>4
  <2>3. CASE r[w] # NoRecord /\ owner(w) # {}
    <3>1. reclaimed[w] = [r[w] EXCEPT !.owner = one(w), !.orphaned = FALSE] /\ r[w] \in Record
      BY <1>5, <2>1, <2>3
    <3>2. reclaimed[w] \in Record /\ reclaimed[w].state = r[w].state /\ reclaimed[w].owner = one(w)
      BY <2>2, <2>3, <3>1 DEF Record
    <3> QED BY <2>3, <3>2, Unrecorded
  <2>4. CASE ~(r[w] # NoRecord /\ owner(w) # {})
    BY <1>5, <2>1, <2>4
  <2> QED BY <2>3, <2>4
<1>8. ASSUME NEW w \in Wt, w \in dirs, reclaimed[w] # NoRecord
      PROVE  /\ sc[w] \in Record /\ sc[w].state = reclaimed[w].state
             /\ sc[w].owner = reclaimed[w].owner
             /\ sc[w].orphaned = (reclaimed[w].owner \notin owners)
  <2>1. reclaimed[w] \in Record
    BY <1>7, <1>8
  <2>2. sc[w] = [reclaimed[w] EXCEPT !.orphaned = reclaimed[w].owner \notin owners]
    BY <1>5, <1>8
  <2> QED BY <2>1, <2>2 DEF Record
<1>9. ASSUME NEW w \in Wt, w \in dirs, reclaimed[w] = NoRecord
      PROVE  /\ sc[w] \in Record /\ sc[w].state = "NeedsReview"
             /\ owner(w) # {} => sc[w].owner = one(w) /\ ~sc[w].orphaned
  <2>1. sc[w] = [state |-> "NeedsReview", base |-> FALSE, orphaned |-> owner(w) = {},
                 owner |-> IF owner(w) = {} THEN None ELSE one(w)]
    BY <1>5, <1>9
  <2>2. (IF owner(w) = {} THEN None ELSE one(w)) \in Tasks \cup {None}
    BY <1>2, <1>4
  <2>3. "NeedsReview" \in States
    BY DEF States
  <2> DEFINE who == IF owner(w) = {} THEN None ELSE one(w)
             alone == owner(w) = {}
  <2>4. (owner(w) # {} => who = one(w) /\ ~alone) /\ alone \in BOOLEAN
    OBVIOUS
  <2>5. sc[w] = [state |-> "NeedsReview", base |-> FALSE, orphaned |-> alone, owner |-> who]
    BY <2>1
  <2>6. who \in Tasks \cup {None}
    BY <2>2
  <2> HIDE DEF who, alone
  <2>7. [state |-> "NeedsReview", base |-> FALSE, orphaned |-> alone, owner |-> who] \in Record
    BY <2>3, <2>4, <2>6 DEF Record
  <2>8. sc[w].state = "NeedsReview" /\ sc[w].orphaned = alone /\ sc[w].owner = who
    BY <2>5
  <2> QED BY <2>4, <2>5, <2>7, <2>8
<1>10. \A w \in Wt : w \notin dirs => sc[w] = reclaimed[w]
  BY <1>5
<1>11. sc \in Records
  BY <1>6, <1>7, <1>8, <1>9, <1>10 DEF Records
<1>12. ASSUME NEW t \in Tasks, tk[t].worktree \in dirs
       PROVE  sc[tk[t].worktree].owner = t /\ ~sc[tk[t].worktree].orphaned
  <2> DEFINE w == tk[t].worktree
  <2>1. w \in Wt /\ w \in dirs
    BY <1>12
  <2>2. owner(w) = {t} /\ one(w) = t
    BY <1>2, <1>3, <2>1
  <2>3. t \in owners
    BY <1>4, <2>2
  <2> HIDE DEF w
  <2>4. CASE reclaimed[w] # NoRecord
    <3>1. reclaimed[w].owner = t
      BY <1>7, <2>1, <2>2, <2>4
    <3> QED BY <1>8, <2>1, <2>3, <2>4, <3>1 DEF w
  <2>5. CASE reclaimed[w] = NoRecord
    BY <1>9, <2>1, <2>2, <2>5 DEF w
  <2> QED BY <2>4, <2>5
<1> QED BY <1>7, <1>8, <1>9, <1>10, <1>11, <1>12, Unrecorded

(* A restart believes what it can of what was saved: the worktrees removed *)
(* since, and those it does not see, are the doubtful ones.                *)
LEMMA RestartKept == ASSUME Bounds, IInv, Restart PROVE IInv'
<1> DEFINE st == saved.task
           sr == saved.rec
<1> USE DEF IInv
<1>1. /\ task' = [t \in Tasks |-> Imported(st[t])]
      /\ rec' = IF Recorded(sr) # {} THEN scan(task', sr) ELSE sr
      /\ doubtful' = doubtful \cup unsaved \cup (IF Recorded(sr) # {} THEN {} ELSE dirs)
      /\ unsaved' = {}
      /\ UNCHANGED <<dirs, branches, tip, approvedTip, saved, merges>>
  BY DEF Restart, gitVars
<1>2. st \in [Tasks -> Task] /\ sr \in Records /\ dirs \subseteq Wt
  BY DEF Types, Records
<1>3. task' \in [Tasks -> Task] /\ \A t \in Tasks :
        /\ task'[t].worktree = st[t].worktree
        /\ task'[t].status = "Completed" <=> st[t].status = "Completed"
        /\ st[t].status = "Completed" => task'[t] = st[t]
  <2>1. ASSUME NEW t \in Tasks
        PROVE  /\ Imported(st[t]) \in Task
               /\ Imported(st[t]).worktree = st[t].worktree
               /\ Imported(st[t]).status = "Completed" <=> st[t].status = "Completed"
               /\ st[t].status = "Completed" => Imported(st[t]) = st[t]
    <3>1. st[t] \in Task
      BY <1>2
    <3> HIDE DEF st
    <3> QED BY <3>1 DEF Imported, Task, Statuses
  <2> QED BY <1>1, <2>1
<1> HIDE DEF st, sr
<1>4. OwnIn(task')
  BY <1>3 DEF Own, OwnIn, st
<1>5. /\ rec' \in Records
      /\ \A w \in Wt :
           /\ sr[w] # NoRecord => rec'[w] # NoRecord /\ rec'[w].state = sr[w].state
           /\ sr[w] = NoRecord /\ w \notin dirs \ doubtful' => rec'[w] = NoRecord \/ w \in doubtful'
           /\ sr[w] = NoRecord /\ rec'[w] # NoRecord => w \in dirs /\ rec'[w].state = "NeedsReview"
           /\ w \in dirs \ doubtful' => rec'[w] # NoRecord
      /\ \A t \in Tasks : task'[t].worktree \in dirs \ doubtful' =>
           rec'[task'[t].worktree].owner = t /\ ~rec'[task'[t].worktree].orphaned
  <2>1. CASE Recorded(sr) # {}
    <3>1. rec' = scan(task', sr)
      BY <1>1, <2>1
    <3> QED BY <1>2, <1>3, <1>4, <3>1, Scans
  <2>2. CASE Recorded(sr) = {}
    <3>1. rec' = sr /\ dirs \subseteq doubtful' /\ \A w \in Wt : sr[w] = NoRecord
      BY <1>1, <2>2 DEF Recorded
    <3> QED BY <1>2, <3>1
  <2> QED BY <2>1, <2>2
<1>6. doubtful \cup unsaved \subseteq doubtful' /\ unsaved' = {}
  BY <1>1
<1>7. \A w \in Wt : rec'[w].state \in Frozen =>
        sr[w].state \in Frozen /\ sr[w] # NoRecord
  <2>1. "NeedsReview" \notin Frozen
    BY DEF Frozen
  <2> QED BY <1>5, <2>1, Unrecorded
<1>8. \A w \in Wt : sr[w].state \in Frozen => rec'[w].state \in Frozen
  BY <1>5, Unrecorded
<1>9. Types'
  BY <1>1, <1>3, <1>5 DEF Types, Records
<1>10. Own' /\ Reviewed'
  BY <1>1, <1>4 DEF Own, Reviewed, OwnIn
<1>11. Branched'
  <2>1. \A w \in Wt \ doubtful' : sr[w] # NoRecord => w \in branches
    BY <1>6 DEF Branched, Recorded, sr
  <2>2. dirs \subseteq branches
    BY DEF Types
  <2>3. \A w \in Wt \ doubtful' : rec'[w] # NoRecord => w \in branches
    BY <1>5, <2>1, <2>2
  <2> QED BY <1>1, <2>1, <2>3 DEF Branched, Recorded, sr
<1>12. FrozenNow'
  <2> SUFFICES ASSUME NEW w \in Wt \ doubtful', rec'[w].state \in Frozen
               PROVE  tip[w] = approvedTip[w] /\ Done(task', w)
    BY <1>1 DEF FrozenNow
  <2>1. w \in Wt \ (doubtful \cup unsaved) /\ saved.rec[w].state \in Frozen
    BY <1>6, <1>7 DEF sr
  <2>2. rec[w].state \in Frozen /\ Done(saved.task, w)
    BY <2>1 DEF FrozenSaved
  <2>3. tip[w] = approvedTip[w]
    BY <2>1, <2>2 DEF FrozenNow
  <2> QED BY <1>3, <2>2, <2>3 DEF Done, st
<1>13. FrozenSaved' /\ DoneStays' /\ VerdictSaved'
  BY <1>1, <1>3, <1>6, <1>8 DEF FrozenSaved, DoneStays, VerdictSaved, Done, Recorded, st, sr
<1>14. OwnersKnown'
  <2> SUFFICES ASSUME NEW t \in Tasks, task'[t].worktree \in dirs \ doubtful'
               PROVE  LET r == rec'[task'[t].worktree]
                      IN  r # NoRecord /\ r.owner = t /\ ~r.orphaned
    BY <1>1 DEF OwnersKnown
  <2> QED BY <1>2, <1>5
<1>15. VerdictReachesTree'
  <2> SUFFICES ASSUME NEW t \in Tasks, task'[t].status = "Completed",
                      task'[t].worktree \notin doubtful' \cup {NoWorktree}
               PROVE  \/ task'[t].worktree \notin Recorded(rec)'
                      \/ rec'[task'[t].worktree].state \in {"Approved", "Merged"}
    BY DEF VerdictReachesTree
  <2> DEFINE w == task'[t].worktree
  <2>1. w \in Wt \ (doubtful \cup unsaved) /\ w = st[t].worktree /\ st[t].status = "Completed"
    BY <1>3, <1>6 DEF Task, Trees
  <2>2. \/ sr[w].state \in Frozen
        \/ sr[w] = NoRecord /\ w \notin dirs
    BY <2>1 DEF VerdictSaved, Recorded, st, sr
  <2> HIDE DEF w
  <2>3. rec'[w].state \in Frozen \/ rec'[w] = NoRecord
    BY <1>5, <1>8, <2>1, <2>2
  <2> QED BY <2>3 DEF Recorded, Frozen, w
<1> QED BY <1>9, <1>10, <1>11, <1>12, <1>13, <1>14, <1>15

-----------------------------------------------------------------------------
(* The steps of the scheduler, one by one.                                 *)

LEMMA FailsMoves ==
    ASSUME Bounds, NEW t \in Tasks, NEW class, NEW n \in 0..(MaxRetries + 1), NEW tree \in Trees,
           NEW r \in Records, Fails(t, class, n, tree, r)
    PROVE  \E e \in Task : /\ e.worktree = tree /\ e.status # "Completed"
                           /\ task' = [task EXCEPT ![t] = e]
                           /\ Moved(r, tree, rec')
<1> DEFINE ready == [status |-> "Ready", attempt |-> n, worktree |-> tree]
           failed == [status |-> "Failed", attempt |-> n, worktree |-> tree]
<1>1. ready \in Task /\ failed \in Task
  BY DEF Task, Statuses
<1>2. \/ task' = [task EXCEPT ![t] = ready] /\ rec' = r
      \/ task' = [task EXCEPT ![t] = failed] /\ rec' = preserve_worktree(r, tree)
  BY DEF Fails
<1>3. Moved(r, tree, r) /\ Moved(r, tree, preserve_worktree(r, tree))
  BY Stills, Preserves
<1>4. ready.worktree = tree /\ ready.status # "Completed"
      /\ failed.worktree = tree /\ failed.status # "Completed"
  OBVIOUS
<1> HIDE DEF ready, failed
<1> QED BY <1>1, <1>2, <1>3, <1>4

LEMMA SpawnMoves ==
    ASSUME Bounds, Types, NEW t \in Tasks, NEW tree \in Trees, NEW r \in Records,
           task[t].attempt + 1 <= MaxRetries + 1, SpawnIn(t, tree, r)
    PROVE  \E e \in Task : /\ e.worktree = tree /\ e.status # "Completed"
                           /\ task' = [task EXCEPT ![t] = e]
                           /\ Moved(r, tree, rec')
<1>1. task[t] \in Task /\ task[t].attempt \in 0..(MaxRetries + 1)
  BY DEF Types, Task
<1>2. CASE Fails(t, "Unknown", task[t].attempt, tree, r)
  BY <1>1, <1>2, FailsMoves
<1>3. CASE /\ task' = [task EXCEPT ![t] = [status |-> "Running", attempt |-> @.attempt + 1,
                                           worktree |-> tree]]
           /\ rec' = r
  <2> DEFINE e == [status |-> "Running", attempt |-> task[t].attempt + 1, worktree |-> tree]
  <2>1. task[t].attempt + 1 \in 0..(MaxRetries + 1)
    BY <1>1 DEF Bounds
  <2>2. e \in Task /\ e.worktree = tree /\ e.status # "Completed"
    BY <2>1 DEF Task, Statuses
  <2>3. task' = [task EXCEPT ![t] = e]
    BY <1>3
  <2>4. Moved(r, tree, rec')
    BY <1>3, Stills
  <2> HIDE DEF e
  <2> QED BY <2>2, <2>3, <2>4
<1> QED BY <1>2, <1>3 DEF SpawnIn

LEMMA SpawnKept == ASSUME Bounds, IInv, NEW t \in Tasks, Spawn(t) PROVE IInv'
<1> DEFINE n == task[t].attempt + 1
           w == <<t, n>>
<1>1. Types /\ rec \in Records /\ task[t] \in Task /\ task[t].worktree \in Trees
  BY DEF IInv, Types, Records, Task
<1>2. /\ task[t].status = "Ready" /\ task[t].attempt + 1 <= MaxRetries + 1
      /\ UNCHANGED <<saved, approvedTip, merges, unsaved, doubtful>>
  BY DEF Spawn, historyVars
<1>3. n \in 1..(MaxRetries + 1) /\ w \in Wt /\ w[1] = t /\ task[t].attempt \in 0..(MaxRetries + 1)
  BY <1>1, <1>2 DEF Bounds, Task, Wt
<1>4. CASE Reuses(t, n) /\ SpawnIn(t, task[t].worktree, rec) /\ UNCHANGED <<known, gitVars>>
  <2>1. PICK e \in Task : /\ e.worktree = task[t].worktree /\ e.status # "Completed"
                          /\ task' = [task EXCEPT ![t] = e]
                          /\ Moved(rec, task[t].worktree, rec')
    BY <1>1, <1>2, <1>4, SpawnMoves
  <2>2. TaskMoves(t, e)
    BY <1>2, <1>4, <2>1 DEF TaskMoves, Elsewhere, gitVars
  <2> QED BY <2>2, MovesKept
<1>5. CASE /\ Fails(t, "Unknown", task[t].attempt, task[t].worktree, rec)
           /\ UNCHANGED <<known, gitVars>>
  <2>1. PICK e \in Task : /\ e.worktree = task[t].worktree /\ e.status # "Completed"
                          /\ task' = [task EXCEPT ![t] = e]
                          /\ Moved(rec, task[t].worktree, rec')
    BY <1>1, <1>3, <1>5, FailsMoves
  <2>2. TaskMoves(t, e)
    BY <1>2, <1>5, <2>1 DEF TaskMoves, Elsewhere, gitVars
  <2> QED BY <2>2, MovesKept
<1>6. ASSUME NEW dirty \in BOOLEAN, ~create_fails(w, dirty),
             SpawnIn(t, w, [rec EXCEPT ![w] = NewRecord(t)]),
             dirs' = dirs \cup {w}, branches' = branches \cup {w},
             tip' = [tip EXCEPT ![w] = 0]
      PROVE  IInv'
  <2> DEFINE r == [rec EXCEPT ![w] = NewRecord(t)]
  <2> HIDE DEF w, n
  <2>1. w \notin Recorded(rec)
    BY <1>6 DEF create_fails
  <2>2. NewRecord(t) \in Record /\ NewRecord(t).state \notin Frozen
        /\ NewRecord(t).owner = t /\ ~NewRecord(t).orphaned
    BY DEF NewRecord, Record, States, Frozen
  <2>3. r \in Records /\ r[w] = NewRecord(t) /\ \A x \in Wt \ {w} : r[x] = rec[x]
    BY <1>1, <1>3, <2>2 DEF Records
  <2>4. SpawnIn(t, w, r) /\ w \in Trees
    BY <1>3, <1>6 DEF Trees
  <2> HIDE DEF r
  <2>5. PICK e \in Task : /\ e.worktree = w /\ e.status # "Completed"
                          /\ task' = [task EXCEPT ![t] = e]
                          /\ Moved(r, w, rec')
    BY <1>1, <1>2, <2>3, <2>4, SpawnMoves
  <2>6. /\ rec' \in [Wt -> Record \cup {NoRecord}]
        /\ \A x \in Wt \ {w} : rec'[x] = rec[x]
        /\ rec'[w] # NoRecord /\ rec'[w].state \notin Frozen
        /\ rec'[w].owner = t /\ ~rec'[w].orphaned
    BY <1>3, <2>2, <2>3, <2>5, Unrecorded DEF Moved
  <2>7. TreeMade(t, w, e)
    BY <1>2, <1>3, <1>6, <2>1, <2>5, <2>6 DEF TreeMade, Elsewhere
  <2> QED BY <1>3, <2>7, MadeKept
<1> QED BY <1>4, <1>5, <1>6 DEF Spawn

LEMMA CompleteKept == ASSUME Bounds, IInv, NEW t \in Tasks, Complete(t) PROVE IInv'
<1> DEFINE e == [task[t] EXCEPT !.status = "NeedsReview"]
<1>1. task[t] \in Task /\ task[t].worktree \in Trees /\ rec \in Records
  BY DEF IInv, Types, Task, Records
<1>2. e \in Task /\ e.worktree = task[t].worktree /\ e.status # "Completed"
  BY <1>1 DEF Task, Statuses
<1>3. task' = [task EXCEPT ![t] = e]
  BY DEF Complete
<1>4. Moved(rec, task[t].worktree, rec')
  BY <1>1, Captures DEF Complete
<1> HIDE DEF e
<1>5. TaskMoves(t, e)
  BY <1>2, <1>3, <1>4 DEF TaskMoves, Elsewhere, Complete, gitVars, historyVars
<1> QED BY <1>5, MovesKept

LEMMA FailKept == ASSUME Bounds, IInv, NEW t \in Tasks, Fail(t) PROVE IInv'
<1>1. /\ task[t] \in Task /\ task[t].attempt \in 0..(MaxRetries + 1)
      /\ task[t].worktree \in Trees /\ rec \in Records
  BY DEF IInv, Types, Task, Records
<1>2. PICK class \in {"AgentCrash", "TaskFailure"} :
        Fails(t, class, task[t].attempt, task[t].worktree, rec)
  BY DEF Fail
<1>3. PICK e \in Task : /\ e.worktree = task[t].worktree /\ e.status # "Completed"
                        /\ task' = [task EXCEPT ![t] = e]
                        /\ Moved(rec, task[t].worktree, rec')
  BY <1>1, <1>2, FailsMoves
<1>4. TaskMoves(t, e)
  BY <1>3 DEF TaskMoves, Elsewhere, Fail, gitVars, historyVars
<1> QED BY <1>4, MovesKept

(* A task that is created, cancelled, tried again or imported again.       *)
LEMMA OtherMoves ==
    ASSUME Bounds, IInv, NEW t \in Tasks, TaskCreate(t) \/ Cancel(t) \/ Retry(t) \/ Reimport(t)
    PROVE  IInv'
<1>1. task[t] \in Task /\ task[t].worktree \in Trees /\ rec \in Records /\ NoWorktree \in Trees
  BY DEF IInv, Types, Task, Records, Trees
<1>2. Moved(rec, task[t].worktree, rec) /\ Moved(rec, task[t].worktree, preserve_worktree(rec, task[t].worktree))
  BY <1>1, Stills, Preserves
<1>3. CASE TaskCreate(t)
  <2> DEFINE e == [task[t] EXCEPT !.status = "Ready"]
  <2>1. e \in Task /\ e.worktree = task[t].worktree /\ e.status # "Completed"
    BY <1>1 DEF Task, Statuses
  <2>2. task' = [task EXCEPT ![t] = e]
    BY <1>3 DEF TaskCreate
  <2> HIDE DEF e
  <2>3. TaskMoves(t, e)
    BY <1>2, <1>3, <2>1, <2>2 DEF TaskMoves, Elsewhere, TaskCreate, managerVars, gitVars, historyVars
  <2> QED BY <2>3, MovesKept
<1>4. CASE Cancel(t)
  <2> DEFINE e == [task[t] EXCEPT !.status = "Cancelled"]
  <2>1. e \in Task /\ e.worktree = task[t].worktree /\ e.status # "Completed"
    BY <1>1 DEF Task, Statuses
  <2>2. task' = [task EXCEPT ![t] = e]
    BY <1>4 DEF Cancel
  <2> HIDE DEF e
  <2>3. TaskMoves(t, e)
    BY <1>2, <1>4, <2>1, <2>2 DEF TaskMoves, Elsewhere, Cancel, gitVars, historyVars
  <2> QED BY <2>3, MovesKept
<1>5. CASE Retry(t)
  <2> DEFINE e == [task[t] EXCEPT !.status = "Ready", !.attempt = 0]
  <2>0. 0 \in 0..(MaxRetries + 1) /\ "Ready" \in Statuses
    BY DEF Bounds, Statuses
  <2>1. e \in Task /\ e.worktree = task[t].worktree /\ e.status # "Completed"
    BY <1>1, <2>0 DEF Task
  <2>2. task' = [task EXCEPT ![t] = e]
    BY <1>5 DEF Retry
  <2> HIDE DEF e
  <2>3. TaskMoves(t, e)
    BY <1>2, <1>5, <2>1, <2>2 DEF TaskMoves, Elsewhere, Retry, managerVars, gitVars, historyVars
  <2> QED BY <2>3, MovesKept
<1>6. CASE Reimport(t)
  <2> DEFINE e == [NoTask EXCEPT !.status = "Ready"]
  <2>1. e \in Task /\ e.worktree = NoWorktree /\ e.status # "Completed"
    BY <1>1 DEF NoTask, Task, Statuses, Bounds
  <2>2. task' = [task EXCEPT ![t] = e]
    BY <1>6 DEF Reimport
  <2> HIDE DEF e
  <2>3. TaskMoves(t, e)
    BY <1>2, <1>6, <2>1, <2>2 DEF TaskMoves, Elsewhere, Reimport, managerVars, gitVars
  <2> QED BY <2>3, MovesKept
<1> QED BY <1>3, <1>4, <1>5, <1>6

LEMMA RejectKept == ASSUME Bounds, IInv, NEW t \in Tasks, Reject(t) PROVE IInv'
<1> DEFINE e == [task[t] EXCEPT !.status = "Failed"]
           w == task[t].worktree
           u == SetState(rec, w, "Rejected")
           S == States \cup {"Rejected"}
           R == [Wt -> [state : S, base : BOOLEAN, orphaned : BOOLEAN,
                        owner : Tasks \cup {None}] \cup {NoRecord}]
<1>1. task[t] \in Task /\ w \in Trees /\ rec \in Records
  BY DEF IInv, Types, Task, Records
<1>2. e \in Task /\ e.worktree = w /\ e.status # "Completed"
  BY <1>1 DEF Task, Statuses
<1>3. /\ task' = [task EXCEPT ![t] = e]
      /\ rec' = IF w = NoWorktree THEN rec ELSE preserve_worktree(u, w)
      /\ task[t].status = "NeedsReview"
      /\ UNCHANGED <<dirs, branches, tip, approvedTip>> /\ Elsewhere
  BY DEF Reject, Elsewhere, gitVars, historyVars
<1> HIDE DEF e, w
<1>4. Moved(rec, w, rec')
  <2>1. CASE w = NoWorktree
    BY <1>1, <1>3, <2>1, Stills
  <2>2. CASE w # NoWorktree
    <3>1. w \in Wt /\ rec \in R /\ "Completed" \in States \ Frozen
      BY <1>1, <2>2 DEF Trees, Records, Record, States, Frozen
    <3>0. "Rejected" \in S /\ "Completed" \in S
      BY DEF States
    <3> HIDE DEF u, S
    <3>2. rec' = SetState(u, w, "Completed")
      BY <1>3, <2>2 DEF preserve_worktree
    <3>3. /\ u \in R
          /\ \A x \in Wt \ {w} : u[x] = rec[x]
          /\ rec[w] = NoRecord => u[w] = NoRecord
          /\ rec[w] # NoRecord => u[w] = [state |-> "Rejected", base |-> rec[w].base,
                                          orphaned |-> rec[w].orphaned, owner |-> rec[w].owner]
      BY <3>0, <3>1, Sets DEF u
    <3>4. /\ rec' \in R
          /\ \A x \in Wt \ {w} : rec'[x] = u[x]
          /\ u[w] = NoRecord => rec'[w] = NoRecord
          /\ u[w] # NoRecord => rec'[w] = [state |-> "Completed", base |-> u[w].base,
                                           orphaned |-> u[w].orphaned, owner |-> u[w].owner]
      BY <3>0, <3>1, <3>2, <3>3, Sets
    <3>5. CASE rec[w] = NoRecord
      BY <1>1, <3>1, <3>3, <3>4, <3>5 DEF Moved, Records
    <3>6. CASE rec[w] # NoRecord
      <4>1. rec[w] \in Record
        BY <1>1, <3>1, <3>6 DEF Records
      <4>2. u[w].state = "Rejected" /\ u[w].base = rec[w].base
            /\ u[w].orphaned = rec[w].orphaned /\ u[w].owner = rec[w].owner
        BY <3>3, <3>6
      <4>3. u[w] # NoRecord
        BY <4>2 DEF NoRecord
      <4>4. rec'[w] = [state |-> "Completed", base |-> rec[w].base,
                       orphaned |-> rec[w].orphaned, owner |-> rec[w].owner]
        BY <3>4, <4>2, <4>3
      <4>5. rec'[w] \in Record /\ rec'[w].state = "Completed"
            /\ rec'[w].orphaned = rec[w].orphaned /\ rec'[w].owner = rec[w].owner
        BY <3>1, <4>1, <4>4 DEF Record
      <4>6. rec' \in Records
        BY <1>1, <3>1, <3>3, <3>4, <4>5 DEF Records
      <4> QED BY <3>1, <3>3, <3>4, <3>6, <4>5, <4>6, Unrecorded DEF Moved, Records, Frozen
    <3> QED BY <3>5, <3>6
  <2> QED BY <2>1, <2>2
<1>5. TaskMoves(t, e)
  BY <1>2, <1>3, <1>4 DEF TaskMoves, w
<1> QED BY <1>5, MovesKept

-----------------------------------------------------------------------------
LEMMA Starts == Bounds /\ Init => IInv
<1> SUFFICES ASSUME Bounds, Init PROVE IInv
  OBVIOUS
<1>1. NoTask \in Task /\ NoTask.worktree = NoWorktree /\ NoTask.status = "None"
  BY DEF NoTask, Task, Statuses, Trees, Bounds
<1>2. /\ task = [t \in Tasks |-> NoTask] /\ saved.task = task
      /\ rec = [w \in Wt |-> NoRecord] /\ saved.rec = rec
      /\ dirs = {} /\ branches = {} /\ merges = {}
      /\ tip = [w \in Wt |-> 0] /\ approvedTip = [w \in Wt |-> 0]
  BY DEF Init
<1>3. Types /\ Reviewed
  BY <1>1, <1>2 DEF Types, Reviewed
<1>4. Own
  BY <1>1, <1>2 DEF Own, OwnIn
<1>5. Recorded(rec) = {} /\ Recorded(saved.rec) = {}
  BY <1>2 DEF Recorded
<1>6. Branched
  BY <1>5 DEF Branched
<1>7. FrozenNow /\ FrozenSaved
  BY <1>2, Unrecorded DEF FrozenNow, FrozenSaved
<1>8. DoneStays /\ VerdictSaved /\ OwnersKnown /\ VerdictReachesTree
  BY <1>1, <1>2 DEF DoneStays, VerdictSaved, OwnersKnown, VerdictReachesTree
<1> QED BY <1>3, <1>4, <1>6, <1>7, <1>8 DEF IInv

(* What the invariants look at stays, or a directory is removed by hand.   *)
LEMMA RestKept ==
    ASSUME Bounds, IInv, dirs' \subseteq dirs,
           UNCHANGED <<task, rec, branches, tip, saved, approvedTip, merges, unsaved, doubtful>>
    PROVE  IInv'
<1> USE DEF IInv
<1>1. Types' /\ Own' /\ Branched' /\ Reviewed'
  BY DEF Types, Own, OwnIn, Branched, Recorded, Reviewed
<1>2. FrozenNow' /\ FrozenSaved' /\ DoneStays' /\ VerdictSaved'
  BY DEF FrozenNow, FrozenSaved, Done, DoneStays, VerdictSaved, Recorded
<1>3. OwnersKnown' /\ VerdictReachesTree'
  BY DEF OwnersKnown, VerdictReachesTree, Recorded
<1> QED BY <1>1, <1>2, <1>3

LEMMA StepKept == Bounds /\ IInv /\ [Next]_vars => IInv'
<1> SUFFICES ASSUME Bounds, IInv, [Next]_vars PROVE IInv'
  OBVIOUS
<1>1. ASSUME NEW t \in Tasks, TaskCreate(t) \/ Reimport(t) \/ Cancel(t) \/ Retry(t)
      PROVE  IInv'
  BY <1>1, OtherMoves
<1>2. ASSUME NEW t \in Tasks, Spawn(t) PROVE IInv'
  BY <1>2, SpawnKept
<1>3. ASSUME NEW t \in Tasks, Commit(t) PROVE IInv'
  BY <1>3, CommitKept
<1>4. ASSUME NEW t \in Tasks, Complete(t) PROVE IInv'
  BY <1>4, CompleteKept
<1>5. ASSUME NEW t \in Tasks, Fail(t) PROVE IInv'
  BY <1>5, FailKept
<1>6. ASSUME NEW t \in Tasks, Approve(t) PROVE IInv'
  BY <1>6, ApproveKept
<1>7. ASSUME NEW t \in Tasks, Reject(t) PROVE IInv'
  BY <1>7, RejectKept
<1>8. ASSUME NEW w \in Wt, NEW target \in Branch, Merge(w, target) PROVE IInv'
  BY <1>8, MergeKept
<1>9. ASSUME NEW w \in Wt, Discard(w) PROVE IInv'
  BY <1>9, RemovedKept DEF Discard
<1>10. CASE Cleanup
  <2>1. {w \in Recorded(rec) : Sweeps(rec[w].state)} \in SUBSET Wt
    BY DEF Recorded
  <2> QED BY <1>10, <2>1, RemovedKept DEF Cleanup
<1>11. ASSUME NEW w \in Wt, RemovedByHand(w) PROVE IInv'
  <2>1. dirs' \subseteq dirs
    BY <1>11 DEF RemovedByHand
  <2> QED BY <1>11, <2>1, RestKept DEF RemovedByHand, managerVars
<1>12. CASE Checkout \/ (\E p \in Policies : SetTaskPolicy(p)) \/ (\E c \in Cleanups : SetCleanup(c))
            \/ UNCHANGED vars
  <2>1. UNCHANGED <<task, rec, dirs, branches, tip, saved, approvedTip, merges, unsaved, doubtful>>
    BY <1>12 DEF Checkout, SetTaskPolicy, SetCleanup, managerVars, gitVars, vars
  <2> QED BY <2>1, RestKept
<1>13. CASE Save
  BY <1>13, SaveKept
<1>14. CASE Restart
  BY <1>14, RestartKept
<1> QED BY <1>1, <1>2, <1>3, <1>4, <1>5, <1>6, <1>7, <1>8, <1>9, <1>10, <1>11, <1>12,
           <1>13, <1>14 DEF Next

-----------------------------------------------------------------------------
(* The inductive invariant holds, in every reachable state.                *)
LEMMA Invariance == ASSUME Bounds PROVE Spec => []IInv
<1>1. Init => IInv
  BY Starts
<1>2. IInv /\ [Next]_vars => IInv'
  BY StepKept
<1> QED BY <1>1, <1>2, PTL DEF Spec

(* A task's worktree is one of its attempts, a record is in a state the    *)
(* manager may leave it in (Rejected is not one, preserve_worktree follows *)
(* it), and no directory is without its branch.                            *)
THEOREM WorktreeTypes == ASSUME Bounds PROVE Spec => []TypeOK
<1>1. IInv => TypeOK
  BY NotATree DEF IInv, Types, TypeOK, Task, Statuses, Trees, Record, Recorded, States
<1> QED BY <1>1, Invariance, PTL

(* Whenever the application is killed, whatever was saved last: a worktree *)
(* a task names and that is on disk has a record, which says it is that    *)
(* task's and no orphan (restore, scan, environment_for_task).             *)
THEOREM OwnersAreKnown == ASSUME Bounds PROVE Spec => []OwnersKnown
<1>1. IInv => OwnersKnown
  BY DEF IInv
<1> QED BY <1>1, Invariance, PTL

(* What a human approved is not committed to again, by no retry, reuse or  *)
(* restart, so that what worktree_merge merges is what was reviewed        *)
(* (resolve_task_review, environment_for_task, worktree_merge).            *)
THEOREM ApprovedStays == ASSUME Bounds PROVE Spec => []ApprovedIsFrozen
<1>1. IInv => ApprovedIsFrozen
  BY DEF IInv, ApprovedIsFrozen, FrozenNow, Frozen, Done, Reviewed, Recorded
<1> QED BY <1>1, Invariance, PTL

(* A completed task's worktree is approved or merged, or removed: neither  *)
(* the second event of the approval nor a restart takes the verdict back   *)
(* (resolve_task_review, capture_worktree_result, scan).                   *)
THEOREM VerdictStays == ASSUME Bounds PROVE Spec => []VerdictReachesTree
<1>1. IInv => VerdictReachesTree
  BY DEF IInv
<1> QED BY <1>1, Invariance, PTL

=============================================================================
