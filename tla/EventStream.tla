----------------------------- MODULE EventStream -----------------------------
(***************************************************************************)
(* What one subscriber of the event bus may rely on, whatever the bus does *)
(* to bound its memory: the events it takes come in publish order, none    *)
(* twice and none it did not ask for; events may be missed; and once the   *)
(* stream is closed nothing more is offered, while what was already        *)
(* offered can still be taken.                                             *)
(***************************************************************************)
EXTENDS Integers, FiniteSetsExt

CONSTANT Event   \* publish numbers

VARIABLES
    offered,  \* the events (publish numbers) the subscriber may still take
    taken,    \* the events it has taken
    open      \* whether it is subscribed

streamVars == <<offered, taken, open>>

Newer(e, S) == \A x \in S : x < e

StreamInit == offered = {} /\ taken = {} /\ open = FALSE

Open == ~open /\ offered = {} /\ taken = {} /\ open' = TRUE /\ UNCHANGED <<offered, taken>>

Offer(e) ==
    /\ open /\ Newer(e, offered \cup taken)
    /\ offered' = offered \cup {e}
    /\ UNCHANGED <<taken, open>>

Take ==
    /\ offered # {}
    /\ LET e == Min(offered) IN
         /\ offered' = offered \ {e}
         /\ taken' = taken \cup {e}
    /\ UNCHANGED open

Close == open /\ open' = FALSE /\ UNCHANGED <<offered, taken>>

(* The receiver is dropped with whatever was in it.                        *)
Abandon == offered' = {} /\ UNCHANGED <<taken, open>>

StreamNext == Open \/ (\E e \in Event : Offer(e)) \/ Take \/ Close \/ Abandon

StreamSpec == StreamInit /\ [][StreamNext]_streamVars
=============================================================================
