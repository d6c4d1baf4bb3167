--------------------------- MODULE TerminalProofs ---------------------------
(***************************************************************************)
(* Theorems about the components the suite MCTerminal checks: what a       *)
(* subscriber's stream holds, what the drop counters say, who is let go,   *)
(* and that each stream is what EventStream promises (EventBus, for any    *)
(* number of subscribers, channels and events and any capacities); what is *)
(* in the state file (StateFile); what Esc does to the windows of the      *)
(* desktop (Desktop); and that cursor, rows and history of a terminal keep *)
(* to its screen and its limit (Screen).  PanesProofs has those about the  *)
(* panes.  What holds of a component holds of the suite.                   *)
(***************************************************************************)
EXTENDS MCTerminal, FiniteSetTheorems, SequenceTheorems, WellFoundedInduction, TLAPS

-----------------------------------------------------------------------------
(* A receiver's queue: what putting at its end and taking from its front   *)
(* do to it as a list and as a set.                                        *)
LEMMA Appended ==
    ASSUME NEW q \in Seq(Nat), NEW e \in Nat
    PROVE  /\ Append(q, e) \in Seq(Nat) /\ Len(Append(q, e)) = Len(q) + 1
           /\ ToSet(Append(q, e)) = ToSet(q) \cup {e}
           /\ Increasing(q) /\ (\A x \in ToSet(q) : x < e) => Increasing(Append(q, e))
<1> DEFINE a == Append(q, e)
<1>1. /\ a \in Seq(Nat) /\ Len(a) = Len(q) + 1 /\ Len(q) \in Nat
      /\ DOMAIN a = 1..(Len(q) + 1) /\ DOMAIN q = 1..Len(q)
      /\ \A i \in 1..Len(q) : a[i] = q[i] /\ q[i] \in Nat
      /\ a[Len(q) + 1] = e
  OBVIOUS
<1> HIDE DEF a
<1>2. ToSet(a) = ToSet(q) \cup {e}
  <2>1. ToSet(a) \subseteq ToSet(q) \cup {e}
    BY <1>1 DEF ToSet
  <2>2. ToSet(q) \subseteq ToSet(a)
    <3> SUFFICES ASSUME NEW i \in DOMAIN q PROVE q[i] \in ToSet(a)
      BY DEF ToSet
    <3>1. i \in DOMAIN a /\ a[i] = q[i]
      BY <1>1
    <3> QED BY <3>1 DEF ToSet
  <2>3. e \in ToSet(a)
    BY <1>1 DEF ToSet
  <2> QED BY <2>1, <2>2, <2>3
<1>3. ASSUME Increasing(q), \A x \in ToSet(q) : x < e PROVE Increasing(a)
  <2> SUFFICES ASSUME NEW i \in DOMAIN a, NEW j \in DOMAIN a, i < j PROVE a[i] < a[j]
    BY DEF Increasing
  <2>1. i \in DOMAIN q /\ a[i] = q[i]
    BY <1>1
  <2>2. CASE j \in DOMAIN q
    BY <1>1, <1>3, <2>1, <2>2 DEF Increasing
  <2>3. CASE j \notin DOMAIN q
    <3>1. a[j] = e /\ q[i] \in ToSet(q)
      BY <1>1, <2>1, <2>3 DEF ToSet
    <3> QED BY <1>3, <2>1, <3>1
  <2> QED BY <2>2, <2>3
<1> QED BY <1>1, <1>2, <1>3 DEF a

LEMMA TailOf ==
    ASSUME NEW S, NEW q \in Seq(S), q # <<>>
    PROVE  /\ Head(q) \in S /\ 1 \in DOMAIN q /\ Head(q) = q[1]
           /\ Tail(q) \in Seq(S) /\ Len(Tail(q)) = Len(q) - 1 /\ Len(q) \in Nat
           /\ \A i \in DOMAIN Tail(q) :
                 i \in Int /\ i >= 1 /\ i + 1 \in DOMAIN q /\ Tail(q)[i] = q[i + 1]
           /\ \A i \in DOMAIN q : i # 1 => i - 1 \in DOMAIN Tail(q) /\ Tail(q)[i - 1] = q[i]
<1> DEFINE r == Tail(q)
<1>1. /\ r \in Seq(S) /\ Len(r) = Len(q) - 1 /\ Len(q) \in Nat \ {0}
      /\ DOMAIN r = 1..(Len(q) - 1) /\ DOMAIN q = 1..Len(q)
      /\ \A i \in 1..(Len(q) - 1) : r[i] = q[i + 1]
      /\ Head(q) = q[1] /\ Head(q) \in S
  OBVIOUS
<1> HIDE DEF r
<1>2. \A i \in DOMAIN r : i \in Int /\ i >= 1 /\ i + 1 \in DOMAIN q /\ r[i] = q[i + 1]
  BY <1>1
<1>3. \A i \in DOMAIN q : i # 1 => i - 1 \in DOMAIN r /\ r[i - 1] = q[i]
  BY <1>1
<1>4. Head(q) \in S /\ 1 \in DOMAIN q /\ Head(q) = q[1] /\ r \in Seq(S)
      /\ Len(r) = Len(q) - 1 /\ Len(q) \in Nat
  BY <1>1
<1> QED BY <1>2, <1>3, <1>4, Zenon DEF r

LEMMA TakenOff ==
    ASSUME NEW q \in Seq(Nat), q # <<>>, Increasing(q)
    PROVE  /\ Head(q) \in ToSet(q) /\ Head(q) \in Nat
           /\ Tail(q) \in Seq(Nat) /\ Len(Tail(q)) = Len(q) - 1
           /\ Increasing(Tail(q)) /\ ToSet(Tail(q)) = ToSet(q) \ {Head(q)}
           /\ \A e \in ToSet(Tail(q)) : Head(q) < e
<1> DEFINE r == Tail(q)
           h == Head(q)
<1>1. /\ h \in Nat /\ 1 \in DOMAIN q /\ h = q[1] /\ r \in Seq(Nat)
      /\ Len(r) = Len(q) - 1
  BY TailOf
<1>2. \A i \in DOMAIN r : i \in Int /\ i >= 1 /\ i + 1 \in DOMAIN q /\ r[i] = q[i + 1]
  BY TailOf
<1>3. \A i \in DOMAIN q : i # 1 => i - 1 \in DOMAIN r /\ r[i - 1] = q[i]
  BY TailOf
<1> HIDE DEF r, h
<1>4. h \in ToSet(q)
  BY <1>1 DEF ToSet
<1>5. Increasing(r)
  BY <1>2 DEF Increasing
<1>6. \A e \in ToSet(r) : e \in ToSet(q) /\ h < e
  <2> SUFFICES ASSUME NEW i \in DOMAIN r PROVE r[i] \in ToSet(q) /\ h < r[i]
    BY DEF ToSet
  <2>1. i + 1 \in DOMAIN q /\ r[i] = q[i + 1] /\ 1 < i + 1
    BY <1>2
  <2>2. q[1] < q[i + 1]
    BY <1>1, <2>1 DEF Increasing
  <2> QED BY <1>1, <2>1, <2>2 DEF ToSet
<1>7. ToSet(q) \subseteq ToSet(r) \cup {h}
  BY <1>1, <1>3 DEF ToSet
<1>8. h \notin ToSet(r)
  BY <1>1, <1>6
<1>9. ToSet(r) = ToSet(q) \ {h}
  BY <1>6, <1>7, <1>8
<1> QED BY <1>1, <1>4, <1>5, <1>6, <1>9 DEF r, h

LEMMA NoEvents == ToSet(<<>>) = {} /\ Increasing(<<>>)
  BY DEF ToSet, Increasing

LEMMA Held ==
    \A n \in Nat : \A q \in Seq(1..n) :
        q \in Seq(Nat) /\ ToSet(q) \subseteq 1..n /\ Len(q) \in Nat
  BY DEF ToSet

(* A longer history only adds to what may be queued.                       *)
LEMMA Later ==
    \A m, n \in Nat : m <= n => \A q \in Seq(1..m) : q \in Seq(1..n)
<1> SUFFICES ASSUME NEW m \in Nat, NEW n \in Nat, m <= n, NEW q \in Seq(1..m)
             PROVE  q \in Seq(1..n)
  OBVIOUS
<1>1. 1..m \subseteq 1..n
  OBVIOUS
<1> QED BY <1>1

-----------------------------------------------------------------------------
(* Type correctness.                                                       *)

LEMMA BumpTypes ==
    ASSUME NEW f \in [Subscribers -> Nat], NEW S
    PROVE  Bump(f, S) \in [Subscribers -> Nat]
  BY DEF Bump

LEMMA TypesStart == Init => TypeOK
<1> SUFFICES ASSUME Init PROVE TypeOK
  OBVIOUS
<1>1. /\ queue \in [Subscribers -> Seq(1..published)] /\ got \in [Subscribers -> Seq(1..published)]
      /\ \A s \in Subscribers : Len(queue[s]) = 0
  BY DEF Init
<1>2. published \in 0..MaxEvents /\ channel \in Seq(Channels) /\ Len(channel) = published
  BY EventsAssumption DEF Init
<1> QED BY <1>1, <1>2, CapacityAssumption DEF Init, TypeOK, Zero

LEMMA TypesKept == TypeOK /\ [Next]_vars => TypeOK'
<1> SUFFICES ASSUME TypeOK, [Next]_vars PROVE TypeOK'
  OBVIOUS
<1> USE DEF subscriberVars, historyVars
<1>0. published \in Nat /\ MaxEvents \in Nat
  BY EventsAssumption DEF TypeOK
<1>1. ASSUME NEW c \in Channels, Publish(c) PROVE TypeOK'
  <2>1. published' = published + 1 /\ published' \in 0..MaxEvents /\ published' \in Nat
    BY <1>0, <1>1 DEF Publish
  <2>2. channel' \in Seq(Channels) /\ Len(channel') = published'
    BY <1>1, <2>1 DEF TypeOK, Publish
  <2>3. \A s \in Subscribers : /\ queue[s] \in Seq(1..published') /\ got[s] \in Seq(1..published')
                               /\ since[s] \in 0..published'
    BY <1>0, <2>1, Later DEF TypeOK
  <2>4. \A s \in Subscribers : /\ queue'[s] \in Seq(1..published')
                               /\ Len(queue'[s]) <= SUBSCRIBER_QUEUE_CAPACITY
    <3> SUFFICES ASSUME NEW s \in Subscribers
                 PROVE  /\ queue'[s] \in Seq(1..published')
                        /\ Len(queue'[s]) <= SUBSCRIBER_QUEUE_CAPACITY
      OBVIOUS
    <3>1. CASE s \in Sent(c)
      <4>1. Len(queue[s]) # SUBSCRIBER_QUEUE_CAPACITY
        BY <3>1 DEF Sent, Full
      <4>2. queue'[s] = Append(queue[s], published')
        BY <1>1, <2>1, <3>1 DEF Publish
      <4>3. Len(queue[s]) \in Nat /\ Len(queue[s]) < SUBSCRIBER_QUEUE_CAPACITY
        BY <2>3, <4>1, CapacityAssumption DEF TypeOK
      <4>4. published' \in 1..published'
        BY <1>0, <2>1
      <4>5. Append(queue[s], published') \in Seq(1..published')
            /\ Len(Append(queue[s], published')) = Len(queue[s]) + 1
        BY <2>3, <4>4, AppendProperties
      <4> QED BY <4>2, <4>3, <4>5, CapacityAssumption
    <3>2. CASE s \notin Sent(c)
      BY <1>1, <2>3, <3>2 DEF Publish, TypeOK
    <3> QED BY <3>1, <3>2
  <2>5. /\ sent_since_flush' \in [Subscribers -> Nat] /\ critical_drops' \in [Subscribers -> Nat]
        /\ dropped_non_critical' \in [Subscribers -> Nat]
    BY <1>1, BumpTypes DEF Publish, TypeOK
  <2>6. disconnected' \in [Subscribers -> BOOLEAN] /\ lagged' \in [Subscribers -> BOOLEAN]
    BY <1>1, Zenon DEF Publish, TypeOK
  <2>7. queue' \in [Subscribers -> Seq(1..published')]
    BY <1>1, <2>4 DEF Publish
  <2> QED BY <1>1, <2>1, <2>2, <2>3, <2>4, <2>5, <2>6, <2>7 DEF Publish, TypeOK
<1>2. CASE Flush
  <2>1. /\ stalled_flushes' \in [Subscribers -> Nat] /\ last_q_before' \in [Subscribers -> Nat]
        /\ sent_since_flush' \in [Subscribers -> Nat]
    <3>1. \A s \in Subscribers : Len(queue[s]) \in Nat /\ stalled_flushes[s] \in Nat
      BY <1>0, Held DEF TypeOK
    <3> QED BY <1>2, <3>1 DEF Flush, TypeOK
  <2>2. took' \in [Subscribers -> BOOLEAN] /\ lagged' \in [Subscribers -> BOOLEAN]
    BY <1>2, Zenon DEF Flush, TypeOK
  <2> QED BY <1>2, <2>1, <2>2 DEF Flush, TypeOK
<1>3. ASSUME NEW s \in Subscribers, NEW F \in Filters, Subscribe(s, F) PROVE TypeOK'
  <2>1. filter' \in [Subscribers -> SUBSET Channels]
    BY <1>3, FiltersAssumption, Zenon DEF Subscribe, TypeOK
  <2>2. since' \in [Subscribers -> 0..published]
    BY <1>0, <1>3 DEF Subscribe, TypeOK
  <2> QED BY <1>3, <2>1, <2>2 DEF Subscribe, TypeOK
<1>4. ASSUME NEW s \in Subscribers, Receive(s) PROVE TypeOK'
  <2>1. /\ queue[s] \in Seq(1..published) /\ queue[s] # <<>> /\ got[s] \in Seq(1..published)
        /\ Len(queue[s]) <= SUBSCRIBER_QUEUE_CAPACITY
    BY <1>4 DEF Receive, TypeOK
  <2>2. Head(queue[s]) \in 1..published /\ Tail(queue[s]) \in Seq(1..published)
        /\ Len(Tail(queue[s])) = Len(queue[s]) - 1 /\ Len(queue[s]) \in Nat
    BY <2>1, TailOf
  <2>3. Append(got[s], Head(queue[s])) \in Seq(1..published)
    BY <2>1, <2>2, AppendProperties
  <2>4. /\ queue' \in [Subscribers -> Seq(1..published)]
        /\ \A u \in Subscribers : Len(queue'[u]) <= SUBSCRIBER_QUEUE_CAPACITY
    <3> DEFINE r == Tail(queue[s])
    <3>1. r \in Seq(1..published) /\ Len(r) <= SUBSCRIBER_QUEUE_CAPACITY
      <4>1. Len(r) = Len(queue[s]) - 1 /\ Len(queue[s]) \in Nat
        BY <2>2
      <4> QED BY <2>1, <2>2, <4>1, CapacityAssumption
    <3>2. queue' = [queue EXCEPT ![s] = r]
      BY <1>4 DEF Receive
    <3> HIDE DEF r
    <3> QED BY <3>1, <3>2 DEF TypeOK
  <2>5. got' \in [Subscribers -> Seq(1..published)]
    BY <1>4, <2>3 DEF Receive, TypeOK
  <2> QED BY <1>4, <2>4, <2>5 DEF Receive, TypeOK
<1>5. ASSUME NEW s \in Subscribers, DropReceiver(s) PROVE TypeOK'
  <2>1. /\ queue' \in [Subscribers -> Seq(1..published)]
        /\ \A u \in Subscribers : Len(queue'[u]) <= SUBSCRIBER_QUEUE_CAPACITY
    BY <1>5, CapacityAssumption DEF DropReceiver, TypeOK
  <2> QED BY <1>5, <2>1 DEF DropReceiver, TypeOK
<1>6. ASSUME NEW s \in Subscribers, Unsubscribe(s) \/ Wedge(s) PROVE TypeOK'
  BY <1>6 DEF Unsubscribe, Wedge, TypeOK
<1>7. CASE UNCHANGED vars
  BY <1>7 DEF vars, TypeOK
<1> QED BY <1>1, <1>2, <1>3, <1>4, <1>5, <1>6, <1>7 DEF Next

(* Every variable of the bus keeps its type, and no queue of a subscriber  *)
(* that does not read ever outgrows its capacity (events.rs try_enqueue).  *)
THEOREM BusTypes == Spec => []TypeOK
<1> QED BY TypesStart, TypesKept, PTL DEF Spec

-----------------------------------------------------------------------------
(* What a stream holds, as sets.                                           *)

Seen(s) == ToSet(got[s]) \cup ToSet(queue[s])

(* Taken before queued, each in publish order, and all of it asked for.    *)
Ordered(s) ==
    /\ Increasing(got[s]) /\ Increasing(queue[s])
    /\ \A x \in ToSet(got[s]), y \in ToSet(queue[s]) : x < y
    /\ \A e \in Seen(s) : e > since[s] /\ channel[e] \in filter[s]

(* Nothing is known of a subscriber that has not subscribed yet.           *)
Unborn(s) ==
    rx[s] = "none" =>
        /\ s \notin subs /\ queue[s] = <<>> /\ got[s] = <<>>
        /\ critical_drops[s] = 0 /\ dropped_non_critical[s] = 0
        /\ last_q_before[s] = 0 /\ sent_since_flush[s] = 0

GoneIsKnown(s) == disconnected[s] => rx[s] = "dropped"

(* A queue holds no more than the last flush left in it and what was sent  *)
(* since; less, if the receiver took something of what the flush left.     *)
Backlog(s) ==
    /\ Len(queue[s]) <= last_q_before[s] + sent_since_flush[s]
    /\ took[s] => \/ last_q_before[s] = 0
                  \/ Len(queue[s]) < last_q_before[s] + sent_since_flush[s]

OrderInv == TypeOK /\ \A s \in Subscribers : Ordered(s) /\ Unborn(s)

LEMMA Typed ==
    ASSUME TypeOK, NEW s \in Subscribers
    PROVE  /\ queue[s] \in Seq(Nat) /\ got[s] \in Seq(Nat)
           /\ queue[s] \in Seq(1..published) /\ got[s] \in Seq(1..published)
           /\ ToSet(queue[s]) \subseteq 1..published /\ ToSet(got[s]) \subseteq 1..published
           /\ Len(queue[s]) \in Nat /\ since[s] \in 0..published /\ published \in Nat
           /\ critical_drops[s] \in Nat /\ dropped_non_critical[s] \in Nat
           /\ last_q_before[s] \in Nat /\ sent_since_flush[s] \in Nat
           /\ took[s] \in BOOLEAN /\ lagged[s] \in BOOLEAN
<1>1. published \in Nat
  BY EventsAssumption DEF TypeOK
<1>2. queue[s] \in Seq(1..published) /\ got[s] \in Seq(1..published)
  BY DEF TypeOK
<1>3. /\ queue[s] \in Seq(Nat) /\ got[s] \in Seq(Nat) /\ Len(queue[s]) \in Nat
      /\ ToSet(queue[s]) \subseteq 1..published /\ ToSet(got[s]) \subseteq 1..published
  BY <1>1, <1>2, Held
<1>4. /\ since[s] \in 0..published
      /\ critical_drops[s] \in Nat /\ dropped_non_critical[s] \in Nat
      /\ last_q_before[s] \in Nat /\ sent_since_flush[s] \in Nat
      /\ took[s] \in BOOLEAN /\ lagged[s] \in BOOLEAN
  BY Zenon DEF TypeOK
<1> QED BY <1>1, <1>2, <1>3, <1>4

(* What each subscriber sees of a publication.                             *)
LEMMA Published ==
    ASSUME OrderInv, NEW c \in Channels, Publish(c), NEW s \in Subscribers
    PROVE  /\ published' = published + 1 /\ published' \in Nat
           /\ \A e \in 1..published : channel'[e] = channel[e]
           /\ channel'[published'] = c
           /\ s \in Sent(c) => /\ s \in subs /\ c \in filter[s]
                               /\ ToSet(queue'[s]) = ToSet(queue[s]) \cup {published'}
                               /\ Increasing(queue'[s])
                               /\ Len(queue'[s]) = Len(queue[s]) + 1
           /\ s \notin Sent(c) => queue'[s] = queue[s]
           /\ got'[s] = got[s]
<1>1. published' = published + 1 /\ published \in Nat /\ published' \in Nat
  BY Typed DEF OrderInv, Publish
<1>2. (\A e \in 1..published : channel'[e] = channel[e]) /\ channel'[published'] = c
  <2>1. channel \in Seq(Channels) /\ Len(channel) = published /\ channel' = Append(channel, c)
    BY DEF OrderInv, TypeOK, Publish
  <2> QED BY <1>1, <2>1, AppendProperties
<1>3. ASSUME s \in Sent(c)
      PROVE  /\ ToSet(queue'[s]) = ToSet(queue[s]) \cup {published'} /\ Increasing(queue'[s])
             /\ Len(queue'[s]) = Len(queue[s]) + 1
  <2>1. queue'[s] = Append(queue[s], published')
    BY <1>1, <1>3 DEF Publish
  <2>2. queue[s] \in Seq(Nat) /\ Increasing(queue[s]) /\ ToSet(queue[s]) \subseteq 1..published
    BY Typed DEF OrderInv, Ordered
  <2>3. \A x \in ToSet(queue[s]) : x < published'
    BY <1>1, <2>2
  <2> QED BY <1>1, <2>1, <2>2, <2>3, Appended
<1>4. s \in Sent(c) => s \in subs /\ c \in filter[s]
  BY DEF Sent, Matching
<1>5. (s \notin Sent(c) => queue'[s] = queue[s]) /\ got'[s] = got[s]
  BY DEF Publish
<1> QED BY <1>1, <1>2, <1>3, <1>4, <1>5

(* What a receiver sees of taking an event.                                *)
LEMMA Received ==
    ASSUME OrderInv, NEW s \in Subscribers, Receive(s)
    PROVE  /\ \A u \in Subscribers \ {s} : queue'[u] = queue[u] /\ got'[u] = got[u]
           /\ Len(queue'[s]) = Len(queue[s]) - 1
           /\ Increasing(queue'[s]) /\ Increasing(got'[s])
           /\ Head(queue[s]) \in ToSet(queue[s])
           /\ \A y \in ToSet(queue'[s]) : Head(queue[s]) < y
           /\ ToSet(queue'[s]) = ToSet(queue[s]) \ {Head(queue[s])}
           /\ ToSet(got'[s]) = ToSet(got[s]) \cup {Head(queue[s])}
<1>1. /\ queue[s] # <<>> /\ queue[s] \in Seq(Nat) /\ got[s] \in Seq(Nat)
      /\ Increasing(queue[s]) /\ Increasing(got[s])
      /\ \A x \in ToSet(got[s]), y \in ToSet(queue[s]) : x < y
  BY Typed DEF OrderInv, Ordered, Receive
<1>2. queue'[s] = Tail(queue[s]) /\ got'[s] = Append(got[s], Head(queue[s]))
  BY DEF Receive, OrderInv, TypeOK
<1>3. \A u \in Subscribers \ {s} : queue'[u] = queue[u] /\ got'[u] = got[u]
  BY DEF Receive, OrderInv, TypeOK
<1> DEFINE h == Head(queue[s])
<1>4. /\ h \in ToSet(queue[s]) /\ h \in Nat
      /\ Len(Tail(queue[s])) = Len(queue[s]) - 1
      /\ Increasing(Tail(queue[s])) /\ ToSet(Tail(queue[s])) = ToSet(queue[s]) \ {h}
      /\ \A e \in ToSet(Tail(queue[s])) : h < e
  BY <1>1, TakenOff
<1>5. \A x \in ToSet(got[s]) : x < h
  BY <1>1, <1>4
<1>6. ToSet(Append(got[s], h)) = ToSet(got[s]) \cup {h} /\ Increasing(Append(got[s], h))
  BY <1>1, <1>4, <1>5, Appended
<1> HIDE DEF h
<1> QED BY <1>2, <1>3, <1>4, <1>6 DEF h

LEMMA OrderKept == OrderInv /\ [Next]_vars => OrderInv'
<1> SUFFICES ASSUME OrderInv, [Next]_vars, NEW s \in Subscribers
             PROVE  Ordered(s)' /\ Unborn(s)'
  BY TypesKept DEF OrderInv
<1> USE DEF subscriberVars, historyVars
<1>0. /\ TypeOK /\ Ordered(s) /\ Unborn(s)
      /\ Seen(s) \subseteq 1..published /\ published \in Nat /\ since[s] \in 0..published
  BY Typed DEF OrderInv, Seen
<1>1. ASSUME NEW c \in Channels, Publish(c) PROVE Ordered(s)' /\ Unborn(s)'
  <2>1. /\ published' = published + 1 /\ published' \in Nat
        /\ \A e \in 1..published : channel'[e] = channel[e]
        /\ channel'[published'] = c
        /\ s \in Sent(c) => /\ s \in subs /\ c \in filter[s]
                            /\ ToSet(queue'[s]) = ToSet(queue[s]) \cup {published'}
                            /\ Increasing(queue'[s])
        /\ s \notin Sent(c) => queue'[s] = queue[s]
        /\ got'[s] = got[s] /\ filter' = filter /\ since' = since /\ subs' = subs /\ rx' = rx
    BY <1>1, Published DEF Publish
  <2>2. Ordered(s)'
    <3>1. Increasing(got'[s]) /\ Increasing(queue'[s])
      BY <1>0, <2>1 DEF Ordered
    <3>2. Seen(s)' \subseteq Seen(s) \cup {published'} /\ (s \notin Sent(c) => Seen(s)' = Seen(s))
      BY <2>1 DEF Seen
    <3>3. ASSUME NEW x \in ToSet(got'[s]), NEW y \in ToSet(queue'[s]) PROVE x < y
      <4>1. x \in ToSet(got[s]) /\ x \in 1..published
        BY <1>0, <2>1 DEF Seen
      <4>2. y \in ToSet(queue[s]) \/ y = published'
        BY <2>1
      <4> QED BY <1>0, <2>1, <4>1, <4>2 DEF Ordered
    <3>4. ASSUME NEW e \in Seen(s)' PROVE e > since'[s] /\ channel'[e] \in filter'[s]
      <4>1. CASE e \in Seen(s)
        BY <1>0, <2>1, <4>1 DEF Ordered
      <4>2. CASE e \notin Seen(s)
        <5>1. e = published' /\ s \in Sent(c)
          BY <3>2, <4>2
        <5> QED BY <1>0, <2>1, <5>1
      <4> QED BY <4>1, <4>2
    <3> QED BY <3>1, <3>3, <3>4 DEF Ordered
  <2>3. Unborn(s)'
    <3>1. CASE rx[s] = "none"
      <4>1. s \notin subs /\ s \notin Matching(c) /\ s \notin Sent(c) /\ s \notin Full(c)
        BY <1>0, <3>1 DEF Unborn, Matching, Sent, Full
      <4>2. /\ critical_drops'[s] = critical_drops[s] /\ sent_since_flush'[s] = sent_since_flush[s]
            /\ dropped_non_critical'[s] = dropped_non_critical[s]
            /\ last_q_before' = last_q_before
        BY <1>1, <4>1 DEF Publish, Bump
      <4> QED BY <1>0, <2>1, <3>1, <4>1, <4>2 DEF Unborn
    <3> QED BY <2>1, <3>1 DEF Unborn
  <2> QED BY <2>2, <2>3
<1>2. CASE Flush
  <2>1. Ordered(s)'
    BY <1>0, <1>2 DEF Flush, Ordered, Seen
  <2>2. Unborn(s)'
    BY <1>0, <1>2 DEF Flush, Unborn
  <2> QED BY <2>1, <2>2
<1>3. ASSUME NEW u \in Subscribers, NEW F \in Filters, Subscribe(u, F)
      PROVE  Ordered(s)' /\ Unborn(s)'
  <2>1. CASE u = s
    <3>1. queue'[s] = <<>> /\ got'[s] = <<>> /\ rx'[s] = "reading"
      BY <1>0, <1>3, <2>1 DEF Subscribe, Unborn, TypeOK
    <3> QED BY <3>1, NoEvents DEF Ordered, Unborn, Seen
  <2>2. CASE u # s
    <3>1. /\ filter'[s] = filter[s] /\ since'[s] = since[s] /\ rx'[s] = rx[s]
          /\ s \in subs' <=> s \in subs
      BY <1>0, <1>3, <2>2 DEF Subscribe, TypeOK
    <3>2. Ordered(s)'
      BY <1>0, <1>3, <3>1 DEF Subscribe, Ordered, Seen
    <3>3. Unborn(s)'
      BY <1>0, <1>3, <3>1 DEF Subscribe, Unborn
    <3> QED BY <3>2, <3>3
  <2> QED BY <2>1, <2>2
<1>4. ASSUME NEW u \in Subscribers, Receive(u) PROVE Ordered(s)' /\ Unborn(s)'
  <2>1. CASE u = s
    <3>1. Ordered(s)'
      <4>1. /\ Increasing(queue'[s]) /\ Increasing(got'[s])
            /\ Head(queue[s]) \in ToSet(queue[s])
            /\ \A y \in ToSet(queue'[s]) : Head(queue[s]) < y
            /\ ToSet(queue'[s]) = ToSet(queue[s]) \ {Head(queue[s])}
            /\ ToSet(got'[s]) = ToSet(got[s]) \cup {Head(queue[s])}
        BY <1>4, <2>1, Received
      <4>2. Seen(s)' = Seen(s)
        BY <4>1 DEF Seen
      <4>3. \A x \in ToSet(got'[s]), y \in ToSet(queue'[s]) : x < y
        BY <1>0, <4>1 DEF Ordered
      <4>4. since' = since /\ channel' = channel /\ filter' = filter
        BY <1>4 DEF Receive
      <4> QED BY <1>0, <4>1, <4>2, <4>3, <4>4 DEF Ordered
    <3>2. Unborn(s)'
      BY <1>4, <2>1 DEF Receive, Unborn
    <3> QED BY <3>1, <3>2
  <2>2. CASE u # s
    <3>1. queue'[s] = queue[s] /\ got'[s] = got[s]
      BY <1>4, <2>2, Received
    <3>2. Ordered(s)'
      BY <1>0, <1>4, <3>1 DEF Receive, Ordered, Seen
    <3>3. Unborn(s)'
      BY <1>0, <1>4, <3>1 DEF Receive, Unborn
    <3> QED BY <3>2, <3>3
  <2> QED BY <2>1, <2>2
<1>5. ASSUME NEW u \in Subscribers, DropReceiver(u) PROVE Ordered(s)' /\ Unborn(s)'
  <2>1. queue'[s] = queue[s] \/ queue'[s] = <<>>
    BY <1>0, <1>5 DEF DropReceiver, TypeOK
  <2>2. Ordered(s)'
    <3>1. Increasing(queue'[s]) /\ ToSet(queue'[s]) \subseteq ToSet(queue[s])
      BY <1>0, <2>1, NoEvents DEF Ordered
    <3>2. got' = got /\ since' = since /\ channel' = channel /\ filter' = filter
      BY <1>5 DEF DropReceiver
    <3> QED BY <1>0, <3>1, <3>2 DEF Ordered, Seen
  <2>3. Unborn(s)'
    <3>1. rx'[s] = rx[s] \/ rx'[s] = "dropped"
      BY <1>0, <1>5 DEF DropReceiver, TypeOK
    <3> QED BY <1>0, <1>5, <2>1, <3>1 DEF DropReceiver, Unborn
  <2> QED BY <2>2, <2>3
<1>6. ASSUME NEW u \in Subscribers, Wedge(u) PROVE Ordered(s)' /\ Unborn(s)'
  <2>1. rx'[s] = rx[s] \/ rx'[s] = "wedged"
    BY <1>0, <1>6 DEF Wedge, TypeOK
  <2>2. Ordered(s)'
    BY <1>0, <1>6 DEF Wedge, Ordered, Seen
  <2> QED BY <1>0, <1>6, <2>1, <2>2 DEF Wedge, Unborn
<1>7. ASSUME NEW u \in Subscribers, Unsubscribe(u) PROVE Ordered(s)' /\ Unborn(s)'
  <2>1. Ordered(s)'
    BY <1>0, <1>7 DEF Unsubscribe, Ordered, Seen
  <2> QED BY <1>0, <1>7, <2>1 DEF Unsubscribe, Unborn
<1>8. CASE UNCHANGED vars
  BY <1>0, <1>8 DEF vars, Ordered, Seen, Unborn
<1> QED BY <1>1, <1>2, <1>3, <1>4, <1>5, <1>6, <1>7, <1>8 DEF Next

LEMMA OrderStart == Init => OrderInv
<1> SUFFICES ASSUME Init, NEW s \in Subscribers PROVE Ordered(s) /\ Unborn(s)
  BY TypesStart DEF OrderInv
<1>1. queue[s] = <<>> /\ got[s] = <<>> /\ subs = {} /\ critical_drops[s] = 0
      /\ dropped_non_critical[s] = 0 /\ last_q_before[s] = 0 /\ sent_since_flush[s] = 0
  BY DEF Init, Zero
<1> QED BY <1>1, NoEvents DEF Ordered, Unborn, Seen

-----------------------------------------------------------------------------
(* The drop counters.                                                      *)

LostCritical(s) == {e \in Lost(s) : is_critical(channel[e])}
LostCoalescible(s) == {e \in Lost(s) : ~is_critical(channel[e])}

Exact(s) ==
    s \in subs /\ rx[s] # "dropped" =>
        /\ critical_drops[s] = Cardinality(LostCritical(s))
        /\ dropped_non_critical[s] = Cardinality(LostCoalescible(s))
        /\ lagged[s] \/ Lost(s) = {}

CountInv == OrderInv /\ \A s \in Subscribers : Exact(s) /\ GoneIsKnown(s)

LEMMA LostIsFinite ==
    ASSUME TypeOK, NEW s \in Subscribers
    PROVE  /\ Lost(s) \subseteq 1..published
           /\ IsFiniteSet(Lost(s)) /\ IsFiniteSet(LostCritical(s))
           /\ IsFiniteSet(LostCoalescible(s))
<1>1. published \in Nat /\ since[s] \in 0..published
  BY Typed
<1>2. Lost(s) \subseteq 1..published
  BY <1>1 DEF Lost
<1>3. IsFiniteSet(1..published)
  BY <1>1, FS_Interval
<1>4. LostCritical(s) \in SUBSET (1..published) /\ LostCoalescible(s) \in SUBSET (1..published)
      /\ Lost(s) \in SUBSET (1..published)
  BY <1>2 DEF LostCritical, LostCoalescible
<1> QED BY <1>2, <1>3, <1>4, FS_Subset

(* The same stream and the same history leave the same gaps.               *)
LEMMA SameLost ==
    ASSUME NEW s \in Subscribers, Seen(s)' = Seen(s), published' = published,
           channel' = channel, filter'[s] = filter[s], since'[s] = since[s]
    PROVE  /\ Lost(s)' = Lost(s) /\ LostCritical(s)' = LostCritical(s)
           /\ LostCoalescible(s)' = LostCoalescible(s)
<1>1. Lost(s)' = Lost(s)
  BY DEF Lost, Seen
<1> QED BY <1>1 DEF LostCritical, LostCoalescible

(* A publication is lost exactly to those who ask for it with a full queue *)
(* (or with no receiver).                                                  *)
LEMMA LostByPublish ==
    ASSUME OrderInv, NEW c \in Channels, Publish(c), NEW s \in Subscribers
    PROVE  /\ c \in filter[s] /\ s \notin Sent(c) => Lost(s)' = Lost(s) \cup {published'}
           /\ ~(c \in filter[s] /\ s \notin Sent(c)) => Lost(s)' = Lost(s)
           /\ published' \notin Lost(s) /\ channel'[published'] = c
           /\ \A e \in Lost(s) : channel'[e] = channel[e]
<1>1. /\ published' = published + 1 /\ published' \in Nat /\ published \in Nat
      /\ \A e \in 1..published : channel'[e] = channel[e]
      /\ channel'[published'] = c
      /\ s \in Sent(c) => ToSet(queue'[s]) = ToSet(queue[s]) \cup {published'}
      /\ s \notin Sent(c) => queue'[s] = queue[s]
      /\ got'[s] = got[s] /\ filter' = filter /\ since' = since
  BY Published, Typed DEF Publish, OrderInv
<1>2. since[s] \in 0..published /\ Seen(s) \subseteq 1..published /\ Lost(s) \subseteq 1..published
  BY Typed, LostIsFinite DEF OrderInv, Seen
<1> DEFINE asked == {e \in (since[s] + 1)..published : channel[e] \in filter[s]}
           askedNow == {e \in (since'[s] + 1)..published' : channel'[e] \in filter'[s]}
<1>3. askedNow = IF c \in filter[s] THEN asked \cup {published'} ELSE asked
  <2>1. \A e : e \in (since'[s] + 1)..published' <=> e \in (since[s] + 1)..published \/ e = published'
    BY <1>1, <1>2
  <2>2. \A e \in (since[s] + 1)..published : channel'[e] = channel[e]
    BY <1>1, <1>2
  <2> QED BY <1>1, <2>1, <2>2
<1>4. Lost(s) = asked \ Seen(s) /\ Lost(s)' = askedNow \ Seen(s)'
  BY DEF Lost, Seen
<1>5. s \in Sent(c) => c \in filter[s] /\ Seen(s)' = Seen(s) \cup {published'}
  BY <1>1 DEF Seen, Sent, Matching
<1>6. s \notin Sent(c) => Seen(s)' = Seen(s)
  BY <1>1 DEF Seen
<1>7. published' \notin asked /\ published' \notin Seen(s)
  BY <1>1, <1>2
<1> HIDE DEF asked, askedNow
<1>8. CASE s \in Sent(c)
  BY <1>1, <1>2, <1>3, <1>4, <1>5, <1>7, <1>8
<1>9. CASE s \notin Sent(c)
  BY <1>1, <1>2, <1>3, <1>4, <1>6, <1>7, <1>9
<1> QED BY <1>8, <1>9

LEMMA CountsKept == CountInv /\ [Next]_vars => CountInv'
<1> SUFFICES ASSUME CountInv, [Next]_vars, NEW s \in Subscribers
             PROVE  Exact(s)' /\ GoneIsKnown(s)'
  BY OrderKept DEF CountInv
<1> USE DEF subscriberVars, historyVars
<1>0. /\ OrderInv /\ TypeOK /\ OrderInv' /\ Exact(s) /\ GoneIsKnown(s) /\ Unborn(s)
  BY OrderKept DEF CountInv, OrderInv
<1>1. ASSUME NEW c \in Channels, Publish(c) PROVE Exact(s)' /\ GoneIsKnown(s)'
  <2>1. subs' = subs /\ rx' = rx
    BY <1>1 DEF Publish
  <2>2. GoneIsKnown(s)'
    BY <1>0, <1>1, <2>1 DEF Publish, GoneIsKnown, Gone
  <2>3. ASSUME s \in subs, rx[s] # "dropped" PROVE Exact(s)'
    <3>0. /\ critical_drops[s] = Cardinality(LostCritical(s))
          /\ dropped_non_critical[s] = Cardinality(LostCoalescible(s))
          /\ lagged[s] \/ Lost(s) = {}
          /\ critical_drops[s] \in Nat /\ dropped_non_critical[s] \in Nat
      BY <1>0, <2>3, Typed DEF Exact
    <3>1. /\ c \in filter[s] /\ s \notin Sent(c) => Lost(s)' = Lost(s) \cup {published'}
          /\ ~(c \in filter[s] /\ s \notin Sent(c)) => Lost(s)' = Lost(s)
          /\ published' \notin Lost(s) /\ channel'[published'] = c
          /\ \A e \in Lost(s) : channel'[e] = channel[e]
      BY <1>0, <1>1, LostByPublish
    <3>2. s \in Full(c) <=> c \in filter[s] /\ s \notin Sent(c)
      BY <2>3 DEF Sent, Full, Matching, Gone
    <3>3. CASE s \in Full(c)
      <4>1. Lost(s)' = Lost(s) \cup {published'}
        BY <3>1, <3>2, <3>3
      <4>2. lagged'[s]
        BY <1>1, <3>3 DEF Publish, Full
      <4>3. CASE is_critical(c)
        <5>1. /\ LostCritical(s)' = LostCritical(s) \cup {published'}
              /\ LostCoalescible(s)' = LostCoalescible(s) /\ published' \notin LostCritical(s)
          BY <3>1, <4>1, <4>3 DEF LostCritical, LostCoalescible, is_critical
        <5>2. Cardinality(LostCritical(s)') = Cardinality(LostCritical(s)) + 1
          BY <1>0, <5>1, LostIsFinite, FS_AddElement
        <5>3. critical_drops'[s] = critical_drops[s] + 1
              /\ dropped_non_critical'[s] = dropped_non_critical[s]
          BY <1>1, <3>3, <4>3 DEF Publish, Bump
        <5> QED BY <3>0, <4>2, <5>1, <5>2, <5>3 DEF Exact
      <4>4. CASE ~is_critical(c)
        <5>1. /\ LostCoalescible(s)' = LostCoalescible(s) \cup {published'}
              /\ LostCritical(s)' = LostCritical(s) /\ published' \notin LostCoalescible(s)
          BY <3>1, <4>1, <4>4 DEF LostCritical, LostCoalescible, is_critical
        <5>2. Cardinality(LostCoalescible(s)') = Cardinality(LostCoalescible(s)) + 1
          BY <1>0, <5>1, LostIsFinite, FS_AddElement
        <5>3. critical_drops'[s] = critical_drops[s]
              /\ dropped_non_critical'[s] = dropped_non_critical[s] + 1
          BY <1>1, <3>3, <4>4 DEF Publish, Bump
        <5> QED BY <3>0, <4>2, <5>1, <5>2, <5>3 DEF Exact
      <4> QED BY <4>3, <4>4
    <3>4. CASE s \notin Full(c)
      <4>1. Lost(s)' = Lost(s)
        BY <3>1, <3>2, <3>4
      <4>2. LostCritical(s)' = LostCritical(s) /\ LostCoalescible(s)' = LostCoalescible(s)
        BY <3>1, <4>1 DEF LostCritical, LostCoalescible, is_critical
      <4>3. critical_drops'[s] = critical_drops[s] /\ (lagged[s] => lagged'[s])
            /\ dropped_non_critical'[s] = dropped_non_critical[s]
        BY <1>1, <3>4 DEF Publish, Bump
      <4> QED BY <3>0, <4>1, <4>2, <4>3 DEF Exact
    <3> QED BY <3>3, <3>4
  <2>4. s \notin subs \/ rx[s] = "dropped" => Exact(s)'
    BY <2>1 DEF Exact
  <2> QED BY <2>2, <2>3, <2>4
<1>2. CASE Flush
  <2>1. /\ subs' \subseteq subs /\ rx' = rx /\ disconnected' = disconnected
        /\ critical_drops' = critical_drops /\ dropped_non_critical' = dropped_non_critical
        /\ lagged[s] => lagged'[s]
    BY <1>2 DEF Flush
  <2>2. /\ Lost(s)' = Lost(s) /\ LostCritical(s)' = LostCritical(s)
        /\ LostCoalescible(s)' = LostCoalescible(s)
    BY <1>2, SameLost DEF Flush, Seen
  <2> QED BY <1>0, <2>1, <2>2 DEF Exact, GoneIsKnown
<1>3. ASSUME NEW u \in Subscribers, NEW F \in Filters, Subscribe(u, F)
      PROVE  Exact(s)' /\ GoneIsKnown(s)'
  <2>1. CASE u = s
    <3>1. since'[s] = published' /\ published' \in Nat
          /\ critical_drops'[s] = 0 /\ dropped_non_critical'[s] = 0
      BY <1>0, <1>3, <2>1, Typed DEF Subscribe, Unborn, TypeOK
    <3>2. Lost(s)' = {}
      BY <3>1 DEF Lost
    <3>3. LostCritical(s)' = {} /\ LostCoalescible(s)' = {}
      BY <3>2 DEF LostCritical, LostCoalescible
    <3>4. GoneIsKnown(s)'
      BY <1>0, <1>3, <2>1 DEF Subscribe, GoneIsKnown
    <3> QED BY <3>1, <3>2, <3>3, <3>4, FS_EmptySet DEF Exact
  <2>2. CASE u # s
    <3>1. /\ filter'[s] = filter[s] /\ since'[s] = since[s] /\ rx'[s] = rx[s]
          /\ s \in subs' <=> s \in subs
      BY <1>0, <1>3, <2>2 DEF Subscribe, TypeOK
    <3>2. /\ Lost(s)' = Lost(s) /\ LostCritical(s)' = LostCritical(s)
          /\ LostCoalescible(s)' = LostCoalescible(s)
      BY <1>3, <3>1, SameLost DEF Subscribe, Seen
    <3> QED BY <1>0, <1>3, <3>1, <3>2 DEF Exact, GoneIsKnown, Subscribe
  <2> QED BY <2>1, <2>2
<1>4. ASSUME NEW u \in Subscribers, Receive(u) PROVE Exact(s)' /\ GoneIsKnown(s)'
  <2>1. Seen(s)' = Seen(s)
    <3>1. CASE u = s
      BY <1>0, <1>4, <3>1, Received DEF Seen
    <3>2. CASE u # s
      BY <1>0, <1>4, <3>2, Received DEF Seen
    <3> QED BY <3>1, <3>2
  <2>2. /\ Lost(s)' = Lost(s) /\ LostCritical(s)' = LostCritical(s)
        /\ LostCoalescible(s)' = LostCoalescible(s)
    BY <1>4, <2>1, SameLost DEF Receive
  <2> QED BY <1>0, <1>4, <2>2 DEF Receive, Exact, GoneIsKnown
<1>5. ASSUME NEW u \in Subscribers, DropReceiver(u) PROVE Exact(s)' /\ GoneIsKnown(s)'
  <2>1. CASE u = s
    BY <1>0, <1>5, <2>1 DEF DropReceiver, Exact, GoneIsKnown, TypeOK
  <2>2. CASE u # s
    <3>1. queue'[s] = queue[s] /\ rx'[s] = rx[s] /\ got' = got
      BY <1>0, <1>5, <2>2 DEF DropReceiver, TypeOK
    <3>2. /\ Lost(s)' = Lost(s) /\ LostCritical(s)' = LostCritical(s)
          /\ LostCoalescible(s)' = LostCoalescible(s)
      BY <1>5, <3>1, SameLost DEF DropReceiver, Seen
    <3> QED BY <1>0, <1>5, <3>1, <3>2 DEF DropReceiver, Exact, GoneIsKnown
  <2> QED BY <2>1, <2>2
<1>6. ASSUME NEW u \in Subscribers, Unsubscribe(u) \/ Wedge(u)
      PROVE  Exact(s)' /\ GoneIsKnown(s)'
  <2>1. /\ rx'[s] = "dropped" => rx[s] = "dropped"
        /\ rx[s] = "dropped" => rx'[s] = "dropped"
        /\ subs' \subseteq subs
    <3>1. DOMAIN rx = Subscribers
      BY <1>0 DEF TypeOK
    <3>2. CASE Unsubscribe(u)
      BY <3>2 DEF Unsubscribe
    <3>3. CASE Wedge(u)
      BY <3>1, <3>3 DEF Wedge
    <3> QED BY <1>6, <3>2, <3>3
  <2>2. /\ Lost(s)' = Lost(s) /\ LostCritical(s)' = LostCritical(s)
        /\ LostCoalescible(s)' = LostCoalescible(s)
    BY <1>6, SameLost DEF Unsubscribe, Wedge, Seen
  <2> QED BY <1>0, <1>6, <2>1, <2>2 DEF Unsubscribe, Wedge, Exact, GoneIsKnown
<1>7. CASE UNCHANGED vars
  <2>1. /\ Lost(s)' = Lost(s) /\ LostCritical(s)' = LostCritical(s)
        /\ LostCoalescible(s)' = LostCoalescible(s)
    BY <1>7, SameLost DEF vars, Seen
  <2> QED BY <1>0, <1>7, <2>1 DEF vars, Exact, GoneIsKnown
<1> QED BY <1>1, <1>2, <1>3, <1>4, <1>5, <1>6, <1>7 DEF Next

LEMMA CountsStart == Init => CountInv
<1> SUFFICES ASSUME Init, NEW s \in Subscribers PROVE Exact(s) /\ GoneIsKnown(s)
  BY OrderStart DEF CountInv
<1> QED BY DEF Init, Exact, GoneIsKnown

(* A subscriber's stream holds what its filter selects, in publish order   *)
(* and each event once; every gap in it is in its drop counters; and there *)
(* is none while it keeps up (events.rs publish, try_enqueue).             *)
THEOREM StreamsAreExact == Spec => []StreamIsExact
<1>1. CountInv => StreamIsExact
  <2> SUFFICES ASSUME CountInv PROVE StreamIsExact
    OBVIOUS
  <2>0. subs \subseteq Subscribers
    BY DEF CountInv, OrderInv, TypeOK
  <2>1. StreamInOrder
    <3> SUFFICES ASSUME NEW s \in Subscribers
                 PROVE  /\ Increasing(got[s]) /\ Increasing(queue[s])
                        /\ \A i \in DOMAIN got[s], j \in DOMAIN queue[s] :
                              got[s][i] < queue[s][j]
                        /\ \A e \in Seen(s) : e > since[s] /\ channel[e] \in filter[s]
      BY DEF StreamInOrder, Seen
    <3>1. Ordered(s)
      BY DEF CountInv, OrderInv
    <3>2. \A i \in DOMAIN got[s], j \in DOMAIN queue[s] :
             got[s][i] \in ToSet(got[s]) /\ queue[s][j] \in ToSet(queue[s])
      BY DEF ToSet
    <3> QED BY <3>1, <3>2 DEF Ordered
  <2>2. DropsAreCounted
    BY <2>0 DEF CountInv, Exact, DropsAreCounted, LostCritical, LostCoalescible
  <2>3. KeepingUpLosesNothing
    BY <2>0 DEF CountInv, Exact, KeepingUpLosesNothing
  <2> QED BY <2>1, <2>2, <2>3 DEF StreamIsExact
<1> QED BY <1>1, CountsStart, CountsKept, PTL DEF Spec

-----------------------------------------------------------------------------
(* Who is let go.                                                          *)

BacklogInv == CountInv /\ \A s \in Subscribers : Backlog(s)

LEMMA BacklogKept == BacklogInv /\ [Next]_vars => BacklogInv'
<1> SUFFICES ASSUME BacklogInv, [Next]_vars, NEW s \in Subscribers PROVE Backlog(s)'
  BY CountsKept DEF BacklogInv
<1> USE DEF subscriberVars, historyVars
<1>0. OrderInv /\ TypeOK /\ Backlog(s) /\ Unborn(s)
  BY DEF BacklogInv, CountInv, OrderInv
<1>t. /\ Len(queue[s]) \in Nat /\ last_q_before[s] \in Nat /\ sent_since_flush[s] \in Nat
      /\ took[s] \in BOOLEAN /\ DOMAIN took = Subscribers /\ DOMAIN queue = Subscribers
  BY <1>0, Typed DEF TypeOK
<1>e. Len(<<>>) = 0
  OBVIOUS
<1>1. ASSUME NEW c \in Channels, Publish(c) PROVE Backlog(s)'
  <2>1. last_q_before' = last_q_before /\ took' = took
    BY <1>1 DEF Publish
  <2>2. CASE s \in Sent(c)
    <3>1. Len(queue'[s]) = Len(queue[s]) + 1
      BY <1>0, <1>1, <2>2, Published
    <3>2. sent_since_flush'[s] = sent_since_flush[s] + 1
      BY <1>1, <2>2 DEF Publish, Bump
    <3> QED BY <1>0, <1>t, <2>1, <3>1, <3>2 DEF Backlog
  <2>3. CASE s \notin Sent(c)
    <3>1. queue'[s] = queue[s] /\ sent_since_flush'[s] = sent_since_flush[s]
      BY <1>1, <2>3 DEF Publish, Bump
    <3> QED BY <1>0, <1>t, <2>1, <3>1 DEF Backlog
  <2> QED BY <2>2, <2>3
<1>2. CASE Flush
  <2>1. queue' = queue /\ (took'[s] => Len(queue[s]) = 0)
    BY <1>2, <1>e DEF Flush
  <2>2. CASE s \in subs
    <3>1. last_q_before'[s] = Len(queue[s]) /\ sent_since_flush'[s] = 0
      BY <1>2, <2>2 DEF Flush
    <3> QED BY <1>t, <2>1, <3>1 DEF Backlog
  <2>3. CASE s \notin subs
    <3>1. last_q_before'[s] = last_q_before[s] /\ sent_since_flush'[s] = sent_since_flush[s]
      BY <1>2, <2>3 DEF Flush
    <3>2. Len(queue[s]) = 0 =>
            Len(queue[s]) < last_q_before[s] + sent_since_flush[s] \/ last_q_before[s] = 0
      BY <1>t
    <3> QED BY <1>0, <1>t, <2>1, <3>1, <3>2 DEF Backlog
  <2> QED BY <2>2, <2>3
<1>3. ASSUME NEW u \in Subscribers, NEW F \in Filters, Subscribe(u, F) PROVE Backlog(s)'
  BY <1>0, <1>3 DEF Subscribe, Backlog
<1>4. ASSUME NEW u \in Subscribers, Receive(u) PROVE Backlog(s)'
  <2>1. last_q_before' = last_q_before /\ sent_since_flush' = sent_since_flush
    BY <1>4 DEF Receive
  <2>2. CASE u = s
    <3>1. Len(queue'[s]) = Len(queue[s]) - 1 /\ Len(queue[s]) \in Nat
      BY <1>0, <1>4, <1>t, <2>2, Received
    <3> QED BY <1>0, <1>t, <2>1, <3>1 DEF Backlog
  <2>3. CASE u # s
    <3>1. queue'[s] = queue[s] /\ took'[s] = took[s]
      BY <1>0, <1>4, <1>t, <2>3, Received DEF Receive
    <3> QED BY <1>0, <1>t, <2>1, <3>1 DEF Backlog
  <2> QED BY <2>2, <2>3
<1>5. ASSUME NEW u \in Subscribers, DropReceiver(u) PROVE Backlog(s)'
  <2>1. /\ last_q_before' = last_q_before /\ sent_since_flush' = sent_since_flush /\ took' = took
        /\ queue'[s] = queue[s] \/ queue'[s] = <<>>
    BY <1>5, <1>t DEF DropReceiver
  <2>2. CASE queue'[s] = queue[s]
    BY <1>0, <2>1, <2>2 DEF Backlog
  <2>3. CASE queue'[s] = <<>>
    <3>1. Len(queue'[s]) = 0
      BY <1>e, <2>3
    <3>2. 0 <= last_q_before[s] + sent_since_flush[s]
          /\ (last_q_before[s] # 0 => 0 < last_q_before[s] + sent_since_flush[s])
      BY <1>t
    <3> QED BY <2>1, <3>1, <3>2 DEF Backlog
  <2> QED BY <2>1, <2>2, <2>3
<1>6. ASSUME NEW u \in Subscribers, Unsubscribe(u) \/ Wedge(u) PROVE Backlog(s)'
  BY <1>0, <1>6 DEF Unsubscribe, Wedge, Backlog
<1>7. CASE UNCHANGED vars
  BY <1>0, <1>7 DEF vars, Backlog
<1> QED BY <1>1, <1>2, <1>3, <1>4, <1>5, <1>6, <1>7 DEF Next

LEMMA BacklogStart == Init => BacklogInv
<1> SUFFICES ASSUME Init, NEW s \in Subscribers PROVE Backlog(s)
  BY CountsStart DEF BacklogInv
<1>1. queue[s] = <<>> /\ last_q_before[s] = 0 /\ sent_since_flush[s] = 0
  BY DEF Init, Zero
<1>2. Len(<<>>) = 0
  OBVIOUS
<1> QED BY <1>1, <1>2 DEF Backlog

(* flush lets go only of subscribers whose receiver is gone, that once let *)
(* their queue fill, or that took nothing of a backlog from one flush to   *)
(* the next: one that keeps up is never disconnected (events.rs flush).    *)
THEOREM LaggardsOnly == Spec => OnlyLaggardsAreEvicted
<1>1. BacklogInv /\ Flush => \A s \in subs \ subs' : rx[s] = "dropped" \/ lagged'[s]
  <2> SUFFICES ASSUME BacklogInv, Flush, NEW s \in subs \ subs', rx[s] # "dropped", ~lagged'[s]
               PROVE  FALSE
    OBVIOUS
  <2>1. s \in Subscribers /\ TypeOK
    BY DEF BacklogInv, CountInv, OrderInv, TypeOK
  <2>2. Backlog(s) /\ Exact(s) /\ GoneIsKnown(s)
    BY <2>1 DEF BacklogInv, CountInv
  <2>3. took[s] /\ ~lagged[s] /\ Evicted(s)
    BY <2>1 DEF Flush
  <2>4. critical_drops[s] = 0 /\ dropped_non_critical[s] = 0
    <3>1. Lost(s) = {}
      BY <2>2, <2>3 DEF Exact
    <3>2. LostCritical(s) = {} /\ LostCoalescible(s) = {}
      BY <3>1 DEF LostCritical, LostCoalescible
    <3> QED BY <2>2, <3>2, FS_EmptySet DEF Exact
  <2>5. ~disconnected[s]
    BY <2>2 DEF GoneIsKnown
  <2>6. ~Stalls(s)
    BY <2>1, <2>2, <2>3, Typed DEF Backlog, Stalls
  <2> QED BY <2>3, <2>4, <2>5, <2>6, PolicyAssumption DEF Evicted
<1>2. BacklogInv /\ [Next]_vars =>
        [Flush => \A s \in subs \ subs' : rx[s] = "dropped" \/ lagged'[s]]_vars
  BY <1>1
<1> QED BY <1>2, BacklogStart, BacklogKept, PTL DEF Spec, OnlyLaggardsAreEvicted

-----------------------------------------------------------------------------
(* Each stream is what EventStream promises: a publication is an Offer to  *)
(* those it is sent to, a receipt a Take, an unsubscription or an eviction *)
(* a Close, a subscription an Open, the end of a receiver an Abandon; any  *)
(* other step leaves the stream alone.                                     *)

LEMMA LeastIsFirst ==
    ASSUME NEW S \in SUBSET Nat, NEW h \in S, \A y \in S \ {h} : h < y
    PROVE  Min(S) = h
<1>1. \A y \in S : h <= y
  OBVIOUS
<1>2. ASSUME NEW x \in S, \A y \in S : x <= y PROVE x = h
  BY <1>1, <1>2
<1> QED BY <1>1, <1>2 DEF Min

LEMMA StreamsStep == OrderInv /\ [Next]_vars => [StreamSteps]_vars
<1> SUFFICES ASSUME OrderInv, [Next]_vars, NEW s \in Subscribers
             PROVE  [Stream(s)!StreamNext]_(Stream(s)!streamVars)
  BY DEF StreamSteps
<1> DEFINE Still == /\ ToSet(queue'[s]) = ToSet(queue[s]) /\ ToSet(got'[s]) = ToSet(got[s])
                    /\ s \in subs' <=> s \in subs
           Closed == /\ ToSet(queue'[s]) = ToSet(queue[s]) /\ ToSet(got'[s]) = ToSet(got[s])
                     /\ s \in subs /\ s \notin subs'
<1> USE DEF subscriberVars, historyVars
<1>0. /\ TypeOK /\ Ordered(s) /\ Unborn(s) /\ Seen(s) \subseteq 1..published
      /\ ToSet(queue[s]) \subseteq 1..published /\ published \in Nat
  BY Typed DEF OrderInv, Seen
<1>s. Still => UNCHANGED Stream(s)!streamVars
  BY DEF Stream!streamVars
<1>c. Closed => Stream(s)!StreamNext
  BY DEF Stream!StreamNext, Stream!Close
<1> HIDE DEF Still, Closed
<1>1. ASSUME NEW c \in Channels, Publish(c)
      PROVE  [Stream(s)!StreamNext]_(Stream(s)!streamVars)
  <2>1. /\ published' = published + 1 /\ got'[s] = got[s] /\ subs' = subs
        /\ s \in Sent(c) => s \in subs /\ ToSet(queue'[s]) = ToSet(queue[s]) \cup {published'}
        /\ s \notin Sent(c) => queue'[s] = queue[s]
    BY <1>1, Published DEF Publish
  <2>2. CASE s \in Sent(c)
    <3>1. published' \in Events
      BY <1>0, <1>1, <2>1, EventsAssumption DEF Publish, Events
    <3>2. \A x \in ToSet(queue[s]) \cup ToSet(got[s]) : x < published'
      BY <1>0, <2>1 DEF Seen
    <3>3. Stream(s)!Offer(published')
      BY <2>1, <2>2, <3>2 DEF Stream!Offer, Stream!Newer
    <3> QED BY <3>1, <3>3 DEF Stream!StreamNext
  <2>3. CASE s \notin Sent(c)
    BY <1>s, <2>1, <2>3 DEF Still
  <2> QED BY <2>2, <2>3
<1>2. CASE Flush
  <2>1. queue' = queue /\ got' = got /\ subs' \subseteq subs
    BY <1>2 DEF Flush
  <2> QED BY <1>s, <1>c, <2>1 DEF Still, Closed
<1>3. ASSUME NEW u \in Subscribers, NEW F \in Filters, Subscribe(u, F)
      PROVE  [Stream(s)!StreamNext]_(Stream(s)!streamVars)
  <2>1. queue' = queue /\ got' = got /\ subs' = subs \cup {u} /\ rx[u] = "none"
    BY <1>3 DEF Subscribe
  <2>2. CASE u = s
    <3>1. s \notin subs /\ ToSet(queue[s]) = {} /\ ToSet(got[s]) = {}
      BY <1>0, <2>1, <2>2, NoEvents DEF Unborn
    <3>2. Stream(s)!Open
      BY <2>1, <2>2, <3>1 DEF Stream!Open
    <3> QED BY <3>2 DEF Stream!StreamNext
  <2>3. CASE u # s
    BY <1>s, <2>1, <2>3 DEF Still
  <2> QED BY <2>2, <2>3
<1>4. ASSUME NEW u \in Subscribers, Receive(u)
      PROVE  [Stream(s)!StreamNext]_(Stream(s)!streamVars)
  <2>1. subs' = subs
    BY <1>4 DEF Receive
  <2>2. CASE u = s
    <3> DEFINE h == Head(queue[s])
    <3>1. /\ h \in ToSet(queue[s]) /\ \A y \in ToSet(queue'[s]) : h < y
          /\ ToSet(queue'[s]) = ToSet(queue[s]) \ {h} /\ ToSet(got'[s]) = ToSet(got[s]) \cup {h}
      BY <1>4, <2>2, Received
    <3> HIDE DEF h
    <3>2. ToSet(queue[s]) \in SUBSET Nat
      BY <1>0
    <3>3. Stream(s)!Min(ToSet(queue[s])) = h
      BY <3>1, <3>2, LeastIsFirst DEF Min, Stream!Min
    <3>4. Stream(s)!Take
      BY <2>1, <3>1, <3>3 DEF Stream!Take
    <3> QED BY <3>4 DEF Stream!StreamNext
  <2>3. CASE u # s
    <3>1. queue'[s] = queue[s] /\ got'[s] = got[s]
      BY <1>4, <2>3, Received
    <3> QED BY <1>s, <2>1, <3>1 DEF Still
  <2> QED BY <2>2, <2>3
<1>5. ASSUME NEW u \in Subscribers, DropReceiver(u)
      PROVE  [Stream(s)!StreamNext]_(Stream(s)!streamVars)
  <2>1. subs' = subs /\ got' = got /\ queue' = [queue EXCEPT ![u] = <<>>]
        /\ DOMAIN queue = Subscribers
    BY <1>0, <1>5 DEF DropReceiver, TypeOK
  <2>2. CASE u = s
    <3>1. ToSet(queue'[s]) = {}
      BY <2>1, <2>2, NoEvents
    <3>2. Stream(s)!Abandon
      BY <2>1, <3>1 DEF Stream!Abandon
    <3> QED BY <3>2 DEF Stream!StreamNext
  <2>3. CASE u # s
    BY <1>s, <2>1, <2>3 DEF Still
  <2> QED BY <2>2, <2>3
<1>6. ASSUME NEW u \in Subscribers, Wedge(u)
      PROVE  [Stream(s)!StreamNext]_(Stream(s)!streamVars)
  BY <1>s, <1>6 DEF Wedge, Still
<1>7. ASSUME NEW u \in Subscribers, Unsubscribe(u)
      PROVE  [Stream(s)!StreamNext]_(Stream(s)!streamVars)
  <2>1. queue' = queue /\ got' = got /\ subs' = subs \ {u} /\ u \in subs
    BY <1>7 DEF Unsubscribe
  <2> QED BY <1>s, <1>c, <2>1 DEF Still, Closed
<1>8. CASE UNCHANGED vars
  BY <1>s, <1>8 DEF vars, Still
<1> QED BY <1>1, <1>2, <1>3, <1>4, <1>5, <1>6, <1>7, <1>8 DEF Next

(* The bus implements the stream each subscriber may rely on               *)
(* (events.rs EventBus against EventStream).                               *)
THEOREM StreamRefinement == Spec => StreamsImplement
<1>1. Init => StreamsStart
  <2> SUFFICES ASSUME Init, NEW s \in Subscribers PROVE Stream(s)!StreamInit
    BY DEF StreamsStart
  <2>1. queue[s] = <<>> /\ got[s] = <<>> /\ s \notin subs
    BY DEF Init
  <2> QED BY <2>1, NoEvents DEF Stream!StreamInit
<1> QED BY <1>1, OrderStart, OrderKept, StreamsStep, PTL DEF Spec, StreamsImplement

-----------------------------------------------------------------------------
(* The state file.  A file has been written whole wherever one is about to *)
(* be renamed; for this the temporary file must still be there, which one  *)
(* process can rely on and two cannot.                                     *)

FileBounds == MaxWork \in Nat

Contents == [format : Disk!Formats, state : 0..MaxWork]
FileSteps == {"off", "quarantine", "running", "writing", "renaming"}
Processes == [Instances -> [step : FileSteps, has : 0..MaxWork, demo : BOOLEAN]]

LEMMA FilesAreFiles ==
    ASSUME FileBounds
    PROVE  /\ Disk!NoFile \in Contents
           /\ \A format \in Disk!Formats, n \in 0..MaxWork :
                Disk!File(format, n) \in Contents
  BY DEF FileBounds, Contents, Disk!NoFile, Disk!File, Disk!Formats

LEMMA FileTypesKept ==
    ASSUME FileBounds, Disk!TypeOK, [Disk!Next]_(Disk!vars)
    PROVE  Disk!TypeOK'
<1> DEFINE Known == /\ {sf_file, sf_tmp, sf_written} \cup sf_corrupt \subseteq Contents
                    /\ sf_process \in Processes /\ sf_work \in 0..MaxWork
<1>1. Disk!TypeOK <=> Known
  BY DEF Disk!TypeOK, Contents, Processes, FileSteps
<1>2. (Disk!TypeOK <=> Known)'
  BY DEF Disk!TypeOK, Contents, Processes, FileSteps
<1> SUFFICES Known'
  BY <1>2
<1>3. /\ sf_file \in Contents /\ sf_tmp \in Contents /\ sf_written \in Contents
      /\ sf_corrupt \subseteq Contents /\ sf_process \in Processes /\ sf_work \in 0..MaxWork
  BY <1>1
<1>4. /\ Disk!Off \in [step : FileSteps, has : 0..MaxWork, demo : BOOLEAN]
      /\ \A p \in Instances : /\ sf_process[p].has \in 0..MaxWork
                              /\ sf_process[p] \in [step : FileSteps, has : 0..MaxWork, demo : BOOLEAN]
  BY <1>3 DEF Disk!Off, FileSteps, FileBounds, Processes
<1>5. /\ \A p \in Instances, r \in [step : FileSteps, has : 0..MaxWork, demo : BOOLEAN] :
           [sf_process EXCEPT ![p] = r] \in Processes
      /\ \A p \in Instances, s \in FileSteps : [sf_process EXCEPT ![p].step = s] \in Processes
  BY <1>3 DEF Processes
<1>6. ASSUME NEW p \in Instances, Disk!Read(p) PROVE Known'
  <2>1. PICK demo \in BOOLEAN :
          sf_process' = [sf_process EXCEPT ![p] =
            [step |-> IF sf_file.format = "torn" THEN "quarantine" ELSE "running",
             has |-> IF sf_file.format \in Disk!Loadable THEN sf_file.state ELSE 0,
             demo |-> demo]]
    BY <1>6 DEF Disk!Read
  <2>2. [step |-> IF sf_file.format = "torn" THEN "quarantine" ELSE "running",
         has |-> IF sf_file.format \in Disk!Loadable THEN sf_file.state ELSE 0,
         demo |-> demo] \in [step : FileSteps, has : 0..MaxWork, demo : BOOLEAN]
    BY <1>3 DEF Contents, FileSteps, FileBounds
  <2>3. sf_process' \in Processes
    BY <1>5, <2>1, <2>2
  <2> QED BY <1>3, <1>6, <2>3 DEF Disk!Read
<1>7. ASSUME NEW p \in Instances, Disk!Quarantine(p) PROVE Known'
  <2>1. sf_process' \in Processes
    BY <1>5, <1>7 DEF Disk!Quarantine, FileSteps
  <2> QED BY <1>3, <1>7, <2>1, FilesAreFiles DEF Disk!Quarantine
<1>8. ASSUME NEW p \in Instances, Disk!Command(p) PROVE Known'
  <2>1. sf_work + 1 \in 0..MaxWork
    BY <1>3, <1>8 DEF Disk!Command, FileBounds
  <2>2. \A s \in FileSteps : [sf_process[p] EXCEPT !.has = sf_work + 1, !.step = s]
                           \in [step : FileSteps, has : 0..MaxWork, demo : BOOLEAN]
    BY <1>4, <2>1
  <2>3. \/ sf_process' = [sf_process EXCEPT ![p].has = sf_work + 1]
        \/ sf_process' = [sf_process EXCEPT ![p].has = sf_work + 1, ![p].step = "writing"]
    BY <1>8 DEF Disk!Command
  <2>4. sf_process' \in Processes
    BY <1>3, <2>1, <2>3 DEF Processes, FileSteps
  <2>5. sf_tmp' \in Contents
    <3>1. "torn" \in Disk!Formats /\ 0 \in 0..MaxWork
      BY DEF Disk!Formats, FileBounds
    <3> QED BY <1>3, <1>8, <3>1, FilesAreFiles DEF Disk!Command
  <2> QED BY <1>3, <1>8, <2>1, <2>4, <2>5 DEF Disk!Command
<1>9. ASSUME NEW p \in Instances, Disk!WriteTmp(p) PROVE Known'
  <2>1. sf_process' \in Processes
    BY <1>5, <1>9 DEF Disk!WriteTmp, FileSteps
  <2>2. sf_tmp' \in Contents
    BY <1>3, <1>4, <1>9, FilesAreFiles DEF Disk!WriteTmp, Disk!Formats
  <2> QED BY <1>3, <1>9, <2>1, <2>2 DEF Disk!WriteTmp
<1>10. ASSUME NEW p \in Instances, Disk!Rename(p) PROVE Known'
  <2>1. sf_process' \in Processes
    BY <1>5, <1>10 DEF Disk!Rename, FileSteps
  <2>2. sf_written' \in Contents /\ sf_file' \in Contents /\ sf_tmp' \in Contents
    BY <1>3, <1>4, <1>10, FilesAreFiles DEF Disk!Rename, Disk!Formats
  <2> QED BY <1>3, <1>10, <2>1, <2>2 DEF Disk!Rename
<1>11. ASSUME NEW p \in Instances, Disk!Exit(p) PROVE Known'
  <2>1. sf_process' \in Processes
    BY <1>4, <1>5, <1>11 DEF Disk!Exit
  <2> QED BY <1>3, <1>11, <2>1 DEF Disk!Exit
<1>12. ASSUME NEW format \in {"newer", "schema", "unreadable", "torn"},
              Disk!Foreign(format)
       PROVE  Known'
  <2>1. format \in Disk!Formats /\ 0 \in 0..MaxWork
    BY DEF Disk!Formats, FileBounds
  <2>2. sf_file' \in Contents /\ sf_written' \in Contents
    BY <1>12, <2>1, FilesAreFiles DEF Disk!Foreign
  <2> QED BY <1>3, <1>12, <2>2 DEF Disk!Foreign
<1>13. CASE UNCHANGED Disk!vars
  BY <1>3, <1>13 DEF Disk!vars
<1> HIDE DEF Known
<1> QED BY <1>6, <1>7, <1>8, <1>9, <1>10, <1>11, <1>12, <1>13 DEF Disk!Next

LEMMA FileTypesInit ==
    ASSUME FileBounds, Disk!Init
    PROVE  Disk!TypeOK
<1>1. \A format \in {"v1", "v0"} : format \in Disk!Formats
  BY DEF Disk!Formats
<1>2. 0 \in 0..MaxWork
  BY DEF FileBounds
<1>3. sf_file \in Contents /\ sf_tmp \in Contents /\ sf_written \in Contents
  BY <1>1, <1>2, FilesAreFiles DEF Disk!Init
<1>4. Disk!Off \in [step : FileSteps, has : 0..MaxWork, demo : BOOLEAN]
  BY <1>2 DEF Disk!Off, FileSteps
<1> QED BY <1>2, <1>3, <1>4 DEF Disk!Init, Disk!TypeOK, Contents, FileSteps

(* Every file, process and copy kept aside is of its kind.                 *)
THEOREM FileTypes ==
    ASSUME FileBounds
    PROVE  Disk!Spec => []Disk!TypeOK
<1>1. Disk!Init => Disk!TypeOK
  BY FileTypesInit
<1>2. Disk!TypeOK /\ [Disk!Next]_(Disk!vars) => Disk!TypeOK'
  BY FileTypesKept
<1> QED BY <1>1, <1>2, PTL DEF Disk!Spec

(* While a process is between writing and renaming, the temporary file is  *)
(* there, and before the rename it is what the process has, as a whole.    *)
RenamesWhole ==
    \A p \in Instances :
        /\ sf_process[p].step = "writing" => sf_tmp # Disk!NoFile
        /\ sf_process[p].step = "renaming" => sf_tmp = Disk!File("v2", sf_process[p].has)

WholeInv == Disk!TypeOK /\ RenamesWhole /\ Disk!FileIsWhole

LEMMA TornIsThere ==
    Disk!File("torn", 0) # Disk!NoFile
  BY DEF Disk!File, Disk!NoFile

LEMMA WholeKept ==
    ASSUME FileBounds, NEW one, Instances = {one}, WholeInv, [Disk!Next]_(Disk!vars)
    PROVE  WholeInv'
<1>1. Disk!TypeOK'
  BY FileTypesKept DEF WholeInv
<1>2. /\ sf_process \in Processes
      /\ sf_process[one].step = "writing" => sf_tmp # Disk!NoFile
      /\ sf_process[one].step = "renaming" => sf_tmp = Disk!File("v2", sf_process[one].has)
      /\ Disk!FileIsWhole
  BY DEF WholeInv, RenamesWhole, Disk!TypeOK, Processes, FileSteps
<1> DEFINE Renames == /\ sf_process'[one].step = "writing" => sf_tmp' # Disk!NoFile
                      /\ sf_process'[one].step = "renaming" =>
                            sf_tmp' = Disk!File("v2", sf_process'[one].has)
           Whole == Renames /\ Disk!FileIsWhole'
<1> SUFFICES Whole
  BY <1>1 DEF WholeInv, RenamesWhole
<1>3. \A s : sf_process' = [sf_process EXCEPT ![one].step = s] =>
               sf_process'[one].step = s /\ sf_process'[one].has = sf_process[one].has
  BY <1>2 DEF Processes
<1>4. UNCHANGED <<sf_file, sf_written, sf_corrupt>> => Disk!FileIsWhole'
  BY <1>2 DEF Disk!FileIsWhole
<1>5. CASE Disk!Read(one)
  <2>1. sf_process'[one].step \in {"running", "quarantine"}
    BY <1>2, <1>5 DEF Disk!Read, Processes
  <2> QED BY <1>4, <1>5, <2>1 DEF Disk!Read
<1>6. CASE Disk!Quarantine(one)
  <2>1. sf_process'[one].step = "running"
    BY <1>3, <1>6 DEF Disk!Quarantine
  <2>2. Disk!FileIsWhole'
    BY <1>2, <1>4, <1>6 DEF Disk!Quarantine, Disk!FileIsWhole
  <2> QED BY <2>1, <2>2
<1>7. CASE Disk!Command(one)
  <2>1. \/ sf_process'[one].step = "running"
        \/ sf_process'[one].step = "writing" /\ sf_tmp' = Disk!File("torn", 0)
    BY <1>2, <1>7 DEF Disk!Command, Processes
  <2> QED BY <1>4, <1>7, <2>1, TornIsThere DEF Disk!Command
<1>8. CASE Disk!WriteTmp(one)
  <2>1. \/ sf_process'[one].step = "running"
        \/ /\ sf_process'[one].step = "renaming"
           /\ sf_tmp' = Disk!File("v2", sf_process[one].has)
           /\ sf_process'[one].has = sf_process[one].has
    BY <1>2, <1>3, <1>8 DEF Disk!WriteTmp
  <2> QED BY <1>4, <1>8, <2>1 DEF Disk!WriteTmp
<1>9. CASE Disk!Rename(one)
  <2>1. sf_process'[one].step = "running"
    BY <1>3, <1>9 DEF Disk!Rename
  <2>2. sf_tmp # Disk!NoFile => sf_file' = sf_written'
    BY <1>2, <1>9 DEF Disk!Rename
  <2>3. Disk!FileIsWhole'
    BY <1>4, <1>9, <2>2 DEF Disk!Rename, Disk!FileIsWhole
  <2> QED BY <2>1, <2>3
<1>10. CASE Disk!Exit(one)
  <2>1. sf_process'[one].step = "off"
    BY <1>2, <1>10 DEF Disk!Exit, Disk!Off, Processes
  <2> QED BY <1>4, <1>10, <2>1 DEF Disk!Exit
<1>11. ASSUME NEW format \in {"newer", "schema", "unreadable", "torn"},
              Disk!Foreign(format)
       PROVE  Whole
  BY <1>2, <1>11 DEF Disk!Foreign, Disk!FileIsWhole
<1>12. CASE UNCHANGED Disk!vars
  BY <1>2, <1>4, <1>12 DEF Disk!vars
<1> HIDE DEF Whole
<1> QED BY <1>5, <1>6, <1>7, <1>8, <1>9, <1>10, <1>11, <1>12
       DEF Disk!Next

(* One process over the directory: wherever it is killed and whatever      *)
(* write or rename fails, the state file is what was last put in place, as *)
(* a whole, or that was corrupt and is kept aside (save, load).            *)
THEOREM SavedWhole ==
    ASSUME FileBounds, \E one : Instances = {one}
    PROVE  Disk!Spec => []Disk!FileIsWhole
<1>1. Disk!Init => WholeInv
  <2> SUFFICES ASSUME Disk!Init PROVE WholeInv
    OBVIOUS
  <2>1. \A p \in Instances : sf_process[p].step = "off"
    BY DEF Disk!Init, Disk!Off
  <2>2. Disk!FileIsWhole
    BY DEF Disk!Init, Disk!FileIsWhole
  <2> QED BY <2>1, <2>2, FileTypesInit DEF WholeInv, RenamesWhole
<1>2. WholeInv /\ [Disk!Next]_(Disk!vars) => WholeInv'
  BY WholeKept
<1>3. WholeInv => Disk!FileIsWhole
  BY DEF WholeInv
<1> QED BY <1>1, <1>2, <1>3, PTL DEF Disk!Spec

-----------------------------------------------------------------------------
(* The windows of the desktop.                                             *)

(* What a window shows: its fields are its own and those that say what is  *)
(* open are flags.                                                         *)
Flags == {"palette", "create", "detail", "edit", "timeline", "summary", "needs", "armed"}
Fields == Flags \cup {"overlay", "approval", "filter", "selection", "lastTab"}

IsView(v) == v = [f \in Fields |-> v[f]] /\ \A f \in Flags : v[f] \in BOOLEAN

DesktopInv == IsView(de_view) /\ Windows!EditingHasAReplan

LEMMA Closes ==
    ASSUME NEW v, IsView(v)
    PROVE  IsView(Windows!close_overlays(v)) /\ ~Windows!close_overlays(v).edit
  BY DEF IsView, Fields, Flags, Windows!close_overlays, Windows!None

(* A command opens no edit.                                                *)
LEMMA CommandsShow ==
    ASSUME NEW v, IsView(v), NEW c, NEW e
    PROVE  IsView(Windows!ViewAfter(c, v, e)) /\ Windows!ViewAfter(c, v, e).edit = v.edit
<1>1. IsView(Windows!Dashboard(v)) /\ Windows!Dashboard(v).edit = v.edit
  BY DEF IsView, Fields, Flags, Windows!Dashboard
<1>2. IsView(Windows!ToggleNeedsYou(v)) /\ Windows!ToggleNeedsYou(v).edit = v.edit
  BY DEF IsView, Fields, Flags, Windows!ToggleNeedsYou
<1>3. /\ IsView(Windows!dispatch_task_command(c, v, e))
      /\ Windows!dispatch_task_command(c, v, e).edit = v.edit
  <2> DEFINE d == Windows!Dashboard(v)
             some == Windows!visible_tasks(v, e) # <<>>
  <2>1. some \in BOOLEAN
    OBVIOUS
  <2> HIDE DEF d, some
  <2>2. Windows!dispatch_task_command(c, v, e) \in
          {v, d, [v EXCEPT !.overlay = Windows!None], [d EXCEPT !.filter = "All"],
           [v EXCEPT !.overlay = "Tasks", !.detail = FALSE, !.create = TRUE],
           [d EXCEPT !.filter = "Blocked"], [d EXCEPT !.filter = "NeedsReview"],
           [d EXCEPT !.detail = some]}
    BY DEF Windows!dispatch_task_command, d, some
  <2> QED BY <1>1, <2>1, <2>2 DEF IsView, Fields, Flags, d
<1>4. /\ IsView(Windows!dispatch_control_command(c, v))
      /\ Windows!dispatch_control_command(c, v).edit = v.edit
  BY <1>2 DEF IsView, Fields, Flags, Windows!dispatch_control_command
<1>5. /\ IsView([v EXCEPT !.palette = ~v.palette])
      /\ [v EXCEPT !.palette = ~v.palette].edit = v.edit
  BY DEF IsView, Fields, Flags
<1> QED BY <1>3, <1>4, <1>5 DEF Windows!ViewAfter

(* A step of Esc: what is on top is closed, and what is below stays.       *)
LEMMA EscapeCloses ==
    ASSUME NEW v, IsView(v), v = de_view
    PROVE  LET w == Windows!Unwound
           IN /\ IsView(w) /\ (w.edit => v.edit /\ w.approval = v.approval)
              /\ Windows!EscapeUnwinds
<1>1. IsView(Windows!Unwound)
  BY Closes DEF IsView, Fields, Flags, Windows!Unwound
<1>2. Windows!Unwound.edit => v.edit /\ Windows!Unwound.approval = v.approval
  BY Closes DEF IsView, Fields, Flags, Windows!Unwound
<1>3. Windows!EscapeUnwinds
  <2> SUFFICES ASSUME Windows!Open(v) # {}
               PROVE  /\ Windows!Open(Windows!Unwound) \subseteq Windows!Open(v)
                      /\ Windows!Open(Windows!Unwound) # Windows!Open(v)
    BY DEF Windows!EscapeUnwinds
  <2> QED
    BY DEF IsView, Fields, Flags, Windows!Open, Windows!Unwound,
           Windows!close_overlays, Windows!None
<1> QED BY <1>1, <1>2, <1>3

LEMMA WindowsKeep ==
    ASSUME DesktopInv, [Windows!Next]_Windows!vars
    PROVE  DesktopInv'
<1> DEFINE Calm(v) == IsView(v) /\ (v.edit => v.approval \in Replans)
<1>1. Calm(de_view)
  BY DEF DesktopInv, Windows!EditingHasAReplan
(* It remains to show that the window that follows is calm.                *)
<1>2. ASSUME Calm(de_view') PROVE DesktopInv'
  BY <1>2 DEF DesktopInv, IsView, Windows!EditingHasAReplan
<1>3. ASSUME de_view' = de_view PROVE DesktopInv'
  BY <1>1, <1>2, <1>3
(* While no edit is open, none is opened by a command, a click or a key    *)
(* that is not for the approval center.                                    *)
<1>4. ASSUME NEW c, NEW closing \in BOOLEAN, ~de_view.edit, Windows!run_command(c, closing)
      PROVE  DesktopInv'
  <2> DEFINE w == Windows!ViewAfter(c, de_view, de_engine)
  <2>1. de_view' \in {w, Windows!close_overlays(w)}
    BY <1>4 DEF Windows!run_command
  <2>2. IsView(w) /\ ~w.edit
    BY <1>1, <1>4, CommandsShow
  <2> HIDE DEF w
  <2>3. IsView(Windows!close_overlays(w)) /\ ~Windows!close_overlays(w).edit
    BY <2>2, Closes
  <2> QED BY <1>2, <2>1, <2>2, <2>3
<1>5. ASSUME NEW c, ~de_view.edit, Windows!Run(c) PROVE DesktopInv'
  BY <1>4, <1>5 DEF Windows!Run
<1>6. CASE Windows!Escape
  BY <1>1, <1>2, <1>6, EscapeCloses DEF Windows!Escape, Windows!Show
<1>7. CASE Windows!apply_approval_edit
  <2>1. PICK b \in BOOLEAN :
          \/ de_view' = [de_view EXCEPT !.edit = b] /\ de_view.edit
          \/ de_view' = de_view
    <3>1. (de_view.edit /\ de_view.approval \notin de_engine.replans) \in BOOLEAN
      OBVIOUS
    <3> QED BY <1>7, <3>1 DEF Windows!apply_approval_edit, Windows!Show
  <2> QED BY <1>1, <1>2, <1>3, <2>1 DEF IsView, Fields, Flags
<1>8. CASE Windows!ApprovalKey \/ Windows!ModalClick
  <2>1. ~de_view.edit
    BY <1>8 DEF Windows!ApprovalKey, Windows!ModalClick
  <2>2. \/ de_view' \in {de_view, [de_view EXCEPT !.approval = Windows!None]}
        \/ de_view.approval \in Replans /\ de_view' = [de_view EXCEPT !.edit = TRUE]
    BY <1>8 DEF Windows!ApprovalKey, Windows!ModalClick, Windows!Decide, Windows!vars,
                Windows!ApproveReplan, Windows!StartEdit, Windows!Show
  <2> QED BY <1>1, <1>2, <2>1, <2>2 DEF IsView, Fields, Flags
<1>9. CASE Windows!EmptyStateKey \/ Windows!CreateKey
  <2>1. ~de_view.edit
    BY <1>9 DEF Windows!EmptyStateKey, Windows!CreateKey, Windows!InList, Windows!Modal
  <2>2. de_view' \in {[de_view EXCEPT !.overlay = "ProviderSetup", !.palette = FALSE],
                   [de_view EXCEPT !.create = FALSE],
                   [de_view EXCEPT !.create = FALSE, !.selection = 1, !.filter = "All"]}
    BY <1>9 DEF Windows!EmptyStateKey, Windows!CreateKey, Windows!Show
  <2> QED BY <1>1, <1>2, <2>1, <2>2 DEF IsView, Fields, Flags
<1>10. CASE Windows!ListKey
  <2>1. ~de_view.edit
    BY <1>10 DEF Windows!ListKey, Windows!InList, Windows!Modal
  <2>2. CASE \E s \in Windows!Moved : Windows!Show([de_view EXCEPT !.selection = s])
    BY <1>1, <1>2, <2>1, <2>2 DEF Windows!Show, IsView, Fields, Flags
  <2>3. CASE \E b \in BOOLEAN : Windows!Show([de_view EXCEPT !.detail = b])
    BY <1>1, <1>2, <2>1, <2>3 DEF Windows!Show, IsView, Fields, Flags
  <2>4. (Windows!selected_task_id(de_view, de_engine) # Windows!None) \in BOOLEAN
    OBVIOUS
  <2>5. CASE \E c \in Windows!OnSelected \cup {"RunTasks"} : Windows!Run(c)
    BY <1>5, <2>1, <2>5
  <2> QED BY <1>10, <2>2, <2>3, <2>4, <2>5 DEF Windows!ListKey
<1>11. CASE Windows!PaletteEnter \/ Windows!Chord
  <2>1. ~de_view.edit
    BY <1>11 DEF Windows!PaletteEnter, Windows!Chord, Windows!Unlisted, Windows!Modal
  <2>2. CASE Windows!Show(Windows!close_overlays(de_view))
    BY <1>1, <1>2, <2>2, Closes DEF Windows!Show
  <2> QED BY <1>4, <1>5, <1>11, <2>1, <2>2 DEF Windows!PaletteEnter, Windows!Chord
<1>12. CASE Windows!StatusBarClick \/ Windows!NeedsYouClick
  <2>1. ~de_view.edit
    BY <1>12 DEF Windows!StatusBarClick, Windows!NeedsYouClick, Windows!Uncovered,
                 Windows!Modal
  <2>2. CASE Windows!Show(Windows!ToggleNeedsYou(de_view))
    BY <1>1, <1>2, <2>1, <2>2
       DEF Windows!Show, Windows!ToggleNeedsYou, IsView, Fields, Flags
  <2>3. CASE \E item : Windows!open_approval(item)
    BY <1>1, <1>2, <2>3 DEF Windows!open_approval, Windows!Show, IsView, Fields, Flags
  <2> QED BY <1>5, <1>12, <2>1, <2>2, <2>3
       DEF Windows!StatusBarClick, Windows!NeedsYouClick
<1>13. CASE Windows!drain_and_render
  <2> DEFINE w == Windows!Synced
  <2>1. IsView(w) /\ w.edit = de_view.edit /\ w.approval = de_view.approval
    BY <1>1 DEF Windows!Synced, IsView, Fields, Flags
  <2>2. de_view' \in {w, [w EXCEPT !.approval = Windows!None, !.edit = FALSE]}
    BY <1>13 DEF Windows!drain_and_render, Windows!Show
  <2> HIDE DEF w
  <2> QED BY <1>1, <1>2, <2>1, <2>2 DEF IsView, Fields, Flags
<1>14. CASE Windows!persist \/ Windows!Elsewhere \/ UNCHANGED Windows!vars
  BY <1>3, <1>14 DEF Windows!persist, Windows!Elsewhere, Windows!vars
<1> QED BY <1>6, <1>7, <1>8, <1>9, <1>10, <1>11, <1>12, <1>13, <1>14
    DEF Windows!Next, Windows!Input

LEMMA DesktopInductive == Windows!Spec => []DesktopInv
<1>1. Windows!Init => DesktopInv
  BY DEF Windows!Init, DesktopInv, Windows!EditingHasAReplan, IsView, Fields, Flags
<1>2. DesktopInv /\ [Windows!Next]_Windows!vars => DesktopInv'
  BY WindowsKeep
<1> QED BY <1>1, <1>2, PTL DEF Windows!Spec

(* An edit never outlives the replan it edits, and while anything is open  *)
(* Esc closes something and opens nothing: on_key, chrome_click,           *)
(* drain_and_render and every command, in whatever order.                  *)
THEOREM EscapeIsAWayOut ==
    Windows!Spec => [](Windows!EditingHasAReplan /\ Windows!EscapeUnwinds)
<1>1. DesktopInv => Windows!EditingHasAReplan /\ Windows!EscapeUnwinds
  BY EscapeCloses DEF DesktopInv
<1> QED BY <1>1, DesktopInductive, PTL

-----------------------------------------------------------------------------
(* The types of the window and of what it shows.                           *)

DesktopBounds == IsFiniteSet(Tasks)

TypedView(v) ==
    /\ IsView(v)
    /\ v.overlay \in Windows!Overlays /\ v.filter \in Windows!ListFilters
    /\ v.approval \in Tasks \cup Replans \cup Agents \cup {Windows!None}
    /\ v.selection \in 1..(Cardinality(Tasks) + 1)

EngineFields == {"order", "status", "replans", "permits", "paused", "tab"}

TypedEngine(e) ==
    /\ e = [f \in EngineFields |-> e[f]]
    /\ e.order \in Seq(Tasks) /\ \A i, j \in DOMAIN e.order : e.order[i] = e.order[j] => i = j
    /\ e.status \in [Tasks -> Windows!Statuses]
    /\ e.replans \subseteq Replans /\ e.permits \subseteq Agents

DesktopTypes == TypedView(de_view) /\ TypedEngine(de_engine) /\ (de_held => de_saving)

LEMMA SameCardinality == \A S : Windows!Cardinality(S) = Cardinality(S)
  BY DEF Windows!Cardinality, Cardinality

LEMMA FirstSelected == \A m \in Nat : 1 \in 1..(m + 1)
  OBVIOUS

(* No more tasks are listed than there are.                                *)
LEMMA FewVisible ==
    ASSUME DesktopBounds, NEW v, NEW e, TypedEngine(e)
    PROVE  Len(Windows!visible_tasks(v, e)) \in 0..Cardinality(Tasks)
<1> DEFINE o == e.order
           shown == {i \in DOMAIN o : v.filter \in {"All", e.status[o[i]]}}
<1>1. IsFiniteSet(Tasks) /\ Cardinality(Tasks) \in Nat
  BY FS_CardinalityType DEF DesktopBounds
<1>2. /\ o \in Seq(Tasks) /\ \A i, j \in DOMAIN o : o[i] = o[j] => i = j
  BY DEF TypedEngine
<1>9. \A i \in DOMAIN o : o[i] \in Tasks
  <2> HIDE DEF o
  <2> QED BY <1>2
<1>3. shown \subseteq DOMAIN o
  OBVIOUS
<1> HIDE DEF shown, o
<1>4. [i \in shown |-> o[i]] \in Injection(shown, Tasks)
  BY <1>2, <1>9, <1>3 DEF Injection, IsInjective
<1>5. /\ IsFiniteSet(shown) /\ Cardinality(shown) \in Nat
      /\ Cardinality(shown) <= Cardinality(Tasks)
  BY <1>1, <1>4, FS_Injection, FS_CardinalityType DEF ExistsInjection
<1>6. Windows!Cardinality(shown) = Cardinality(shown)
  BY SameCardinality
<1>7. DOMAIN Windows!visible_tasks(v, e) = 1..Cardinality(shown)
  BY <1>6 DEF Windows!visible_tasks, shown, o
<1>8. Len(Windows!visible_tasks(v, e)) = Cardinality(shown)
  BY <1>5, <1>7
<1> QED BY <1>1, <1>5, <1>8

LEMMA TypedClosed ==
    ASSUME NEW v, TypedView(v)
    PROVE  TypedView(Windows!close_overlays(v))
  BY DEF TypedView, IsView, Fields, Flags, Windows!close_overlays, Windows!Overlays,
         Windows!ListFilters, Windows!None

LEMMA TypedCommand ==
    ASSUME DesktopBounds, NEW v, TypedView(v), NEW c, NEW e
    PROVE  TypedView(Windows!ViewAfter(c, v, e))
<1>0. Cardinality(Tasks) \in Nat
  BY FS_CardinalityType DEF DesktopBounds
<1>a. /\ Windows!Overlays = {"none", "EmptyState", "ProviderSetup", "Tasks"}
      /\ Windows!ListFilters = {"All", "Blocked", "NeedsReview"} /\ Windows!None = "none"
  BY DEF Windows!Overlays, Windows!ListFilters, Windows!None
<1>b. 1 \in 1..(Cardinality(Tasks) + 1)
  BY <1>0, FirstSelected
<1>1. TypedView(Windows!Dashboard(v))
  BY <1>a, <1>b DEF TypedView, IsView, Fields, Flags, Windows!Dashboard
<1>2. TypedView(Windows!ToggleNeedsYou(v))
  BY <1>a DEF TypedView, IsView, Fields, Flags, Windows!ToggleNeedsYou
<1>3. TypedView(Windows!dispatch_task_command(c, v, e))
  <2> DEFINE d == Windows!Dashboard(v)
             some == Windows!visible_tasks(v, e) # <<>>
  <2>1. some \in BOOLEAN
    OBVIOUS
  <2> HIDE DEF d, some
  <2>2. Windows!dispatch_task_command(c, v, e) \in
          {v, d, [v EXCEPT !.overlay = Windows!None], [d EXCEPT !.filter = "All"],
           [v EXCEPT !.overlay = "Tasks", !.detail = FALSE, !.create = TRUE],
           [d EXCEPT !.filter = "Blocked"], [d EXCEPT !.filter = "NeedsReview"],
           [d EXCEPT !.detail = some]}
    BY DEF Windows!dispatch_task_command, d, some
  <2>3. TypedView(d)
    BY <1>1 DEF d
  <2> QED BY <1>a, <2>1, <2>2, <2>3 DEF TypedView, IsView, Fields, Flags
<1>4. TypedView(Windows!dispatch_control_command(c, v))
  BY <1>a, <1>2 DEF TypedView, IsView, Fields, Flags, Windows!dispatch_control_command
<1>5. TypedView([v EXCEPT !.palette = ~v.palette])
  BY DEF TypedView, IsView, Fields, Flags
<1> QED BY <1>3, <1>4, <1>5 DEF Windows!ViewAfter

LEMMA TypedDecision ==
    ASSUME NEW e, TypedEngine(e), NEW item
    PROVE  TypedEngine(Windows!Resolved(e, item))
<1>1. [t \in Tasks |-> IF t = item THEN "Done" ELSE e.status[t]] \in [Tasks -> Windows!Statuses]
  BY DEF TypedEngine, Windows!Statuses
<1> QED BY <1>1 DEF Windows!Resolved, TypedEngine, EngineFields

(* What a command does to the engine.                                      *)
LEMMA TypedEffect ==
    ASSUME NEW e, TypedEngine(e), NEW v, NEW c
    PROVE  TypedEngine(Windows!EngineAfter(c, v, e))
<1>1. \A s \in [Tasks -> Windows!Statuses] : TypedEngine([e EXCEPT !.status = s])
  BY DEF TypedEngine, EngineFields
<1>2. "Done" \in Windows!Statuses /\ "Ready" \in Windows!Statuses
  BY DEF Windows!Statuses
<1>3. \A ts : TypedEngine(Windows!Cancelled(e, ts))
  <2> TAKE ts
  <2>1. [t \in Tasks |-> IF t \in ts THEN "Done" ELSE e.status[t]] \in [Tasks -> Windows!Statuses]
    BY <1>2 DEF TypedEngine
  <2> QED BY <1>1, <2>1 DEF Windows!Cancelled
<1>4. \A item : TypedEngine(Windows!Resolved(e, item))
  BY TypedDecision
<1>5. TypedEngine(Windows!stop_all(e))
  <2> DEFINE d == Windows!Cancelled(e, {t \in Windows!ToSet(e.order) : e.status[t] \in {"Ready", "Blocked"}})
  <2>1. TypedEngine(d)
    BY <1>3
  <2>2. Windows!stop_all(e) = [d EXCEPT !.permits = {}]
    BY DEF Windows!stop_all
  <2> HIDE DEF d
  <2> QED BY <2>1, <2>2 DEF TypedEngine, EngineFields
<1>6. \A t : TypedEngine([e EXCEPT !.status = [e.status EXCEPT ![t] = "Ready"]])
  <2> TAKE t
  <2>1. [e.status EXCEPT ![t] = "Ready"] \in [Tasks -> Windows!Statuses]
    BY <1>2 DEF TypedEngine
  <2> QED BY <1>1, <2>1
<1>7. \A x : TypedEngine([e EXCEPT !.paused = x]) /\ TypedEngine([e EXCEPT !.tab = x])
  BY DEF TypedEngine, EngineFields
<1> QED BY <1>3, <1>4, <1>5, <1>6, <1>7 DEF Windows!EngineAfter

(* A task more.                                                            *)
LEMMA TypedOrder ==
    ASSUME NEW e, TypedEngine(e), NEW t \in Tasks, t \notin Windows!ToSet(e.order)
    PROVE  TypedEngine([e EXCEPT !.order = Append(e.order, t)])
<1> DEFINE o == e.order  a == Append(o, t)
<1>0. o \in Seq(Tasks) /\ \A i \in DOMAIN o : o[i] # t
  BY DEF TypedEngine, Windows!ToSet
<1>1. /\ a \in Seq(Tasks) /\ DOMAIN a = DOMAIN o \cup {Len(o) + 1} /\ a[Len(o) + 1] = t
      /\ \A i \in DOMAIN o : a[i] = o[i] /\ o[i] # t
  <2> HIDE DEF o
  <2>1. Len(o) \in Nat /\ DOMAIN o = 1..Len(o) /\ a \in Seq(Tasks) /\ Len(a) = Len(o) + 1
    BY <1>0
  <2>2. DOMAIN a = 1..(Len(o) + 1)
    BY <2>1
  <2>3. DOMAIN a = DOMAIN o \cup {Len(o) + 1}
    BY <2>1, <2>2
  <2> QED BY <1>0, <2>1, <2>3
<1> HIDE DEF a
<1>2. \A i, j \in DOMAIN o : o[i] = o[j] => i = j
  BY DEF TypedEngine
<1> HIDE DEF o
<1>3. \A i, j \in DOMAIN a : a[i] = a[j] => i = j
  BY <1>1, <1>2
<1>4. TypedEngine([e EXCEPT !.order = a])
  BY <1>1, <1>3 DEF TypedEngine, EngineFields
<1> QED BY <1>4 DEF a, o

(* What waits for a decision can be shown in the center.                   *)
LEMMA TypedItems ==
    ASSUME NEW e, TypedEngine(e)
    PROVE  Windows!attention_items(e) \subseteq Tasks \cup Replans \cup Agents
<1>1. Windows!ToSet(e.order) \subseteq Tasks
  BY DEF TypedEngine, Windows!ToSet
<1> QED BY <1>1 DEF TypedEngine, Windows!attention_items

LEMMA TypedEscape ==
    ASSUME TypedView(de_view)
    PROVE  TypedView(Windows!Unwound)
<1>1. Windows!None \in {"none"}
  BY DEF Windows!None
<1> QED BY <1>1, TypedClosed DEF TypedView, IsView, Fields, Flags, Windows!Unwound

LEMMA TypesOfWindows ==
    ASSUME DesktopBounds, DesktopTypes, [Windows!Next]_Windows!vars
    PROVE  DesktopTypes'
<1>0. /\ TypedView(de_view) /\ TypedEngine(de_engine) /\ (de_held => de_saving)
      /\ Cardinality(Tasks) \in Nat
  BY FS_CardinalityType DEF DesktopTypes, DesktopBounds
<1>a. /\ Windows!Overlays = {"none", "EmptyState", "ProviderSetup", "Tasks"}
      /\ Windows!ListFilters = {"All", "Blocked", "NeedsReview"} /\ Windows!None = "none"
  BY DEF Windows!Overlays, Windows!ListFilters, Windows!None
<1>b. ASSUME NEW w, TypedView(w), Windows!Show(w) PROVE DesktopTypes'
  BY <1>0, <1>b DEF Windows!Show, Windows!NoSave, DesktopTypes
<1>c. ASSUME TypedView(de_view'), TypedEngine(de_engine'), Windows!Save PROVE DesktopTypes'
  BY <1>c DEF Windows!Save, DesktopTypes
<1>d. \A b \in BOOLEAN : /\ TypedView([de_view EXCEPT !.edit = b])
                         /\ TypedView([de_view EXCEPT !.create = b])
                         /\ TypedView([de_view EXCEPT !.detail = b])
  BY <1>0 DEF TypedView, IsView, Fields, Flags
<1>e. \A item \in Tasks \cup Replans \cup Agents \cup {Windows!None} :
          /\ TypedView([de_view EXCEPT !.approval = item])
          /\ TypedView([de_view EXCEPT !.approval = item, !.edit = FALSE])
  BY <1>0 DEF TypedView, IsView, Fields, Flags
<1>1. ASSUME NEW c, NEW closing \in BOOLEAN, Windows!run_command(c, closing)
      PROVE  DesktopTypes'
  <2> DEFINE w == Windows!ViewAfter(c, de_view, de_engine)
  <2>1. de_view' \in {w, Windows!close_overlays(w)}
    BY <1>1 DEF Windows!run_command
  <2>2. TypedView(w)
    BY <1>0, TypedCommand
  <2> HIDE DEF w
  <2>3. TypedView(de_view')
    BY <2>1, <2>2, TypedClosed
  <2>4. TypedEngine(de_engine')
    BY <1>0, <1>1, TypedEffect DEF Windows!run_command
  <2>5. de_held' => de_saving'
    BY <1>0, <1>1 DEF Windows!run_command, Windows!NoSave
  <2> QED BY <2>3, <2>4, <2>5 DEF DesktopTypes
<1>2. ASSUME NEW c, Windows!Run(c) PROVE DesktopTypes'
  BY <1>1, <1>2 DEF Windows!Run
<1>3. CASE Windows!Escape
  BY <1>0, <1>3, <1>b, TypedEscape DEF Windows!Escape
<1>4. CASE Windows!apply_approval_edit
  <2>1. CASE Windows!Show([de_view EXCEPT !.edit = FALSE])
    BY <2>1, <1>b, <1>d
  <2>2. ASSUME de_view' = [de_view EXCEPT !.edit = de_view.edit /\ de_view.approval \notin de_engine.replans],
               Windows!Save, UNCHANGED de_engine
        PROVE  DesktopTypes'
    <3> DEFINE b == de_view.edit /\ de_view.approval \notin de_engine.replans
    <3>1. b \in BOOLEAN /\ de_view' = [de_view EXCEPT !.edit = b]
      BY <1>0, <2>2 DEF TypedView, IsView, Flags
    <3> HIDE DEF b
    <3> QED BY <1>0, <1>c, <1>d, <2>2, <3>1
  <2>3. CASE Windows!Save /\ UNCHANGED <<de_view, de_engine>>
    BY <1>0, <1>c, <2>3
  <2> QED BY <1>4, <2>1, <2>2, <2>3 DEF Windows!apply_approval_edit
<1>5. CASE Windows!Decide
  <2>1. CASE UNCHANGED Windows!vars
    BY <1>0, <2>1 DEF Windows!vars, DesktopTypes
  <2>2. CASE /\ de_engine' = Windows!Resolved(de_engine, de_view.approval)
             /\ de_view' = [de_view EXCEPT !.approval = Windows!None] /\ Windows!Save
    <3>1. \A item : TypedEngine(Windows!Resolved(de_engine, item))
      BY <1>0, TypedDecision
    <3> QED BY <1>c, <1>e, <2>2, <3>1
  <2> QED BY <1>5, <2>1, <2>2 DEF Windows!Decide
<1>6. CASE Windows!ApprovalKey \/ Windows!ModalClick
  <2>1. CASE Windows!ApproveReplan
    BY <1>0, <1>c, <1>e, <2>1 DEF Windows!ApproveReplan
  <2>2. CASE Windows!StartEdit
    BY <1>b, <1>d, <2>2 DEF Windows!StartEdit
  <2> QED BY <1>5, <1>6, <2>1, <2>2 DEF Windows!ApprovalKey, Windows!ModalClick
<1>7. CASE Windows!EmptyStateKey
  BY <1>0, <1>7, <1>a, <1>b DEF Windows!EmptyStateKey, TypedView, IsView, Fields, Flags
<1>8. CASE Windows!CreateKey
  <2>1. CASE de_view' = [de_view EXCEPT !.create = FALSE] /\ UNCHANGED de_engine
    BY <1>0, <1>8, <1>c, <1>d, <2>1 DEF Windows!CreateKey
  <2>2. ASSUME NEW t \in Tasks \ Windows!ToSet(de_engine.order),
               de_engine' = [de_engine EXCEPT !.order = Append(de_engine.order, t)],
               de_view' = [de_view EXCEPT !.create = FALSE, !.selection = 1, !.filter = "All"]
        PROVE  DesktopTypes'
    <3>0. 1 \in 1..(Cardinality(Tasks) + 1)
      BY <1>0, FirstSelected
    <3>1. TypedView(de_view')
      BY <1>0, <1>a, <2>2, <3>0 DEF TypedView, IsView, Fields, Flags
    <3>2. TypedEngine(de_engine')
      BY <1>0, <2>2, TypedOrder
    <3> QED BY <1>8, <1>c, <3>1, <3>2 DEF Windows!CreateKey
  <2> QED BY <1>8, <2>1, <2>2 DEF Windows!CreateKey
<1>9. CASE Windows!ListKey
  <2>1. ASSUME NEW s \in Windows!Moved, Windows!Show([de_view EXCEPT !.selection = s])
        PROVE  DesktopTypes'
    <3> DEFINE n == Len(Windows!visible_tasks(de_view, de_engine))
               m == Cardinality(Tasks)
               p == de_view.selection
    <3>1. n \in Nat /\ n <= m /\ m \in Nat
      BY <1>0, FewVisible
    <3>2. p \in Nat /\ p >= 1 /\ p <= m + 1
      BY <1>0 DEF TypedView
    <3>3. \/ s = (IF p > 1 THEN p - 1 ELSE 1)
          \/ n # 0 /\ s = (IF p < n THEN p + 1 ELSE n)
      BY <2>1 DEF Windows!Moved
    <3> HIDE DEF n, p, m
    <3>4. s \in 1..(m + 1)
      BY <3>1, <3>2, <3>3
    <3>5. TypedView([de_view EXCEPT !.selection = s])
      BY <1>0, <3>4 DEF m, TypedView, IsView, Fields, Flags
    <3> QED BY <1>b, <2>1, <3>5
  <2>2. ASSUME NEW b \in BOOLEAN, Windows!Show([de_view EXCEPT !.detail = b]) PROVE DesktopTypes'
    BY <1>b, <1>d, <2>2
  <2>3. (Windows!selected_task_id(de_view, de_engine) # Windows!None) \in BOOLEAN
    OBVIOUS
  <2>4. CASE \E c \in Windows!OnSelected \cup {"RunTasks"} : Windows!Run(c)
    BY <1>2, <2>4
  <2> QED BY <1>9, <2>1, <2>2, <2>3, <2>4 DEF Windows!ListKey
<1>10. CASE Windows!PaletteEnter \/ Windows!Chord
  <2>1. CASE Windows!Show(Windows!close_overlays(de_view))
    BY <1>0, <1>b, <2>1, TypedClosed
  <2> QED BY <1>1, <1>2, <1>10, <2>1 DEF Windows!PaletteEnter, Windows!Chord
<1>11. CASE Windows!StatusBarClick \/ Windows!NeedsYouClick
  <2>1. CASE Windows!Show(Windows!ToggleNeedsYou(de_view))
    <3>1. TypedView(Windows!ToggleNeedsYou(de_view))
      BY <1>0, <1>a DEF TypedView, IsView, Fields, Flags, Windows!ToggleNeedsYou
    <3> QED BY <1>b, <2>1, <3>1
  <2>2. ASSUME NEW item \in Windows!attention_items(de_engine), Windows!open_approval(item)
        PROVE  DesktopTypes'
    <3>1. item \in Tasks \cup Replans \cup Agents
      BY <1>0, <2>2, TypedItems
    <3> QED BY <1>b, <1>e, <2>2, <3>1 DEF Windows!open_approval
  <2> QED BY <1>2, <1>11, <2>1, <2>2 DEF Windows!StatusBarClick, Windows!NeedsYouClick
<1>12. CASE Windows!drain_and_render
  <2> DEFINE w == Windows!Synced
  <2>1. TypedView(w)
    BY <1>0, <1>a DEF Windows!Synced, TypedView, IsView, Fields, Flags
  <2>2. \/ Windows!Show(w)
        \/ Windows!Show([w EXCEPT !.approval = Windows!None, !.edit = FALSE])
    BY <1>12 DEF Windows!drain_and_render, Windows!Show
  <2> HIDE DEF w
  <2>3. TypedView([w EXCEPT !.approval = Windows!None, !.edit = FALSE])
    BY <2>1 DEF TypedView, IsView, Fields, Flags
  <2> QED BY <1>b, <2>1, <2>2, <2>3
<1>13. CASE Windows!persist
  BY <1>0, <1>13 DEF Windows!persist, DesktopTypes
<1>14. CASE Windows!Elsewhere
  <2>1. TypedEngine(de_engine')
    <3>1. ASSUME NEW t \in Tasks \ Windows!ToSet(de_engine.order),
                 de_engine' = [de_engine EXCEPT !.order = Append(de_engine.order, t)]
          PROVE  TypedEngine(de_engine')
      BY <1>0, <3>1, TypedOrder
    <3>2. ASSUME NEW t, NEW s \in Windows!Statuses,
                 de_engine' = [de_engine EXCEPT !.status = [de_engine.status EXCEPT ![t] = s]]
          PROVE  TypedEngine(de_engine')
      BY <1>0, <3>2 DEF TypedEngine, EngineFields
    <3>3. ASSUME NEW R \in SUBSET Replans, de_engine' = [de_engine EXCEPT !.replans = R]
          PROVE  TypedEngine(de_engine')
      BY <1>0, <3>3 DEF TypedEngine, EngineFields
    <3>4. ASSUME NEW P \in SUBSET Agents, de_engine' = [de_engine EXCEPT !.permits = P]
          PROVE  TypedEngine(de_engine')
      BY <1>0, <3>4 DEF TypedEngine, EngineFields
    <3>5. ASSUME NEW r \in Replans
          PROVE  (IF r \in de_engine.replans THEN de_engine.replans \ {r}
                  ELSE de_engine.replans \cup {r}) \in SUBSET Replans
      BY <1>0 DEF TypedEngine
    <3>6. ASSUME NEW a \in Agents
          PROVE  (IF a \in de_engine.permits THEN de_engine.permits \ {a}
                  ELSE de_engine.permits \cup {a}) \in SUBSET Agents
      BY <1>0 DEF TypedEngine
    <3> QED BY <1>14, <3>1, <3>2, <3>3, <3>4, <3>5, <3>6 DEF Windows!Elsewhere
  <2> QED BY <1>0, <1>14, <2>1 DEF Windows!Elsewhere, DesktopTypes
<1>15. CASE UNCHANGED Windows!vars
  BY <1>0, <1>15 DEF Windows!vars, DesktopTypes
<1> QED BY <1>3, <1>4, <1>6, <1>7, <1>8, <1>9, <1>10, <1>11, <1>12, <1>13, <1>14, <1>15
    DEF Windows!Next, Windows!Input

(* Whatever keys, clicks and requests come, the window is one and what the *)
(* engine shows it is a list of its tasks, each once (App, on_key).        *)
THEOREM WindowTypes ==
    ASSUME DesktopBounds
    PROVE  Windows!Spec => []Windows!TypeOK
<1>1. Windows!Init => DesktopTypes
  <2> SUFFICES ASSUME Windows!Init PROVE DesktopTypes
    OBVIOUS
  <2>0. Cardinality(Tasks) \in Nat
    BY FS_CardinalityType DEF DesktopBounds
  <2>1. TypedView(de_view)
    BY <2>0 DEF Windows!Init, TypedView, IsView, Fields, Flags, Windows!Overlays,
                Windows!ListFilters, Windows!None
  <2>2. TypedEngine(de_engine)
    <3>1. de_engine = [order |-> <<>>, status |-> [t \in Tasks |-> "Ready"],
                       replans |-> {}, permits |-> {}, paused |-> FALSE, tab |-> 1]
      BY DEF Windows!Init
    <3>2. de_engine.order \in Seq(Tasks) /\ DOMAIN de_engine.order = {}
      BY <3>1
    <3>3. de_engine.status \in [Tasks -> Windows!Statuses]
      BY <3>1 DEF Windows!Statuses
    <3>4. de_engine = [f \in EngineFields |-> de_engine[f]]
      BY <3>1 DEF EngineFields
    <3> QED BY <3>1, <3>2, <3>3, <3>4 DEF TypedEngine
  <2> QED BY <2>1, <2>2 DEF Windows!Init, DesktopTypes
<1>2. DesktopTypes /\ [Windows!Next]_Windows!vars => DesktopTypes'
  BY TypesOfWindows
<1>3. DesktopTypes => Windows!TypeOK
  <2> SUFFICES ASSUME DesktopTypes PROVE Windows!TypeOK
    OBVIOUS
  <2>1. Windows!ToSet(de_engine.order) \subseteq Tasks
    BY DEF DesktopTypes, TypedEngine, Windows!ToSet
  <2>2. Windows!IsInjective(de_engine.order)
    BY DEF DesktopTypes, TypedEngine, Windows!IsInjective
  <2>3. Windows!Cardinality(Tasks) = Cardinality(Tasks)
    BY SameCardinality
  <2> QED BY <2>1, <2>2, <2>3 DEF DesktopTypes, TypedView, TypedEngine, Windows!TypeOK
<1> QED BY <1>1, <1>2, <1>3, PTL DEF Windows!Spec

-----------------------------------------------------------------------------
(* The screen.  Its constants: the history kept as rows fits the limit.    *)
Dims == [cols : Nat \ {0}, rows : Nat \ {0}]

ScreenBounds ==
    /\ Sizes \subseteq Dims /\ Counts \subseteq Nat
    /\ BLOCK_ROWS \in Nat \ {0} /\ HotCap \in Nat /\ Limit \in Nat
    /\ HotCap <= Limit

CellFlags == {"CONTINUATION", "COMBINING", "JOINER"}
Cells == [ch : {0, 1}, width : 0..2, flags : SUBSET CellFlags]
TextRows == [cells : Seq(Cells), wrapped : BOOLEAN]
Spots == [col : Nat, row : Nat]
Encodings == {Terminal!encode_row_into(c) : c \in Seq(Cells)}
Pendings == [body : Seq(Encodings), wrapped : SUBSET Nat]
Blocks == [rows : {BLOCK_ROWS}, cols : Nat \ {0}, body : Seq(Encodings),
           wrapped : SUBSET Nat]
Colds == [blocks : Seq(Blocks), total_rows : Nat]
SizesOrNone == Dims \cup {Terminal!None}
SavedCursors == [cursor : Spots, parked : BOOLEAN, wrap : BOOLEAN, size : SizesOrNone]
Aside == [grid : Seq(TextRows), cold : Colds, pending : Pendings, cursor : Spots,
          saved : SavedCursors, parked : BOOLEAN, size : SizesOrNone]
Selections == [start : Spots, end : Spots]
Marks == [rows : SUBSET Nat, cursor : BOOLEAN, full : BOOLEAN]
Deaths == {"no", "cursor", "insert", "view", "snapshot"}

Terminals ==
    [cols : Nat \ {0}, rows : Nat \ {0}, grid : Seq(TextRows), cold : Colds,
     pending : Pendings, cursor : Spots, parked : BOOLEAN, wrap : BOOLEAN,
     offset : Nat, saved : SavedCursors, alt : Aside \cup {Terminal!None},
     last : {"none", "narrow", "wide"}, selection : Selections \cup {Terminal!None},
     dirty : Marks, stale : BOOLEAN, dead : Deaths]

(* What is on the screen, or put aside, fits the size it was made for; the *)
(* tiers of its history are within their limits.                           *)
Fitting(g, size) ==
    /\ Len(g) >= size.rows
    /\ \A i \in 1..Len(g) : Len(g[i].cells) = size.cols
Tiered(g, cold, pending, size) ==
    /\ Len(g) <= size.rows + HotCap
    /\ cold.total_rows + Len(pending.body) = 0 \/ Len(g) = size.rows + HotCap
    /\ cold.total_rows + Len(pending.body) + Len(g) <= size.rows + Limit + 1
Counted(cold, pending) ==
    /\ cold.total_rows = Len(cold.blocks) * BLOCK_ROWS
    /\ Len(pending.body) < BLOCK_ROWS
Placed(cursor, parked, size) ==
    /\ cursor.col < size.cols /\ cursor.row < size.rows
    /\ parked => cursor.col = size.cols - 1
SavedWell(saved) ==
    saved.size # Terminal!None => Placed(saved.cursor, saved.parked, saved.size)
AsideWell(alt) ==
    alt # Terminal!None =>
      /\ Counted(alt.cold, alt.pending) /\ SavedWell(alt.saved)
      /\ alt.size # Terminal!None =>
           /\ Fitting(alt.grid, alt.size) /\ Placed(alt.cursor, alt.parked, alt.size)
           /\ Tiered(alt.grid, alt.cold, alt.pending, alt.size)
Chosen(sel, s) ==
    sel # Terminal!None => Terminal!OnScreen(sel.start, s) /\ Terminal!OnScreen(sel.end, s)
Whole(s) ==
    /\ Fitting(s.grid, Terminal!Size(s)) /\ Placed(s.cursor, s.parked, Terminal!Size(s))
    /\ Tiered(s.grid, s.cold, s.pending, Terminal!Size(s))
    /\ s.dead \notin {"cursor", "view"}

Sound(s) ==
    /\ s \in Terminals /\ Terminal!Size(s) \in Sizes
    /\ Counted(s.cold, s.pending) /\ SavedWell(s.saved) /\ AsideWell(s.alt)
    /\ Chosen(s.selection, s)
    /\ s.dirty.rows \subseteq 0..(s.rows - 1)
    /\ ~s.stale => Whole(s)

(* A sound terminal is what the run asks of it.                            *)
LEMMA Holding ==
    ASSUME ScreenBounds, Sound(sc_terminal)
    PROVE  Terminal!TypeOK /\ Terminal!ScreenHolds /\ Terminal!HistoryIsBounded
<1> DEFINE s == sc_terminal
<1>1. s \in Terminals
  BY DEF Sound
<1> HIDE DEF s
<1>2. /\ s.cols \in Nat \ {0} /\ s.rows \in Nat \ {0} /\ s.grid \in Seq(TextRows)
      /\ s.cold.blocks \in Seq(Blocks) /\ s.cold.total_rows \in Nat
      /\ s.pending.body \in Seq(Encodings) /\ s.cursor \in Spots /\ s.dead \in Deaths
  BY <1>1 DEF Terminals, Colds, Pendings
<1>3. Sound(s)
  BY DEF s
<1>4. ASSUME NEW b \in Terminal!Range(s.cold.blocks) PROVE b.rows = BLOCK_ROWS
  <2>1. PICK i \in 1..Len(s.cold.blocks) : b = s.cold.blocks[i]
    BY <1>2 DEF Terminal!Range
  <2>2. b \in Blocks
    BY <2>1, <1>2
  <2> QED BY <2>2 DEF Blocks
<1>5. ASSUME ~s.stale, NEW r \in Terminal!Range(s.grid) PROVE Len(r.cells) = s.cols
  <2>1. PICK i \in 1..Len(s.grid) : r = s.grid[i]
    BY <1>2 DEF Terminal!Range
  <2> QED BY <2>1, <1>3, <1>5 DEF Sound, Whole, Fitting, Terminal!Size
<1>6. Terminal!TypeOK
  <2>1. /\ Terminal!Size(s) \in Sizes
        /\ \A b \in Terminal!Range(s.cold.blocks) : b.rows = BLOCK_ROWS
        /\ Len(s.pending.body) < BLOCK_ROWS
        /\ s.dirty.rows \subseteq 0..(s.rows - 1)
        /\ s.dead \in {"no", "cursor", "insert", "view", "snapshot"}
    <3>1. s.dead \in {"no", "cursor", "insert", "view", "snapshot"}
      BY <1>2 DEF Deaths
    <3> QED BY <3>1, <1>3, <1>4 DEF Sound, Counted
  <2> QED BY ONLY <2>1 DEF Terminal!TypeOK, s
<1>7. ASSUME ~s.stale
      PROVE  /\ Terminal!OnScreen(s.cursor, s) /\ Len(s.grid) >= s.rows
             /\ s.parked => s.cursor.col = s.cols - 1
             /\ s.dead \notin {"cursor", "view"}
             /\ Terminal!scrollback_len(s) <= Limit + 1
  <2>1. Whole(s)
    BY <1>3, <1>7 DEF Sound
  <2>2. s.cursor.col \in Nat /\ s.cursor.row \in Nat
    BY <1>2 DEF Spots
  <2>3. /\ Len(s.grid) >= s.rows /\ Len(s.grid) \in Nat
        /\ s.cursor.col < s.cols /\ s.cursor.row < s.rows
        /\ s.parked => s.cursor.col = s.cols - 1
        /\ s.dead \notin {"cursor", "view"}
        /\ s.cold.total_rows + Len(s.pending.body) + Len(s.grid) <= s.rows + Limit + 1
        /\ Len(s.pending.body) \in Nat
    BY <2>1, <1>2 DEF Whole, Fitting, Placed, Tiered, Terminal!Size
  <2>4. Terminal!OnScreen(s.cursor, s)
    BY <2>2, <2>3, <1>2 DEF Terminal!OnScreen
  <2>5. Terminal!scrollback_len(s) = s.cold.total_rows + Len(s.pending.body) + Len(s.grid) - s.rows
    BY <1>2, <2>3 DEF Terminal!scrollback_len, Terminal!grid_len, Terminal!Encoded
  <2>6. Terminal!scrollback_len(s) <= Limit + 1
    <3> DEFINE a == s.cold.total_rows  b == Len(s.pending.body)  c == Len(s.grid)  r == s.rows
    <3>1. a \in Nat /\ b \in Nat /\ c \in Nat /\ r \in Nat /\ Limit \in Nat
      BY <1>2, <2>3 DEF ScreenBounds
    <3>2. a + b + c <= r + Limit + 1 /\ Terminal!scrollback_len(s) = a + b + c - r
      BY ONLY <2>3, <2>5
    <3> HIDE DEF a, b, c, r
    <3> QED BY ONLY <3>1, <3>2
  <2> QED BY <2>3, <2>4, <2>6
<1>8. Terminal!ScreenHolds
  BY <1>3, <1>5, <1>7 DEF s, Terminal!ScreenHolds, Sound, Chosen
<1>9. Terminal!HistoryIsBounded
  BY <1>3, <1>7 DEF s, Terminal!HistoryIsBounded, Sound, Counted
<1> QED BY <1>6, <1>8, <1>9

-----------------------------------------------------------------------------
(* What stays sound when some of the fields change.                        *)

(* What the fields of a terminal are, as facts about numbers and lists.    *)
LEMMA FieldsOf ==
    ASSUME NEW s \in Terminals
    PROVE  /\ s.cols \in Nat /\ s.cols >= 1 /\ s.rows \in Nat /\ s.rows >= 1
           /\ s.grid \in Seq(TextRows) /\ Len(s.grid) \in Nat /\ DOMAIN s.grid = 1..Len(s.grid)
           /\ s.cold \in Colds /\ s.pending \in Pendings
           /\ s.cursor \in Spots /\ s.cursor.col \in Nat /\ s.cursor.row \in Nat
           /\ s.parked \in BOOLEAN /\ s.wrap \in BOOLEAN /\ s.offset \in Nat
           /\ s.saved \in SavedCursors /\ s.alt \in Aside \cup {Terminal!None}
           /\ s.last \in {"none", "narrow", "wide"}
           /\ s.selection \in Selections \cup {Terminal!None}
           /\ s.dirty \in Marks /\ s.stale \in BOOLEAN /\ s.dead \in Deaths
BY DEF Terminals, Spots

LEMMA Kept ==
    ASSUME NEW s, Sound(s), NEW u \in Terminals,
           u.cols = s.cols, u.rows = s.rows, u.cold = s.cold, u.pending = s.pending,
           u.saved = s.saved, u.alt = s.alt, u.selection = s.selection,
           u.stale = s.stale, u.dirty.rows \subseteq 0..(s.rows - 1),
           ~s.stale => /\ Len(u.grid) = Len(s.grid) /\ Fitting(u.grid, Terminal!Size(s))
                       /\ Placed(u.cursor, u.parked, Terminal!Size(s))
                       /\ u.dead \notin {"cursor", "view"}
    PROVE  Sound(u)
<1>1. Terminal!Size(u) = Terminal!Size(s)
  BY DEF Terminal!Size
<1>2. Chosen(u.selection, u)
  BY DEF Sound, Chosen, Terminal!OnScreen
<1>3. ~u.stale => Whole(u)
  BY <1>1 DEF Sound, Whole, Tiered
<1> QED BY <1>1, <1>2, <1>3 DEF Sound

(* A step that leaves the rows as they are.                                *)
LEMMA Steady ==
    ASSUME NEW s, Sound(s), NEW u \in Terminals,
           u.cols = s.cols, u.rows = s.rows, u.cold = s.cold, u.pending = s.pending,
           u.saved = s.saved, u.alt = s.alt, u.selection = s.selection,
           u.stale = s.stale, u.grid = s.grid, u.dead = s.dead,
           u.dirty.rows \subseteq 0..(s.rows - 1),
           ~s.stale => Placed(u.cursor, u.parked, Terminal!Size(s))
    PROVE  Sound(u)
<1>1. ~s.stale => /\ Len(u.grid) = Len(s.grid) /\ Fitting(u.grid, Terminal!Size(s))
                  /\ u.dead \notin {"cursor", "view"}
  BY DEF Sound, Whole
<1> QED BY <1>1, Kept

(* What is used most of a sound terminal.                                  *)
LEMMA SoundSize ==
    ASSUME NEW s, Sound(s)
    PROVE  /\ s \in Terminals /\ Terminal!Size(s).cols = s.cols /\ Terminal!Size(s).rows = s.rows
           /\ s.dirty.rows \subseteq 0..(s.rows - 1) /\ s.dirty \in Marks
           /\ ~s.stale => /\ Placed(s.cursor, s.parked, Terminal!Size(s))
                          /\ Fitting(s.grid, Terminal!Size(s)) /\ s.dead \notin {"cursor", "view"}
BY DEF Sound, Whole, Terminal!Size, Terminals

(* The marks for the next frame disturb nothing.                           *)
LEMMA Redirtied ==
    ASSUME NEW s, Sound(s), NEW d \in Marks, d.rows \subseteq 0..(s.rows - 1)
    PROVE  Sound([s EXCEPT !.dirty = d])
<1> DEFINE u == [s EXCEPT !.dirty = d]
<1>1. s \in Terminals
  BY SoundSize
<1>2. u \in Terminals /\ u.dirty = d
  BY <1>1 DEF Terminals
<1>3. /\ u.cols = s.cols /\ u.rows = s.rows /\ u.cold = s.cold /\ u.pending = s.pending
      /\ u.saved = s.saved /\ u.alt = s.alt /\ u.selection = s.selection
      /\ u.stale = s.stale /\ u.grid = s.grid /\ u.dead = s.dead
      /\ u.cursor = s.cursor /\ u.parked = s.parked
  BY <1>1 DEF Terminals
<1> HIDE DEF u
<1>4. Sound(u)
  BY <1>2, <1>3, Steady, SoundSize
<1> QED BY <1>4 DEF u

LEMMA Marking ==
    ASSUME NEW s, Sound(s)
    PROVE  /\ Sound(Terminal!mark_all(s)) /\ Sound(Terminal!mark_scroll(s))
           /\ Sound(Terminal!moved(s))
           /\ \A r \in Nat : Sound(Terminal!mark_row(s, r))
<1>1. s \in Terminals /\ s.dirty.rows \subseteq 0..(s.rows - 1) /\ s.dirty \in Marks
  BY SoundSize
<1>2. s.rows \in Nat /\ s.rows >= 1
  BY <1>1, FieldsOf
<1>3. Sound(Terminal!mark_all(s))
  <2> DEFINE d == [s.dirty EXCEPT !.full = TRUE, !.rows = {}]
  <2>1. d \in Marks /\ d.rows \subseteq 0..(s.rows - 1)
    BY <1>1 DEF Marks
  <2>2. Terminal!mark_all(s) = [s EXCEPT !.dirty = d]
    BY <1>1 DEF Terminal!mark_all, Terminals, Marks
  <2> HIDE DEF d
  <2> QED BY <2>1, <2>2, Redirtied
<1>4. Sound(Terminal!mark_scroll(s))
  <2> DEFINE d == [s.dirty EXCEPT !.rows = 0..(s.rows - 1)]
  <2>1. d \in Marks /\ d.rows \subseteq 0..(s.rows - 1)
    BY <1>1, <1>2 DEF Marks
  <2>2. Terminal!mark_scroll(s) = [s EXCEPT !.dirty = d]
    BY <1>1 DEF Terminal!mark_scroll
  <2> HIDE DEF d
  <2> QED BY <2>1, <2>2, Redirtied
<1>5. Sound(Terminal!moved(s))
  <2> DEFINE d == [s.dirty EXCEPT !.cursor = TRUE]
  <2>1. d \in Marks /\ d.rows \subseteq 0..(s.rows - 1)
    BY <1>1 DEF Marks
  <2>2. Terminal!moved(s) = [s EXCEPT !.dirty = d]
    BY <1>1 DEF Terminal!moved
  <2> HIDE DEF d
  <2> QED BY <2>1, <2>2, Redirtied
<1>6. ASSUME NEW r \in Nat PROVE Sound(Terminal!mark_row(s, r))
  <2>1. CASE s.dirty.full
    BY <2>1 DEF Terminal!mark_row
  <2>2. CASE ~s.dirty.full /\ r >= s.rows
    BY <2>2, <1>3 DEF Terminal!mark_row, Terminal!mark_all
  <2>3. CASE ~s.dirty.full /\ r < s.rows
    <3> DEFINE d == [s.dirty EXCEPT !.rows = s.dirty.rows \cup {r}]
    <3>1. d \in Marks /\ d.rows \subseteq 0..(s.rows - 1)
      BY <1>1, <1>2, <2>3 DEF Marks
    <3>2. Terminal!mark_row(s, r) = [s EXCEPT !.dirty = d]
      BY <1>1, <1>2, <2>3 DEF Terminal!mark_row
    <3> HIDE DEF d
    <3> QED BY <3>1, <3>2, Redirtied
  <2>4. r >= s.rows \/ r < s.rows
    BY <1>2
  <2> QED BY <2>1, <2>2, <2>3, <2>4
<1> QED BY <1>3, <1>4, <1>5, <1>6

(* The cursor.                                                             *)
LEMMA Put ==
    ASSUME NEW s, Sound(s), NEW p \in Spots, NEW b \in BOOLEAN,
           ~s.stale => Placed(p, b, Terminal!Size(s))
    PROVE  Sound([s EXCEPT !.cursor = p, !.parked = b])
<1> DEFINE u == [s EXCEPT !.cursor = p, !.parked = b]
<1>1. s \in Terminals
  BY SoundSize
<1>2. u \in Terminals /\ u.cursor = p /\ u.parked = b
  BY <1>1 DEF Terminals
<1>3. /\ u.cols = s.cols /\ u.rows = s.rows /\ u.cold = s.cold /\ u.pending = s.pending
      /\ u.saved = s.saved /\ u.alt = s.alt /\ u.selection = s.selection
      /\ u.stale = s.stale /\ u.grid = s.grid /\ u.dead = s.dead
      /\ u.dirty = s.dirty
  BY <1>1 DEF Terminals
<1> HIDE DEF u
<1>4. Sound(u)
  BY <1>2, <1>3, Steady, SoundSize
<1> QED BY <1>4 DEF u

(* A deferred wrap is dropped (dropping wrap_pending moves nothing).       *)
LEMMA Ticking ==
    ASSUME NEW s \in Terminals
    PROVE  /\ Terminal!Unpark(s) = [s EXCEPT !.cursor = s.cursor, !.parked = FALSE]
           /\ Terminal!Unpark(s) \in Terminals
           /\ Terminal!Unpark(s).parked = FALSE /\ Terminal!Unpark(s).cursor = s.cursor
           /\ Terminal!Unpark(s).cols = s.cols /\ Terminal!Unpark(s).rows = s.rows
           /\ Terminal!Unpark(s).grid = s.grid /\ Terminal!Unpark(s).stale = s.stale
           /\ Terminal!Unpark(s).wrap = s.wrap /\ Terminal!Unpark(s).dead = s.dead
BY DEF Terminals, Terminal!Unpark

LEMMA Unparked ==
    ASSUME NEW s, Sound(s)
    PROVE  Sound(Terminal!Unpark(s))
<1>1. s \in Terminals /\ (~s.stale => Placed(s.cursor, s.parked, Terminal!Size(s)))
  BY SoundSize
<1>2. ~s.stale => Placed(s.cursor, FALSE, Terminal!Size(s))
  BY <1>1 DEF Placed
<1>3. s.cursor \in Spots
  BY <1>1, FieldsOf
<1>4. Sound([s EXCEPT !.cursor = s.cursor, !.parked = FALSE])
  BY <1>2, <1>3, Put
<1> QED BY <1>1, <1>4, Ticking

(* The cursor is put in a column, and what was deferred is dropped or not. *)
LEMMA InColumn ==
    ASSUME NEW s, Sound(s), NEW c \in Nat, NEW b \in BOOLEAN,
           ~s.stale => c < s.cols /\ (b => c = s.cols - 1)
    PROVE  Sound(Terminal!SetCol([s EXCEPT !.parked = b], c))
<1>1. s \in Terminals /\ (~s.stale => Placed(s.cursor, s.parked, Terminal!Size(s)))
  BY SoundSize
<1> DEFINE p == [s.cursor EXCEPT !.col = c]
<1>2. p \in Spots /\ p.col = c /\ p.row = s.cursor.row
  BY <1>1, FieldsOf DEF Spots
<1>3. [[s EXCEPT !.parked = b] EXCEPT !.cursor.col = c] = [s EXCEPT !.cursor = p, !.parked = b]
  BY <1>1 DEF Terminals
<1> HIDE DEF p
<1>4. ~s.stale => Placed(p, b, Terminal!Size(s))
  BY <1>1, <1>2 DEF Placed, Terminal!Size
<1>5. Sound([s EXCEPT !.cursor = p, !.parked = b])
  BY <1>2, <1>4, Put
<1> QED BY <1>3, <1>5, Marking DEF Terminal!SetCol

LEMMA SetColumn ==
    ASSUME NEW s, Sound(s), NEW c \in Nat, ~s.stale => c < s.cols
    PROVE  Sound(Terminal!SetCol(Terminal!Unpark(s), c))
<1>1. Sound(Terminal!SetCol([s EXCEPT !.parked = FALSE], c))
  BY InColumn
<1> QED BY <1>1 DEF Terminal!Unpark

(* The cursor behind the last column waits in it (cursor_advance).         *)
LEMMA Parking ==
    ASSUME NEW s, Sound(s), NEW next \in Nat
    PROVE  Sound(Terminal!ParkAt(s, next))
<1>1. s \in Terminals
  BY SoundSize
<1>2. s.cols \in Nat /\ s.cols >= 1 /\ s.wrap \in BOOLEAN
  BY <1>1, FieldsOf
<1>3. CASE next < s.cols
  <2>1. Sound(Terminal!SetCol(Terminal!Unpark(s), next))
    BY <1>3, SetColumn
  <2> QED BY <2>1, <1>3 DEF Terminal!ParkAt
<1>4. CASE ~(next < s.cols)
  <2>1. s.cols - 1 \in Nat /\ s.cols - 1 < s.cols
    BY <1>2
  <2>2. Sound(Terminal!SetCol([s EXCEPT !.parked = s.wrap], s.cols - 1))
    BY <1>2, <2>1, InColumn
  <2> QED BY <2>2, <1>4 DEF Terminal!ParkAt
<1> QED BY <1>3, <1>4

LEMMA InRow ==
    ASSUME NEW s, Sound(s), NEW r \in Nat, ~s.stale => r < s.rows
    PROVE  Sound([s EXCEPT !.cursor.row = r])
<1>1. s \in Terminals /\ (~s.stale => Placed(s.cursor, s.parked, Terminal!Size(s)))
  BY SoundSize
<1> DEFINE p == [s.cursor EXCEPT !.row = r]
<1>2. p \in Spots /\ p.row = r /\ p.col = s.cursor.col
  BY <1>1, FieldsOf DEF Spots
<1>3. [s EXCEPT !.cursor.row = r] = [s EXCEPT !.cursor = p, !.parked = s.parked]
  BY <1>1 DEF Terminals
<1> HIDE DEF p
<1>4. ~s.stale => Placed(p, s.parked, Terminal!Size(s))
  BY <1>1, <1>2 DEF Placed, Terminal!Size
<1>5. s.parked \in BOOLEAN
  BY <1>1, FieldsOf
<1>6. Sound([s EXCEPT !.cursor = p, !.parked = s.parked])
  BY <1>2, <1>4, <1>5, Put
<1> QED BY ONLY <1>3, <1>6

LEMMA SameColumn ==
    ASSUME NEW s, Sound(s), NEW c \in Nat,
           ~s.stale => c < s.cols /\ (s.parked => c = s.cols - 1)
    PROVE  Sound(Terminal!SetCol(s, c))
<1>1. s \in Terminals
  BY SoundSize
<1>2. s.parked \in BOOLEAN /\ [s EXCEPT !.parked = s.parked] = s
  BY <1>1 DEF Terminals
<1>3. Sound(Terminal!SetCol([s EXCEPT !.parked = s.parked], c))
  BY <1>2, InColumn
<1> QED BY <1>2, <1>3

(* The moves that cannot scroll keep the cursor on the screen.             *)
LEMMA Movers ==
    ASSUME NEW s, Sound(s), NEW n \in Nat
    PROVE  /\ Sound(Terminal!cursor_up(s, n)) /\ Sound(Terminal!cursor_back(s, n))
           /\ Sound(Terminal!cursor_to_beginning_of_line(s)) /\ Sound(Terminal!tab(s))
           /\ Sound(Terminal!cursor_advance(s, n))
<1>1. s \in Terminals /\ (~s.stale => Placed(s.cursor, s.parked, Terminal!Size(s)))
  BY SoundSize
<1>2. /\ s.cursor.col \in Nat /\ s.cursor.row \in Nat /\ s.cols \in Nat /\ s.cols >= 1
      /\ s.rows \in Nat /\ s.stale \in BOOLEAN
  BY <1>1, FieldsOf
<1>3. ~s.stale => s.cursor.col < s.cols /\ s.cursor.row < s.rows
  BY <1>1 DEF Placed, Terminal!Size
<1> DEFINE v == Terminal!Unpark(s)
<1>4. Sound(v) /\ v.rows = s.rows /\ v.cols = s.cols /\ v.stale = s.stale
  BY <1>1, Unparked, Ticking
<1> HIDE DEF v
<1>5. Sound(Terminal!cursor_up(s, n))
  <2> DEFINE r == Terminal!Monus(s.cursor.row, n)
  <2>1. r \in Nat /\ r <= s.cursor.row
    BY <1>2 DEF Terminal!Monus
  <2> HIDE DEF r
  <2>2. ~v.stale => r < v.rows
    BY <2>1, <1>2, <1>3, <1>4
  <2>3. Sound([v EXCEPT !.cursor.row = r])
    BY <1>4, <2>1, <2>2, InRow
  <2>4. Sound(Terminal!moved([v EXCEPT !.cursor.row = r]))
    BY <2>3, Marking
  <2> QED BY <1>4, <2>4 DEF Terminal!cursor_up, r, v
<1>6. Sound(Terminal!cursor_back(s, n))
  <2> DEFINE c == Terminal!Monus(s.cursor.col, n)
  <2>1. c \in Nat /\ c <= s.cursor.col
    BY <1>2 DEF Terminal!Monus
  <2> HIDE DEF c
  <2>2. ~s.stale => c < s.cols
    BY <2>1, <1>2, <1>3
  <2>3. Sound(Terminal!SetCol(v, c))
    BY <2>1, <2>2, SetColumn DEF v
  <2> QED BY <1>4, <2>3 DEF Terminal!cursor_back, c, v
<1>7. Sound(Terminal!cursor_to_beginning_of_line(s))
  <2>1. Sound(Terminal!SetCol(v, 0))
    BY <1>2, SetColumn DEF v
  <2> QED BY <2>1 DEF Terminal!cursor_to_beginning_of_line, v
<1>8. Sound(Terminal!tab(s))
  <2> DEFINE c == Terminal!Min2((s.cursor.col \div 8 + 1) * 8, s.cols - 1)
  <2>1. s.cursor.col \div 8 \in Nat
    BY <1>2, SMT
  <2>2. c \in Nat /\ c < s.cols
    BY <1>2, <2>1 DEF Terminal!Min2
  <2> HIDE DEF c
  <2>3. Sound(Terminal!SetCol(v, c))
    BY <2>2, SetColumn DEF v
  <2> QED BY <2>3 DEF Terminal!tab, c, v
<1>9. Sound(Terminal!cursor_advance(s, n))
  <2>1. Terminal!Min2(s.cursor.col + n, s.cols) \in Nat
    BY <1>2 DEF Terminal!Min2
  <2> QED BY <2>1, Parking DEF Terminal!cursor_advance
<1> QED BY <1>5, <1>6, <1>7, <1>8, <1>9

(* CUP is clamped to the screen.                                           *)
LEMMA Positioning ==
    ASSUME NEW s, Sound(s), NEW c \in Nat, NEW r \in Nat
    PROVE  Sound(Terminal!cursor_position(s, c, r))
<1>1. s \in Terminals /\ (~s.stale => Placed(s.cursor, s.parked, Terminal!Size(s)))
  BY SoundSize
<1>2. /\ s.cursor.col \in Nat /\ s.cursor.row \in Nat /\ s.cols \in Nat /\ s.cols >= 1
      /\ s.rows \in Nat /\ s.rows >= 1
  BY <1>1, FieldsOf
<1>3. ~s.stale => s.cursor.col < s.cols /\ s.cursor.row < s.rows
  BY <1>1 DEF Placed, Terminal!Size
<1> DEFINE a == IF c = Terminal!u16_MAX THEN s.cursor.col ELSE Terminal!Min2(c, s.cols - 1)
           b == IF r = Terminal!u16_MAX THEN s.cursor.row ELSE Terminal!Min2(r, s.rows - 1)
           p == [col |-> a, row |-> b]
           v == Terminal!Unpark(s)
<1>4. a \in Nat /\ b \in Nat /\ (~s.stale => a < s.cols /\ b < s.rows)
  BY <1>2, <1>3 DEF Terminal!Min2
<1>5. p \in Spots /\ (~s.stale => Placed(p, FALSE, Terminal!Size(s)))
  BY <1>4 DEF Spots, Placed, Terminal!Size
<1>6. Sound([s EXCEPT !.cursor = p, !.parked = FALSE])
  BY <1>5, Put
<1>7. [v EXCEPT !.cursor = p] = [s EXCEPT !.cursor = p, !.parked = FALSE]
  BY <1>1 DEF Terminal!Unpark, Terminals
<1>8. Sound(Terminal!moved([v EXCEPT !.cursor = p]))
  BY <1>6, <1>7, Marking
<1>9. Sound(v)
  BY Unparked
<1> QED BY <1>8, <1>9 DEF Terminal!cursor_position

-----------------------------------------------------------------------------
(* Rows, and the tiers they move to.                                       *)

LEMMA BlankRow ==
    ASSUME NEW n \in Nat
    PROVE  Terminal!NewRow(n) \in TextRows /\ Len(Terminal!NewRow(n).cells) = n
<1> DEFINE cs == [c \in 1..n |-> Terminal!Blank]
<1>1. Terminal!Blank \in Cells
  BY DEF Terminal!Blank, Cells
<1>2. cs \in Seq(Cells) /\ Len(cs) = n
  BY <1>1
<1> HIDE DEF cs
<1>3. Terminal!NewRow(n) = [cells |-> cs, wrapped |-> FALSE]
  BY DEF Terminal!NewRow, cs
<1> QED BY <1>2, <1>3 DEF TextRows

LEMMA ClearedRow ==
    ASSUME NEW row \in TextRows
    PROVE  Terminal!clear(row) \in TextRows /\ Len(Terminal!clear(row).cells) = Len(row.cells)
<1>1. Len(row.cells) \in Nat
  BY DEF TextRows
<1> QED BY <1>1, BlankRow DEF Terminal!clear

(* The oldest row is taken out, cleared and put in at the bottom.          *)
LEMMA Rotated ==
    ASSUME NEW g \in Seq(TextRows), Len(g) >= 1
    PROVE  LET h == Append(Tail(g), Terminal!clear(Head(g)))
           IN  /\ h \in Seq(TextRows) /\ Len(h) = Len(g) /\ Head(g) \in TextRows
               /\ Len(Tail(g)) = Len(g) - 1
               /\ \A size \in Dims : Fitting(g, size) => Fitting(h, size)
<1> DEFINE h == Append(Tail(g), Terminal!clear(Head(g)))
           n == Len(g)
<1>1. n \in Nat /\ n >= 1 /\ Head(g) \in TextRows /\ Head(g) = g[1] /\ Tail(g) \in Seq(TextRows)
      /\ Len(Tail(g)) = n - 1 /\ \A i \in 1..(n - 1) : Tail(g)[i] = g[i + 1]
  OBVIOUS
<1>2. /\ Terminal!clear(Head(g)) \in TextRows
      /\ Len(Terminal!clear(Head(g)).cells) = Len(g[1].cells)
  BY <1>1, ClearedRow
<1>3. h \in Seq(TextRows) /\ Len(h) = n /\ h[n] = Terminal!clear(Head(g))
      /\ \A i \in 1..(n - 1) : h[i] = g[i + 1]
  BY <1>1, <1>2
<1> HIDE DEF h
<1>4. ASSUME NEW size \in Dims, Fitting(g, size) PROVE Fitting(h, size)
  <2>1. n >= size.rows /\ \A i \in 1..n : Len(g[i].cells) = size.cols
    BY <1>4 DEF Fitting
  <2>2. ASSUME NEW i \in 1..n PROVE Len(h[i].cells) = size.cols
    <3>1. CASE i = n
      BY <3>1, <1>1, <1>2, <1>3, <2>1
    <3>2. CASE i # n
      <4>1. n \in Nat
        BY <1>1
      <4> HIDE DEF n
      <4>2. i \in 1..(n - 1) /\ i + 1 \in 1..n
        BY <3>2, <4>1
      <4> QED BY <4>2, <1>3, <2>1
    <3> QED BY <3>1, <3>2
  <2> QED BY <1>3, <2>1, <2>2 DEF Fitting
<1> QED BY <1>1, <1>3, <1>4 DEF h

LEMMA OneMoreRow ==
    ASSUME NEW g \in Seq(TextRows), NEW row \in TextRows
    PROVE  LET h == Append(g, row)
           IN  /\ h \in Seq(TextRows) /\ Len(h) = Len(g) + 1
               /\ \A size \in Dims : Fitting(g, size) /\ Len(row.cells) = size.cols
                                       => Fitting(h, size)
<1> DEFINE h == Append(g, row)
<1>1. Len(g) \in Nat /\ h \in Seq(TextRows) /\ Len(h) = Len(g) + 1 /\ h[Len(g) + 1] = row
      /\ \A i \in 1..Len(g) : h[i] = g[i]
  OBVIOUS
<1> HIDE DEF h
<1>2. ASSUME NEW size \in Dims, Fitting(g, size), Len(row.cells) = size.cols PROVE Fitting(h, size)
  <2>1. size.rows \in Nat
    BY DEF Dims
  <2>2. Len(g) >= size.rows /\ \A i \in 1..Len(g) : Len(g[i].cells) = size.cols
    BY <1>2 DEF Fitting
  <2>3. ASSUME NEW i \in 1..Len(h) PROVE Len(h[i].cells) = size.cols
    <3>1. i \in 1..Len(g) \/ i = Len(g) + 1
      BY <1>1
    <3> QED BY <3>1, <1>1, <1>2, <2>2
  <2> QED BY <1>1, <2>1, <2>2, <2>3 DEF Fitting
<1> QED BY <1>1, <1>2 DEF h

(* A row that is encoded is one more of the pending block.                 *)
LEMMA EncodedRow ==
    ASSUME NEW s \in Terminals, NEW row \in TextRows
    PROVE  LET e == Terminal!encode_row(s, row)
           IN  /\ e = [s EXCEPT !.pending = e.pending] /\ e.pending \in Pendings
               /\ Len(e.pending.body) = Len(s.pending.body) + 1
<1> DEFINE e == Terminal!encode_row(s, row)
           n == Len(s.pending.body)
           b == Append(s.pending.body, Terminal!encode_row_into(row.cells))
           w == IF row.wrapped THEN s.pending.wrapped \cup {n} ELSE s.pending.wrapped
<1>1. s.pending.body \in Seq(Encodings) /\ n \in Nat /\ s.pending.wrapped \in SUBSET Nat
  <2>1. s.pending \in Pendings
    BY FieldsOf
  <2> QED BY <2>1 DEF Pendings
<1>2. Terminal!encode_row_into(row.cells) \in Encodings
  BY DEF TextRows, Encodings
<1>3. b \in Seq(Encodings) /\ Len(b) = n + 1
  BY <1>1, <1>2
<1>4. w \in SUBSET Nat
  BY <1>1
<1>5. e = [s EXCEPT !.pending = [body |-> b, wrapped |-> w]]
  BY DEF Terminal!encode_row
<1> HIDE DEF e, b, w
<1>6. e.pending = [body |-> b, wrapped |-> w]
  BY <1>5 DEF Terminals
<1> QED BY <1>3, <1>4, <1>5, <1>6 DEF Pendings, e

(* Rows moved between the tiers, with the screen still there.              *)
LEMMA Retiered ==
    ASSUME NEW s, Sound(s), NEW u \in Terminals,
           u.cols = s.cols, u.rows = s.rows, u.cursor = s.cursor, u.parked = s.parked,
           u.saved = s.saved, u.alt = s.alt, u.selection = s.selection,
           u.stale = s.stale, u.dead = s.dead, u.dirty = s.dirty,
           Counted(u.cold, u.pending),
           ~s.stale => /\ Fitting(u.grid, Terminal!Size(s))
                       /\ Tiered(u.grid, u.cold, u.pending, Terminal!Size(s))
    PROVE  Sound(u)
<1>1. Terminal!Size(u) = Terminal!Size(s)
  BY DEF Terminal!Size
<1>2. Chosen(u.selection, u)
  BY DEF Sound, Chosen, Terminal!OnScreen
<1>3. ~u.stale => Whole(u)
  BY <1>1 DEF Sound, Whole
<1> QED BY <1>1, <1>2, <1>3 DEF Sound

(* A full pending block is put behind the others.                          *)
LEMMA Flushed ==
    ASSUME ScreenBounds, NEW s \in Terminals, Len(s.pending.body) = BLOCK_ROWS,
           s.cold.total_rows = Len(s.cold.blocks) * BLOCK_ROWS
    PROVE  LET f == Terminal!flush_cold_block(s)
           IN  /\ f = [s EXCEPT !.cold = f.cold, !.pending = f.pending]
               /\ f.cold \in Colds /\ f.pending \in Pendings /\ Counted(f.cold, f.pending)
               /\ f.cold.total_rows + Len(f.pending.body)
                    = s.cold.total_rows + Len(s.pending.body)
<1> DEFINE f == Terminal!flush_cold_block(s)
           p == Terminal!PendingBlock(s)
           c == Terminal!push_back(s.cold, p)
           k == Len(s.cold.blocks)
<1>1. /\ s.cold.blocks \in Seq(Blocks) /\ s.cold.total_rows \in Nat /\ k \in Nat
      /\ s.pending.body \in Seq(Encodings) /\ s.pending.wrapped \in SUBSET Nat
      /\ s.cols \in Nat \ {0} /\ BLOCK_ROWS \in Nat /\ BLOCK_ROWS >= 1
  BY DEF Terminals, Colds, Pendings, ScreenBounds
<1>2. p \in Blocks /\ p.rows = BLOCK_ROWS
  BY <1>1 DEF Terminal!PendingBlock, Blocks
<1> HIDE DEF p
<1>3. /\ c.blocks \in Seq(Blocks) /\ Len(c.blocks) = k + 1
      /\ c.total_rows = s.cold.total_rows + BLOCK_ROWS
      /\ c \in Colds
  BY <1>1, <1>2 DEF Terminal!push_back, Colds
<1>4. Terminal!NoRows \in Pendings /\ Len(Terminal!NoRows.body) = 0
  BY DEF Terminal!NoRows, Pendings
<1> HIDE DEF c
<1>5. f = [s EXCEPT !.cold = c, !.pending = Terminal!NoRows]
  BY DEF Terminal!flush_cold_block, c, p
<1> HIDE DEF f
<1>6. f.cold = c /\ f.pending = Terminal!NoRows
  BY <1>5 DEF Terminals
<1>7. (k + 1) * BLOCK_ROWS = k * BLOCK_ROWS + BLOCK_ROWS
  BY <1>1
<1>8. c.total_rows = Len(c.blocks) * BLOCK_ROWS
  BY <1>3, <1>7
<1>9. Counted(c, Terminal!NoRows)
  BY <1>1, <1>4, <1>8 DEF Counted
<1>10. f.cold.total_rows + Len(f.pending.body) = s.cold.total_rows + Len(s.pending.body)
  BY <1>1, <1>3, <1>4, <1>6
<1> QED BY <1>3, <1>4, <1>5, <1>6, <1>9, <1>10 DEF f

(* What a scroll leaves alone, and what it needs to know of the rest.      *)
Alike(u, s) ==
    /\ u.cols = s.cols /\ u.rows = s.rows /\ u.cursor = s.cursor /\ u.parked = s.parked
    /\ u.saved = s.saved /\ u.alt = s.alt /\ u.selection = s.selection
    /\ u.stale = s.stale /\ u.dead = s.dead /\ u.dirty = s.dirty /\ u.wrap = s.wrap
    /\ u.last = s.last

LEMMA Rescrolled ==
    ASSUME NEW s \in Terminals, NEW g \in Seq(TextRows), NEW c \in Colds, NEW p \in Pendings
    PROVE  LET u == [s EXCEPT !.grid = g, !.cold = c, !.pending = p]
           IN  u \in Terminals /\ u.grid = g /\ u.cold = c /\ u.pending = p /\ Alike(u, s)
BY DEF Terminals, Alike

(* With the hot tier full, the oldest row is encoded or dropped and the    *)
(* tiers stay within the limit, flushed or not: the arithmetic of          *)
(* scroll_up_one.                                                          *)
LEMMA TieredOnce ==
    ASSUME ScreenBounds, NEW s, Sound(s), Len(s.grid) >= s.rows + HotCap
    PROVE  LET h == Append(Tail(s.grid), Terminal!clear(Head(s.grid)))
               popped == [s EXCEPT !.grid = Tail(s.grid)]
               tiered == IF Terminal!history_rows(popped) < Limit
                         THEN Terminal!encode_row(popped, Head(s.grid)) ELSE popped
               pushed == [tiered EXCEPT !.grid = Append(tiered.grid, Terminal!clear(Head(s.grid)))]
               u == IF Len(pushed.pending.body) >= BLOCK_ROWS
                    THEN Terminal!flush_cold_block(pushed) ELSE pushed
           IN  Sound(u) /\ Alike(u, s)
<1> DEFINE g == s.grid
           h == Append(Tail(s.grid), Terminal!clear(Head(s.grid)))
           popped == [s EXCEPT !.grid = Tail(s.grid)]
           room == Terminal!history_rows(popped) < Limit
           tiered == IF room THEN Terminal!encode_row(popped, Head(s.grid)) ELSE popped
           pushed == [tiered EXCEPT !.grid = Append(tiered.grid, Terminal!clear(Head(s.grid)))]
           u == IF Len(pushed.pending.body) >= BLOCK_ROWS
                THEN Terminal!flush_cold_block(pushed) ELSE pushed
           N == s.cold.total_rows + Len(s.pending.body)
<1>1. s \in Terminals /\ Counted(s.cold, s.pending)
  BY DEF Sound
<1>2. /\ g \in Seq(TextRows) /\ Len(g) \in Nat /\ s.rows \in Nat /\ s.rows >= 1
      /\ s.cold \in Colds /\ s.pending \in Pendings
      /\ s.cold.total_rows \in Nat /\ Len(s.pending.body) \in Nat /\ N \in Nat
      /\ BLOCK_ROWS \in Nat /\ BLOCK_ROWS >= 1 /\ HotCap \in Nat /\ Limit \in Nat
      /\ Terminal!Size(s) \in Dims
  BY <1>1, FieldsOf DEF Colds, Pendings, ScreenBounds, Dims, Terminal!Size, Sound
<1>3. Len(g) >= 1
  BY <1>2
<1>4. /\ h \in Seq(TextRows) /\ Len(h) = Len(g) /\ Head(g) \in TextRows
      /\ Len(Tail(g)) = Len(g) - 1 /\ Tail(g) \in Seq(TextRows)
      /\ (Fitting(g, Terminal!Size(s)) => Fitting(h, Terminal!Size(s)))
  BY <1>2, <1>3, Rotated
<1>5. /\ popped \in Terminals /\ popped.grid = Tail(g) /\ popped.pending = s.pending
      /\ popped.cold = s.cold /\ popped.rows = s.rows
  BY <1>1, <1>4 DEF Terminals
<1>6. room <=> N + Len(g) - s.rows <= Limit
  BY <1>2, <1>4, <1>5 DEF Terminal!history_rows, Terminal!grid_len, Terminal!Encoded
<1> HIDE DEF room
<1> DEFINE p == IF room THEN Terminal!encode_row(popped, Head(g)).pending ELSE s.pending
<1>7. /\ p \in Pendings
      /\ Len(p.body) = (IF room THEN Len(s.pending.body) + 1 ELSE Len(s.pending.body))
  BY <1>2, <1>4, <1>5, EncodedRow
<1>8. pushed = [s EXCEPT !.grid = h, !.cold = s.cold, !.pending = p]
  <2>1. CASE room
    <3>1. Terminal!encode_row(popped, Head(g)) = [popped EXCEPT !.pending = p]
      BY <2>1, <1>4, <1>5, EncodedRow
    <3> HIDE DEF p
    <3>2. tiered = [[s EXCEPT !.grid = Tail(s.grid)] EXCEPT !.pending = p]
      BY <2>1, <3>1
    <3>3. tiered.grid = Tail(s.grid)
      BY <3>2, <1>1 DEF Terminals
    <3> QED BY <3>2, <3>3, <1>1 DEF Terminals
  <2>2. CASE ~room
    <3>1. tiered = popped /\ p = s.pending
      BY <2>2
    <3> QED BY <3>1, <1>1, <1>5 DEF Terminals
  <2> QED BY <2>1, <2>2
<1> HIDE DEF pushed, p
<1>9. /\ pushed \in Terminals /\ pushed.grid = h /\ pushed.cold = s.cold
      /\ pushed.pending = p /\ Alike(pushed, s)
  <2> DEFINE v == [s EXCEPT !.grid = h, !.cold = s.cold, !.pending = p]
  <2>1. v \in Terminals /\ v.grid = h /\ v.cold = s.cold /\ v.pending = p /\ Alike(v, s)
    BY <1>1, <1>2, <1>4, <1>7, Rescrolled
  <2>2. pushed = v
    BY <1>8
  <2> HIDE DEF v
  <2> QED BY <2>1, <2>2
<1>10. ASSUME NEW c \in Colds, NEW q \in Pendings, Counted(c, q),
              c.total_rows + Len(q.body) = s.cold.total_rows + Len(p.body)
       PROVE  LET v == [s EXCEPT !.grid = h, !.cold = c, !.pending = q]
              IN  Sound(v) /\ Alike(v, s)
  <2> DEFINE v == [s EXCEPT !.grid = h, !.cold = c, !.pending = q]
  <2>1. v \in Terminals /\ v.grid = h /\ v.cold = c /\ v.pending = q /\ Alike(v, s)
    BY <1>1, <1>4, Rescrolled
  <2> HIDE DEF v
  <2>2. ASSUME ~s.stale PROVE Fitting(h, Terminal!Size(s)) /\ Tiered(h, c, q, Terminal!Size(s))
    <3>1. Fitting(g, Terminal!Size(s)) /\ Tiered(g, s.cold, s.pending, Terminal!Size(s))
      BY <2>2 DEF Sound, Whole
    <3> DEFINE M == c.total_rows + Len(q.body)
               L == Len(g)
    <3>a. L \in Nat /\ N \in Nat /\ s.rows \in Nat /\ HotCap \in Nat /\ Limit \in Nat
          /\ Len(h) = L
      BY <1>2, <1>4
    <3>b. L >= s.rows + HotCap
      OBVIOUS
    <3>c. room <=> N + L - s.rows <= Limit
      BY <1>6
    <3>2. L = s.rows + HotCap /\ N + L <= s.rows + Limit + 1
      <4>1. /\ L <= s.rows + HotCap
            /\ s.cold.total_rows + Len(s.pending.body) + L <= s.rows + Limit + 1
        BY <3>1 DEF Tiered, Terminal!Size
      <4>2. N + L <= s.rows + Limit + 1
        BY <4>1
      <4> HIDE DEF L, N
      <4> QED BY ONLY <3>a, <3>b, <4>1, <4>2
    <3>3. M = (IF room THEN N + 1 ELSE N)
      BY <1>2, <1>7, <1>10
    <3>4. M + Len(h) <= s.rows + Limit + 1
      <4> HIDE DEF M, L, N, h
      <4>1. CASE room
        <5>1. M = N + 1 /\ N + L - s.rows <= Limit
          BY ONLY <3>c, <3>3, <4>1
        <5> QED BY ONLY <3>a, <5>1
      <4>2. CASE ~room
        <5>1. M = N
          BY ONLY <3>3, <4>2
        <5> QED BY ONLY <3>a, <3>2, <5>1
      <4> QED BY ONLY <4>1, <4>2
    <3>5. Len(h) = s.rows + HotCap
      <4> HIDE DEF L, h
      <4> QED BY ONLY <3>a, <3>2
    <3>6. Terminal!Size(s).rows = s.rows
      BY DEF Terminal!Size
    <3> HIDE DEF h, g, L, N
    <3>7. Tiered(h, c, q, Terminal!Size(s))
      BY <3>4, <3>5, <3>6 DEF M, Tiered
    <3> QED BY <3>1, <3>7, <1>4
  <2>3. Sound(v)
    BY <2>1, <2>2, <1>10, Retiered DEF Alike
  <2> QED BY <2>1, <2>3 DEF v
<1>11. CASE Len(pushed.pending.body) >= BLOCK_ROWS
  <2>1. Len(p.body) = BLOCK_ROWS
    BY <1>11, <1>1, <1>2, <1>7, <1>9 DEF Counted
  <2> DEFINE f == Terminal!flush_cold_block(pushed)
  <2>2. /\ f = [pushed EXCEPT !.cold = f.cold, !.pending = f.pending]
        /\ f.cold \in Colds /\ f.pending \in Pendings /\ Counted(f.cold, f.pending)
        /\ f.cold.total_rows + Len(f.pending.body) = s.cold.total_rows + Len(p.body)
    BY <2>1, <1>1, <1>9, Flushed DEF Counted
  <2> HIDE DEF f
  <2>3. f = [s EXCEPT !.grid = h, !.cold = f.cold, !.pending = f.pending]
    BY <2>2, <1>8, <1>1 DEF Terminals
  <2>4. Sound(f) /\ Alike(f, s)
    BY <2>2, <2>3, <1>10
  <2> QED BY <2>4, <1>11 DEF f, pushed, room
<1>12. CASE ~(Len(pushed.pending.body) >= BLOCK_ROWS)
  <2>1. Len(p.body) < BLOCK_ROWS
    BY <1>12, <1>2, <1>7, <1>9
  <2>2. Counted(s.cold, p)
    BY <2>1, <1>1 DEF Counted
  <2>3. Sound(pushed) /\ Alike(pushed, s)
    BY <2>2, <1>2, <1>7, <1>8, <1>10
  <2> QED BY <2>3, <1>12 DEF pushed, room
<1> QED BY <1>11, <1>12

(* The same but for rows and marks.                                        *)
Beside(u, s) ==
    /\ u.cols = s.cols /\ u.rows = s.rows /\ u.cursor = s.cursor /\ u.parked = s.parked
    /\ u.stale = s.stale /\ u.dead = s.dead /\ u.wrap = s.wrap /\ u.last = s.last

LEMMA MarkedBeside ==
    ASSUME NEW s \in Terminals
    PROVE  Beside(Terminal!mark_scroll(s), s) /\ Beside(Terminal!mark_all(s), s)
BY DEF Terminals, Beside, Terminal!mark_scroll, Terminal!mark_all

(* One scroll, with the hot tier full or not.                              *)
LEMMA ScrollUpOne ==
    ASSUME ScreenBounds, NEW s, Sound(s)
    PROVE  Sound(Terminal!scroll_up_one(s)) /\ Beside(Terminal!scroll_up_one(s), s)
<1>1. s \in Terminals
  BY SoundSize
<1>2. s.grid \in Seq(TextRows) /\ Len(s.grid) \in Nat /\ s.rows \in Nat /\ s.cols \in Nat
      /\ HotCap \in Nat /\ Limit \in Nat /\ Terminal!Size(s) \in Dims
      /\ Terminal!Size(s).cols = s.cols /\ Terminal!Size(s).rows = s.rows
  BY <1>1, FieldsOf DEF ScreenBounds, Sound, Terminal!Size
<1>3. CASE Len(s.grid) >= s.rows + HotCap
  <2> DEFINE popped == [s EXCEPT !.grid = Tail(s.grid)]
             tiered == IF Terminal!history_rows(popped) < Limit
                       THEN Terminal!encode_row(popped, Head(s.grid)) ELSE popped
             pushed == [tiered EXCEPT !.grid = Append(tiered.grid, Terminal!clear(Head(s.grid)))]
             u == IF Len(pushed.pending.body) >= BLOCK_ROWS
                  THEN Terminal!flush_cold_block(pushed) ELSE pushed
  <2>1. Sound(u) /\ Alike(u, s)
    BY <1>3, TieredOnce
  <2>2. Terminal!scroll_up_one(s) = Terminal!mark_scroll(u)
    BY <1>3 DEF Terminal!scroll_up_one
  <2> HIDE DEF u
  <2>3. Sound(Terminal!mark_scroll(u)) /\ Beside(Terminal!mark_scroll(u), u)
    BY <2>1, Marking, MarkedBeside, SoundSize
  <2> QED BY <2>1, <2>2, <2>3 DEF Alike, Beside
<1>4. CASE ~(Len(s.grid) >= s.rows + HotCap)
  <2> DEFINE row == Terminal!NewRow(s.cols)
             g == Append(s.grid, row)
             u == [s EXCEPT !.grid = g, !.cold = s.cold, !.pending = s.pending]
  <2>1. row \in TextRows /\ Len(row.cells) = s.cols
    BY <1>2, BlankRow
  <2>2. g \in Seq(TextRows) /\ Len(g) = Len(s.grid) + 1
        /\ (Fitting(s.grid, Terminal!Size(s)) => Fitting(g, Terminal!Size(s)))
    BY <1>2, <2>1, OneMoreRow
  <2> HIDE DEF row, g
  <2>3. s.cold \in Colds /\ s.pending \in Pendings /\ Counted(s.cold, s.pending)
        /\ s.cold.total_rows \in Nat /\ Len(s.pending.body) \in Nat
    BY <1>1, FieldsOf DEF Sound, Colds, Pendings
  <2>4. u \in Terminals /\ u.grid = g /\ u.cold = s.cold /\ u.pending = s.pending /\ Alike(u, s)
    BY <1>1, <2>2, <2>3, Rescrolled
  <2>5. Terminal!scroll_up_one(s) = Terminal!mark_scroll([s EXCEPT !.grid = g])
    BY <1>4 DEF Terminal!scroll_up_one, g, row
  <2>6. [s EXCEPT !.grid = g] = u
    BY <1>1 DEF Terminals
  <2> HIDE DEF u
  <2>7. ASSUME ~s.stale PROVE Fitting(g, Terminal!Size(s)) /\ Tiered(g, s.cold, s.pending, Terminal!Size(s))
    <3>1. Fitting(s.grid, Terminal!Size(s)) /\ Tiered(s.grid, s.cold, s.pending, Terminal!Size(s))
      BY <2>7 DEF Sound, Whole
    <3>2. s.cold.total_rows + Len(s.pending.body) = 0
      BY <3>1, <1>2, <1>4, <2>3 DEF Tiered
    <3>3. Len(g) <= s.rows + HotCap /\ HotCap <= Limit
      BY <1>2, <1>4, <2>2 DEF ScreenBounds
    <3> QED BY <3>1, <3>2, <3>3, <1>2, <2>2 DEF Tiered
  <2>8. Sound(u)
    BY <2>3, <2>4, <2>7, Retiered DEF Alike
  <2>9. Sound(Terminal!mark_scroll(u)) /\ Beside(Terminal!mark_scroll(u), u)
    BY <2>4, <2>8, Marking, MarkedBeside
  <2> QED BY <2>4, <2>5, <2>6, <2>9 DEF Alike, Beside
<1> QED BY <1>3, <1>4

(* Rows are written in place.                                              *)
LEMMA GridWritten ==
    ASSUME NEW s, Sound(s), NEW g \in Seq(TextRows), Len(g) = Len(s.grid),
           Fitting(s.grid, Terminal!Size(s)) => Fitting(g, Terminal!Size(s))
    PROVE  Sound([s EXCEPT !.grid = g]) /\ Alike([s EXCEPT !.grid = g], s)
<1> DEFINE u == [s EXCEPT !.grid = g]
<1>1. s \in Terminals
  BY SoundSize
<1>2. u \in Terminals /\ u.grid = g /\ u.cold = s.cold /\ u.pending = s.pending /\ Alike(u, s)
  BY <1>1 DEF Terminals, Alike
<1> HIDE DEF u
<1>3. ~s.stale => Fitting(g, Terminal!Size(s)) /\ Tiered(g, s.cold, s.pending, Terminal!Size(s))
  BY DEF Sound, Whole, Tiered
<1>4. Counted(s.cold, s.pending)
  BY DEF Sound
<1>5. Sound(u)
  BY <1>2, <1>3, <1>4, Retiered DEF Alike
<1> QED BY <1>2, <1>5 DEF u

LEMMA RowSet ==
    ASSUME NEW g \in Seq(TextRows), NEW i, NEW row,
           i \in 1..Len(g) => row \in TextRows /\ Len(row.cells) = Len(g[i].cells)
    PROVE  LET h == [g EXCEPT ![i] = row]
           IN  /\ h \in Seq(TextRows) /\ Len(h) = Len(g)
               /\ \A size : Fitting(g, size) => Fitting(h, size)
<1> DEFINE h == [g EXCEPT ![i] = row]
<1>1. Len(g) \in Nat /\ DOMAIN g = 1..Len(g) /\ \A j \in 1..Len(g) : g[j] \in TextRows
  OBVIOUS
<1>2. h \in [1..Len(g) -> TextRows]
  BY <1>1
<1>3. h \in Seq(TextRows) /\ Len(h) = Len(g)
  BY <1>1, <1>2
<1>4. \A j \in 1..Len(g) : Len(h[j].cells) = Len(g[j].cells)
  BY <1>1
<1> HIDE DEF h
<1> QED BY <1>3, <1>4 DEF h, Fitting

(* A row of the screen is a row of the grid, as wide as the screen: the    *)
(* subtraction in vis_idx does not run off it.                             *)
LEMMA Standing ==
    ASSUME NEW s, Sound(s), ~s.stale, NEW r \in Nat, r < s.rows
    PROVE  /\ Terminal!OnGrid(s, r) /\ Len(s.grid[Terminal!vis_idx(s, r)].cells) = s.cols
           /\ Terminal!vis_idx(s, r) \in 1..Len(s.grid)
<1>1. s \in Terminals /\ Fitting(s.grid, Terminal!Size(s))
  BY SoundSize
<1>2. Len(s.grid) \in Nat /\ DOMAIN s.grid = 1..Len(s.grid) /\ s.rows \in Nat
  BY <1>1, FieldsOf
<1>3. Len(s.grid) >= s.rows /\ \A i \in 1..Len(s.grid) : Len(s.grid[i].cells) = s.cols
  BY <1>1 DEF Fitting, Terminal!Size
<1>4. Terminal!vis_idx(s, r) \in 1..Len(s.grid)
  BY <1>2, <1>3 DEF Terminal!vis_idx
<1> QED BY <1>2, <1>3, <1>4 DEF Terminal!OnGrid

(* The cursor's cells can be read.                                         *)
LEMMA Reading ==
    ASSUME NEW s, Sound(s), ~s.stale
    PROVE  Terminal!OnGrid(s, s.cursor.row) /\ Terminal!Readable(s)
<1>1. s \in Terminals /\ Placed(s.cursor, s.parked, Terminal!Size(s))
  BY SoundSize
<1>2. s.cursor.row \in Nat /\ s.cursor.col \in Nat /\ s.cols \in Nat
      /\ s.cursor.row < s.rows /\ s.cursor.col < s.cols
  BY <1>1, FieldsOf DEF Placed, Terminal!Size
<1>3. /\ Terminal!OnGrid(s, s.cursor.row)
      /\ Len(s.grid[Terminal!vis_idx(s, s.cursor.row)].cells) = s.cols
  BY <1>2, Standing
<1> QED BY <1>2, <1>3 DEF Terminal!Readable, Terminal!CursorRow

(* A panic that no geometry excuses does not happen on the screen.         *)
LEMMA Panicked ==
    ASSUME NEW s, Sound(s), NEW d \in Deaths, s.stale \/ d \notin {"cursor", "view"}
    PROVE  /\ Sound(Terminal!Panic(s, d)) /\ Terminal!Panic(s, d).parked = s.parked
           /\ Terminal!Panic(s, d).stale = s.stale
<1> DEFINE u == Terminal!Panic(s, d)
<1>1. s \in Terminals
  BY SoundSize
<1>2. u \in Terminals
  BY <1>1 DEF Terminals, Terminal!Panic
<1>3. /\ u.cols = s.cols /\ u.rows = s.rows /\ u.cold = s.cold /\ u.pending = s.pending
      /\ u.saved = s.saved /\ u.alt = s.alt /\ u.selection = s.selection
      /\ u.stale = s.stale /\ u.grid = s.grid /\ u.dead = d /\ u.cursor = s.cursor
      /\ u.parked = s.parked /\ u.dirty = s.dirty
  BY <1>1 DEF Terminals, Terminal!Panic
<1> HIDE DEF u
<1>4. ~s.stale => /\ Len(u.grid) = Len(s.grid) /\ Fitting(u.grid, Terminal!Size(s))
                  /\ Placed(u.cursor, u.parked, Terminal!Size(s)) /\ u.dead \notin {"cursor", "view"}
  BY <1>3, SoundSize
<1>5. Sound(u)
  BY <1>2, <1>3, <1>4, Kept, SoundSize
<1> QED BY <1>3, <1>5 DEF u

LEMMA Columned ==
    ASSUME NEW s \in Terminals, NEW c
    PROVE  /\ Terminal!SetCol(s, c).parked = s.parked /\ Terminal!SetCol(s, c).stale = s.stale
           /\ Terminal!SetCol(s, c).dead = s.dead
BY DEF Terminals, Terminal!SetCol, Terminal!moved

(* line_wrap marks the row and scrolls when the cursor is in the last one. *)
LEMMA Wrapping ==
    ASSUME ScreenBounds, NEW s, Sound(s)
    PROVE  /\ Sound(Terminal!line_wrap(s))
           /\ ~s.parked => ~Terminal!line_wrap(s).parked
           /\ Terminal!line_wrap(s).dead = s.dead \/ Terminal!line_wrap(s).stale
<1>1. s \in Terminals
  BY SoundSize
<1>2. s.cursor.row \in Nat /\ s.rows \in Nat /\ s.grid \in Seq(TextRows)
      /\ DOMAIN s.grid = 1..Len(s.grid)
  BY <1>1, FieldsOf
<1>3. CASE ~Terminal!OnGrid(s, s.cursor.row)
  <2>1. s.stale
    BY <1>3, <1>1, FieldsOf, Reading
  <2>2. "cursor" \in Deaths
    BY DEF Deaths
  <2>3. Terminal!line_wrap(s) = Terminal!Panic(s, "cursor")
    BY <1>3 DEF Terminal!line_wrap
  <2> QED BY <2>1, <2>2, <2>3, Panicked
<1>4. CASE Terminal!OnGrid(s, s.cursor.row)
  <2> DEFINE k == Terminal!vis_idx(s, s.cursor.row)
             v == Terminal!Unpark(s)
             w == [v EXCEPT !.grid[k].wrapped = TRUE]
             row == [s.grid[k] EXCEPT !.wrapped = TRUE]
             g == [s.grid EXCEPT ![k] = row]
             x == IF s.cursor.row < s.rows - 1 THEN [w EXCEPT !.cursor.row = w.cursor.row + 1]
                  ELSE Terminal!scroll_up_one(w)
  <2>1. k \in 1..Len(s.grid) /\ s.grid[k] \in TextRows
    BY <1>2, <1>4 DEF Terminal!OnGrid
  <2>2. row \in TextRows /\ Len(row.cells) = Len(s.grid[k].cells)
    BY <2>1 DEF TextRows
  <2>3. g \in Seq(TextRows) /\ Len(g) = Len(s.grid)
        /\ (Fitting(s.grid, Terminal!Size(s)) => Fitting(g, Terminal!Size(s)))
    BY <1>2, <2>1, <2>2, RowSet
  <2>4. Sound(v) /\ v.grid = s.grid /\ v.cursor = s.cursor /\ v.rows = s.rows /\ v.cols = s.cols
        /\ ~v.parked /\ v \in Terminals /\ Terminal!Size(v) = Terminal!Size(s) /\ v.dead = s.dead
    BY <1>1, Unparked, Ticking DEF Terminal!Size
  <2>5. w = [v EXCEPT !.grid = g]
    BY <2>1, <2>4, <1>2 DEF Terminals
  <2> HIDE DEF v, g, row, w
  <2>6. Sound(w) /\ w.cursor = s.cursor /\ w.rows = s.rows /\ ~w.parked /\ w.dead = s.dead
    BY <2>3, <2>4, <2>5, GridWritten DEF Alike
  <2>7. Sound(x) /\ ~x.parked /\ x.dead = s.dead
    <3>1. CASE s.cursor.row < s.rows - 1
      <4>1. s.cursor.row + 1 \in Nat /\ s.cursor.row + 1 < s.rows
        BY <3>1, <1>2
      <4>2. Sound([w EXCEPT !.cursor.row = w.cursor.row + 1])
        BY <4>1, <2>6, InRow
      <4>3. /\ [w EXCEPT !.cursor.row = w.cursor.row + 1].parked = w.parked
            /\ [w EXCEPT !.cursor.row = w.cursor.row + 1].dead = w.dead
        BY <2>6, SoundSize DEF Terminals
      <4> QED BY <3>1, <4>2, <4>3, <2>6
    <3>2. CASE ~(s.cursor.row < s.rows - 1)
      BY <3>2, <2>6, ScrollUpOne DEF Beside
    <3> QED BY <3>1, <3>2
  <2>8. Terminal!line_wrap(s) = Terminal!SetCol(x, 0)
    <3>1. k = Terminal!vis_idx(s, s.cursor.row) /\ w = [v EXCEPT !.grid[k].wrapped = TRUE]
      BY DEF w
    <3> QED BY <1>4, <2>6, <2>4 DEF Terminal!line_wrap, w, v
  <2> HIDE DEF x
  <2>9. x \in Terminals /\ (~x.stale => 0 < x.cols)
    BY <2>7, SoundSize, FieldsOf
  <2>10. /\ Sound(Terminal!SetCol(x, 0)) /\ ~Terminal!SetCol(x, 0).parked
         /\ Terminal!SetCol(x, 0).dead = s.dead
    BY <2>7, <2>9, SameColumn, Columned
  <2> QED BY <2>8, <2>10
<1> QED BY <1>3, <1>4

-----------------------------------------------------------------------------
(* What is done n times: a recursive function has the values its equation  *)
(* says, and what holds of each step holds of the last.                    *)

(* A set of numbers has a least one.                                       *)
LEMMA LeastNat ==
    ASSUME NEW T \in SUBSET Nat, T # {}
    PROVE  \E x \in T : \A y \in T : x <= y
<1> DEFINE R == {ss \in Nat \X Nat : ss[1] < ss[2]}
<1>1. IsWellFoundedOn(R, Nat)
  BY NatLessThanWellFounded DEF OpToRel
<1>2. ASSUME NEW x \in T, NEW y \in T, y < x PROVE <<y, x>> \in R
  <2>1. x \in Nat /\ y \in Nat
    OBVIOUS
  <2>2. <<y, x>> \in Nat \X Nat /\ <<y, x>>[1] = y /\ <<y, x>>[2] = x
    BY <2>1
  <2> DEFINE pair == <<y, x>>
  <2> HIDE DEF pair
  <2>3. pair \in Nat \X Nat /\ pair[1] < pair[2]
    BY <1>2, <2>2 DEF pair
  <2>4. pair \in R
    BY <2>3
  <2> QED BY <2>4 DEF pair
<1> HIDE DEF R
<1>3. PICK x \in T : \A y \in T : ~ (<<y, x>> \in R)
  BY <1>1, WFMin
<1>4. \A y \in T : ~(y < x) /\ x \in Nat /\ y \in Nat
  BY <1>2, <1>3
<1> QED BY <1>4

(* A set that has 0 and the successor of each number it has, has all.      *)
LEMMA Induct ==
    ASSUME NEW P \in SUBSET Nat, 0 \in P, \A i \in P : i + 1 \in P
    PROVE  \A n \in Nat : n \in P
<1> DEFINE T == {n \in Nat : n \notin P}
<1>1. ASSUME T # {} PROVE FALSE
  <2>1. T \in SUBSET Nat
    OBVIOUS
  <2>2. PICK x \in T : \A y \in T : x <= y
    BY <1>1, <2>1, LeastNat
  <2>3. x \in Nat /\ x # 0 /\ x \notin P
    BY <2>2
  <2>4. x - 1 \in Nat /\ ~(x <= x - 1) /\ x - 1 + 1 = x
    BY <2>3
  <2>5. x - 1 \in P
    BY <2>2, <2>4
  <2> QED BY <2>3, <2>4, <2>5
<1> QED BY <1>1

(* The values of a recursive function, up to n.                            *)
Runs(f, F, s, n) == f = [i \in 0..n |-> IF i = 0 THEN s ELSE F[i][f[i - 1]]]
Within(f, S, n) == \A i \in 0..n : f[i] \in S

(* An iterated function whose steps stay in S has a value at each index,   *)
(* and all of them are in S.                                               *)
LEMMA Iterates ==
    ASSUME NEW S, NEW F, \A i \in Nat : \A u \in S : F[i][u] \in S,
           NEW s \in S, NEW n \in Nat
    PROVE  \E f : Runs(f, F, s, n) /\ Within(f, S, n)
<1> DEFINE P == {m \in Nat : \E f : Runs(f, F, s, m) /\ Within(f, S, m)}
<1>1. 0 \in P
  <2> DEFINE f == [i \in 0..0 |-> s]
  <2>1. f = [i \in 0..0 |-> IF i = 0 THEN s ELSE F[i][f[i - 1]]]
    OBVIOUS
  <2>2. \A i \in 0..0 : f[i] \in S
    OBVIOUS
  <2> HIDE DEF f
  <2>3. Runs(f, F, s, 0) /\ Within(f, S, 0)
    BY <2>1, <2>2 DEF Runs, Within
  <2> QED BY <2>3
<1>2. ASSUME NEW m \in P PROVE m + 1 \in P
  <2>1. m \in Nat /\ m + 1 \in Nat
    OBVIOUS
  <2>2. PICK f : Runs(f, F, s, m) /\ Within(f, S, m)
    OBVIOUS
  <2> DEFINE g == [i \in 0..(m + 1) |-> IF i = m + 1 THEN F[m + 1][f[m]] ELSE f[i]]
  <2>3. /\ DOMAIN g = 0..(m + 1) /\ g[m + 1] = F[m + 1][f[m]]
        /\ \A i \in 0..m : g[i] = f[i]
    BY <2>1
  <2>4. /\ \A i \in 0..m : f[i] = (IF i = 0 THEN s ELSE F[i][f[i - 1]])
        /\ \A i \in 0..m : f[i] \in S
    BY <2>2, Zenon DEF Runs, Within
  <2>5. m \in 0..m /\ \A i \in 0..(m + 1) : i \in 0..m \/ i = m + 1
    BY <2>1
  <2>6. \A i \in 0..(m + 1) : g[i] \in S
    BY <2>3, <2>4, <2>5
  <2>7. ASSUME NEW i \in 0..(m + 1) PROVE g[i] = (IF i = 0 THEN s ELSE F[i][g[i - 1]])
    <3>1. CASE i = 0
      <4>1. 0 \in 0..m
        BY <2>1
      <4> QED BY <3>1, <4>1, <2>3, <2>4
    <3>2. CASE i # 0 /\ i \in 0..m
      <4>1. i - 1 \in 0..m
        BY <3>2, <2>1
      <4> QED BY <3>2, <4>1, <2>3, <2>4
    <3>3. CASE i = m + 1
      <4>1. i # 0 /\ i - 1 = m
        BY <3>3, <2>1
      <4> QED BY <3>3, <4>1, <2>3, <2>5
    <3> QED BY <3>1, <3>2, <3>3, <2>5
  <2>8. g = [i \in 0..(m + 1) |-> g[i]]
    BY <2>3
  <2> HIDE DEF g
  <2>9. g = [i \in 0..(m + 1) |-> IF i = 0 THEN s ELSE F[i][g[i - 1]]]
    BY <2>7, <2>8
  <2>10. Runs(g, F, s, m + 1) /\ Within(g, S, m + 1)
    BY <2>6, <2>9 DEF Runs, Within
  <2> QED BY <2>1, <2>10
<1> HIDE DEF P
<1>3. n \in P
  <2>1. P \in SUBSET Nat
    BY DEF P
  <2> QED BY <1>1, <1>2, <2>1, Induct
<1> QED BY <1>3 DEF P

(* What holds at the start and is kept by each step holds at the end.      *)
LEMMA Carried ==
    ASSUME NEW S, NEW s \in S, NEW n \in Nat, NEW g, g[0] = s,
           \A i \in 1..n : g[i - 1] \in S => g[i] \in S
    PROVE  g[n] \in S
<1> DEFINE P == {i \in Nat : i <= n => g[i] \in S}
<1>1. P \in SUBSET Nat /\ 0 \in P
  OBVIOUS
<1>2. ASSUME NEW i \in P PROVE i + 1 \in P
  <2>1. CASE i + 1 <= n
    <3>1. i \in Nat /\ i <= n /\ i + 1 \in 1..n /\ i + 1 - 1 = i
      BY <2>1
    <3>2. g[i] \in S
      BY <3>1
    <3>3. g[i + 1] \in S
      BY <3>1, <3>2
    <3> QED BY <3>1, <3>3
  <2>2. CASE ~(i + 1 <= n)
    BY <2>2
  <2> QED BY <2>1, <2>2
<1> HIDE DEF P
<1>3. n \in P
  BY <1>1, <1>2, Induct
<1> QED BY <1>3 DEF P

(* The value before each step, too, is in the set.                         *)
LEMMA Stepping ==
    ASSUME NEW S, NEW n \in Nat, NEW f, Within(f, S, n)
    PROVE  \A i \in 0..n : i # 0 => f[i - 1] \in S
<1>1. ASSUME NEW i \in 0..n, i # 0 PROVE f[i - 1] \in S
  <2>1. i - 1 \in 0..n
    BY <1>1
  <2> QED BY <2>1 DEF Within
<1> QED BY <1>1

SoundOnes == {s \in Terminals : Sound(s)}

(* scroll_up, any number of rows.                                          *)
LEMMA ScrollTimes ==
    ASSUME ScreenBounds, NEW s, Sound(s), NEW n \in Nat
    PROVE  Sound(Terminal!Times(n, Terminal!scroll_up_one, s))
<1> DEFINE F == [i \in Nat |-> [u \in SoundOnes |-> Terminal!scroll_up_one(u)]]
<1>1. s \in SoundOnes
  BY SoundSize DEF SoundOnes
<1>2. \A u \in SoundOnes : Terminal!scroll_up_one(u) \in SoundOnes
  BY ScrollUpOne, SoundSize DEF SoundOnes
<1>3. \A i \in Nat : \A u \in SoundOnes : F[i][u] = Terminal!scroll_up_one(u)
  OBVIOUS
<1> HIDE DEF F
<1>4. PICK f : Runs(f, F, s, n) /\ Within(f, SoundOnes, n)
  <2>1. \A i \in Nat : \A u \in SoundOnes : F[i][u] \in SoundOnes
    BY <1>2, <1>3
  <2> QED BY <1>1, <2>1, Iterates
<1>5. f = [i \in 0..n |-> IF i = 0 THEN s ELSE Terminal!scroll_up_one(f[i - 1])]
  <2>1. \A i \in 0..n : i \in Nat
    OBVIOUS
  <2>2. \A i \in 0..n : i # 0 => F[i][f[i - 1]] = Terminal!scroll_up_one(f[i - 1])
    BY <2>1, <1>3, <1>4, Stepping
  <2> QED BY <1>4, <2>2 DEF Runs
<1> DEFINE g == CHOOSE h : h = [i \in 0..n |-> IF i = 0 THEN s ELSE Terminal!scroll_up_one(h[i - 1])]
<1>6. g = [i \in 0..n |-> IF i = 0 THEN s ELSE Terminal!scroll_up_one(g[i - 1])]
  BY <1>5
<1>7. Terminal!Times(n, Terminal!scroll_up_one, s) = g[n]
  BY DEF Terminal!Times
<1> HIDE DEF g
<1>8. g[0] = s /\ \A i \in 1..n : g[i] = Terminal!scroll_up_one(g[i - 1])
  BY <1>6
<1>9. g[n] \in SoundOnes
  BY <1>1, <1>2, <1>8, Carried
<1> QED BY <1>7, <1>9 DEF SoundOnes

LEMMA ScrollsUp ==
    ASSUME ScreenBounds, NEW s, Sound(s), NEW n \in Nat
    PROVE  Sound(Terminal!scroll_up(s, n))
BY ScrollTimes, Marking DEF Terminal!scroll_up

(* What cursor_down, cursor_forward and scroll_down do once.               *)
DownOnce(u) ==
    IF u.cursor.row < u.rows - 1 THEN Terminal!moved([u EXCEPT !.cursor.row = @ + 1])
    ELSE Terminal!scroll_up_one(u)

ForwardOnce(u) ==
    IF u.dead # "no" THEN u
    ELSE IF u.cursor.col < u.cols - 1 THEN Terminal!SetCol(u, u.cursor.col + 1)
    ELSE IF u.wrap THEN Terminal!line_wrap(u)
    ELSE IF u.cursor.col # u.cols - 1 THEN Terminal!SetCol(u, u.cols - 1) ELSE u

Lowered(u, cols) ==
    [u EXCEPT !.grid = <<Terminal!NewRow(cols)>> \o Terminal!Front(u.grid)]

LEMMA DownOne ==
    ASSUME ScreenBounds, NEW s, Sound(s)
    PROVE  Sound(DownOnce(s))
<1>1. s.cursor.row \in Nat /\ s.rows \in Nat
  BY SoundSize, FieldsOf
<1>2. CASE s.cursor.row < s.rows - 1
  <2>1. s.cursor.row + 1 \in Nat /\ s.cursor.row + 1 < s.rows
    BY <1>1, <1>2
  <2>2. Sound([s EXCEPT !.cursor.row = s.cursor.row + 1])
    BY <2>1, InRow
  <2> QED BY <1>2, <2>2, Marking DEF DownOnce
<1>3. CASE ~(s.cursor.row < s.rows - 1)
  BY <1>3, ScrollUpOne DEF DownOnce
<1> QED BY <1>2, <1>3

LEMMA ForwardOne ==
    ASSUME ScreenBounds, NEW s, Sound(s)
    PROVE  Sound(ForwardOnce(s))
<1>1. /\ s.cursor.col \in Nat /\ s.cols \in Nat /\ s.cols >= 1
      /\ (~s.stale => Placed(s.cursor, s.parked, Terminal!Size(s)))
      /\ Terminal!Size(s).cols = s.cols
  BY SoundSize, FieldsOf
<1>2. CASE s.dead = "no" /\ s.cursor.col < s.cols - 1
  <2>1. ~s.stale => ~s.parked
    BY <1>1, <1>2 DEF Placed
  <2>2. s.cursor.col + 1 \in Nat /\ s.cursor.col + 1 < s.cols
    BY <1>1, <1>2
  <2>3. Sound(Terminal!SetCol(s, s.cursor.col + 1))
    BY <2>1, <2>2, SameColumn
  <2> QED BY <1>2, <2>3 DEF ForwardOnce
<1>3. Sound(Terminal!line_wrap(s))
  BY Wrapping
<1>4. Sound(Terminal!SetCol(s, s.cols - 1))
  <2>1. s.cols - 1 \in Nat /\ s.cols - 1 < s.cols
    BY <1>1
  <2> QED BY <2>1, SameColumn
<1> QED BY <1>2, <1>3, <1>4 DEF ForwardOnce

(* A blank row at the top of the screen, the last one dropped.             *)
LEMMA LowerOne ==
    ASSUME ScreenBounds, NEW s, Sound(s)
    PROVE  Sound(Lowered(s, s.cols)) /\ Lowered(s, s.cols).cols = s.cols
<1> DEFINE row == Terminal!NewRow(s.cols)
           g == <<row>> \o Terminal!Front(s.grid)
           u == [s EXCEPT !.grid = g, !.cold = s.cold, !.pending = s.pending]
<1>1. s \in Terminals
  BY SoundSize
<1>2. /\ s.grid \in Seq(TextRows) /\ Len(s.grid) \in Nat /\ s.cols \in Nat
      /\ s.rows \in Nat /\ s.rows >= 1 /\ s.cold \in Colds /\ s.pending \in Pendings
      /\ Terminal!Size(s).rows = s.rows /\ Terminal!Size(s).cols = s.cols
  BY <1>1, FieldsOf, SoundSize
<1>3. row \in TextRows /\ Len(row.cells) = s.cols
  BY <1>2, BlankRow
<1> DEFINE f == Terminal!Front(s.grid)
<1>4. /\ f \in Seq(TextRows)
      /\ Len(s.grid) >= 1 => /\ Len(f) = Len(s.grid) - 1
                             /\ \A i \in 1..(Len(s.grid) - 1) : f[i] = s.grid[i]
  BY <1>2 DEF Terminal!Front
<1> HIDE DEF row, f
<1>5. g \in Seq(TextRows)
  BY <1>3, <1>4 DEF f
<1>6. ASSUME Len(s.grid) >= 1
      PROVE  /\ Len(g) = Len(s.grid) /\ g[1] = row
             /\ \A i \in 1..Len(s.grid) : i # 1 => g[i] = s.grid[i - 1]
  <2>1. Len(<<row>>) = 1 /\ <<row>> \in Seq(TextRows) /\ <<row>>[1] = row
    BY <1>3
  <2>2. g = <<row>> \o f
    BY DEF f
  <2>3. /\ Len(g) = 1 + Len(f)
        /\ \A i \in 1..(1 + Len(f)) : g[i] = IF i <= 1 THEN <<row>>[i] ELSE f[i - 1]
    BY <2>1, <2>2, <1>4
  <2> HIDE DEF g
  <2>4. ASSUME NEW i \in 1..Len(s.grid), i # 1 PROVE g[i] = s.grid[i - 1]
    <3>1. i \in 1..(1 + Len(f)) /\ ~(i <= 1) /\ i - 1 \in 1..(Len(s.grid) - 1)
      BY <1>2, <1>4, <1>6, <2>4
    <3> QED BY <3>1, <2>3, <1>4, <1>6
  <2>5. 1 \in 1..(1 + Len(f)) /\ Len(g) = Len(s.grid)
    BY <1>2, <1>4, <1>6, <2>3
  <2> QED BY <2>1, <2>3, <2>4, <2>5
<1> HIDE DEF g
<1>7. u \in Terminals /\ u.grid = g /\ u.cold = s.cold /\ u.pending = s.pending /\ Alike(u, s)
  BY <1>1, <1>2, <1>5, Rescrolled
<1>8. [s EXCEPT !.grid = g] = u
  BY <1>1 DEF Terminals
<1> HIDE DEF u
<1>9. ASSUME ~s.stale PROVE Fitting(g, Terminal!Size(s)) /\ Tiered(g, s.cold, s.pending, Terminal!Size(s))
  <2>1. Fitting(s.grid, Terminal!Size(s)) /\ Tiered(s.grid, s.cold, s.pending, Terminal!Size(s))
    BY <1>9 DEF Sound, Whole
  <2>2. Len(s.grid) >= 1
    BY <2>1, <1>2 DEF Fitting
  <2>3. ASSUME NEW i \in 1..Len(g) PROVE Len(g[i].cells) = s.cols
    <3>1. CASE i = 1
      BY <3>1, <1>3, <1>6, <2>2
    <3>2. CASE i # 1
      <4>1. i \in 1..Len(s.grid) /\ i - 1 \in 1..Len(s.grid)
        BY <3>2, <1>2, <1>6, <2>2
      <4> QED BY <3>2, <4>1, <1>2, <1>6, <2>1, <2>2 DEF Fitting
    <3> QED BY <3>1, <3>2
  <2> QED BY <2>1, <2>2, <2>3, <1>2, <1>6 DEF Fitting, Tiered
<1>10. Sound(u)
  <2>1. Counted(s.cold, s.pending)
    BY DEF Sound
  <2> QED BY <2>1, <1>7, <1>9, Retiered DEF Alike
<1>11. Lowered(s, s.cols) = u
  BY <1>8 DEF Lowered, g, row, f
<1> QED BY <1>7, <1>10, <1>11 DEF Alike

(* LF, CUD and VPR, CUF and SD, any number of times.                       *)
LEMMA DownTimes ==
    ASSUME ScreenBounds, NEW s, Sound(s), NEW n \in Nat
    PROVE  Sound(Terminal!cursor_down(s, n))
<1> DEFINE F == [i \in Nat |-> [u \in SoundOnes |-> DownOnce(u)]]
<1>1. Terminal!Unpark(s) \in SoundOnes
  BY Unparked, SoundSize DEF SoundOnes
<1>2. \A u \in SoundOnes : DownOnce(u) \in SoundOnes
  BY DownOne, SoundSize DEF SoundOnes
<1>3. \A i \in Nat : \A u \in SoundOnes : F[i][u] = DownOnce(u)
  OBVIOUS
<1> HIDE DEF F
<1>4. PICK f : Runs(f, F, Terminal!Unpark(s), n) /\ Within(f, SoundOnes, n)
  <2>1. \A i \in Nat : \A u \in SoundOnes : F[i][u] \in SoundOnes
    BY <1>2, <1>3
  <2> QED BY <1>1, <2>1, Iterates
<1>5. f = [i \in 0..n |-> IF i = 0 THEN Terminal!Unpark(s) ELSE DownOnce(f[i - 1])]
  <2>1. \A i \in 0..n : i \in Nat
    OBVIOUS
  <2>2. \A i \in 0..n : i # 0 => F[i][f[i - 1]] = DownOnce(f[i - 1])
    BY <2>1, <1>3, <1>4, Stepping
  <2> QED BY <1>4, <2>2 DEF Runs
<1> DEFINE g == CHOOSE h : h = [i \in 0..n |-> IF i = 0 THEN Terminal!Unpark(s) ELSE DownOnce(h[i - 1])]
<1>6. g = [i \in 0..n |-> IF i = 0 THEN Terminal!Unpark(s) ELSE DownOnce(g[i - 1])]
  BY <1>5
<1>7. Terminal!cursor_down(s, n) = g[n]
  BY DEF Terminal!cursor_down, Terminal!Times, DownOnce
<1> HIDE DEF g
<1>8. g[0] = Terminal!Unpark(s) /\ \A i \in 1..n : g[i] = DownOnce(g[i - 1])
  BY <1>6
<1>9. g[n] \in SoundOnes
  <2>1. \A i \in 1..n : g[i - 1] \in SoundOnes => g[i] \in SoundOnes
    BY <1>2, <1>8
  <2> HIDE DEF F
  <2> QED BY <1>1, <1>8, <2>1, Carried
<1> QED BY <1>7, <1>9 DEF SoundOnes

LEMMA ForwardTimes ==
    ASSUME ScreenBounds, NEW s, Sound(s), NEW n \in Nat
    PROVE  Sound(Terminal!cursor_forward(s, n))
<1> DEFINE F == [i \in Nat |-> [u \in SoundOnes |-> ForwardOnce(u)]]
<1>1. Terminal!Unpark(s) \in SoundOnes
  BY Unparked, SoundSize DEF SoundOnes
<1>2. \A u \in SoundOnes : ForwardOnce(u) \in SoundOnes
  BY ForwardOne, SoundSize DEF SoundOnes
<1>3. \A i \in Nat : \A u \in SoundOnes : F[i][u] = ForwardOnce(u)
  OBVIOUS
<1> HIDE DEF F
<1>4. PICK f : Runs(f, F, Terminal!Unpark(s), n) /\ Within(f, SoundOnes, n)
  <2>1. \A i \in Nat : \A u \in SoundOnes : F[i][u] \in SoundOnes
    BY <1>2, <1>3
  <2> QED BY <1>1, <2>1, Iterates
<1>5. f = [i \in 0..n |-> IF i = 0 THEN Terminal!Unpark(s) ELSE ForwardOnce(f[i - 1])]
  <2>1. \A i \in 0..n : i \in Nat
    OBVIOUS
  <2>2. \A i \in 0..n : i # 0 => F[i][f[i - 1]] = ForwardOnce(f[i - 1])
    BY <2>1, <1>3, <1>4, Stepping
  <2> QED BY <1>4, <2>2 DEF Runs
<1> DEFINE g == CHOOSE h : h = [i \in 0..n |-> IF i = 0 THEN Terminal!Unpark(s) ELSE ForwardOnce(h[i - 1])]
<1>6. g = [i \in 0..n |-> IF i = 0 THEN Terminal!Unpark(s) ELSE ForwardOnce(g[i - 1])]
  BY <1>5
<1>7. Terminal!cursor_forward(s, n) = g[n]
  BY DEF Terminal!cursor_forward, Terminal!Times, ForwardOnce
<1> HIDE DEF g
<1>8. g[0] = Terminal!Unpark(s) /\ \A i \in 1..n : g[i] = ForwardOnce(g[i - 1])
  BY <1>6
<1>9. g[n] \in SoundOnes
  <2>1. \A i \in 1..n : g[i - 1] \in SoundOnes => g[i] \in SoundOnes
    BY <1>2, <1>8
  <2> HIDE DEF F
  <2> QED BY <1>1, <1>8, <2>1, Carried
<1> QED BY <1>7, <1>9 DEF SoundOnes

LEMMA LowerTimes ==
    ASSUME ScreenBounds, NEW s, Sound(s), NEW n \in Nat
    PROVE  Sound(Terminal!scroll_down(s, n))
<1> DEFINE S == {u \in SoundOnes : u.cols = s.cols}
           F == [i \in Nat |-> [u \in S |-> Lowered(u, s.cols)]]
<1>1. s \in S
  BY SoundSize DEF SoundOnes
<1>2. \A u \in S : Lowered(u, s.cols) \in S
  BY LowerOne, SoundSize DEF SoundOnes
<1>3. \A i \in Nat : \A u \in S : F[i][u] = Lowered(u, s.cols)
  OBVIOUS
<1> HIDE DEF F
<1>4. PICK f : Runs(f, F, s, n) /\ Within(f, S, n)
  <2>1. \A i \in Nat : \A u \in S : F[i][u] \in S
    BY <1>2, <1>3
  <2> QED BY <1>1, <2>1, Iterates
<1>5. f = [i \in 0..n |-> IF i = 0 THEN s ELSE Lowered(f[i - 1], s.cols)]
  <2>1. \A i \in 0..n : i \in Nat
    OBVIOUS
  <2>2. \A i \in 0..n : i # 0 => F[i][f[i - 1]] = Lowered(f[i - 1], s.cols)
    BY <2>1, <1>3, <1>4, Stepping
  <2> QED BY <1>4, <2>2 DEF Runs
<1> DEFINE g == CHOOSE h : h = [i \in 0..n |-> IF i = 0 THEN s ELSE Lowered(h[i - 1], s.cols)]
<1>6. g = [i \in 0..n |-> IF i = 0 THEN s ELSE Lowered(g[i - 1], s.cols)]
  BY <1>5
<1>7. Terminal!scroll_down(s, n) = Terminal!mark_all(g[n])
  BY DEF Terminal!scroll_down, Terminal!Times, Lowered
<1> HIDE DEF g
<1>8. g[0] = s /\ \A i \in 1..n : g[i] = Lowered(g[i - 1], s.cols)
  BY <1>6
<1>9. g[n] \in S
  <2>1. \A i \in 1..n : g[i - 1] \in S => g[i] \in S
    BY <1>2, <1>8
  <2> HIDE DEF S
  <2> QED BY <1>1, <1>8, <2>1, Carried
<1> QED BY <1>7, <1>9, Marking DEF SoundOnes

-----------------------------------------------------------------------------
(* Writing.                                                                *)

LEMMA CellSet ==
    ASSUME NEW s, Sound(s), NEW i, NEW cell \in Cells
    PROVE  Sound(Terminal!SetCell(s, i, cell)) /\ Alike(Terminal!SetCell(s, i, cell), s)
<1> DEFINE k == Terminal!vis_idx(s, s.cursor.row)
           row == [s.grid[k] EXCEPT !.cells = [s.grid[k].cells EXCEPT ![i] = cell]]
           g == [s.grid EXCEPT ![k] = row]
<1>1. s \in Terminals /\ s.grid \in Seq(TextRows) /\ DOMAIN s.grid = 1..Len(s.grid)
  BY SoundSize, FieldsOf
<1>2. CASE i \notin DOMAIN Terminal!CursorRow(s).cells
  BY <1>2 DEF Terminal!SetCell, Alike
<1>3. CASE i \in DOMAIN Terminal!CursorRow(s).cells
  <2>1. ASSUME k \in 1..Len(s.grid) PROVE row \in TextRows /\ Len(row.cells) = Len(s.grid[k].cells)
    <3>1. s.grid[k] \in TextRows
      BY <1>1, <2>1
    <3> DEFINE cs == s.grid[k].cells  ds == [cs EXCEPT ![i] = cell]
    <3>2. cs \in Seq(Cells)
      BY <3>1 DEF TextRows
    <3> HIDE DEF cs
    <3>3. ds \in Seq(Cells) /\ Len(ds) = Len(cs)
      <4>1. Len(cs) \in Nat /\ DOMAIN cs = 1..Len(cs) /\ \A j \in 1..Len(cs) : cs[j] \in Cells
        BY <3>2
      <4>2. ds \in [1..Len(cs) -> Cells]
        BY <4>1
      <4> QED BY <4>1, <4>2
    <3> HIDE DEF ds
    <3>4. row = [s.grid[k] EXCEPT !.cells = ds]
      BY DEF ds, cs
    <3>5. row \in TextRows /\ row.cells = ds
      BY <3>1, <3>3, <3>4 DEF TextRows
    <3> QED BY <3>3, <3>5 DEF cs
  <2> HIDE DEF row
  <2>2. g \in Seq(TextRows) /\ Len(g) = Len(s.grid)
        /\ (Fitting(s.grid, Terminal!Size(s)) => Fitting(g, Terminal!Size(s)))
    BY <1>1, <2>1, RowSet
  <2>3. Terminal!SetCell(s, i, cell) = [s EXCEPT !.grid = g]
    BY <1>3 DEF Terminal!SetCell, row
  <2> HIDE DEF g
  <2> QED BY <2>2, <2>3, GridWritten
<1> QED BY <1>2, <1>3

LEMMA RowMarked ==
    ASSUME NEW s \in Terminals, NEW r
    PROVE  /\ Terminal!mark_row(s, r).cursor = s.cursor
           /\ Terminal!mark_row(s, r).parked = s.parked
           /\ Terminal!mark_row(s, r).cols = s.cols
BY DEF Terminals, Terminal!mark_row

(* What cluster_base looks through.                                        *)
LEMMA CursorCells ==
    ASSUME NEW s, Sound(s), Terminal!Readable(s)
    PROVE  /\ Terminal!CursorRow(s) \in TextRows
           /\ s.cursor.col <= Len(Terminal!CursorRow(s).cells)
           /\ \A i \in 1..Len(Terminal!CursorRow(s).cells) :
                 Terminal!CursorRow(s).cells[i] \in Cells
<1>1. s.grid \in Seq(TextRows) /\ DOMAIN s.grid = 1..Len(s.grid)
  BY SoundSize, FieldsOf
<1>2. Terminal!CursorRow(s) \in TextRows
  BY <1>1 DEF Terminal!Readable, Terminal!OnGrid, Terminal!CursorRow
<1>3. Terminal!CursorRow(s).cells \in Seq(Cells)
  BY <1>2 DEF TextRows
<1> QED BY <1>2, <1>3 DEF Terminal!Readable

LEMMA GreatestOf ==
    ASSUME NEW n \in Nat, NEW T \in SUBSET (1..n), T # {}
    PROVE  \E x \in T : \A y \in T : y <= x
<1> DEFINE B == {m \in Nat : \A y \in T : y <= m}
<1>1. n \in B
  OBVIOUS
<1>2. PICK m \in B : \A y \in B : m <= y
  BY <1>1, LeastNat
<1>3. m \in T
  <2>1. SUFFICES ASSUME m \notin T PROVE FALSE
    OBVIOUS
  <2>2. m >= 1
    <3>1. PICK y \in T : TRUE
      OBVIOUS
    <3>2. y \in 1..n /\ m \in Nat /\ y <= m
      BY <3>1
    <3> QED BY <3>2
  <2>3. \A y \in T : y <= m - 1
    BY <1>2, <2>1
  <2>4. m - 1 \in B
    BY <1>2, <2>2, <2>3
  <2> QED BY <1>2, <2>4
<1> QED BY <1>2, <1>3

(* The cell a mark joins is one before the cursor.                         *)
LEMMA BaseIndex ==
    ASSUME NEW s, Sound(s), Terminal!Readable(s), Terminal!cluster_base(s) # 0
    PROVE  LET i == Terminal!cluster_base(s)
           IN  /\ i \in Nat /\ i >= 1 /\ i <= s.cursor.col
               /\ Terminal!CursorRow(s).cells[i] \in Cells
<1> DEFINE T == {i \in 1..s.cursor.col :
                   "CONTINUATION" \notin Terminal!CursorRow(s).cells[i].flags}
           i == CHOOSE x \in T : \A y \in T : y <= x
<1>1. s.cursor.col \in Nat
  BY SoundSize, FieldsOf
<1>2. T # {} /\ Terminal!cluster_base(s) = i
  BY DEF Terminal!cluster_base
<1>3. T \in SUBSET (1..s.cursor.col)
  OBVIOUS
<1> HIDE DEF T
<1>4. i \in T
  BY <1>1, <1>2, <1>3, GreatestOf
<1>5. i \in 1..s.cursor.col
  BY <1>3, <1>4
<1> HIDE DEF i
<1>6. Len(Terminal!CursorRow(s).cells) \in Nat
  BY CursorCells DEF TextRows
<1>7. i \in 1..Len(Terminal!CursorRow(s).cells)
  BY <1>1, <1>5, <1>6, CursorCells
<1> QED BY <1>1, <1>2, <1>5, <1>7, CursorCells

LEMMA Widened ==
    ASSUME NEW s, Sound(s), NEW i, NEW grew
    PROVE  Sound(Terminal!Widen(s, i, grew)) /\ Alike(Terminal!Widen(s, i, grew), s)
<1>1. Terminal!Continuation \in Cells
  BY DEF Terminal!Continuation, Cells, CellFlags
<1> QED BY <1>1, CellSet DEF Terminal!Widen, Alike

(* A mark joins its base, which may grow to two columns.                   *)
LEMMA Merging ==
    ASSUME NEW s, Sound(s), Terminal!Readable(s), Terminal!cluster_base(s) # 0, NEW width \in 1..2
    PROVE  Sound(Terminal!MergeIntoCluster(s, Terminal!cluster_base(s), width))
<1> DEFINE i == Terminal!cluster_base(s)
           base == Terminal!CursorRow(s).cells[i]
           w == Terminal!Min2(IF base.width > width THEN base.width ELSE width, 2)
           b == [base EXCEPT !.width = w, !.flags = @ \ {"JOINER"}]
           grew == w = 2 /\ base.width < 2
           u == Terminal!Widen(Terminal!SetCell(s, i, b), i, grew)
           v == Terminal!ParkAt(u, i - 1 + w)
<1>1. i \in Nat /\ i >= 1 /\ base \in Cells
  BY BaseIndex
<1>2. s.cursor.row \in Nat
  BY SoundSize, FieldsOf
<1> HIDE DEF i, base
<1>3. base.width \in 0..2 /\ base.flags \in SUBSET CellFlags
  BY <1>1 DEF Cells
<1>4. w \in 0..2
  BY <1>3 DEF Terminal!Min2
<1> HIDE DEF w
<1>5. b \in Cells
  BY <1>1, <1>3, <1>4 DEF Cells
<1> HIDE DEF b, grew
<1>6. Sound(u)
  BY <1>5, CellSet, Widened
<1> HIDE DEF u
<1>7. i - 1 + w \in Nat
  BY <1>1, <1>4
<1>8. Sound(v)
  BY <1>6, <1>7, Parking
<1> HIDE DEF v
<1>9. Sound(Terminal!mark_row(v, s.cursor.row))
  BY <1>2, <1>8, Marking
<1> QED BY <1>9 DEF Terminal!MergeIntoCluster, v, u, grew, b, w, base, i

LEMMA LastWritten ==
    ASSUME NEW s, Sound(s), NEW x \in {"narrow", "wide"}
    PROVE  Sound([s EXCEPT !.last = x])
<1> DEFINE u == [s EXCEPT !.last = x]
<1>1. s \in Terminals
  BY SoundSize
<1>2. u \in Terminals /\ u.dirty = s.dirty
  BY <1>1 DEF Terminals
<1>3. /\ u.cols = s.cols /\ u.rows = s.rows /\ u.cold = s.cold /\ u.pending = s.pending
      /\ u.saved = s.saved /\ u.alt = s.alt /\ u.selection = s.selection
      /\ u.stale = s.stale /\ u.grid = s.grid /\ u.dead = s.dead
      /\ u.cursor = s.cursor /\ u.parked = s.parked
  BY <1>1 DEF Terminals
<1> HIDE DEF u
<1>4. Sound(u)
  BY <1>2, <1>3, Steady, SoundSize
<1> QED BY <1>4 DEF u

(* A base glyph, with its continuation, in the row of the cursor.          *)
LEMMA Putting ==
    ASSUME NEW s, Sound(s), NEW width \in 1..2
    PROVE  Sound(Terminal!PutGlyph(s, width))
<1> DEFINE c == s.cursor.col + 1
           cell == [ch |-> 1, width |-> width, flags |-> {}]
           one == Terminal!SetCell(s, c, cell)
           two == IF width = 2 /\ c \in DOMAIN Terminal!CursorRow(s).cells
                  THEN Terminal!SetCell(one, c + 1, Terminal!Continuation) ELSE one
           x == IF width = 2 THEN "wide" ELSE "narrow"
           three == [two EXCEPT !.last = x]
<1>1. s.cursor.row \in Nat
  BY SoundSize, FieldsOf
<1>2. cell \in Cells /\ Terminal!Continuation \in Cells
  BY DEF Cells, Terminal!Continuation, CellFlags
<1> HIDE DEF cell, c
<1>3. Sound(one)
  BY <1>2, CellSet
<1> HIDE DEF one
<1>4. Sound(two)
  BY <1>2, <1>3, CellSet
<1> HIDE DEF two
<1>5. Sound(three)
  BY <1>4, LastWritten
<1> HIDE DEF three
<1>6. Sound(Terminal!mark_row(three, s.cursor.row))
  BY <1>1, <1>5, Marking
<1>7. Sound(Terminal!cursor_advance(Terminal!mark_row(three, s.cursor.row), width))
  BY <1>6, Movers
<1> QED BY <1>7 DEF Terminal!PutGlyph, three, two, one, cell, c

LEMMA WrappedIfParked ==
    ASSUME ScreenBounds, NEW s, Sound(s)
    PROVE  LET u == IF s.parked THEN Terminal!line_wrap(Terminal!Unpark(s)) ELSE s
           IN  Sound(u) /\ ~u.parked
<1>1. s \in Terminals
  BY SoundSize
<1>2. Sound(Terminal!Unpark(s)) /\ ~Terminal!Unpark(s).parked
  BY <1>1, Unparked, Ticking
<1>3. Sound(Terminal!line_wrap(Terminal!Unpark(s)))
      /\ ~Terminal!line_wrap(Terminal!Unpark(s)).parked
  BY <1>2, Wrapping
<1> QED BY <1>3

(* The cursor goes back as far as the glyph is wide.                       *)
LEMMA Backed ==
    ASSUME NEW s, Sound(s), ~s.parked, NEW width \in 1..2
    PROVE  Sound([s EXCEPT !.cursor.col = Terminal!Monus(s.cols, width)])
<1> DEFINE c == Terminal!Monus(s.cols, width)
           p == [s.cursor EXCEPT !.col = c]
<1>1. s \in Terminals /\ (~s.stale => Placed(s.cursor, s.parked, Terminal!Size(s)))
      /\ Terminal!Size(s).cols = s.cols
  BY SoundSize
<1>2. s.cursor \in Spots /\ s.cols \in Nat /\ s.cols >= 1 /\ s.parked = FALSE
  BY <1>1, FieldsOf
<1>3. c \in Nat /\ c < s.cols
  BY <1>2 DEF Terminal!Monus
<1> HIDE DEF c
<1>4. p \in Spots /\ p.col = c /\ p.row = s.cursor.row
  BY <1>2, <1>3 DEF Spots
<1>5. [s EXCEPT !.cursor.col = c] = [s EXCEPT !.cursor = p, !.parked = FALSE]
  BY <1>1, <1>2 DEF Terminals
<1> HIDE DEF p
<1>6. ~s.stale => Placed(p, FALSE, Terminal!Size(s))
  BY <1>1, <1>3, <1>4 DEF Placed
<1>7. Sound([s EXCEPT !.cursor = p, !.parked = FALSE])
  BY <1>4, <1>6, Put
<1> QED BY <1>5, <1>7 DEF c

LEMMA PanickedAtCursor ==
    ASSUME NEW s, Sound(s), ~Terminal!Readable(s) \/ ~Terminal!OnGrid(s, s.cursor.row)
    PROVE  Sound(Terminal!Panic(s, "cursor"))
<1>1. s.stale
  BY Reading, SoundSize, FieldsOf
<1>2. "cursor" \in Deaths
  BY DEF Deaths
<1> QED BY <1>1, <1>2, Panicked

LEMMA WrapLives ==
    ASSUME ScreenBounds, NEW s, Sound(s), s.dead = "no"
    PROVE  LET u == IF s.parked THEN Terminal!line_wrap(Terminal!Unpark(s)) ELSE s
           IN  u.dead # "no" => u.stale
<1>1. s \in Terminals
  BY SoundSize
<1> DEFINE v == Terminal!Unpark(s)
<1>2. Sound(v) /\ v \in Terminals /\ v.dead = "no"
  BY <1>1, Unparked, Ticking
<1> HIDE DEF v
<1>3. Terminal!line_wrap(v).dead # "no" => Terminal!line_wrap(v).stale
  BY <1>2, Wrapping
<1> QED BY <1>3 DEF v

(* A glyph that does not fit the line wraps first; in a pane one column    *)
(* wide it does not fit the next one either.                               *)
LEMMA WritingBase ==
    ASSUME ScreenBounds, NEW s, Sound(s), s.dead = "no", NEW width \in 1..2
    PROVE  Sound(Terminal!write_base(s, width))
<1> DEFINE u == IF s.parked THEN Terminal!line_wrap(Terminal!Unpark(s)) ELSE s
           i == Terminal!cluster_base(u)
           joins == i # 0 /\ LET b == Terminal!CursorRow(u).cells[i]
                             IN "JOINER" \in b.flags /\ b.ch # 0
           v == IF u.cursor.col + width <= u.cols THEN u
                ELSE IF u.wrap THEN Terminal!line_wrap(u)
                ELSE [u EXCEPT !.cursor.col = Terminal!Monus(u.cols, width)]
<1>1. Sound(u) /\ ~u.parked
  BY WrappedIfParked
<1> HIDE DEF u
<1>2. CASE u.dead # "no" \/ ~Terminal!Readable(u)
  <2>1. Sound(Terminal!Panic(u, "cursor"))
    <3>1. CASE ~Terminal!Readable(u)
      BY <3>1, <1>1, PanickedAtCursor
    <3>2. CASE u.dead # "no"
      <4>1. u.stale
        BY <3>2, WrapLives DEF u
      <4>2. "cursor" \in Deaths
        BY DEF Deaths
      <4> QED BY <4>1, <4>2, <1>1, Panicked
    <3> QED BY <3>1, <3>2, <1>2
  <2> QED BY <2>1, <1>2 DEF Terminal!write_base, u
<1>3. CASE ~(u.dead # "no" \/ ~Terminal!Readable(u)) /\ joins
  <2>1. Sound(Terminal!MergeIntoCluster(u, i, width))
    BY <1>1, <1>3, Merging
  <2> QED BY <2>1, <1>3 DEF Terminal!write_base, u
<1>4. CASE ~(u.dead # "no" \/ ~Terminal!Readable(u)) /\ ~joins
  <2>1. Sound(v)
    BY <1>1, Wrapping, Backed
  <2>2. Terminal!write_base(s, width) = Terminal!PutGlyph(v, width)
    BY <1>4 DEF Terminal!write_base, u
  <2> HIDE DEF v
  <2> QED BY <2>1, <2>2, Putting
<1> QED BY <1>2, <1>3, <1>4

(* A mark is joined to a cluster or written in a cell of its own.          *)
LEMMA WritingZeroWidth ==
    ASSUME NEW s, Sound(s), NEW glyph
    PROVE  Sound(Terminal!write_zero_width(s, glyph))
<1>1. s.cursor.row \in Nat
  BY SoundSize, FieldsOf
<1>2. CASE s.cursor.col = 0
  BY <1>2 DEF Terminal!write_zero_width
<1>3. CASE s.cursor.col # 0 /\ ~Terminal!Readable(s)
  BY <1>3, PanickedAtCursor DEF Terminal!write_zero_width
<1>4. CASE s.cursor.col # 0 /\ Terminal!Readable(s) /\ glyph = "mark"
  <2> DEFINE cell == [ch |-> 1, width |-> 0, flags |-> {"COMBINING"}]
             u == Terminal!SetCell(s, s.cursor.col + 1, cell)
  <2>1. cell \in Cells
    BY DEF Cells, CellFlags
  <2> HIDE DEF cell
  <2>2. Sound(u)
    BY <2>1, CellSet
  <2> HIDE DEF u
  <2>3. Sound(Terminal!mark_row(u, s.cursor.row))
    BY <1>1, <2>2, Marking
  <2> QED BY <2>3, <1>4 DEF Terminal!write_zero_width, u, cell
<1>5. CASE s.cursor.col # 0 /\ Terminal!Readable(s) /\ glyph # "mark"
  <2> DEFINE i == Terminal!cluster_base(s)
             base == Terminal!CursorRow(s).cells[i]
             want == IF glyph = "emoji_vs" THEN 2 ELSE 1
             w == Terminal!Min2(IF base.width > want THEN base.width ELSE want, 2)
             grew == w = 2 /\ base.width < 2
             b == [base EXCEPT !.width = w]
             wide == Terminal!Widen(Terminal!SetCell(s, i, b), i, grew)
             joined == [base EXCEPT !.flags = @ \cup {"JOINER"}]
             joining == Terminal!SetCell(s, i, joined)
             out == IF grew THEN Terminal!ParkAt(wide, i + 1) ELSE wide
  <2>1. CASE i = 0 \/ base.ch = 0
    BY <2>1, <1>5 DEF Terminal!write_zero_width
  <2>2. CASE ~(i = 0 \/ base.ch = 0)
    <3>1. i \in Nat /\ base \in Cells
      BY <1>5, <2>2, BaseIndex
    <3> HIDE DEF i, base
    <3>2. base.width \in 0..2 /\ base.flags \in SUBSET CellFlags
      BY <3>1 DEF Cells
    <3>3. w \in 0..2
      BY <3>2 DEF Terminal!Min2
    <3> HIDE DEF w
    <3>4. b \in Cells
      BY <3>1, <3>3 DEF Cells
    <3>5. joined \in Cells
      BY <3>1, <3>2 DEF Cells, CellFlags
    <3> HIDE DEF b, joined, grew
    <3>6. Sound(wide) /\ Sound(joining)
      BY <3>4, <3>5, CellSet, Widened
    <3> HIDE DEF wide, joining
    <3>7. Sound(out)
      <4>1. i + 1 \in Nat
        BY <3>1
      <4> QED BY <3>6, <4>1, Parking
    <3> HIDE DEF out
    <3>8. Sound(Terminal!mark_row(out, s.cursor.row)) /\ Sound(Terminal!mark_row(joining, s.cursor.row))
      BY <1>1, <3>6, <3>7, Marking
    <3>9. CASE glyph = "joiner"
      BY <3>8, <3>9, <2>2, <1>5 DEF Terminal!write_zero_width, joining, joined, base, i
    <3>10. CASE glyph # "joiner"
      BY <3>8, <3>10, <2>2, <1>5 DEF Terminal!write_zero_width, out, wide, grew, b, w, base, i
    <3> QED BY <3>9, <3>10
  <2> QED BY <2>1, <2>2
<1> QED BY <1>2, <1>3, <1>4, <1>5

(* A glyph of any kind.                                                    *)
LEMMA WritingChar ==
    ASSUME ScreenBounds, NEW s, Sound(s), s.dead = "no", NEW glyph
    PROVE  Sound(Terminal!write_char(s, glyph))
<1>1. 1 \in 1..2 /\ 2 \in 1..2
  OBVIOUS
<1> QED BY <1>1, WritingBase, WritingZeroWidth DEF Terminal!write_char

AgainOnce(u, last) == IF u.dead # "no" THEN u ELSE Terminal!write_char(u, last)

LEMMA AgainOne ==
    ASSUME ScreenBounds, NEW s, Sound(s), NEW last
    PROVE  Sound(AgainOnce(s, last))
BY WritingChar DEF AgainOnce

(* REP: the last glyph, any number of times.                               *)
LEMMA AgainTimes ==
    ASSUME ScreenBounds, NEW s, Sound(s), NEW n \in Nat
    PROVE  Sound(Terminal!repeat_last_char(s, n))
<1> DEFINE F == [i \in Nat |-> [u \in SoundOnes |-> AgainOnce(u, s.last)]]
<1>1. s \in SoundOnes
  BY SoundSize DEF SoundOnes
<1>2. \A u \in SoundOnes : AgainOnce(u, s.last) \in SoundOnes
  BY AgainOne, SoundSize DEF SoundOnes
<1>3. \A i \in Nat : \A u \in SoundOnes : F[i][u] = AgainOnce(u, s.last)
  OBVIOUS
<1> HIDE DEF F
<1>4. PICK f : Runs(f, F, s, n) /\ Within(f, SoundOnes, n)
  <2>1. \A i \in Nat : \A u \in SoundOnes : F[i][u] \in SoundOnes
    BY <1>2, <1>3
  <2> QED BY <1>1, <2>1, Iterates
<1>5. f = [i \in 0..n |-> IF i = 0 THEN s ELSE AgainOnce(f[i - 1], s.last)]
  <2>1. \A i \in 0..n : i \in Nat
    OBVIOUS
  <2>2. \A i \in 0..n : i # 0 => F[i][f[i - 1]] = AgainOnce(f[i - 1], s.last)
    BY <2>1, <1>3, <1>4, Stepping
  <2> QED BY <1>4, <2>2 DEF Runs
<1> DEFINE g == CHOOSE h : h = [i \in 0..n |-> IF i = 0 THEN s ELSE AgainOnce(h[i - 1], s.last)]
<1>6. g = [i \in 0..n |-> IF i = 0 THEN s ELSE AgainOnce(g[i - 1], s.last)]
  BY <1>5
<1>7. (s.last # "none" => Terminal!repeat_last_char(s, n) = g[n])
  BY DEF Terminal!repeat_last_char, Terminal!Times, AgainOnce
<1> HIDE DEF g
<1>8. g[0] = s /\ \A i \in 1..n : g[i] = AgainOnce(g[i - 1], s.last)
  BY <1>6
<1>9. g[n] \in SoundOnes
  <2>1. \A i \in 1..n : g[i - 1] \in SoundOnes => g[i] \in SoundOnes
    BY <1>2, <1>8
  <2> HIDE DEF F
  <2> QED BY <1>1, <1>8, <2>1, Carried
<1> QED BY <1>7, <1>9 DEF SoundOnes, Terminal!repeat_last_char

-----------------------------------------------------------------------------
(* Erasing, inserting and deleting.                                        *)

(* A row some cells of which are blanked is as wide as before.             *)
LEMMA CellsKept ==
    ASSUME NEW row \in TextRows, NEW S
    PROVE  LET new == [row EXCEPT !.cells = [i \in DOMAIN row.cells |->
                          IF i \in S THEN Terminal!Blank ELSE row.cells[i]]]
           IN  new \in TextRows /\ Len(new.cells) = Len(row.cells)
<1> DEFINE cs == row.cells
           ds == [i \in DOMAIN cs |-> IF i \in S THEN Terminal!Blank ELSE cs[i]]
<1>1. cs \in Seq(Cells) /\ DOMAIN cs = 1..Len(cs) /\ Len(cs) \in Nat
      /\ \A i \in 1..Len(cs) : cs[i] \in Cells
  BY DEF TextRows
<1>2. Terminal!Blank \in Cells
  BY DEF Terminal!Blank, Cells
<1>3. ds \in [1..Len(cs) -> Cells]
  BY <1>1, <1>2
<1>4. ds \in Seq(Cells) /\ Len(ds) = Len(cs)
  BY <1>1, <1>3
<1> HIDE DEF ds
<1>5. [row EXCEPT !.cells = ds] \in TextRows /\ [row EXCEPT !.cells = ds].cells = ds
  BY <1>4 DEF TextRows
<1> QED BY <1>4, <1>5 DEF ds

LEMMA Clearing ==
    ASSUME NEW row \in TextRows, NEW c \in Int
    PROVE  /\ Terminal!clear_from(row, c) \in TextRows
           /\ Len(Terminal!clear_from(row, c).cells) = Len(row.cells)
           /\ Terminal!clear_to(row, c) \in TextRows
           /\ Len(Terminal!clear_to(row, c).cells) = Len(row.cells)
           /\ Terminal!clear(row) \in TextRows
           /\ Len(Terminal!clear(row).cells) = Len(row.cells)
<1> DEFINE cut(S) == [row EXCEPT !.cells = [i \in DOMAIN row.cells |->
                         IF i \in S THEN Terminal!Blank ELSE row.cells[i]]]
           A == {i \in Int : i > c}  B == {i \in Int : i <= c + 1}
<1>1. DOMAIN row.cells \subseteq Int
  BY DEF TextRows
<1>2. Terminal!clear_from(row, c) = cut(A)
  <2>1. \A i \in DOMAIN row.cells : i > c <=> i \in A
    BY <1>1
  <2> HIDE DEF A
  <2> QED BY <2>1 DEF Terminal!clear_from
<1>3. Terminal!clear_to(row, c) = cut(B)
  <2>1. \A i \in DOMAIN row.cells : i <= c + 1 <=> i \in B
    BY <1>1
  <2> HIDE DEF B
  <2> QED BY <2>1 DEF Terminal!clear_to
<1> HIDE DEF A, B
<1>4. cut(A) \in TextRows /\ Len(cut(A).cells) = Len(row.cells)
  BY CellsKept
<1>5. cut(B) \in TextRows /\ Len(cut(B).cells) = Len(row.cells)
  BY CellsKept
<1> HIDE DEF cut
<1> QED BY <1>2, <1>3, <1>4, <1>5, ClearedRow

(* Every row is replaced by one that is as wide.                           *)
LEMMA Mapped ==
    ASSUME NEW s, Sound(s), NEW g, g = [i \in DOMAIN s.grid |-> g[i]],
           \A i \in 1..Len(s.grid) : g[i] \in TextRows /\ Len(g[i].cells) = Len(s.grid[i].cells)
    PROVE  Sound([s EXCEPT !.grid = g]) /\ Alike([s EXCEPT !.grid = g], s)
<1>1. s.grid \in Seq(TextRows) /\ DOMAIN s.grid = 1..Len(s.grid) /\ Len(s.grid) \in Nat
  BY SoundSize, FieldsOf
<1>2. g \in [1..Len(s.grid) -> TextRows]
  BY <1>1
<1>3. g \in Seq(TextRows) /\ Len(g) = Len(s.grid)
  BY <1>1, <1>2
<1>4. Fitting(s.grid, Terminal!Size(s)) => Fitting(g, Terminal!Size(s))
  BY <1>3 DEF Fitting
<1> QED BY <1>3, <1>4, GridWritten

(* ED 3 drops the history: the tiers begin again.                          *)
LEMMA Forgetting ==
    ASSUME ScreenBounds, NEW s, Sound(s)
    PROVE  LET u == Terminal!ForgetHistory(s)
           IN  Sound(u) /\ Alike(u, s)
<1> DEFINE n == Len(s.grid)
           m == Terminal!Min2(n, s.rows)
           g == SubSeq(s.grid, n - m + 1, n)
           u == [s EXCEPT !.grid = g, !.cold = Terminal!NoBlocks, !.pending = Terminal!NoRows]
<1>1. s \in Terminals
  BY SoundSize
<1>2. /\ s.grid \in Seq(TextRows) /\ n \in Nat /\ DOMAIN s.grid = 1..n /\ s.rows \in Nat
      /\ Terminal!Size(s).rows = s.rows
  BY <1>1, FieldsOf, SoundSize
<1>3. m \in Nat /\ m <= n /\ m <= s.rows /\ (n >= s.rows => m = s.rows)
  BY <1>2 DEF Terminal!Min2
<1> HIDE DEF n, m
<1>4. /\ g \in Seq(TextRows) /\ Len(g) = m
      /\ \A i \in 1..m : n - m + i \in 1..n /\ g[i] = s.grid[n - m + i]
  BY <1>2, <1>3
<1>5. Terminal!NoBlocks \in Colds /\ Terminal!NoRows \in Pendings
      /\ Terminal!NoBlocks.total_rows = 0 /\ Len(Terminal!NoRows.body) = 0
      /\ Len(Terminal!NoBlocks.blocks) = 0
  BY DEF Terminal!NoBlocks, Terminal!NoRows, Colds, Pendings
<1>6. Counted(Terminal!NoBlocks, Terminal!NoRows)
  BY <1>5 DEF Counted, ScreenBounds
<1>7. Terminal!ForgetHistory(s) = u
  BY <1>1 DEF Terminal!ForgetHistory, n, m, Terminals
<1> HIDE DEF g
<1>8. u \in Terminals /\ u.grid = g /\ u.cold = Terminal!NoBlocks
      /\ u.pending = Terminal!NoRows /\ Alike(u, s)
  BY <1>1, <1>4, <1>5, Rescrolled
<1> HIDE DEF u
<1>9. ~s.stale => /\ Fitting(g, Terminal!Size(s))
                  /\ Tiered(g, Terminal!NoBlocks, Terminal!NoRows, Terminal!Size(s))
  <2>1. SUFFICES ASSUME ~s.stale
                 PROVE  /\ Fitting(g, Terminal!Size(s))
                        /\ Tiered(g, Terminal!NoBlocks, Terminal!NoRows, Terminal!Size(s))
    OBVIOUS
  <2>2. Fitting(s.grid, Terminal!Size(s))
    BY <2>1 DEF Sound, Whole
  <2>3. Len(g) = s.rows
    BY <2>2, <1>2, <1>3, <1>4 DEF Fitting, n
  <2>4. HotCap \in Nat /\ Limit \in Nat
    BY DEF ScreenBounds
  <2>5. Fitting(g, Terminal!Size(s))
    BY <2>2, <2>3, <1>2, <1>4 DEF Fitting, n
  <2>6. Tiered(g, Terminal!NoBlocks, Terminal!NoRows, Terminal!Size(s))
    BY <2>3, <2>4, <1>2, <1>5 DEF Tiered
  <2> QED BY <2>5, <2>6
<1>10. Sound(u)
  BY <1>6, <1>8, <1>9, Retiered DEF Alike
<1> QED BY <1>7, <1>8, <1>10

LEMMA Homing ==
    ASSUME NEW s, Sound(s)
    PROVE  Sound([Terminal!Unpark(s) EXCEPT !.cursor = Terminal!Home])
<1>1. s \in Terminals /\ Terminal!Size(s).cols = s.cols /\ Terminal!Size(s).rows = s.rows
  BY SoundSize
<1>2. s.cols \in Nat /\ s.cols >= 1 /\ s.rows \in Nat /\ s.rows >= 1
  BY <1>1, FieldsOf
<1>3. Terminal!Home \in Spots /\ Placed(Terminal!Home, FALSE, Terminal!Size(s))
  BY <1>1, <1>2 DEF Terminal!Home, Spots, Placed
<1>4. Sound([s EXCEPT !.cursor = Terminal!Home, !.parked = FALSE])
  BY <1>3, Put
<1>5. [Terminal!Unpark(s) EXCEPT !.cursor = Terminal!Home]
        = [s EXCEPT !.cursor = Terminal!Home, !.parked = FALSE]
  BY <1>1 DEF Terminal!Unpark, Terminals
<1> QED BY <1>4, <1>5

(* The rows of the screen from first to last are those of new.             *)
Erased(s, first, last, new) ==
    [s EXCEPT !.grid = [i \in DOMAIN s.grid |->
       IF i - Terminal!vis_idx(s, 0) \in first..last THEN new[i] ELSE s.grid[i]]]

LEMMA ErasedDown ==
    ASSUME NEW s, Sound(s), NEW first \in Int, NEW last \in Int,
           NEW Op, \A i \in 1..Len(s.grid) : /\ Op[i] \in TextRows
                                             /\ Len(Op[i].cells) = Len(s.grid[i].cells)
    PROVE  Sound(Erased(s, first, last, Op))
<1> DEFINE g == [i \in DOMAIN s.grid |->
                   IF i - Terminal!vis_idx(s, 0) \in first..last THEN Op[i] ELSE s.grid[i]]
<1>1. s.grid \in Seq(TextRows) /\ DOMAIN s.grid = 1..Len(s.grid)
  BY SoundSize, FieldsOf
<1>2. \A i \in 1..Len(s.grid) : g[i] \in TextRows /\ Len(g[i].cells) = Len(s.grid[i].cells)
  BY <1>1
<1>3. g = [i \in DOMAIN s.grid |-> g[i]]
  OBVIOUS
<1> HIDE DEF g
<1>4. Sound([s EXCEPT !.grid = g]) /\ Alike([s EXCEPT !.grid = g], s)
  BY <1>2, <1>3, Mapped
<1> QED BY <1>4 DEF g, Erased

(* ED, in each mode.                                                       *)
LEMMA ClearingScreen ==
    ASSUME ScreenBounds, NEW s, Sound(s), NEW mode \in 0..3
    PROVE  Sound(Terminal!clear_screen(s, mode))
<1> DEFINE cur == s.cursor
           at(i) == i - Terminal!vis_idx(s, 0)
           below == [i \in DOMAIN s.grid |-> IF at(i) = cur.row
                       THEN Terminal!clear_from(s.grid[i], cur.col)
                       ELSE Terminal!clear_from(s.grid[i], 0)]
           above == [i \in DOMAIN s.grid |-> IF at(i) = cur.row
                       THEN Terminal!clear_to(s.grid[i], cur.col)
                       ELSE Terminal!clear_to(s.grid[i], s.cols - 1)]
           whole == [i \in DOMAIN s.grid |-> Terminal!clear(s.grid[i])]
           reach == IF mode = 0 THEN cur.row < s.rows => Terminal!Readable(s)
                    ELSE IF mode = 1
                    THEN \A r \in 0..cur.row : Terminal!CanClearTo(s, r, IF r = cur.row
                                                 THEN cur.col ELSE s.cols - 1)
                    ELSE Terminal!OnGrid(s, 0)
<1>1. /\ s.grid \in Seq(TextRows) /\ DOMAIN s.grid = 1..Len(s.grid) /\ cur.row \in Nat
      /\ cur.col \in Nat /\ s.cols \in Nat /\ s.rows \in Nat /\ s.cols >= 1 /\ s.rows >= 1
      /\ s.stale \in BOOLEAN
  BY SoundSize, FieldsOf
<1>2. CASE ~reach
  <2>1. s.stale
    <3>1. SUFFICES ASSUME ~s.stale PROVE reach
      BY <1>2
    <3>2. cur.row < s.rows /\ cur.col < s.cols
      BY <3>1, SoundSize DEF Placed
    <3>3. Terminal!Readable(s)
      BY <3>1, Reading
    <3>4. \A r \in Nat : r < s.rows => /\ Terminal!OnGrid(s, r)
                                       /\ Len(s.grid[Terminal!vis_idx(s, r)].cells) = s.cols
      BY <3>1, Standing
    <3>5. \A r \in 0..cur.row : Terminal!CanClearTo(s, r, IF r = cur.row
                                                 THEN cur.col ELSE s.cols - 1)
      BY <3>2, <3>4, <1>1 DEF Terminal!CanClearTo
    <3> QED BY <3>3, <3>4, <3>5, <1>1
  <2>2. "cursor" \in Deaths
    BY DEF Deaths
  <2> HIDE DEF reach
  <2>3. Terminal!clear_screen(s, mode) = Terminal!Panic(s, "cursor")
    BY <1>2 DEF Terminal!clear_screen, reach
  <2> QED BY <2>1, <2>2, <2>3, Panicked
<1>3. CASE reach
  <2>1. \A i \in 1..Len(s.grid) : s.grid[i] \in TextRows
    BY <1>1
  <2>7. s.cols - 1 \in Int /\ 0 \in Int /\ cur.col \in Int
    BY <1>1
  <2>2. Sound(Erased(s, cur.row, s.rows - 1, below))
    <3>1. \A i \in 1..Len(s.grid) : /\ below[i] \in TextRows
                                    /\ Len(below[i].cells) = Len(s.grid[i].cells)
      <4> SUFFICES ASSUME NEW i \in 1..Len(s.grid)
                   PROVE  below[i] \in TextRows /\ Len(below[i].cells) = Len(s.grid[i].cells)
        OBVIOUS
      <4>1. below[i] = IF at(i) = cur.row THEN Terminal!clear_from(s.grid[i], cur.col)
                       ELSE Terminal!clear_from(s.grid[i], 0)
        BY <1>1
      <4> HIDE DEF below, at
      <4> QED BY <4>1, <2>1, <2>7, Clearing
    <3> HIDE DEF below
    <3> QED BY <3>1, <1>1, ErasedDown
  <2>3. Sound(Erased(s, 0, cur.row, above))
    <3>1. \A i \in 1..Len(s.grid) : /\ above[i] \in TextRows
                                    /\ Len(above[i].cells) = Len(s.grid[i].cells)
      <4> SUFFICES ASSUME NEW i \in 1..Len(s.grid)
                   PROVE  above[i] \in TextRows /\ Len(above[i].cells) = Len(s.grid[i].cells)
        OBVIOUS
      <4>1. above[i] = IF at(i) = cur.row THEN Terminal!clear_to(s.grid[i], cur.col)
                       ELSE Terminal!clear_to(s.grid[i], s.cols - 1)
        BY <1>1
      <4> HIDE DEF above, at
      <4> QED BY <4>1, <2>1, <2>7, Clearing
    <3> HIDE DEF above
    <3> QED BY <3>1, <1>1, ErasedDown
  <2>4. Sound(Erased(s, 0, s.rows - 1, whole))
    <3>1. \A i \in 1..Len(s.grid) : /\ whole[i] \in TextRows
                                    /\ Len(whole[i].cells) = Len(s.grid[i].cells)
      BY <2>1, <1>1, ClearedRow
    <3> HIDE DEF whole
    <3> QED BY <3>1, <1>1, ErasedDown
  <2> DEFINE u == IF mode = 0 THEN Erased(s, cur.row, s.rows - 1, below)
                  ELSE IF mode = 1 THEN Erased(s, 0, cur.row, above)
                  ELSE IF mode = 2
                  THEN [Terminal!Unpark(Erased(s, 0, s.rows - 1, whole)) EXCEPT !.cursor = Terminal!Home]
                  ELSE [Terminal!Unpark(Terminal!ForgetHistory(Erased(s, 0, s.rows - 1, whole)))
                          EXCEPT !.cursor = Terminal!Home]
  <2>5. Sound(u)
    <3>1. Sound(Terminal!ForgetHistory(Erased(s, 0, s.rows - 1, whole)))
      BY <2>4, Forgetting
    <3> QED BY <2>2, <2>3, <2>4, <3>1, Homing
  <2>6. Terminal!clear_screen(s, mode) = Terminal!moved(Terminal!mark_all(u))
    BY <1>3 DEF Terminal!clear_screen, Terminal!OnRows, Erased
  <2> HIDE DEF u
  <2> QED BY <2>5, <2>6, Marking
<1> QED BY <1>2, <1>3

(* EL, in each mode.                                                       *)
LEMMA ClearingLine ==
    ASSUME ScreenBounds, NEW s, Sound(s), NEW mode \in 0..2
    PROVE  Sound(Terminal!clear_line(s, mode))
<1> DEFINE cur == s.cursor
           erase == [i \in DOMAIN s.grid |->
                       IF mode = 0 THEN Terminal!clear_from(s.grid[i], cur.col)
                       ELSE IF mode = 1 THEN Terminal!clear_to(s.grid[i], cur.col)
                       ELSE Terminal!clear(s.grid[i])]
           u == Erased(s, cur.row, cur.row, erase)
           reach == Terminal!Readable(s) /\ (mode = 1 => Terminal!CanClearTo(s, cur.row, cur.col))
<1>1. /\ s.grid \in Seq(TextRows) /\ DOMAIN s.grid = 1..Len(s.grid) /\ cur.row \in Nat
      /\ cur.col \in Nat /\ s.cols \in Nat
  BY SoundSize, FieldsOf
<1>2. CASE ~reach
  <2>1. s.stale
    <3>1. SUFFICES ASSUME ~s.stale PROVE reach
      BY <1>2, SoundSize, FieldsOf
    <3>2. cur.row < s.rows /\ cur.col < s.cols
      BY <3>1, SoundSize DEF Placed
    <3>3. Terminal!CanClearTo(s, cur.row, cur.col)
      BY <3>1, <3>2, <1>1, Standing DEF Terminal!CanClearTo
    <3> QED BY <3>1, <3>3, Reading
  <2>2. "cursor" \in Deaths
    BY DEF Deaths
  <2>3. Terminal!clear_line(s, mode) = Terminal!Panic(s, "cursor")
    BY <1>2 DEF Terminal!clear_line
  <2> QED BY <2>1, <2>2, <2>3, Panicked
<1>3. CASE reach
  <2>1. \A i \in 1..Len(s.grid) : s.grid[i] \in TextRows
    BY <1>1
  <2>2. \A i \in 1..Len(s.grid) : /\ erase[i] \in TextRows
                                  /\ Len(erase[i].cells) = Len(s.grid[i].cells)
    <3> SUFFICES ASSUME NEW i \in 1..Len(s.grid)
                 PROVE  erase[i] \in TextRows /\ Len(erase[i].cells) = Len(s.grid[i].cells)
      OBVIOUS
    <3>1. erase[i] = IF mode = 0 THEN Terminal!clear_from(s.grid[i], cur.col)
                     ELSE IF mode = 1 THEN Terminal!clear_to(s.grid[i], cur.col)
                     ELSE Terminal!clear(s.grid[i])
      BY <1>1
    <3>2. cur.col \in Int
      BY <1>1
    <3> HIDE DEF erase
    <3> QED BY <3>1, <3>2, <2>1, Clearing
  <2>3. Terminal!clear_line(s, mode) = Terminal!mark_row(u, cur.row)
    BY <1>3 DEF Terminal!clear_line, Terminal!OnRows, Erased
  <2> HIDE DEF erase
  <2>4. Sound(u)
    BY <2>2, <1>1, ErasedDown
  <2> HIDE DEF u
  <2> QED BY <2>3, <2>4, <1>1, Marking
<1> QED BY <1>2, <1>3

Wide(g, cols) == \A i \in 1..Len(g) : Len(g[i].cells) = cols

(* Lists of rows of one width, joined and cut.                             *)
LEMMA Joined ==
    ASSUME NEW a \in Seq(TextRows), NEW b \in Seq(TextRows)
    PROVE  /\ a \o b \in Seq(TextRows) /\ Len(a \o b) = Len(a) + Len(b)
           /\ \A cols : Wide(a, cols) /\ Wide(b, cols) => Wide(a \o b, cols)
<1>1. /\ Len(a) \in Nat /\ Len(b) \in Nat /\ a \o b \in Seq(TextRows)
      /\ Len(a \o b) = Len(a) + Len(b)
      /\ \A i \in 1..(Len(a) + Len(b)) : (a \o b)[i] = IF i <= Len(a) THEN a[i] ELSE b[i - Len(a)]
  OBVIOUS
<1> DEFINE g == a \o b
<1> HIDE DEF g
<1>2. ASSUME NEW cols, Wide(a, cols), Wide(b, cols), NEW i \in 1..Len(g)
      PROVE  Len(g[i].cells) = cols
  <2>1. CASE i <= Len(a)
    <3>1. i \in 1..Len(a) /\ g[i] = a[i]
      BY <2>1, <1>1 DEF g
    <3> QED BY <3>1, <1>2 DEF Wide
  <2>2. CASE ~(i <= Len(a))
    <3>1. i - Len(a) \in 1..Len(b) /\ g[i] = b[i - Len(a)]
      BY <2>2, <1>1 DEF g
    <3> QED BY <3>1, <1>2 DEF Wide
  <2> QED BY <2>1, <2>2
<1> QED BY <1>1, <1>2 DEF g, Wide

LEMMA Cut ==
    ASSUME NEW a \in Seq(TextRows), NEW m \in Nat, m >= 1, NEW n \in Int, n <= Len(a)
    PROVE  /\ SubSeq(a, m, n) \in Seq(TextRows)
           /\ m <= n + 1 => Len(SubSeq(a, m, n)) = n - m + 1
           /\ \A cols : Wide(a, cols) => Wide(SubSeq(a, m, n), cols)
<1> DEFINE g == SubSeq(a, m, n)
<1>1. Len(a) \in Nat
  OBVIOUS
<1>2. /\ g \in Seq(TextRows) /\ Len(g) = (IF m <= n THEN n - m + 1 ELSE 0)
      /\ \A i \in 1..Len(g) : g[i] = a[m + i - 1]
  BY <1>1
<1> HIDE DEF g
<1>3. \A i \in 1..Len(g) : m + i - 1 \in 1..Len(a)
  BY <1>1, <1>2
<1> QED BY <1>2, <1>3 DEF g, Wide

LEMMA Blanked ==
    ASSUME NEW row \in TextRows, NEW k \in Nat
    PROVE  /\ Terminal!Blanks(k, row) \in Seq(TextRows) /\ Len(Terminal!Blanks(k, row)) = k
           /\ \A cols : Len(row.cells) = cols => Wide(Terminal!Blanks(k, row), cols)
<1>1. Terminal!clear(row) \in TextRows /\ Len(Terminal!clear(row).cells) = Len(row.cells)
  BY ClearedRow
<1> DEFINE x == Terminal!clear(row)
           g == [i \in 1..k |-> x]
<1> HIDE DEF x
<1>2. g \in [1..k -> TextRows] /\ \A i \in 1..k : g[i] = x
  BY <1>1 DEF x
<1>3. g \in Seq(TextRows) /\ Len(g) = k
  BY <1>2
<1>4. Terminal!Blanks(k, row) = g
  BY DEF Terminal!Blanks, x
<1> HIDE DEF g
<1> QED BY <1>1, <1>2, <1>3, <1>4 DEF Wide, x

(* Rows are replaced by as many as there were, each as wide.               *)
LEMMA Regrouped ==
    ASSUME NEW s, Sound(s), NEW g \in Seq(TextRows),
           ~s.stale => Len(g) = Len(s.grid) /\ (Wide(s.grid, s.cols) => Wide(g, s.cols))
    PROVE  Sound(Terminal!mark_all([s EXCEPT !.grid = g]))
<1> DEFINE u == [s EXCEPT !.grid = g, !.cold = s.cold, !.pending = s.pending]
<1>1. s \in Terminals /\ Terminal!Size(s).cols = s.cols
  BY SoundSize
<1>2. s.cold \in Colds /\ s.pending \in Pendings
  BY <1>1, FieldsOf
<1>3. u \in Terminals /\ u.grid = g /\ u.cold = s.cold /\ u.pending = s.pending /\ Alike(u, s)
  BY <1>1, <1>2, Rescrolled
<1>4. [s EXCEPT !.grid = g] = u
  BY <1>1 DEF Terminals
<1> HIDE DEF u
<1>5. ~s.stale => Fitting(g, Terminal!Size(s)) /\ Tiered(g, s.cold, s.pending, Terminal!Size(s))
  BY <1>1 DEF Sound, Whole, Tiered, Fitting, Wide
<1>6. Counted(s.cold, s.pending)
  BY DEF Sound
<1>7. Sound(u)
  BY <1>3, <1>5, <1>6, Retiered DEF Alike
<1> QED BY <1>4, <1>7, Marking

(* IL: as many blank rows as fall off the bottom.                          *)
LEMMA InsertingLines ==
    ASSUME ScreenBounds, NEW s, Sound(s), NEW n \in Nat
    PROVE  Sound(Terminal!insert_lines(s, n))
<1> DEFINE at == Terminal!vis_idx(s, s.cursor.row)
           len == Len(s.grid)
           above == SubSeq(s.grid, 1, at - 1)
           below == SubSeq(s.grid, at, len)
           k == Terminal!Upto(n, below)
           row == Terminal!Last(s.grid)
           blanks == Terminal!Blanks(k, row)
           rest == SubSeq(below, 1, Len(below) - k)
           g == above \o blanks \o rest
<1>1. s.grid \in Seq(TextRows) /\ DOMAIN s.grid = 1..len /\ len \in Nat
  BY SoundSize, FieldsOf
<1>2. CASE ~Terminal!OnGrid(s, s.cursor.row)
  BY <1>2, PanickedAtCursor DEF Terminal!insert_lines
<1>3. CASE Terminal!OnGrid(s, s.cursor.row)
  <2>1. at \in 1..len
    BY <1>1, <1>3 DEF Terminal!OnGrid
  <2>2. row \in TextRows /\ \A cols : Wide(s.grid, cols) => Len(row.cells) = cols
    BY <1>1, <2>1 DEF Terminal!Last, Wide
  <2>3. Terminal!insert_lines(s, n) = Terminal!mark_all([s EXCEPT !.grid = g])
    BY <1>3 DEF Terminal!insert_lines
  <2> HIDE DEF at, row
  <2>4. above \in Seq(TextRows) /\ Len(above) = at - 1
        /\ \A cols : Wide(s.grid, cols) => Wide(above, cols)
    <3>1. 1 \in Nat /\ at - 1 \in Int /\ at - 1 <= len /\ at - 1 >= 0
      BY <2>1, <1>1
    <3> HIDE DEF above
    <3>2. /\ above \in Seq(TextRows)
          /\ 1 <= at - 1 + 1 => Len(above) = at - 1 - 1 + 1
          /\ \A cols : Wide(s.grid, cols) => Wide(above, cols)
      BY <3>1, <1>1, Cut DEF above
    <3> QED BY <3>1, <3>2
  <2>5. below \in Seq(TextRows) /\ Len(below) = len - at + 1
        /\ \A cols : Wide(s.grid, cols) => Wide(below, cols)
    <3>1. at \in Nat /\ at >= 1 /\ len \in Int /\ len <= Len(s.grid) /\ at <= len
      BY <2>1, <1>1
    <3> QED BY <3>1, <1>1, Cut
  <2> HIDE DEF above, below
  <2>6. k \in Nat /\ k <= Len(below) /\ Len(below) \in Nat
    BY <2>1, <2>5, <1>1 DEF Terminal!Upto, Terminal!Min2
  <2> HIDE DEF k
  <2>7. blanks \in Seq(TextRows) /\ Len(blanks) = k
        /\ \A cols : Wide(s.grid, cols) => Wide(blanks, cols)
    BY <2>2, <2>6, Blanked
  <2>8. rest \in Seq(TextRows) /\ Len(rest) = Len(below) - k
        /\ \A cols : Wide(s.grid, cols) => Wide(rest, cols)
    <3>1. 1 \in Nat /\ Len(below) - k \in Int /\ Len(below) - k <= Len(below) /\ Len(below) - k >= 0
      BY <2>6
    <3> HIDE DEF rest
    <3>2. /\ rest \in Seq(TextRows)
          /\ 1 <= Len(below) - k + 1 => Len(rest) = Len(below) - k - 1 + 1
          /\ \A cols : Wide(below, cols) => Wide(rest, cols)
      BY <3>1, <2>5, Cut DEF rest
    <3> QED BY <3>1, <3>2, <2>5
  <2> HIDE DEF blanks, rest
  <2>9. /\ above \o blanks \in Seq(TextRows) /\ Len(above \o blanks) = at - 1 + k
        /\ \A cols : Wide(s.grid, cols) => Wide(above \o blanks, cols)
    BY <2>4, <2>7, Joined
  <2>10. /\ g \in Seq(TextRows) /\ Len(g) = at - 1 + k + (Len(below) - k)
         /\ \A cols : Wide(s.grid, cols) => Wide(g, cols)
    BY <2>9, <2>8, Joined
  <2> HIDE DEF g
  <2>11. Len(g) = len
    BY <2>1, <2>5, <2>6, <2>10, <1>1
  <2> QED BY <2>3, <2>10, <2>11, Regrouped
<1> QED BY <1>2, <1>3

(* DL: as many blank rows as were taken out.                               *)
LEMMA DeletingLines ==
    ASSUME ScreenBounds, NEW s, Sound(s), NEW n \in Nat
    PROVE  Sound(Terminal!delete_lines(s, n))
<1> DEFINE at == Terminal!vis_idx(s, s.cursor.row)
           len == Len(s.grid)
           k == Terminal!Min2(n, s.rows - s.cursor.row)
           above == SubSeq(s.grid, 1, at - 1)
           rest == SubSeq(s.grid, at + k, len)
           row == s.grid[at]
           blanks == Terminal!Blanks(k, row)
           g == above \o rest \o blanks
<1>1. /\ s.grid \in Seq(TextRows) /\ DOMAIN s.grid = 1..len /\ len \in Nat
      /\ s.rows \in Nat /\ s.cursor.row \in Nat
  BY SoundSize, FieldsOf
<1>2. CASE ~Terminal!OnGrid(s, s.cursor.row)
  BY <1>2, PanickedAtCursor DEF Terminal!delete_lines
<1>3. CASE Terminal!OnGrid(s, s.cursor.row)
  <2>1. at \in 1..len /\ at = len - s.rows + s.cursor.row + 1
    BY <1>1, <1>3 DEF Terminal!OnGrid, Terminal!vis_idx
  <2>2. row \in TextRows /\ \A cols : Wide(s.grid, cols) => Len(row.cells) = cols
    BY <1>1, <2>1 DEF Wide
  <2>3. Terminal!delete_lines(s, n) = Terminal!mark_all([s EXCEPT !.grid = g])
    BY <1>3 DEF Terminal!delete_lines
  <2> HIDE DEF at, row
  <2>4. above \in Seq(TextRows) /\ Len(above) = at - 1
        /\ \A cols : Wide(s.grid, cols) => Wide(above, cols)
    <3>1. 1 \in Nat /\ at - 1 \in Int /\ at - 1 <= len /\ at - 1 >= 0
      BY <2>1, <1>1
    <3> HIDE DEF above
    <3>2. /\ above \in Seq(TextRows)
          /\ 1 <= at - 1 + 1 => Len(above) = at - 1 - 1 + 1
          /\ \A cols : Wide(s.grid, cols) => Wide(above, cols)
      BY <3>1, <1>1, Cut DEF above
    <3> QED BY <3>1, <3>2
  <2>5. k \in Nat /\ at + k - 1 <= len
    BY <2>1, <1>1 DEF Terminal!Min2
  <2> HIDE DEF k, above
  <2>6. rest \in Seq(TextRows) /\ Len(rest) = len - at - k + 1
        /\ \A cols : Wide(s.grid, cols) => Wide(rest, cols)
    <3>1. at + k \in Nat /\ at + k >= 1 /\ len \in Int /\ len <= Len(s.grid)
      BY <2>1, <2>5, <1>1
    <3> HIDE DEF rest
    <3>2. /\ rest \in Seq(TextRows)
          /\ at + k <= len + 1 => Len(rest) = len - (at + k) + 1
          /\ \A cols : Wide(s.grid, cols) => Wide(rest, cols)
      BY <3>1, <1>1, Cut DEF rest
    <3>3. at + k <= len + 1 /\ len - (at + k) + 1 = len - at - k + 1
      BY <2>1, <2>5, <1>1
    <3> HIDE DEF len
    <3> QED BY <3>2, <3>3
  <2>7. blanks \in Seq(TextRows) /\ Len(blanks) = k
        /\ \A cols : Wide(s.grid, cols) => Wide(blanks, cols)
    BY <2>2, <2>5, Blanked
  <2> HIDE DEF blanks, rest
  <2>8. /\ above \o rest \in Seq(TextRows) /\ Len(above \o rest) = at - 1 + (len - at - k + 1)
        /\ \A cols : Wide(s.grid, cols) => Wide(above \o rest, cols)
    BY <2>4, <2>6, Joined
  <2>9. /\ g \in Seq(TextRows) /\ Len(g) = at - 1 + (len - at - k + 1) + k
        /\ \A cols : Wide(s.grid, cols) => Wide(g, cols)
    BY <2>8, <2>7, Joined
  <2> HIDE DEF g
  <2>10. Len(g) = len
    BY <2>1, <2>5, <2>9, <1>1
  <2> QED BY <2>3, <2>9, <2>10, Regrouped
<1> QED BY <1>2, <1>3

LEMMA CellsSet ==
    ASSUME NEW s, Sound(s), Terminal!OnGrid(s, s.cursor.row), NEW cells \in Seq(Cells),
           Len(cells) = Len(Terminal!CursorRow(s).cells)
    PROVE  Sound(Terminal!SetCells(s, cells))
<1> DEFINE k == Terminal!vis_idx(s, s.cursor.row)
           row == [s.grid[k] EXCEPT !.cells = cells]
           g == [s.grid EXCEPT ![k] = row]
<1>1. /\ s.grid \in Seq(TextRows) /\ DOMAIN s.grid = 1..Len(s.grid) /\ s.cursor.row \in Nat
  BY SoundSize, FieldsOf
<1>2. k \in 1..Len(s.grid) /\ s.grid[k] \in TextRows
  BY <1>1 DEF Terminal!OnGrid
<1>3. row \in TextRows /\ Len(row.cells) = Len(s.grid[k].cells)
  BY <1>2 DEF TextRows, Terminal!CursorRow
<1> HIDE DEF row
<1>4. g \in Seq(TextRows) /\ Len(g) = Len(s.grid)
      /\ (Fitting(s.grid, Terminal!Size(s)) => Fitting(g, Terminal!Size(s)))
  BY <1>1, <1>3, RowSet
<1>5. Terminal!SetCells(s, cells) = Terminal!mark_row([s EXCEPT !.grid = g], s.cursor.row)
  BY DEF Terminal!SetCells, row
<1> HIDE DEF g
<1>6. Sound([s EXCEPT !.grid = g])
  BY <1>4, GridWritten
<1> QED BY <1>1, <1>5, <1>6, Marking

LEMMA CellsCut ==
    ASSUME NEW a \in Seq(Cells), NEW m \in Nat, m >= 1, NEW n \in Int, n <= Len(a), m <= n + 1
    PROVE  SubSeq(a, m, n) \in Seq(Cells) /\ Len(SubSeq(a, m, n)) = n - m + 1
<1>1. Len(a) \in Nat
  OBVIOUS
<1> QED BY <1>1

LEMMA CellsJoined ==
    ASSUME NEW a \in Seq(Cells), NEW b \in Seq(Cells), NEW c \in Seq(Cells)
    PROVE  /\ a \o b \o c \in Seq(Cells)
           /\ Len(a \o b \o c) = Len(a) + Len(b) + Len(c)
OBVIOUS

LEMMA NoCellsSound ==
    ASSUME NEW n \in Nat
    PROVE  Terminal!NoCells(n) \in Seq(Cells) /\ Len(Terminal!NoCells(n)) = n
<1>1. Terminal!Blank \in Cells
  BY DEF Terminal!Blank, Cells
<1> QED BY <1>1 DEF Terminal!NoCells

(* ICH and DCH: the row stays as wide.                                     *)
LEMMA ShiftingChars ==
    ASSUME NEW s, Sound(s), NEW n \in Nat
    PROVE  Sound(Terminal!insert_chars(s, n)) /\ Sound(Terminal!delete_chars(s, n))
<1> DEFINE cells == Terminal!CursorRow(s).cells
           len == Len(cells)
           col == s.cursor.col
           left == SubSeq(cells, 1, col)
           right == SubSeq(cells, col + 1, len)
           k == Terminal!Upto(n, right)
           wider == left \o Terminal!NoCells(n) \o SubSeq(right, 1, Len(right) - n)
           narrower == left \o SubSeq(right, k + 1, Len(right)) \o Terminal!NoCells(k)
<1>1. /\ s.grid \in Seq(TextRows) /\ DOMAIN s.grid = 1..Len(s.grid) /\ s.cursor.row \in Nat
      /\ col \in Nat
  BY SoundSize, FieldsOf
<1>2. CASE ~Terminal!OnGrid(s, s.cursor.row)
  BY <1>2, PanickedAtCursor DEF Terminal!insert_chars, Terminal!delete_chars
<1>3. CASE Terminal!OnGrid(s, s.cursor.row) /\ col >= len
  <2>1. Sound(Terminal!mark_row(s, s.cursor.row))
    BY <1>1, Marking
  <2> QED BY <1>3, <2>1 DEF Terminal!insert_chars, Terminal!delete_chars
<1>4. CASE Terminal!OnGrid(s, s.cursor.row) /\ ~(col >= len)
  <2>1. Terminal!CursorRow(s) \in TextRows
    BY <1>1, <1>4 DEF Terminal!OnGrid, Terminal!CursorRow
  <2>2. cells \in Seq(Cells) /\ len \in Nat
    BY <2>1 DEF TextRows
  <2> DEFINE wide == Terminal!insert_chars(s, n)  narrow == Terminal!delete_chars(s, n)
  <2>3. wide = (IF n > Len(right) THEN Terminal!Panic(s, "insert") ELSE Terminal!SetCells(s, wider))
    BY <1>4 DEF Terminal!insert_chars
  <2>4. narrow = Terminal!SetCells(s, narrower)
    BY <1>4 DEF Terminal!delete_chars
  <2> HIDE DEF cells
  <2>5. left \in Seq(Cells) /\ Len(left) = col
    <3>1. 1 \in Nat /\ col \in Int /\ col <= Len(cells) /\ 1 <= col + 1
      BY <1>1, <1>4, <2>2
    <3> HIDE DEF left
    <3>2. left \in Seq(Cells) /\ Len(left) = col - 1 + 1
      BY <3>1, <2>2, CellsCut DEF left
    <3> QED BY <3>1, <3>2
  <2>6. right \in Seq(Cells) /\ Len(right) = len - col
    <3>1. col + 1 \in Nat /\ col + 1 >= 1 /\ len \in Int /\ len <= Len(cells) /\ col + 1 <= len + 1
      BY <1>1, <1>4, <2>2
    <3> HIDE DEF right
    <3>2. right \in Seq(Cells) /\ Len(right) = len - (col + 1) + 1
      BY <3>1, <2>2, CellsCut DEF right
    <3>3. len - (col + 1) + 1 = len - col
      BY <1>1, <2>2
    <3> HIDE DEF len, col
    <3> QED BY <3>2, <3>3
  <2> HIDE DEF left, right, len, col
  <2>7. Sound(Terminal!Panic(s, "insert"))
    <3>1. "insert" \in Deaths
      BY DEF Deaths
    <3> QED BY <3>1, Panicked
  <2> DEFINE rest == SubSeq(right, 1, Len(right) - n)  kept == SubSeq(right, k + 1, Len(right))
  <2>8. ASSUME ~(n > Len(right)) PROVE Sound(Terminal!SetCells(s, wider))
    <3>1. rest \in Seq(Cells) /\ Len(rest) = Len(right) - n
      <4>1. 1 \in Nat /\ Len(right) - n \in Int /\ Len(right) - n <= Len(right) /\ 1 <= Len(right) - n + 1
        BY <2>6, <2>8, <1>1, <2>2
      <4> HIDE DEF rest
      <4>2. rest \in Seq(Cells) /\ Len(rest) = Len(right) - n - 1 + 1
        BY <4>1, <2>6, CellsCut DEF rest
      <4> QED BY <4>1, <4>2
    <3> DEFINE none == Terminal!NoCells(n)
    <3>2. none \in Seq(Cells) /\ Len(none) = n
      BY NoCellsSound
    <3> HIDE DEF rest, none
    <3>3. /\ left \o none \o rest \in Seq(Cells)
          /\ Len(left \o none \o rest) = Len(left) + Len(none) + Len(rest)
      BY <2>5, <3>1, <3>2, CellsJoined
    <3>4. Len(left) + Len(none) + Len(rest) = len
      BY <2>5, <2>6, <3>1, <3>2, <1>1, <2>2
    <3>5. wider = left \o none \o rest
      BY DEF none, rest
    <3> HIDE DEF wider
    <3> QED BY <3>3, <3>4, <3>5, <1>4, CellsSet DEF len, cells
  <2>9. Sound(Terminal!SetCells(s, narrower))
    <3>1. k \in Nat /\ k <= Len(right) /\ Len(right) \in Nat
      BY <2>6, <1>1, <2>2 DEF Terminal!Upto, Terminal!Min2
    <3> HIDE DEF k
    <3>2. kept \in Seq(Cells) /\ Len(kept) = Len(right) - k
      <4>1. k + 1 \in Nat /\ k + 1 >= 1 /\ Len(right) \in Int /\ Len(right) <= Len(right)
            /\ k + 1 <= Len(right) + 1
        BY <3>1
      <4> HIDE DEF kept
      <4>2. kept \in Seq(Cells) /\ Len(kept) = Len(right) - (k + 1) + 1
        BY <4>1, <2>6, CellsCut DEF kept
      <4> QED BY <4>2, <3>1
    <3> DEFINE none == Terminal!NoCells(k)
    <3>3. none \in Seq(Cells) /\ Len(none) = k
      BY <3>1, NoCellsSound
    <3> HIDE DEF kept, none
    <3>4. /\ left \o kept \o none \in Seq(Cells)
          /\ Len(left \o kept \o none) = Len(left) + Len(kept) + Len(none)
      BY <2>5, <3>2, <3>3, CellsJoined
    <3>5. Len(left) + Len(kept) + Len(none) = len
      BY <2>5, <2>6, <3>1, <3>2, <3>3, <1>1, <2>2
    <3>6. narrower = left \o kept \o none
      BY DEF none, kept
    <3> HIDE DEF narrower
    <3> QED BY <3>4, <3>5, <3>6, <1>4, CellsSet DEF len, cells
  <2> HIDE DEF wider, narrower
  <2> QED BY <2>3, <2>4, <2>7, <2>8, <2>9 DEF wide, narrow
<1> QED BY <1>2, <1>3, <1>4

-----------------------------------------------------------------------------
(* What is saved and brought back.                                         *)

LEMMA NotNone ==
    ASSUME NEW s \in Terminals
    PROVE  Terminal!Size(s) \in Dims /\ Terminal!Size(s) # Terminal!None
<1>1. DOMAIN Terminal!Size(s) = {"cols", "rows"} /\ DOMAIN Terminal!None = {"none"}
  BY DEF Terminal!Size, Terminal!None
<1>2. "cols" \notin {"none"}
  OBVIOUS
<1>3. Terminal!Size(s) \in Dims
  BY DEF Terminal!Size, Dims, Terminals
<1> QED BY <1>1, <1>2, <1>3

(* The cursor is saved with the size of its screen.                        *)
LEMMA Saving ==
    ASSUME NEW s, Sound(s)
    PROVE  Sound(Terminal!save_cursor(s))
<1> DEFINE v == [cursor |-> s.cursor, parked |-> s.parked, wrap |-> s.wrap,
                 size |-> Terminal!SizeIfSound(s)]
           u == [s EXCEPT !.saved = v]
<1>1. s \in Terminals /\ (~s.stale => Placed(s.cursor, s.parked, Terminal!Size(s)))
  BY SoundSize
<1>2. s.cursor \in Spots /\ s.parked \in BOOLEAN /\ s.wrap \in BOOLEAN
  BY <1>1, FieldsOf
<1>3. Terminal!SizeIfSound(s) \in SizesOrNone
  BY <1>1, NotNone DEF Terminal!SizeIfSound, SizesOrNone
<1>4. v \in SavedCursors
  BY <1>2, <1>3 DEF SavedCursors
<1>5. SavedWell(v)
  BY <1>1 DEF SavedWell, Terminal!SizeIfSound
<1> HIDE DEF v
<1>6. /\ u \in Terminals /\ u.saved = v
      /\ u.cols = s.cols /\ u.rows = s.rows /\ u.cold = s.cold /\ u.pending = s.pending
      /\ u.alt = s.alt /\ u.selection = s.selection /\ u.dirty = s.dirty
      /\ u.stale = s.stale /\ u.grid = s.grid /\ u.dead = s.dead
      /\ u.cursor = s.cursor /\ u.parked = s.parked
  BY <1>1, <1>4 DEF Terminals
<1> HIDE DEF u
<1>7. Terminal!Size(u) = Terminal!Size(s)
  BY <1>6 DEF Terminal!Size
<1>8. Sound(u)
  BY <1>5, <1>6, <1>7 DEF Sound, Whole, Chosen, Terminal!OnScreen
<1> QED BY <1>8 DEF Terminal!save_cursor, u, v

(* It comes back: at another size it makes the geometry stale.             *)
LEMMA Restoring ==
    ASSUME NEW s, Sound(s)
    PROVE  Sound(Terminal!restore_cursor(s))
<1> DEFINE v == s.saved
           b == s.stale \/ v.size # Terminal!Size(s)
           u == [s EXCEPT !.cursor = v.cursor, !.parked = v.parked, !.wrap = v.wrap, !.stale = b]
<1>1. s \in Terminals /\ SavedWell(v) /\ Terminal!Size(s) # Terminal!None
  BY SoundSize, NotNone DEF Sound
<1>2. v.cursor \in Spots /\ v.parked \in BOOLEAN /\ v.wrap \in BOOLEAN /\ b \in BOOLEAN
  BY <1>1, FieldsOf DEF SavedCursors
<1> HIDE DEF b
<1>3. /\ u \in Terminals /\ u.saved = s.saved
      /\ u.cols = s.cols /\ u.rows = s.rows /\ u.cold = s.cold /\ u.pending = s.pending
      /\ u.alt = s.alt /\ u.selection = s.selection /\ u.dirty = s.dirty
      /\ u.stale = b /\ u.grid = s.grid /\ u.dead = s.dead
      /\ u.cursor = v.cursor /\ u.parked = v.parked
  BY <1>1, <1>2 DEF Terminals
<1>4. Terminal!restore_cursor(s) = Terminal!moved(u)
  BY DEF Terminal!restore_cursor, b
<1> HIDE DEF u
<1>5. Terminal!Size(u) = Terminal!Size(s)
  BY <1>3 DEF Terminal!Size
<1>6. ~b => ~s.stale /\ Placed(v.cursor, v.parked, Terminal!Size(s))
  BY <1>1 DEF SavedWell, b
<1>7. Sound(u)
  BY <1>3, <1>5, <1>6 DEF Sound, Whole, Chosen, Terminal!OnScreen
<1> QED BY <1>4, <1>7, Marking

(* A new grid fits its screen and has no history.                          *)
LEMMA Fresh ==
    ASSUME ScreenBounds, NEW s \in Terminals
    PROVE  LET g == Terminal!new(Terminal!Size(s)).grid
           IN  /\ g \in Seq(TextRows) /\ Fitting(g, Terminal!Size(s))
               /\ Tiered(g, Terminal!NoBlocks, Terminal!NoRows, Terminal!Size(s))
<1> DEFINE row == Terminal!NewRow(s.cols)
           g == [r \in 1..s.rows |-> row]
<1>1. s.cols \in Nat /\ s.rows \in Nat /\ Terminal!Size(s).cols = s.cols
      /\ Terminal!Size(s).rows = s.rows /\ HotCap \in Nat /\ Limit \in Nat
  BY FieldsOf DEF Terminal!Size, ScreenBounds
<1>2. row \in TextRows /\ Len(row.cells) = s.cols
  BY <1>1, BlankRow
<1>3. Terminal!new(Terminal!Size(s)).grid = g
  BY <1>1 DEF Terminal!new
<1> HIDE DEF row
<1>4. g \in Seq(TextRows) /\ Len(g) = s.rows /\ \A i \in 1..s.rows : g[i] = row
  BY <1>1, <1>2
<1> HIDE DEF g
<1>5. Fitting(g, Terminal!Size(s))
  BY <1>1, <1>2, <1>4 DEF Fitting
<1>6. Terminal!NoBlocks.total_rows = 0 /\ Len(Terminal!NoRows.body) = 0
  BY DEF Terminal!NoBlocks, Terminal!NoRows
<1>7. Tiered(g, Terminal!NoBlocks, Terminal!NoRows, Terminal!Size(s))
  BY <1>1, <1>4, <1>6 DEF Tiered
<1> QED BY <1>3, <1>4, <1>5, <1>7

(* The alternate screen is entered with a new grid and left with the one   *)
(* put aside, which another size makes stale.                              *)
LEMMA Alternating ==
    ASSUME ScreenBounds, NEW s, Sound(s), s.dead = "no", NEW on \in BOOLEAN
    PROVE  Sound(Terminal!set_alt_screen(s, on))
<1>1. s \in Terminals /\ Terminal!Size(s) # Terminal!None
      /\ Terminal!Size(s).cols = s.cols /\ Terminal!Size(s).rows = s.rows
  BY SoundSize, NotNone
<1>2. /\ s.grid \in Seq(TextRows) /\ s.cold \in Colds /\ s.pending \in Pendings
      /\ s.cursor \in Spots /\ s.saved \in SavedCursors /\ s.parked \in BOOLEAN
      /\ s.alt \in Aside \cup {Terminal!None} /\ s.cols >= 1 /\ s.rows >= 1
      /\ s.cols \in Nat /\ s.rows \in Nat
  BY <1>1, FieldsOf
<1>3. CASE on = (s.alt # Terminal!None)
  BY <1>3 DEF Terminal!set_alt_screen
<1>4. CASE on /\ s.alt = Terminal!None
  <2> DEFINE a == [grid |-> s.grid, cold |-> s.cold, pending |-> s.pending,
                   cursor |-> s.cursor, saved |-> s.saved, parked |-> s.parked,
                   size |-> Terminal!SizeIfSound(s)]
             g == Terminal!new(Terminal!Size(s)).grid
             u == [s EXCEPT !.alt = a, !.grid = g, !.cold = Terminal!NoBlocks,
                            !.pending = Terminal!NoRows, !.cursor = Terminal!Home,
                            !.parked = FALSE, !.stale = FALSE]
  <2>1. a \in Aside /\ AsideWell(a)
    <3>1. Terminal!SizeIfSound(s) \in SizesOrNone
      BY <1>1, NotNone DEF Terminal!SizeIfSound, SizesOrNone
    <3>2. a \in Aside
      BY <3>1, <1>2 DEF Aside
    <3>3. Counted(s.cold, s.pending) /\ SavedWell(s.saved) /\ (~s.stale => Whole(s))
      BY DEF Sound
    <3>4. Terminal!SizeIfSound(s) # Terminal!None
            => ~s.stale /\ Terminal!SizeIfSound(s) = Terminal!Size(s)
      BY DEF Terminal!SizeIfSound
    <3>5. AsideWell(a)
      BY <3>3, <3>4 DEF AsideWell, Whole
    <3> QED BY <3>2, <3>5
  <2>2. g \in Seq(TextRows) /\ Fitting(g, Terminal!Size(s))
        /\ Tiered(g, Terminal!NoBlocks, Terminal!NoRows, Terminal!Size(s))
    BY <1>1, Fresh
  <2>3. /\ Terminal!NoBlocks \in Colds /\ Terminal!NoRows \in Pendings /\ Terminal!Home \in Spots
        /\ Counted(Terminal!NoBlocks, Terminal!NoRows)
        /\ Placed(Terminal!Home, FALSE, Terminal!Size(s))
    BY <1>1, <1>2 DEF Terminal!NoBlocks, Terminal!NoRows, Terminal!Home, Colds, Pendings, Spots,
                      Counted, Placed, ScreenBounds
  <2>4. Terminal!set_alt_screen(s, on) = Terminal!mark_all(u)
    BY <1>4 DEF Terminal!set_alt_screen
  <2> HIDE DEF a, g
  <2>5. /\ u \in Terminals /\ u.saved = s.saved /\ u.cols = s.cols /\ u.rows = s.rows
        /\ u.cold = Terminal!NoBlocks /\ u.pending = Terminal!NoRows /\ u.alt = a
        /\ u.selection = s.selection /\ u.dirty = s.dirty /\ u.stale = FALSE /\ u.grid = g
        /\ u.dead = "no" /\ u.cursor = Terminal!Home /\ u.parked = FALSE
    BY <1>1, <2>1, <2>2, <2>3 DEF Terminals
  <2> HIDE DEF u
  <2>6. Terminal!Size(u) = Terminal!Size(s)
    BY <2>5 DEF Terminal!Size
  <2>7. Whole(u)
    BY <2>2, <2>3, <2>5, <2>6 DEF Whole
  <2>8. Sound(u)
    BY <2>1, <2>3, <2>5, <2>6, <2>7 DEF Sound, Chosen, Terminal!OnScreen
  <2> QED BY <2>4, <2>8, Marking
<1>5. CASE ~on /\ s.alt # Terminal!None
  <2> DEFINE a == s.alt
             b == a.size # Terminal!Size(s)
             u == [s EXCEPT !.grid = a.grid, !.cold = a.cold, !.pending = a.pending,
                            !.cursor = a.cursor, !.saved = a.saved, !.parked = a.parked,
                            !.alt = Terminal!None, !.stale = b]
  <2>1. a \in Aside /\ AsideWell(a)
    BY <1>2, <1>5 DEF Sound
  <2>2. /\ a.grid \in Seq(TextRows) /\ a.cold \in Colds /\ a.pending \in Pendings
        /\ a.cursor \in Spots /\ a.saved \in SavedCursors /\ a.parked \in BOOLEAN /\ b \in BOOLEAN
    BY <2>1 DEF Aside
  <2>3. /\ Counted(a.cold, a.pending) /\ SavedWell(a.saved)
        /\ ~b => /\ Fitting(a.grid, Terminal!Size(s))
                 /\ Placed(a.cursor, a.parked, Terminal!Size(s))
                 /\ Tiered(a.grid, a.cold, a.pending, Terminal!Size(s))
    BY <2>1, <1>1, <1>5 DEF AsideWell
  <2>4. Terminal!set_alt_screen(s, on) = Terminal!mark_all(u)
    BY <1>5 DEF Terminal!set_alt_screen
  <2> HIDE DEF a, b
  <2>5. /\ u \in Terminals /\ u.saved = a.saved /\ u.cols = s.cols /\ u.rows = s.rows
        /\ u.cold = a.cold /\ u.pending = a.pending /\ u.alt = Terminal!None
        /\ u.selection = s.selection /\ u.dirty = s.dirty /\ u.stale = b /\ u.grid = a.grid
        /\ u.dead = "no" /\ u.cursor = a.cursor /\ u.parked = a.parked
    BY <1>1, <2>2 DEF Terminals
  <2> HIDE DEF u
  <2>6. Terminal!Size(u) = Terminal!Size(s)
    BY <2>5 DEF Terminal!Size
  <2>7. ~b => Whole(u)
    BY <2>3, <2>5, <2>6 DEF Whole
  <2>8. Sound(u)
    BY <2>3, <2>5, <2>6, <2>7 DEF Sound, Chosen, Terminal!OnScreen, AsideWell
  <2> QED BY <2>4, <2>8, Marking
<1> QED BY <1>3, <1>4, <1>5

(* resize keeps the selection on the screen it makes.                      *)
LEMMA Clamped ==
    ASSUME NEW s, s.rows \in Nat, s.rows >= 1, s.cols \in Nat, s.cols >= 1,
           NEW sel \in Selections \cup {Terminal!None}
    PROVE  /\ Terminal!ClampSelection(sel, s) \in Selections \cup {Terminal!None}
           /\ Chosen(Terminal!ClampSelection(sel, s), s)
<1>1. ASSUME NEW p \in Spots
      PROVE  Terminal!ClampPoint(p, s) \in Spots /\ Terminal!OnScreen(Terminal!ClampPoint(p, s), s)
  <2> DEFINE r == Terminal!Min2(p.row, s.rows - 1)  c == Terminal!Min2(p.col, s.cols - 1)
  <2>1. r \in 0..(s.rows - 1) /\ c \in 0..(s.cols - 1)
    BY DEF Spots, Terminal!Min2
  <2> HIDE DEF r, c
  <2>2. Terminal!ClampPoint(p, s) = [row |-> r, col |-> c]
    BY DEF Terminal!ClampPoint, r, c
  <2> QED BY <2>1, <2>2 DEF Spots, Terminal!OnScreen
<1>2. CASE sel = Terminal!None
  BY <1>2 DEF Terminal!ClampSelection, Chosen
<1>3. CASE sel # Terminal!None
  <2>1. sel.start \in Spots /\ sel.end \in Spots
    BY <1>3 DEF Selections
  <2> DEFINE a == Terminal!ClampPoint(sel.start, s)  b == Terminal!ClampPoint(sel.end, s)
  <2>2. /\ a \in Spots /\ b \in Spots /\ Terminal!OnScreen(a, s) /\ Terminal!OnScreen(b, s)
    BY <2>1, <1>1
  <2> HIDE DEF a, b
  <2>3. Terminal!ClampSelection(sel, s) = [start |-> a, end |-> b]
    BY <1>3 DEF Terminal!ClampSelection, a, b
  <2> QED BY <2>2, <2>3 DEF Selections, Chosen
<1> QED BY <1>2, <1>3

(* A row is cut or filled to the new width.                                *)
LEMMA FittedRow ==
    ASSUME NEW row \in TextRows, NEW cols \in Nat
    PROVE  /\ Terminal!FitRow(row, cols) \in TextRows
           /\ Len(Terminal!FitRow(row, cols).cells) = cols
<1> DEFINE cs == row.cells
           ds == [c \in 1..cols |-> IF c <= Len(cs) THEN cs[c] ELSE Terminal!Blank]
<1>1. cs \in Seq(Cells) /\ Len(cs) \in Nat /\ \A i \in 1..Len(cs) : cs[i] \in Cells
  BY DEF TextRows
<1>2. Terminal!Blank \in Cells
  BY DEF Terminal!Blank, Cells
<1>3. ds \in [1..cols -> Cells]
  BY <1>1, <1>2
<1>4. ds \in Seq(Cells) /\ Len(ds) = cols
  BY <1>3
<1>5. Terminal!FitRow(row, cols) = [row EXCEPT !.cells = ds]
  BY DEF Terminal!FitRow
<1> HIDE DEF ds
<1> QED BY <1>4, <1>5 DEF TextRows

LEMMA Redimensioned ==
    ASSUME NEW s \in Terminals, NEW cols \in Nat \ {0}, NEW rows \in Nat \ {0}
    PROVE  LET u == [s EXCEPT !.cols = cols, !.rows = rows]
           IN  /\ u \in Terminals /\ u.cols = cols /\ u.rows = rows /\ u.saved = s.saved
               /\ u.alt = s.alt /\ u.dead = s.dead
BY DEF Terminals

(* resize makes the grid fit again, whatever it was.                       *)
LEMMA Resizing ==
    ASSUME ScreenBounds, NEW s, Sound(s), s.dead = "no", NEW to \in Sizes
    PROVE  Sound(Terminal!resize(s, to))
<1> DEFINE u == [s EXCEPT !.cols = to.cols, !.rows = to.rows]
           n == Len(s.grid)
           m == Terminal!Min2(n, to.rows)
           kept == SubSeq(s.grid, n - m + 1, n)
           j == Terminal!Monus(to.rows, Len(kept))
           more == [i \in 1..j |-> Terminal!NewRow(to.cols)]
           g == kept \o more
           fit == [i \in DOMAIN g |-> Terminal!FitRow(g[i], to.cols)]
           cur == [col |-> Terminal!Min2(s.cursor.col, to.cols - 1),
                   row |-> Terminal!Min2(s.cursor.row, to.rows - 1)]
           sel == Terminal!ClampSelection(s.selection, u)
           d == [Terminal!Clean EXCEPT !.full = TRUE]
           w == [u EXCEPT !.grid = kept, !.cold = Terminal!NoBlocks, !.pending = Terminal!NoRows]
           v == [w EXCEPT !.grid = fit, !.cursor = cur, !.offset = 0, !.parked = FALSE,
                          !.selection = sel, !.dirty = d, !.stale = FALSE]
<1>1. s \in Terminals /\ SavedWell(s.saved) /\ AsideWell(s.alt)
  BY SoundSize DEF Sound
<1>2. /\ s.grid \in Seq(TextRows) /\ n \in Nat /\ s.cursor.col \in Nat /\ s.cursor.row \in Nat
      /\ s.selection \in Selections \cup {Terminal!None}
  BY <1>1, FieldsOf
<1>3. /\ to.cols \in Nat /\ to.cols >= 1 /\ to.rows \in Nat /\ to.rows >= 1
      /\ to = [cols |-> to.cols, rows |-> to.rows] /\ HotCap \in Nat /\ Limit \in Nat
      /\ BLOCK_ROWS \in Nat /\ BLOCK_ROWS >= 1
  BY DEF ScreenBounds, Dims
<1>4. CASE to = Terminal!Size(s)
  BY <1>4 DEF Terminal!resize
<1>5. CASE to # Terminal!Size(s)
  <2>1. u.cols = to.cols /\ u.rows = to.rows /\ u.grid = s.grid
    BY <1>1 DEF Terminals
  <2>2. sel \in Selections \cup {Terminal!None} /\ Chosen(sel, u)
    BY <2>1, <1>2, <1>3, Clamped
  <2>3. m \in Nat /\ m <= n /\ m <= to.rows
    BY <1>2, <1>3 DEF Terminal!Min2
  <2>4. Terminal!ForgetHistory(u) = w
    BY <2>1, <1>1 DEF Terminal!ForgetHistory, Terminals
  <2>5. Terminal!ForgetHistory(u).grid = kept
    BY <2>4, <1>1 DEF Terminals
  <2> HIDE DEF w
  <2> HIDE DEF sel, cur, d
  <2>7. Terminal!resize(s, to) = v
    BY <1>5, <2>4, <2>5 DEF Terminal!resize, sel, cur, d
  <2> HIDE DEF fit
  <2> HIDE DEF m, n
  <2>8. kept \in Seq(TextRows) /\ Len(kept) = m
    BY <2>3, <1>2 DEF n
  <2> HIDE DEF kept
  <2>9. j \in Nat /\ m + j = to.rows
    BY <2>3, <2>8, <1>3 DEF Terminal!Monus
  <2> HIDE DEF j
  <2>10. more \in Seq(TextRows) /\ Len(more) = j
    <3>1. Terminal!NewRow(to.cols) \in TextRows
      BY <1>3, BlankRow
    <3> QED BY <2>9, <3>1
  <2> HIDE DEF more
  <2>11. g \in Seq(TextRows) /\ Len(g) = to.rows /\ DOMAIN g = 1..to.rows
    BY <2>8, <2>9, <2>10, <1>3
  <2> HIDE DEF g
  <2>12. \A i \in 1..to.rows : fit[i] \in TextRows /\ Len(fit[i].cells) = to.cols
    <3> SUFFICES ASSUME NEW i \in 1..to.rows
                 PROVE  fit[i] \in TextRows /\ Len(fit[i].cells) = to.cols
      OBVIOUS
    <3>1. fit[i] = Terminal!FitRow(g[i], to.cols) /\ g[i] \in TextRows
      BY <2>11 DEF fit
    <3> QED BY <3>1, <1>3, FittedRow
  <2>13. fit \in Seq(TextRows) /\ Len(fit) = to.rows
    <3>1. DOMAIN fit = 1..to.rows /\ fit = [i \in 1..to.rows |-> fit[i]]
      BY <2>11 DEF fit
    <3>2. fit \in [1..to.rows -> TextRows]
      BY <3>1, <2>12
    <3> QED BY <3>2, <1>3
  <2>14. /\ cur \in Spots /\ cur.col < to.cols /\ cur.row < to.rows
    BY <1>2, <1>3 DEF cur, Spots, Terminal!Min2
  <2>15. d \in Marks /\ d.rows = {}
    BY DEF d, Terminal!Clean, Marks
  <2>16. /\ Terminal!NoBlocks \in Colds /\ Terminal!NoRows \in Pendings
         /\ Counted(Terminal!NoBlocks, Terminal!NoRows)
         /\ Terminal!NoBlocks.total_rows = 0 /\ Len(Terminal!NoRows.body) = 0
    BY <1>3 DEF Terminal!NoBlocks, Terminal!NoRows, Colds, Pendings, Counted
  <2> HIDE DEF u
  <2>17. /\ v \in Terminals /\ v.saved = s.saved /\ v.cols = to.cols /\ v.rows = to.rows
         /\ v.cold = Terminal!NoBlocks /\ v.pending = Terminal!NoRows /\ v.alt = s.alt
         /\ v.selection = sel /\ v.dirty = d /\ v.stale = FALSE /\ v.grid = fit
         /\ v.dead = "no" /\ v.cursor = cur /\ v.parked = FALSE
    <3>1. to.cols \in Nat \ {0} /\ to.rows \in Nat \ {0} /\ 0 \in Nat
      BY <1>3
    <3>2. /\ u \in Terminals /\ u.cols = to.cols /\ u.rows = to.rows /\ u.saved = s.saved
          /\ u.alt = s.alt /\ u.dead = s.dead
      BY <1>1, <3>1, Redimensioned DEF u
    <3>3. /\ w \in Terminals /\ w.cold = Terminal!NoBlocks /\ w.pending = Terminal!NoRows
          /\ Alike(w, u)
      <4>1. u \in Terminals /\ kept \in Seq(TextRows)
        BY <3>2, <2>8
      <4>2. Terminal!NoBlocks \in Colds /\ Terminal!NoRows \in Pendings
        BY <2>16
      <4> QED BY <4>1, <4>2 DEF w, Terminals, Alike
    <3> HIDE DEF w
    <3>4. v \in Terminals /\ v.selection = sel /\ v.dirty = d /\ v.stale = FALSE
          /\ v.grid = fit /\ v.cursor = cur /\ v.parked = FALSE
      BY <3>1, <3>3, <2>2, <2>13, <2>14, <2>15 DEF Terminals, v
    <3>5. /\ v.saved = w.saved /\ v.cols = w.cols /\ v.rows = w.rows /\ v.cold = w.cold
          /\ v.pending = w.pending /\ v.alt = w.alt /\ v.dead = w.dead
      BY <3>3 DEF Terminals, v
    <3> QED BY <3>2, <3>3, <3>4, <3>5 DEF Alike
  <2> HIDE DEF v
  <2>18. Terminal!Size(v) = to
    BY <2>17, <1>3 DEF Terminal!Size
  <2>19. Chosen(v.selection, v)
    BY <2>1, <2>2, <2>17 DEF Chosen, Terminal!OnScreen
  <2>20. Whole(v)
    <3>1. Fitting(fit, to)
      BY <2>12, <2>13, <1>3 DEF Fitting
    <3>2. Tiered(fit, Terminal!NoBlocks, Terminal!NoRows, to)
      BY <2>13, <2>16, <1>3 DEF Tiered
    <3>3. Placed(cur, FALSE, to)
      BY <2>14 DEF Placed
    <3> QED BY <3>1, <3>2, <3>3, <2>17, <2>18 DEF Whole
  <2>21. Sound(v)
    BY <1>1, <2>15, <2>16, <2>17, <2>18, <2>19, <2>20 DEF Sound
  <2> QED BY <2>7, <2>21
<1> QED BY <1>4, <1>5

-----------------------------------------------------------------------------
(* The window, and the frames.                                             *)

LEMMA Scrolled ==
    ASSUME NEW s, Sound(s), NEW at \in Nat
    PROVE  Sound(Terminal!mark_all([s EXCEPT !.offset = at]))
<1> DEFINE u == [s EXCEPT !.offset = at]
<1>1. s \in Terminals
  BY SoundSize
<1>2. /\ u \in Terminals /\ u.dirty = s.dirty
      /\ u.cols = s.cols /\ u.rows = s.rows /\ u.cold = s.cold /\ u.pending = s.pending
      /\ u.saved = s.saved /\ u.alt = s.alt /\ u.selection = s.selection
      /\ u.stale = s.stale /\ u.grid = s.grid /\ u.dead = s.dead
      /\ u.cursor = s.cursor /\ u.parked = s.parked
  BY <1>1 DEF Terminals
<1> HIDE DEF u
<1>3. Sound(u)
  BY <1>2, Steady, SoundSize
<1> QED BY <1>3, Marking DEF u

LEMMA Scrollback ==
    ASSUME NEW s, Sound(s)
    PROVE  Terminal!scrollback_len(s) \in Int /\ (~s.stale => Terminal!scrollback_len(s) >= 0)
<1>1. s \in Terminals
  BY SoundSize
<1> DEFINE a == s.cold.total_rows  b == Len(s.pending.body)  c == Len(s.grid)
<1>2. a \in Nat /\ b \in Nat /\ c \in Nat /\ s.rows \in Nat
  BY <1>1, FieldsOf DEF Colds, Pendings
<1>3. ~s.stale => c >= s.rows
  BY SoundSize DEF Fitting
<1>4. Terminal!scrollback_len(s) = a + b + c - s.rows
  BY <1>2 DEF Terminal!scrollback_len, Terminal!grid_len, Terminal!Encoded
<1> HIDE DEF a, b, c
<1> QED BY <1>2, <1>3, <1>4

(* The view moves over the history, and no further.                        *)
LEMMA Viewing ==
    ASSUME ScreenBounds, NEW s, Sound(s)
    PROVE  /\ \A delta \in Int : Sound(Terminal!scroll_view(s, delta))
           /\ \A offset \in Nat : Sound(Terminal!set_scroll_offset(s, offset))
<1> DEFINE len == Terminal!scrollback_len(s)
<1>1. len \in Int /\ (~s.stale => len >= 0) /\ s.offset \in Nat
  BY Scrollback, SoundSize, FieldsOf
<1> HIDE DEF len
<1>2. ASSUME len < 0 PROVE Sound(Terminal!Panic(s, "view"))
  <2>1. s.stale /\ "view" \in Deaths
    BY <1>1, <1>2, SoundSize, FieldsOf DEF Deaths
  <2> QED BY <2>1, Panicked
<1>3. ASSUME NEW delta \in Int PROVE Sound(Terminal!scroll_view(s, delta))
  <2> DEFINE to == s.offset + delta
             at == IF to < 0 THEN 0 ELSE Terminal!Min2(to, len)
  <2>1. CASE len < 0
    BY <1>2, <2>1 DEF Terminal!scroll_view, len
  <2>2. CASE ~(len < 0)
    <3>1. at \in Nat
      BY <2>2, <1>1 DEF Terminal!Min2
    <3>2. Terminal!scroll_view(s, delta)
            = IF at = s.offset THEN s ELSE Terminal!mark_all([s EXCEPT !.offset = at])
      BY <2>2 DEF Terminal!scroll_view, len
    <3> HIDE DEF at
    <3> QED BY <3>1, <3>2, Scrolled
  <2> QED BY <2>1, <2>2
<1>4. ASSUME NEW offset \in Nat PROVE Sound(Terminal!set_scroll_offset(s, offset))
  <2> DEFINE at == Terminal!Min2(offset, len)
  <2>1. CASE len < 0
    BY <1>2, <2>1 DEF Terminal!set_scroll_offset, len
  <2>2. CASE ~(len < 0)
    <3>1. at \in Nat
      BY <2>2, <1>1 DEF Terminal!Min2
    <3>2. Terminal!set_scroll_offset(s, offset)
            = IF at = s.offset THEN s ELSE Terminal!mark_all([s EXCEPT !.offset = at])
      BY <2>2 DEF Terminal!set_scroll_offset, len
    <3> HIDE DEF at
    <3> QED BY <3>1, <3>2, Scrolled
  <2> QED BY <2>1, <2>2
<1> QED BY <1>3, <1>4

LEMMA Selected ==
    ASSUME NEW s, Sound(s), NEW sel \in Selections \cup {Terminal!None}, Chosen(sel, s)
    PROVE  Sound(Terminal!mark_all([s EXCEPT !.selection = sel]))
<1> DEFINE u == [s EXCEPT !.selection = sel]
<1>1. s \in Terminals
  BY SoundSize
<1>2. /\ u \in Terminals /\ u.dirty = s.dirty
      /\ u.cols = s.cols /\ u.rows = s.rows /\ u.cold = s.cold /\ u.pending = s.pending
      /\ u.saved = s.saved /\ u.alt = s.alt /\ u.selection = sel
      /\ u.stale = s.stale /\ u.grid = s.grid /\ u.dead = s.dead
      /\ u.cursor = s.cursor /\ u.parked = s.parked
  BY <1>1 DEF Terminals
<1> HIDE DEF u
<1>3. Terminal!Size(u) = Terminal!Size(s)
  BY <1>2 DEF Terminal!Size
<1>4. Chosen(u.selection, u)
  BY <1>2 DEF Chosen, Terminal!OnScreen
<1>5. Sound(u)
  BY <1>2, <1>3, <1>4 DEF Sound, Whole
<1> QED BY <1>5, Marking DEF u

(* What is selected is on the screen.                                      *)
LEMMA Selecting ==
    ASSUME NEW s, Sound(s)
    PROVE  /\ Sound(Terminal!clear_selection(s))
           /\ \A a, b \in Spots : Sound(Terminal!set_selection(s, a, b))
<1>1. Sound(Terminal!clear_selection(s))
  <2>1. Chosen(Terminal!None, s)
    BY DEF Chosen
  <2>2. Sound(Terminal!mark_all([s EXCEPT !.selection = Terminal!None]))
    BY <2>1, Selected
  <2> QED BY <2>2 DEF Terminal!clear_selection
<1>2. ASSUME NEW a \in Spots, NEW b \in Spots PROVE Sound(Terminal!set_selection(s, a, b))
  <2> DEFINE points == [start |-> a, end |-> b]
             sel == Terminal!ClampSelection(points, s)
  <2>1. points \in Selections
    BY DEF Selections
  <2>2. s.rows \in Nat /\ s.rows >= 1 /\ s.cols \in Nat /\ s.cols >= 1
    BY SoundSize, FieldsOf
  <2> HIDE DEF points
  <2>3. sel \in Selections \cup {Terminal!None} /\ Chosen(sel, s)
    BY <2>1, <2>2, Clamped
  <2> HIDE DEF sel
  <2>4. Sound(Terminal!mark_all([s EXCEPT !.selection = sel]))
    BY <2>3, Selected
  <2> QED BY <2>4 DEF Terminal!set_selection, sel, points
<1> QED BY <1>1, <1>2

(* A frame takes the marks.                                                *)
LEMMA Drawing ==
    ASSUME NEW s, Sound(s)
    PROVE  Sound(Terminal!snapshot(s))
<1>1. Terminal!Clean \in Marks /\ Terminal!Clean.rows = {} /\ "snapshot" \in Deaths
  BY DEF Terminal!Clean, Marks, Deaths
<1> DEFINE u == [s EXCEPT !.dirty = Terminal!Clean]
<1>2. Sound(u)
  BY <1>1, Redirtied
<1> HIDE DEF u
<1>3. Sound(Terminal!Panic(u, "snapshot"))
  BY <1>1, <1>2, Panicked
<1> QED BY <1>2, <1>3 DEF Terminal!snapshot, u

-----------------------------------------------------------------------------
(* The events of the parser.                                               *)

LEMMA WrapSet ==
    ASSUME NEW s, Sound(s), NEW b \in BOOLEAN
    PROVE  Sound([s EXCEPT !.wrap = b])
<1> DEFINE u == [s EXCEPT !.wrap = b]
<1>1. s \in Terminals
  BY SoundSize
<1>2. /\ u \in Terminals /\ u.dirty = s.dirty
      /\ u.cols = s.cols /\ u.rows = s.rows /\ u.cold = s.cold /\ u.pending = s.pending
      /\ u.saved = s.saved /\ u.alt = s.alt /\ u.selection = s.selection
      /\ u.stale = s.stale /\ u.grid = s.grid /\ u.dead = s.dead
      /\ u.cursor = s.cursor /\ u.parked = s.parked
  BY <1>1 DEF Terminals
<1> HIDE DEF u
<1>3. Sound(u)
  BY <1>2, Steady, SoundSize
<1> QED BY <1>3 DEF u

(* What an event may carry.                                                *)
Carries(e) ==
    \/ e.event = "WriteChar"
    \/ e.event \in Terminal!Counted /\ e.n \in Nat
    \/ e.event \in Terminal!Simple
    \/ e.event = "MoveCursor" /\ e.col \in Nat /\ e.row \in Nat
    \/ e.event = "ClearScreen" /\ e.n \in 0..3
    \/ e.event = "ClearLine" /\ e.n \in 0..2
    \/ e.event \in {"SetAutoWrap", "SetAltScreen"} /\ e.on \in BOOLEAN

(* What the parser hands over carries what its operation expects.          *)
LEMMA Dispatched ==
    ASSUME ScreenBounds, NEW es \in Terminal!ByteSequences
    PROVE  Len(es) \in Nat /\ \A i \in 1..Len(es) : Carries(es[i])
<1>1. Counts \subseteq Nat
  BY DEF ScreenBounds
<1>2. ASSUME NEW e, Carries(e) PROVE Len(<<e>>) \in Nat /\ \A i \in 1..Len(<<e>>) : Carries(<<e>>[i])
  BY <1>2
<1>3. ASSUME NEW e, Carries(e), NEW f, Carries(f)
      PROVE  Len(<<e, f>>) \in Nat /\ \A i \in 1..Len(<<e, f>>) : Carries(<<e, f>>[i])
  <2>1. Len(<<e, f>>) = 2 /\ <<e, f>>[1] = e /\ <<e, f>>[2] = f
    OBVIOUS
  <2>2. \A i \in 1..2 : i = 1 \/ i = 2
    OBVIOUS
  <2> QED BY <1>3, <2>1, <2>2
<1>4. CASE \E w \in Terminal!Writes : es = <<w>>
  <2>1. PICK w \in Terminal!Writes : es = <<w>>
    BY <1>4
  <2>2. Carries(w)
    BY <2>1 DEF Terminal!Writes, Carries
  <2> QED BY <2>1, <2>2, <1>2
<1>5. CASE \E e \in Terminal!Simple : es = <<Terminal!Ev(e, 0)>>
  <2>1. PICK e \in Terminal!Simple : es = <<Terminal!Ev(e, 0)>>
    BY <1>5
  <2>2. Carries(Terminal!Ev(e, 0))
    BY <2>1 DEF Terminal!Ev, Carries
  <2> QED BY <2>1, <2>2, <1>2
<1>6. CASE \E e \in Terminal!Counted, n \in Counts : es = <<Terminal!Ev(e, n)>>
  <2>1. PICK e \in Terminal!Counted, n \in Counts : es = <<Terminal!Ev(e, n)>>
    BY <1>6
  <2>2. Carries(Terminal!Ev(e, n))
    BY <2>1, <1>1 DEF Terminal!Ev, Carries
  <2> QED BY <2>1, <2>2, <1>2
<1>7. CASE \E e \in {"CursorDown", "CursorUp"}, n \in Counts :
             es = <<Terminal!Ev("CursorToBeginningOfLine", 0), Terminal!Ev(e, n)>>
  <2>1. PICK e \in {"CursorDown", "CursorUp"}, n \in Counts :
             es = <<Terminal!Ev("CursorToBeginningOfLine", 0), Terminal!Ev(e, n)>>
    BY <1>7
  <2>2. Carries(Terminal!Ev(e, n)) /\ Carries(Terminal!Ev("CursorToBeginningOfLine", 0))
    BY <2>1, <1>1 DEF Terminal!Ev, Carries, Terminal!Counted, Terminal!Simple
  <2> QED BY <2>1, <2>2, <1>3
<1>8. CASE \E c, r \in {0, 1, Terminal!u16_MAX} :
             es = <<[event |-> "MoveCursor", col |-> c, row |-> r]>>
  <2>1. PICK c \in {0, 1, Terminal!u16_MAX}, r \in {0, 1, Terminal!u16_MAX} :
             es = <<[event |-> "MoveCursor", col |-> c, row |-> r]>>
    BY <1>8
  <2>2. c \in Nat /\ r \in Nat
    BY <2>1 DEF Terminal!u16_MAX
  <2>3. Carries([event |-> "MoveCursor", col |-> c, row |-> r])
    BY <2>2 DEF Carries
  <2> QED BY <2>1, <2>3, <1>2
<1>9. CASE \E m \in 0..3 : es = <<Terminal!Ev("ClearScreen", m)>>
  <2>1. PICK m \in 0..3 : es = <<Terminal!Ev("ClearScreen", m)>>
    BY <1>9
  <2>2. Carries(Terminal!Ev("ClearScreen", m))
    BY <2>1 DEF Terminal!Ev, Carries
  <2> QED BY <2>1, <2>2, <1>2
<1>10. CASE \E m \in 0..2 : es = <<Terminal!Ev("ClearLine", m)>>
  <2>1. PICK m \in 0..2 : es = <<Terminal!Ev("ClearLine", m)>>
    BY <1>10
  <2>2. Carries(Terminal!Ev("ClearLine", m))
    BY <2>1 DEF Terminal!Ev, Carries
  <2> QED BY <2>1, <2>2, <1>2
<1>11. CASE \E e \in {"SetAutoWrap", "SetAltScreen"}, b \in BOOLEAN :
              es = <<[event |-> e, on |-> b]>>
  <2>1. PICK e \in {"SetAutoWrap", "SetAltScreen"}, b \in BOOLEAN : es = <<[event |-> e, on |-> b]>>
    BY <1>11
  <2>2. Carries([event |-> e, on |-> b])
    BY <2>1 DEF Carries
  <2> QED BY <2>1, <2>2, <1>2
<1>12. \/ \E w \in Terminal!Writes : es = <<w>>
       \/ \E e \in Terminal!Simple : es = <<Terminal!Ev(e, 0)>>
       \/ es \in Terminal!csi_dispatch
  BY DEF Terminal!ByteSequences
<1>13. es \in Terminal!csi_dispatch =>
         \/ \E e \in Terminal!Counted, n \in Counts : es = <<Terminal!Ev(e, n)>>
         \/ \E e \in {"CursorDown", "CursorUp"}, n \in Counts :
              es = <<Terminal!Ev("CursorToBeginningOfLine", 0), Terminal!Ev(e, n)>>
         \/ \E c, r \in {0, 1, Terminal!u16_MAX} :
              es = <<[event |-> "MoveCursor", col |-> c, row |-> r]>>
         \/ \E m \in 0..3 : es = <<Terminal!Ev("ClearScreen", m)>>
         \/ \E m \in 0..2 : es = <<Terminal!Ev("ClearLine", m)>>
         \/ \E e \in {"SetAutoWrap", "SetAltScreen"}, b \in BOOLEAN :
              es = <<[event |-> e, on |-> b]>>
  BY DEF Terminal!csi_dispatch
<1> QED BY <1>4, <1>5, <1>6, <1>7, <1>8, <1>9, <1>10, <1>11, <1>12, <1>13

(* Each event of the parser keeps a sound terminal sound.                  *)
LEMMA Applied ==
    ASSUME ScreenBounds, NEW s, Sound(s), s.dead = "no", NEW e, Carries(e)
    PROVE  Sound(Terminal!apply_event(s, e))
<1> DEFINE a == Terminal!apply_event(s, e)
<1>1. CASE e.event = "WriteChar"
  BY <1>1, WritingChar DEF Terminal!apply_event
<1>2. CASE e.event = "MoveCursor" /\ e.col \in Nat /\ e.row \in Nat
  BY <1>2, Positioning DEF Terminal!apply_event
<1>3. CASE e.event \in {"CursorUp", "CursorBack"} /\ e.n \in Nat
  BY <1>3, Movers DEF Terminal!apply_event
<1>4. CASE e.event = "CursorDown" /\ e.n \in Nat
  BY <1>4, DownTimes DEF Terminal!apply_event
<1>5. CASE e.event = "CursorForward" /\ e.n \in Nat
  BY <1>5, ForwardTimes DEF Terminal!apply_event
<1>6. CASE e.event \in {"InsertLines", "DeleteLines"} /\ e.n \in Nat
  BY <1>6, InsertingLines, DeletingLines DEF Terminal!apply_event
<1>7. CASE e.event \in {"InsertChars", "DeleteChars"} /\ e.n \in Nat
  BY <1>7, ShiftingChars DEF Terminal!apply_event
<1>8. CASE e.event = "RepeatLastChar" /\ e.n \in Nat
  BY <1>8, AgainTimes DEF Terminal!apply_event
<1>9. CASE e.event \in {"ScrollUp", "ScrollDown"} /\ e.n \in Nat
  BY <1>9, ScrollsUp, LowerTimes DEF Terminal!apply_event
<1>10. CASE e.event \in {"Tab", "CursorToBeginningOfLine"}
  <2>1. 0 \in Nat
    OBVIOUS
  <2> QED BY <2>1, <1>10, Movers DEF Terminal!apply_event
<1>11. CASE e.event \in {"SaveCursor", "RestoreCursor"}
  BY <1>11, Saving, Restoring DEF Terminal!apply_event
<1>12. CASE e.event = "ClearScreen" /\ e.n \in 0..3
  BY <1>12, ClearingScreen DEF Terminal!apply_event
<1>13. CASE e.event = "ClearLine" /\ e.n \in 0..2
  BY <1>13, ClearingLine DEF Terminal!apply_event
<1>14. CASE e.event = "SetAutoWrap" /\ e.on \in BOOLEAN
  BY <1>14, WrapSet DEF Terminal!apply_event
<1>15. CASE e.event = "SetAltScreen" /\ e.on \in BOOLEAN
  BY <1>15, Alternating DEF Terminal!apply_event
<1> HIDE DEF a
<1> QED BY <1>1, <1>2, <1>3, <1>4, <1>5, <1>6, <1>7, <1>8, <1>9, <1>10, <1>11, <1>12, <1>13,
           <1>14, <1>15 DEF Carries, Terminal!Counted, Terminal!Simple

(* What apply_events does with the event at i.                             *)
EventOnce(u, events, i) ==
    IF u.dead # "no" THEN u ELSE Terminal!apply_event(u, events[i])

(* So does all the output of one read.                                     *)
LEMMA AppliedAll ==
    ASSUME ScreenBounds, NEW s, Sound(s), NEW es \in Terminal!ByteSequences
    PROVE  Sound(Terminal!apply_events(s, es))
<1> DEFINE n == Len(es)
           F == [i \in Nat |-> [u \in SoundOnes |->
                   IF i \in 1..n THEN EventOnce(u, es, i) ELSE u]]
<1>1. s \in SoundOnes /\ n \in Nat
  BY SoundSize, Dispatched DEF SoundOnes
<1>2. \A i \in 1..n : \A u \in SoundOnes : EventOnce(u, es, i) \in SoundOnes
  BY Applied, Dispatched, SoundSize DEF SoundOnes, EventOnce
<1>3. \A i \in Nat : \A u \in SoundOnes :
         F[i][u] = IF i \in 1..n THEN EventOnce(u, es, i) ELSE u
  OBVIOUS
<1>7. Terminal!apply_events(s, es)
        = (CHOOSE h : h = [i \in 0..n |-> IF i = 0 THEN s ELSE EventOnce(h[i - 1], es, i)])[n]
  BY DEF Terminal!apply_events, EventOnce
<1> HIDE DEF F, n
<1>4. PICK f : Runs(f, F, s, n) /\ Within(f, SoundOnes, n)
  <2>1. \A i \in Nat : \A u \in SoundOnes : F[i][u] \in SoundOnes
    BY <1>2, <1>3
  <2> QED BY <1>1, <2>1, Iterates
<1>5. f = [i \in 0..n |-> IF i = 0 THEN s ELSE EventOnce(f[i - 1], es, i)]
  <2>1. \A i \in 0..n : i # 0 => i \in 1..n /\ i \in Nat
    BY <1>1
  <2>2. \A i \in 0..n : i # 0 => F[i][f[i - 1]] = EventOnce(f[i - 1], es, i)
    BY <1>1, <1>3, <1>4, <2>1, Stepping
  <2> QED BY <1>4, <2>2 DEF Runs
<1> DEFINE g == CHOOSE h : h = [i \in 0..n |-> IF i = 0 THEN s ELSE EventOnce(h[i - 1], es, i)]
<1>6. g = [i \in 0..n |-> IF i = 0 THEN s ELSE EventOnce(g[i - 1], es, i)]
  BY <1>5
<1>8. Terminal!apply_events(s, es) = g[n]
  BY <1>7
<1> HIDE DEF g
<1>9. g[0] = s /\ \A i \in 1..n : g[i] = EventOnce(g[i - 1], es, i)
  BY <1>1, <1>6
<1>10. g[n] \in SoundOnes
  <2>1. \A i \in 1..n : g[i - 1] \in SoundOnes => g[i] \in SoundOnes
    BY <1>2, <1>9
  <2> QED BY <1>1, <1>9, <2>1, Carried
<1> QED BY <1>8, <1>10 DEF SoundOnes

(* A new terminal is sound.                                                *)
LEMMA NewSound ==
    ASSUME ScreenBounds, NEW size \in Sizes
    PROVE  Sound(Terminal!new(size))
<1> DEFINE s == Terminal!new(size)
           row == Terminal!NewRow(size.cols)
           g == [r \in 1..size.rows |-> row]
           v == [cursor |-> Terminal!Home, parked |-> FALSE, wrap |-> TRUE, size |-> size]
<1>1. /\ size.cols \in Nat /\ size.cols >= 1 /\ size.rows \in Nat /\ size.rows >= 1
      /\ size = [cols |-> size.cols, rows |-> size.rows] /\ size \in Dims
      /\ HotCap \in Nat /\ Limit \in Nat /\ BLOCK_ROWS \in Nat /\ BLOCK_ROWS >= 1
  BY DEF ScreenBounds, Dims
<1>2. row \in TextRows /\ Len(row.cells) = size.cols
  BY <1>1, BlankRow
<1> HIDE DEF row
<1>3. g \in Seq(TextRows) /\ Len(g) = size.rows /\ \A i \in 1..size.rows : g[i] = row
  BY <1>1, <1>2
<1>4. s = [cols |-> size.cols, rows |-> size.rows, grid |-> g, cold |-> Terminal!NoBlocks,
           pending |-> Terminal!NoRows, cursor |-> Terminal!Home, parked |-> FALSE,
           wrap |-> TRUE, offset |-> 0, saved |-> v, alt |-> Terminal!None, last |-> "none",
           selection |-> Terminal!None, dirty |-> Terminal!Clean, stale |-> FALSE, dead |-> "no"]
  BY DEF Terminal!new, row
<1> HIDE DEF g
<1>5. /\ Terminal!NoBlocks \in Colds /\ Terminal!NoRows \in Pendings /\ Terminal!Home \in Spots
      /\ Terminal!Clean \in Marks /\ "no" \in Deaths /\ Terminal!Clean.rows = {}
      /\ Terminal!NoBlocks.total_rows = 0 /\ Len(Terminal!NoRows.body) = 0
      /\ Counted(Terminal!NoBlocks, Terminal!NoRows)
      /\ Placed(Terminal!Home, FALSE, size)
  BY <1>1 DEF Terminal!NoBlocks, Terminal!NoRows, Terminal!Home, Terminal!Clean, Colds, Pendings,
              Spots, Marks, Deaths, Counted, Placed
<1>6. v \in SavedCursors /\ SavedWell(v)
  BY <1>1, <1>5 DEF SavedCursors, SizesOrNone, SavedWell
<1> HIDE DEF v, s
<1>7. s \in Terminals
  BY <1>1, <1>3, <1>4, <1>5, <1>6 DEF Terminals
<1>8. Terminal!Size(s) = size
  BY <1>1, <1>4 DEF Terminal!Size
<1>9. Whole(s)
  <2>1. Fitting(g, size)
    BY <1>1, <1>2, <1>3 DEF Fitting
  <2>2. Tiered(g, Terminal!NoBlocks, Terminal!NoRows, size)
    BY <1>1, <1>3, <1>5 DEF Tiered
  <2> QED BY <2>1, <2>2, <1>4, <1>5, <1>8 DEF Whole
<1>10. Sound(s)
  BY <1>4, <1>5, <1>6, <1>7, <1>8, <1>9 DEF Sound, AsideWell, Chosen
<1> QED BY <1>10 DEF s

ScreenInv == Sound(sc_terminal)

(* Every step of the terminal, on any screen.                              *)
LEMMA ScreenSteps ==
    ASSUME ScreenBounds
    PROVE  ScreenInv /\ [Terminal!Next]_(Terminal!vars) => ScreenInv'
<1> SUFFICES ASSUME ScreenInv, [Terminal!Next]_(Terminal!vars) PROVE ScreenInv'
  OBVIOUS
<1>1. ASSUME NEW s, Sound(s), Terminal!Act(s) PROVE ScreenInv'
  BY <1>1 DEF Terminal!Act, ScreenInv
<1>2. CASE Terminal!Output
  <2>1. PICK es \in Terminal!ByteSequences : Terminal!Act(Terminal!apply_events(sc_terminal, es))
    BY <1>2 DEF Terminal!Output
  <2> QED BY <2>1, <1>1, AppliedAll DEF ScreenInv
<1>3. CASE Terminal!Resize
  <2>1. PICK to \in Sizes : Terminal!Act(Terminal!resize(sc_terminal, to))
    BY <1>3 DEF Terminal!Resize
  <2>2. sc_terminal.dead = "no"
    BY <2>1 DEF Terminal!Act
  <2> QED BY <2>1, <2>2, <1>1, Resizing DEF ScreenInv
<1>4. CASE Terminal!View
  <2>1. CASE \E d \in {-1, 1} : Terminal!Act(Terminal!scroll_view(sc_terminal, d))
    <3>1. PICK d \in {-1, 1} : Terminal!Act(Terminal!scroll_view(sc_terminal, d))
      BY <2>1
    <3>2. d \in Int
      OBVIOUS
    <3> QED BY <3>1, <3>2, <1>1, Viewing DEF ScreenInv
  <2>2. CASE Terminal!Act(Terminal!set_scroll_offset(sc_terminal, Limit + HotCap))
    <3>1. Limit + HotCap \in Nat
      BY DEF ScreenBounds
    <3> QED BY <3>1, <2>2, <1>1, Viewing DEF ScreenInv
  <2>3. CASE \E a, b \in Terminal!Points : Terminal!Act(Terminal!set_selection(sc_terminal, a, b))
    <3>1. Terminal!Points \subseteq Spots
      BY DEF Terminal!Points, Terminal!Home, Spots
    <3> QED BY <3>1, <2>3, <1>1, Selecting DEF ScreenInv
  <2>4. CASE Terminal!Act(Terminal!clear_selection(sc_terminal))
    BY <2>4, <1>1, Selecting DEF ScreenInv
  <2> QED BY <1>4, <2>1, <2>2, <2>3, <2>4 DEF Terminal!View
<1>5. CASE Terminal!Frame
  BY <1>5, Drawing DEF Terminal!Frame, ScreenInv
<1>6. CASE UNCHANGED Terminal!vars
  BY <1>6 DEF Terminal!vars, ScreenInv
<1> QED BY <1>2, <1>3, <1>4, <1>5, <1>6 DEF Terminal!Next

LEMMA ScreenInductive ==
    ASSUME ScreenBounds
    PROVE  Terminal!Spec => []ScreenInv
<1>1. Terminal!Init => ScreenInv
  BY NewSound DEF Terminal!Init, ScreenInv
<1>2. ScreenInv /\ [Terminal!Next]_(Terminal!vars) => ScreenInv'
  BY ScreenSteps
<1> QED BY <1>1, <1>2, PTL DEF Terminal!Spec

(* Whatever the output does and however the pane is resized, the cursor is *)
(* on the screen, the grid holds the rows of the screen, each as wide, no  *)
(* write runs off it, and the history is within its limit, for every size, *)
(* block, limit and count (vis_idx, resize, scroll_up_one, cursor_advance, *)
(* ColdStore::push_back).                                                  *)
THEOREM TheScreenHolds ==
    ASSUME ScreenBounds
    PROVE  Terminal!Spec => [](Terminal!TypeOK /\ Terminal!ScreenHolds /\ Terminal!HistoryIsBounded)
<1>1. ScreenInv => Terminal!TypeOK /\ Terminal!ScreenHolds /\ Terminal!HistoryIsBounded
  BY Holding DEF ScreenInv
<1> QED BY <1>1, ScreenInductive, PTL

-----------------------------------------------------------------------------
(* The suite: each of its components takes its own steps and no other.     *)

Paned == INSTANCE PanesProofs WITH
    workspaces <- pa_workspaces, active <- pa_active, sessions <- pa_sessions,
    headless <- pa_headless, made <- pa_made, acts <- pa_acts,
    restarts <- pa_restarts

(* The module the proofs about panes are about and the one in the suite    *)
(* are the same, read through two instances: their definitions agree.      *)
LEMMA SamePanes ==
    /\ Splits!Init <=> Paned!Init
    /\ Splits!Next <=> Paned!Next
    /\ Splits!vars = Paned!vars
    /\ Splits!TypeOK <=> Paned!TypeOK
    /\ Splits!NoSessionLeaks <=> Paned!NoSessionLeaks
    /\ Splits!FocusIsInside <=> Paned!FocusIsInside
    /\ Splits!LayoutTiles <=> Paned!LayoutTiles
<1>a. Splits!Init <=> Paned!Init
  BY DEF Splits!Init, Paned!Init, Splits!NewTab, Paned!NewTab, Splits!leaf,
         Paned!leaf, Splits!PaneOf, Paned!PaneOf, Splits!Eid, Paned!Eid,
         Splits!None, Paned!None
<1>b. Splits!vars = Paned!vars
  BY DEF Splits!vars, Paned!vars
<1>c. Splits!TypeOK <=> Paned!TypeOK
  BY DEF Splits!TypeOK, Paned!TypeOK, Splits!EveryTab, Paned!EveryTab
<1>d. Splits!NoSessionLeaks <=> Paned!NoSessionLeaks
  BY DEF Splits!NoSessionLeaks, Paned!NoSessionLeaks, Splits!AllEids,
         Paned!AllEids, Splits!EidsOf, Paned!EidsOf, Splits!PanesIn,
         Paned!PanesIn, Splits!panes, Paned!panes
<1>e. Splits!FocusIsInside <=> Paned!FocusIsInside
  BY DEF Splits!FocusIsInside, Paned!FocusIsInside, Splits!TabIds, Paned!TabIds,
         Splits!None, Paned!None, Splits!EveryTab, Paned!EveryTab,
         Splits!Cardinality, Paned!Cardinality, Splits!pane_ids,
         Paned!pane_ids, Splits!panes, Paned!panes, Splits!pane_count,
         Paned!pane_count
<1>f. Splits!LayoutTiles <=> Paned!LayoutTiles
  <2>1. \A tree : Splits!pane_ids(tree) = Paned!pane_ids(tree)
    BY DEF Splits!pane_ids, Paned!pane_ids, Splits!panes, Paned!panes
  <2>2. \A tree, id : Splits!PathOf(tree, id) = Paned!PathOf(tree, id)
    BY DEF Splits!PathOf, Paned!PathOf
  <2>3. \A tree, window, q : Splits!walk(tree, window, q) = Paned!walk(tree, window, q)
    <3>1. \A r, s, side : Splits!split_rect(r, s, side) = Paned!split_rect(r, s, side)
      BY DEF Splits!split_rect, Paned!split_rect, Splits!FirstPart,
             Paned!FirstPart, Splits!Larger, Paned!Larger, Splits!Smaller,
             Paned!Smaller
    <3>2. TAKE tree, window, q
    <3>3. \A at : [i \in 0..Len(q) |-> IF i = 0 THEN window
                     ELSE Splits!split_rect(at[i - 1], tree.splits[SubSeq(q, 1, i - 1)], q[i])]
                = [i \in 0..Len(q) |-> IF i = 0 THEN window
                     ELSE Paned!split_rect(at[i - 1], tree.splits[SubSeq(q, 1, i - 1)], q[i])]
      BY <3>1
    <3> QED BY <3>3, Zenon DEF Splits!walk, Paned!walk
  <2>4. \A tab, window : Splits!layout(tab, window) = Paned!layout(tab, window)
    BY <2>1, <2>2, <2>3 DEF Splits!layout, Paned!layout
  <2>5. \A rects : Splits!Covered(rects) = Paned!Covered(rects)
    BY DEF Splits!Covered, Paned!Covered, Splits!Area, Paned!Area
  <2>6. \A r, s : Splits!Inside(r, s) = Paned!Inside(r, s) /\ Splits!Apart(r, s) = Paned!Apart(r, s)
    BY DEF Splits!Inside, Paned!Inside, Splits!Apart, Paned!Apart
  <2>7. \A tab, window : Splits!Tiles(tab, window) <=> Paned!Tiles(tab, window)
    BY <2>4, <2>5, <2>6 DEF Splits!Tiles, Paned!Tiles, Splits!Area, Paned!Area
  <2> QED
    BY <2>7 DEF Splits!LayoutTiles, Paned!LayoutTiles, Splits!EveryTab,
           Paned!EveryTab
<1>1. Splits!create_workspace <=> Paned!create_workspace
  BY DEF Splits!create_workspace, Paned!create_workspace, Splits!FreshId,
         Paned!FreshId, Splits!NewTab, Paned!NewTab, Splits!leaf, Paned!leaf,
         Splits!PaneOf, Paned!PaneOf, Splits!Eid, Paned!Eid, Splits!None,
         Paned!None
<1>2. Splits!new_tab <=> Paned!new_tab
  BY DEF Splits!new_tab, Paned!new_tab, Splits!FreshId, Paned!FreshId,
         Splits!Workspace, Paned!Workspace, Splits!Put, Paned!Put,
         Splits!NewTab, Paned!NewTab, Splits!leaf, Paned!leaf, Splits!PaneOf,
         Paned!PaneOf, Splits!Eid, Paned!Eid, Splits!None, Paned!None
<1>3. Splits!spawn_agent_session <=> Paned!spawn_agent_session
  BY DEF Splits!spawn_agent_session, Paned!spawn_agent_session, Splits!Act,
         Paned!Act, Splits!Eid, Paned!Eid, Splits!TaskAgent, Paned!TaskAgent
<1>4. Splits!attach_task_agent_pane <=> Paned!attach_task_agent_pane
  BY DEF Splits!attach_task_agent_pane, Paned!attach_task_agent_pane,
         Splits!Act, Paned!Act, Splits!HasTab, Paned!HasTab, Splits!Workspace,
         Paned!Workspace, Splits!TabIds, Paned!TabIds, Splits!Tab, Paned!Tab,
         Splits!TabIndex, Paned!TabIndex, Splits!None, Paned!None,
         Splits!FreshId, Paned!FreshId, Splits!pane_count, Paned!pane_count,
         Splits!Cardinality, Paned!Cardinality, Splits!PutTab, Paned!PutTab,
         Splits!Put, Paned!Put, Splits!split_by_id, Paned!split_by_id,
         Splits!PathOf, Paned!PathOf, Splits!PaneOf, Paned!PaneOf
<1>5. \A i : Splits!close_workspace(i) <=> Paned!close_workspace(i)
  BY DEF Splits!close_workspace, Paned!close_workspace, Splits!RemoveAt,
         Paned!RemoveAt, Splits!Smaller, Paned!Smaller, Splits!Terminate,
         Paned!Terminate, Splits!EidsOf, Paned!EidsOf, Splits!PanesIn,
         Paned!PanesIn, Splits!panes, Paned!panes
<1>6. \A i : Splits!switch_workspace(i) <=> Paned!switch_workspace(i)
  BY DEF Splits!switch_workspace, Paned!switch_workspace
<1>7. \A id : Splits!close_tab(id) <=> Paned!close_tab(id)
  BY DEF Splits!close_tab, Paned!close_tab, Splits!TabIds, Paned!TabIds,
         Splits!Workspace, Paned!Workspace, Splits!ClosedTab, Paned!ClosedTab,
         Splits!RemoveAt, Paned!RemoveAt, Splits!TabIndex, Paned!TabIndex,
         Splits!Put, Paned!Put, Splits!None, Paned!None, Splits!Terminate,
         Paned!Terminate, Splits!EidsOf, Paned!EidsOf, Splits!panes,
         Paned!panes
<1>8. \A id : Splits!switch_tab(id) <=> Paned!switch_tab(id)
  BY DEF Splits!switch_tab, Paned!switch_tab, Splits!TabIds, Paned!TabIds,
         Splits!Workspace, Paned!Workspace, Splits!Put, Paned!Put,
         Splits!Same, Paned!Same
<1>9. \A step : Splits!step_tab(step) <=> Paned!step_tab(step)
  BY DEF Splits!step_tab, Paned!step_tab, Splits!Workspace, Paned!Workspace,
         Splits!HasTab, Paned!HasTab, Splits!TabIds, Paned!TabIds,
         Splits!TabIndex, Paned!TabIndex, Splits!Put, Paned!Put, Splits!Same,
         Paned!Same
<1>10. \A id, to : Splits!reorder_tab(id, to) <=> Paned!reorder_tab(id, to)
  BY DEF Splits!reorder_tab, Paned!reorder_tab, Splits!TabIds, Paned!TabIds,
         Splits!Workspace, Paned!Workspace, Splits!TabIndex, Paned!TabIndex,
         Splits!RemoveAt, Paned!RemoveAt, Splits!Put, Paned!Put,
         Splits!InsertAt, Paned!InsertAt, Splits!Smaller, Paned!Smaller,
         Splits!Same, Paned!Same
<1>11. \A direction : Splits!split_pane(direction) <=> Paned!split_pane(direction)
  BY DEF Splits!split_pane, Paned!split_pane, Splits!Split, Paned!Split,
         Splits!HasTab, Paned!HasTab, Splits!Workspace, Paned!Workspace,
         Splits!TabIds, Paned!TabIds, Splits!Tab, Paned!Tab, Splits!TabIndex,
         Paned!TabIndex, Splits!None, Paned!None, Splits!FreshId,
         Paned!FreshId, Splits!pane_count, Paned!pane_count,
         Splits!Cardinality, Paned!Cardinality, Splits!PutTab, Paned!PutTab,
         Splits!Put, Paned!Put, Splits!split_by_id, Paned!split_by_id,
         Splits!PathOf, Paned!PathOf, Splits!PaneOf, Paned!PaneOf, Splits!Eid,
         Paned!Eid
<1>12. \A id : Splits!close_pane(id) <=> Paned!close_pane(id)
  <2>1. \A tree : Splits!pane_ids(tree) = Paned!pane_ids(tree)
    BY DEF Splits!pane_ids, Paned!pane_ids, Splits!panes, Paned!panes
  <2>2. \A tree, id : Splits!PathOf(tree, id) = Paned!PathOf(tree, id)
    BY DEF Splits!PathOf, Paned!PathOf
  <2>3. \A tree : Splits!pane_count(tree) = Paned!pane_count(tree)
    BY DEF Splits!pane_count, Paned!pane_count, Splits!Cardinality,
           Paned!Cardinality
  <2>4. \A tree, id : Splits!remove_pane(tree, id) = Paned!remove_pane(tree, id)
    BY DEF Splits!remove_pane, Paned!remove_pane, Splits!PathOf, Paned!PathOf,
           Splits!Front, Paned!Front, Splits!Last, Paned!Last,
           Splits!IsPrefix, Paned!IsPrefix
  <2>5. \A id : Splits!ClosedTab(id) <=> Paned!ClosedTab(id)
    BY DEF Splits!ClosedTab, Paned!ClosedTab, Splits!RemoveAt, Paned!RemoveAt,
           Splits!TabIndex, Paned!TabIndex, Splits!Put, Paned!Put,
           Splits!None, Paned!None, Splits!Terminate, Paned!Terminate,
           Splits!EidsOf, Paned!EidsOf, Splits!panes, Paned!panes,
           Splits!Workspace, Paned!Workspace
  <2>6. (Splits!HasTab <=> Paned!HasTab) /\ Splits!Tab = Paned!Tab
    BY DEF Splits!HasTab, Paned!HasTab, Splits!Tab, Paned!Tab, Splits!TabIds,
           Paned!TabIds, Splits!TabIndex, Paned!TabIndex, Splits!Workspace,
           Paned!Workspace
  <2>7. \A tab : Splits!PutTab(tab) <=> Paned!PutTab(tab)
    BY DEF Splits!PutTab, Paned!PutTab, Splits!TabIndex, Paned!TabIndex,
           Splits!Workspace, Paned!Workspace, Splits!Put, Paned!Put
  <2>8. \A eids : Splits!Terminate(eids) <=> Paned!Terminate(eids)
    BY DEF Splits!Terminate, Paned!Terminate
  <2> QED
    BY <2>1, <2>2, <2>3, <2>4, <2>5, <2>6, <2>7, <2>8 DEF Splits!close_pane,
           Paned!close_pane, Splits!None, Paned!None
<1>13. \A id : Splits!focus_pane(id) <=> Paned!focus_pane(id)
  BY DEF Splits!focus_pane, Paned!focus_pane, Splits!HasTab, Paned!HasTab,
         Splits!Workspace, Paned!Workspace, Splits!TabIds, Paned!TabIds,
         Splits!pane_ids, Paned!pane_ids, Splits!panes, Paned!panes,
         Splits!Tab, Paned!Tab, Splits!TabIndex, Paned!TabIndex,
         Splits!PutTab, Paned!PutTab, Splits!Put, Paned!Put, Splits!Same,
         Paned!Same
<1>14. \A step : Splits!focus_step(step) <=> Paned!focus_step(step)
  BY DEF Splits!focus_step, Paned!focus_step, Splits!HasTab, Paned!HasTab,
         Splits!Workspace, Paned!Workspace, Splits!TabIds, Paned!TabIds,
         Splits!pane_count, Paned!pane_count, Splits!Cardinality,
         Paned!Cardinality, Splits!Tab, Paned!Tab, Splits!TabIndex,
         Paned!TabIndex, Splits!pane_ids, Paned!pane_ids, Splits!panes,
         Paned!panes, Splits!Rank, Paned!Rank, Splits!Left, Paned!Left,
         Splits!PathOf, Paned!PathOf, Splits!PutTab, Paned!PutTab, Splits!Put,
         Paned!Put, Splits!Same, Paned!Same
<1>15. \A id : Splits!zoom_pane(id) <=> Paned!zoom_pane(id)
  BY DEF Splits!zoom_pane, Paned!zoom_pane, Splits!Act, Paned!Act,
         Splits!HasTab, Paned!HasTab, Splits!Workspace, Paned!Workspace,
         Splits!TabIds, Paned!TabIds, Splits!pane_ids, Paned!pane_ids,
         Splits!panes, Paned!panes, Splits!Tab, Paned!Tab, Splits!TabIndex,
         Paned!TabIndex, Splits!PutTab, Paned!PutTab, Splits!Put, Paned!Put,
         Splits!None, Paned!None
<1>16. \A a, b : Splits!swap_panes(a, b) <=> Paned!swap_panes(a, b)
  BY DEF Splits!swap_panes, Paned!swap_panes, Splits!Act, Paned!Act,
         Splits!HasTab, Paned!HasTab, Splits!Workspace, Paned!Workspace,
         Splits!TabIds, Paned!TabIds, Splits!pane_ids, Paned!pane_ids,
         Splits!panes, Paned!panes, Splits!Tab, Paned!Tab, Splits!TabIndex,
         Paned!TabIndex, Splits!PutTab, Paned!PutTab, Splits!Put, Paned!Put,
         Splits!swap_contents, Paned!swap_contents, Splits!PathOf,
         Paned!PathOf, Splits!PaneOf, Paned!PaneOf
<1>17. \A id, forward : Splits!move_pane(id, forward) <=> Paned!move_pane(id, forward)
  BY DEF Splits!move_pane, Paned!move_pane, Splits!Act, Paned!Act,
         Splits!HasTab, Paned!HasTab, Splits!Workspace, Paned!Workspace,
         Splits!TabIds, Paned!TabIds, Splits!pane_ids, Paned!pane_ids,
         Splits!panes, Paned!panes, Splits!Tab, Paned!Tab, Splits!TabIndex,
         Paned!TabIndex, Splits!movable, Paned!movable, Splits!PathOf,
         Paned!PathOf, Splits!Last, Paned!Last, Splits!PutTab, Paned!PutTab,
         Splits!Put, Paned!Put, Splits!move_in_parent, Paned!move_in_parent,
         Splits!Front, Paned!Front, Splits!IsPrefix, Paned!IsPrefix
<1>18. \A id, grow : Splits!resize_pane(id, grow) <=> Paned!resize_pane(id, grow)
  BY DEF Splits!resize_pane, Paned!resize_pane, Splits!Act, Paned!Act,
         Splits!HasTab, Paned!HasTab, Splits!Workspace, Paned!Workspace,
         Splits!TabIds, Paned!TabIds, Splits!pane_ids, Paned!pane_ids,
         Splits!panes, Paned!panes, Splits!Tab, Paned!Tab, Splits!TabIndex,
         Paned!TabIndex, Splits!pane_count, Paned!pane_count,
         Splits!Cardinality, Paned!Cardinality, Splits!PathOf, Paned!PathOf,
         Splits!PutTab, Paned!PutTab, Splits!Put, Paned!Put
<1>19. \A failed : Splits!Restart(failed) <=> Paned!Restart(failed)
  BY DEF Splits!Restart, Paned!Restart, Splits!Act, Paned!Act, Splits!Respawned,
         Paned!Respawned, Splits!PaneOf, Paned!PaneOf, Splits!PanesIn,
         Paned!PanesIn, Splits!panes, Paned!panes
<1>g. Splits!Next <=> Paned!Next
  <2>a. Splits!Ids = Paned!Ids /\ Splits!Directions = Paned!Directions
    BY DEF Splits!Ids, Paned!Ids, Splits!Directions, Paned!Directions
  <2>1. (\E i \in 1..MaxWorkspaces : Splits!close_workspace(i))
    <=> (\E i \in 1..MaxWorkspaces : Paned!close_workspace(i))
    BY ONLY <2>a, <1>5, Zenon
  <2>2. (\E i \in 1..MaxWorkspaces : Splits!switch_workspace(i))
    <=> (\E i \in 1..MaxWorkspaces : Paned!switch_workspace(i))
    BY ONLY <2>a, <1>6, Zenon
  <2>3. (\E id \in Splits!Ids : Splits!close_tab(id))
    <=> (\E id \in Paned!Ids : Paned!close_tab(id))
    BY ONLY <2>a, <1>7, Zenon
  <2>4. (\E id \in Splits!Ids : Splits!switch_tab(id))
    <=> (\E id \in Paned!Ids : Paned!switch_tab(id))
    BY ONLY <2>a, <1>8, Zenon
  <2>5. (\E step \in {1, -1} : Splits!step_tab(step))
    <=> (\E step \in {1, -1} : Paned!step_tab(step))
    BY ONLY <2>a, <1>9, Zenon
  <2>6. (\E id \in Splits!Ids, to \in 1..MaxTabs : Splits!reorder_tab(id, to))
    <=> (\E id \in Paned!Ids, to \in 1..MaxTabs : Paned!reorder_tab(id, to))
    BY ONLY <2>a, <1>10, Zenon
  <2>7. (\E direction \in Splits!Directions : Splits!split_pane(direction))
    <=> (\E direction \in Paned!Directions : Paned!split_pane(direction))
    BY ONLY <2>a, <1>11, Zenon
  <2>8. (\E id \in Splits!Ids : Splits!close_pane(id))
    <=> (\E id \in Paned!Ids : Paned!close_pane(id))
    BY ONLY <2>a, <1>12, Zenon
  <2>9. (\E id \in Splits!Ids : Splits!focus_pane(id))
    <=> (\E id \in Paned!Ids : Paned!focus_pane(id))
    BY ONLY <2>a, <1>13, Zenon
  <2>10. (\E step \in {1, -1} : Splits!focus_step(step))
     <=> (\E step \in {1, -1} : Paned!focus_step(step))
    BY ONLY <2>a, <1>14, Zenon
  <2>11. (\E id \in Splits!Ids : Splits!zoom_pane(id))
     <=> (\E id \in Paned!Ids : Paned!zoom_pane(id))
    BY ONLY <2>a, <1>15, Zenon
  <2>12. (\E a, b \in Splits!Ids : Splits!swap_panes(a, b))
     <=> (\E a, b \in Paned!Ids : Paned!swap_panes(a, b))
    BY ONLY <2>a, <1>16, Zenon
  <2>13. (\E id \in Splits!Ids, forward \in BOOLEAN : Splits!move_pane(id, forward))
     <=> (\E id \in Paned!Ids, forward \in BOOLEAN : Paned!move_pane(id, forward))
    BY ONLY <2>a, <1>17, Zenon
  <2>14. (\E id \in Splits!Ids, grow \in BOOLEAN : Splits!resize_pane(id, grow))
     <=> (\E id \in Paned!Ids, grow \in BOOLEAN : Paned!resize_pane(id, grow))
    BY ONLY <2>a, <1>18, Zenon
  <2>15. (\E failed \in {{}} \cup {{id} : id \in Splits!Ids} : Splits!Restart(failed))
     <=> (\E failed \in {{}} \cup {{id} : id \in Paned!Ids} : Paned!Restart(failed))
    BY ONLY <2>a, <1>19, Zenon
  <2> QED BY ONLY <1>1, <1>2, <1>3, <1>4, <2>1, <2>2, <2>3, <2>4, <2>5, <2>6, <2>7, <2>8, <2>9, <2>10, <2>11, <2>12, <2>13, <2>14, <2>15, Zenon
         DEF Splits!Next, Paned!Next
<1> QED BY ONLY <1>a, <1>b, <1>c, <1>d, <1>e, <1>f, <1>g

LEMMA InSuite ==
    /\ TerminalInit => Init /\ Paned!Init /\ Disk!Init /\ Windows!Init /\ Terminal!Init
    /\ [TerminalNext]_allVars => /\ [Next]_vars
                                 /\ [Paned!Next]_(Paned!vars)
                                 /\ [Disk!Next]_(Disk!vars)
                                 /\ [Windows!Next]_(Windows!vars)
                                 /\ [Terminal!Next]_(Terminal!vars)
<1>1. TerminalInit => Init /\ Paned!Init /\ Disk!Init /\ Windows!Init /\ Terminal!Init
  BY SamePanes DEF TerminalInit
<1>2. UNCHANGED sfVars => UNCHANGED Disk!vars
  BY DEF sfVars, Disk!vars
<1>3. UNCHANGED deVars => UNCHANGED Windows!vars
  BY DEF deVars, Windows!vars
<1>4. UNCHANGED scVars => UNCHANGED Terminal!vars
  BY DEF scVars, Terminal!vars
<1>5. UNCHANGED paVars => UNCHANGED Paned!vars
  BY DEF paVars, Paned!vars
<1>6. UNCHANGED allVars => UNCHANGED <<vars, paVars, sfVars, deVars, scVars>>
  BY DEF allVars
<1>7. TerminalNext => /\ Next \/ UNCHANGED vars
                      /\ Splits!Next \/ UNCHANGED paVars
                      /\ Disk!Next \/ UNCHANGED sfVars
                      /\ Windows!Next \/ UNCHANGED deVars
                      /\ Terminal!Next \/ UNCHANGED scVars
  BY DEF TerminalNext
<1> QED BY <1>1, <1>2, <1>3, <1>4, <1>5, <1>6, <1>7, SamePanes

LEMMA SuiteOfParts ==
    TerminalSpec => Spec /\ Paned!Spec /\ Disk!Spec /\ Windows!Spec /\ Terminal!Spec
<1> QED BY InSuite, PTL DEF TerminalSpec, Spec, Paned!Spec, Disk!Spec, Windows!Spec,
                            Terminal!Spec

(* What the suite says of the states of its components: each variable has  *)
(* its type, and every pane tree is a tree, for every number of tasks,     *)
(* panes, rows and processes.                                              *)
THEOREM SuiteTypes ==
    ASSUME Paned!Bounds, FileBounds, DesktopBounds, ScreenBounds
    PROVE  TerminalSpec => []TypesOK
<1>1. Spec => []TypeOK
  BY BusTypes
<1>2. Paned!Spec => []Paned!TypeOK
  BY Paned!PaneTreesStayTrees
<1>3. Disk!Spec => []Disk!TypeOK
  BY FileTypes
<1>4. Windows!Spec => []Windows!TypeOK
  BY WindowTypes
<1>5. Terminal!Spec => []Terminal!TypeOK
  <2>1. Terminal!Spec => [](Terminal!TypeOK /\ Terminal!ScreenHolds /\ Terminal!HistoryIsBounded)
    BY TheScreenHolds
  <2> QED BY <2>1, PTL
<1>6. /\ TypeOK /\ Paned!TypeOK /\ Disk!TypeOK /\ Windows!TypeOK /\ Terminal!TypeOK
      => TypesOK
  BY SamePanes DEF TypesOK
<1> QED BY <1>1, <1>2, <1>3, <1>4, <1>5, <1>6, SuiteOfParts, PTL

(* What the suite says of the panes: whatever is split, swapped, moved,    *)
(* closed and restored, no session outlives its panes, the focus is inside *)
(* and, where the window has room for the splits a tab may have, the panes *)
(* tile it (close_tab, close_pane, split_rect).                            *)
THEOREM PanesStayWhole ==
    ASSUME Paned!Bounds, Paned!Room
    PROVE  TerminalSpec => []PanesHold
<1>1. Paned!Spec => []Paned!NoSessionLeaks
  BY Paned!SessionsGoWithTheirPanes
<1>2. Paned!Spec => []Paned!FocusIsInside
  BY Paned!FocusStaysInside
<1>3. Paned!Spec => []Paned!LayoutTiles
  BY Paned!PanesTileTheWindow
<1>4. Paned!NoSessionLeaks /\ Paned!FocusIsInside /\ Paned!LayoutTiles => PanesHold
  BY SamePanes DEF PanesHold
<1> QED BY <1>1, <1>2, <1>3, <1>4, SuiteOfParts, PTL

(* What the suite says of the state file: a process that is killed at any  *)
(* moment, or whose write or rename fails, leaves what was last put in     *)
(* place, as a whole, or a copy of what was corrupt (save, quarantine).    *)
THEOREM FileStaysWhole ==
    ASSUME FileBounds, \E one : Instances = {one}
    PROVE  TerminalSpec => []FileIsWhole
<1>1. Disk!FileIsWhole <=> FileIsWhole
  BY DEF FileIsWhole
<1> QED BY <1>1, SuiteOfParts, SavedWhole, PTL

(* What the suite says of the windows, for any tasks, replans and agents:  *)
(* no edit outlives its replan and Esc closes what is open (on_key).       *)
THEOREM WindowsUnwind == TerminalSpec => []DesktopUnwinds
<1>1. Windows!EditingHasAReplan /\ Windows!EscapeUnwinds => DesktopUnwinds
  BY DEF DesktopUnwinds
<1> QED BY <1>1, SuiteOfParts, EscapeIsAWayOut, PTL

(* What the suite says of the screen: as long as nothing is brought back   *)
(* that was saved at another size, the cursor, the selection and every row *)
(* stay on it, and the history within its limit (vis_idx, resize).         *)
THEOREM ScreenStaysWhole ==
    ASSUME ScreenBounds
    PROVE  TerminalSpec => []ScreenHolds
<1>1. Terminal!ScreenHolds /\ Terminal!HistoryIsBounded => ScreenHolds
  BY DEF ScreenHolds
<1> QED BY <1>1, SuiteOfParts, TheScreenHolds, PTL
=============================================================================
