------------------------------ MODULE EventBus ------------------------------
(***************************************************************************)
(* The application event bus of crates/terminal-workspace/src/events.rs:   *)
(* one bounded queue per subscriber, never blocking the publisher, and a   *)
(* disconnect policy applied once per drain frame by flush().  Publishing  *)
(* and flushing run on the engine thread under the bus mutex; every        *)
(* receiver is read by a thread of its own.                                *)
(*                                                                         *)
(* An event is its publish number; its channel (what filters select on)    *)
(* decides its delivery semantics.                                         *)
(***************************************************************************)
EXTENDS Integers, FiniteSets, SequencesExt

CONSTANTS
    Subscribers,
    Channels,        \* event channels a filter selects
    CoalescibleOn,   \* the channels whose events are Coalescible
    Filters,         \* the filters clients subscribe with: sets of channels
    SUBSCRIBER_QUEUE_CAPACITY,
    MAX_CRITICAL_DROPS,
    MAX_DROPPED_OUTPUT_BATCHES,
    MAX_STALLED_FLUSHES,
    MaxEvents        \* bound: how many events are ever published

ASSUME ChannelsAssumption == CoalescibleOn \subseteq Channels
ASSUME FiltersAssumption == Filters \subseteq SUBSET Channels
ASSUME CapacityAssumption == SUBSCRIBER_QUEUE_CAPACITY \in Nat \ {0}
ASSUME PolicyAssumption == /\ MAX_CRITICAL_DROPS \in Nat \ {0}
                           /\ MAX_DROPPED_OUTPUT_BATCHES \in Nat \ {0}
                           /\ MAX_STALLED_FLUSHES \in Nat \ {0}
ASSUME EventsAssumption == MaxEvents \in Nat

Events == 1..MaxEvents

VARIABLES
    published,   \* number of events published so far
    channel,     \* the channel of each published event
    subs,        \* EventBus.subscribers: the ids the bus still serves
    filter, critical_drops, dropped_non_critical, stalled_flushes,
    last_q_before, sent_since_flush, disconnected,   \* struct Subscriber
    queue,       \* the bounded channel between bus and receiver
    rx,          \* state of the receiving end: "none", "reading", "wedged", "dropped"
    got,         \* history: the events a receiver has taken, in order
    since,       \* history: events published before the subscription
    took,        \* history: it took something, or had nothing to take,
                 \* since the last flush
    lagged       \* history: it once let its queue fill, or took nothing of
                 \* a backlog from one flush to the next

subscriberVars == <<filter, critical_drops, dropped_non_critical,
                    stalled_flushes, last_q_before, sent_since_flush,
                    disconnected>>
historyVars == <<since, took, lagged>>
vars == <<published, channel, subs, subscriberVars, queue, rx, got, historyVars>>

Zero == [s \in Subscribers |-> 0]

Init ==
    /\ published = 0 /\ channel = <<>> /\ subs = {}
    /\ filter = [s \in Subscribers |-> {}]
    /\ critical_drops = Zero /\ dropped_non_critical = Zero
    /\ stalled_flushes = Zero /\ last_q_before = Zero /\ sent_since_flush = Zero
    /\ disconnected = [s \in Subscribers |-> FALSE]
    /\ queue = [s \in Subscribers |-> <<>>]
    /\ rx = [s \in Subscribers |-> "none"]
    /\ got = [s \in Subscribers |-> <<>>]
    /\ since = Zero
    /\ took = [s \in Subscribers |-> TRUE]
    /\ lagged = [s \in Subscribers |-> FALSE]

is_critical(c) == c \notin CoalescibleOn

(* A fresh id, a fresh channel, all counters zero.                         *)
Subscribe(s, F) ==
    /\ rx[s] = "none"
    /\ subs' = subs \cup {s}
    /\ filter' = [filter EXCEPT ![s] = F]
    /\ rx' = [rx EXCEPT ![s] = "reading"]
    /\ since' = [since EXCEPT ![s] = published]
    /\ UNCHANGED <<published, channel, critical_drops, dropped_non_critical,
                   stalled_flushes, last_q_before, sent_since_flush,
                   disconnected, queue, got, took, lagged>>

Unsubscribe(s) ==
    /\ s \in subs
    /\ subs' = subs \ {s}
    /\ UNCHANGED <<published, channel, subscriberVars, queue, rx, got, historyVars>>

(* try_enqueue on every subscriber: which of the four outcomes each gets.  *)
Matching(c) == {s \in subs : c \in filter[s]}
Gone(c) == {s \in Matching(c) : rx[s] = "dropped"}

(* Faults: the capacity is off by one, either way.                         *)
FaultFullPastCapacity(c) ==
    {s \in Matching(c) \ Gone(c) : Len(queue[s]) > SUBSCRIBER_QUEUE_CAPACITY}
FaultFullEarly(c) ==
    {s \in Matching(c) \ Gone(c) : Len(queue[s]) >= SUBSCRIBER_QUEUE_CAPACITY - 1}

Full(c) == {s \in Matching(c) \ Gone(c) : Len(queue[s]) = SUBSCRIBER_QUEUE_CAPACITY}
Sent(c) == Matching(c) \ (Gone(c) \cup Full(c))

Bump(f, S) == [s \in Subscribers |-> IF s \in S THEN f[s] + 1 ELSE f[s]]

Publish(c) ==
    /\ published < MaxEvents
    /\ published' = published + 1
    /\ channel' = Append(channel, c)
    /\ queue' = [s \in Subscribers |-> IF s \in Sent(c)
                                       THEN Append(queue[s], published + 1)
                                       ELSE queue[s]]
    /\ sent_since_flush' = Bump(sent_since_flush, Sent(c))
    /\ critical_drops' =
         Bump(critical_drops, IF is_critical(c) THEN Full(c) ELSE {})
    /\ dropped_non_critical' =
         Bump(dropped_non_critical, IF is_critical(c) THEN {} ELSE Full(c))
    /\ disconnected' = [s \in Subscribers |-> disconnected[s] \/ s \in Gone(c)]
    /\ lagged' = [s \in Subscribers |->
          lagged[s] \/ Len(queue[s]) = SUBSCRIBER_QUEUE_CAPACITY]
    /\ UNCHANGED <<subs, filter, stalled_flushes, last_q_before, rx, got, since,
                   took>>

(* Fault: what was sent meanwhile is not considered.                       *)
FaultStallsWhileSent(s) == /\ Len(queue[s]) > 0
                           /\ Len(queue[s]) = last_q_before[s]

(* Fault: only a growing backlog counts as a stall.                        *)
FaultStallsOnGrowth(s) == /\ Len(queue[s]) > last_q_before[s]
                          /\ sent_since_flush[s] = 0

(* The slow-client policy.  The three drop counters are never reset.       *)
Stalls(s) == /\ Len(queue[s]) > 0
             /\ Len(queue[s]) = last_q_before[s]
             /\ sent_since_flush[s] = 0

Evicted(s) ==
    \/ critical_drops[s] >= MAX_CRITICAL_DROPS
    \/ dropped_non_critical[s] >= MAX_DROPPED_OUTPUT_BATCHES
    \/ Stalls(s) /\ stalled_flushes[s] + 1 >= MAX_STALLED_FLUSHES
    \/ disconnected[s]

(* Fault: a flush clears the drop counters.                                *)
FaultFlushForgives ==
    /\ subs' = {s \in subs : ~Evicted(s)}
    /\ critical_drops' = Zero /\ dropped_non_critical' = Zero
    /\ UNCHANGED <<published, channel, filter, stalled_flushes, last_q_before,
                   sent_since_flush, disconnected, queue, rx, got, historyVars>>

Flush ==
    /\ stalled_flushes' = [s \in Subscribers |->
          IF s \notin subs THEN stalled_flushes[s]
          ELSE IF Stalls(s) THEN stalled_flushes[s] + 1 ELSE 0]
    /\ last_q_before' = [s \in Subscribers |->
          IF s \in subs THEN Len(queue[s]) ELSE last_q_before[s]]
    /\ sent_since_flush' = [s \in Subscribers |->
          IF s \in subs THEN 0 ELSE sent_since_flush[s]]
    /\ subs' = {s \in subs : ~Evicted(s)}
    /\ took' = [s \in Subscribers |-> queue[s] = <<>>]
    /\ lagged' = [s \in Subscribers |-> lagged[s] \/ ~took[s]]
    /\ UNCHANGED <<published, channel, filter, critical_drops,
                   dropped_non_critical, disconnected, queue, rx, got, since>>

(* Fault: the newest event is taken first.                                 *)
FaultReceiveNewest(s) ==
    /\ rx[s] = "reading" /\ queue[s] # <<>>
    /\ got' = [got EXCEPT ![s] = Append(@, Last(queue[s]))]
    /\ queue' = [queue EXCEPT ![s] = Front(@)]
    /\ took' = [took EXCEPT ![s] = TRUE]
    /\ UNCHANGED <<published, channel, subs, subscriberVars, rx, since, lagged>>

(* The client's thread.  A receiver outlives its sender: what is queued    *)
(* can still be taken after the bus has let go of the subscriber.          *)
Receive(s) ==
    /\ rx[s] = "reading" /\ queue[s] # <<>>
    /\ got' = [got EXCEPT ![s] = Append(@, Head(queue[s]))]
    /\ queue' = [queue EXCEPT ![s] = Tail(@)]
    /\ took' = [took EXCEPT ![s] = TRUE]
    /\ UNCHANGED <<published, channel, subs, subscriberVars, rx, since, lagged>>

(* An IPC writer blocks on a socket its client no longer reads.            *)
Wedge(s) ==
    /\ rx[s] = "reading"
    /\ rx' = [rx EXCEPT ![s] = "wedged"]
    /\ UNCHANGED <<published, channel, subs, subscriberVars, queue, got,
                   historyVars>>

DropReceiver(s) ==
    /\ rx[s] \in {"reading", "wedged"}
    /\ rx' = [rx EXCEPT ![s] = "dropped"]
    /\ queue' = [queue EXCEPT ![s] = <<>>]
    /\ UNCHANGED <<published, channel, subs, subscriberVars, got, historyVars>>

Next ==
    \/ \E c \in Channels : Publish(c)
    \/ Flush
    \/ \E s \in Subscribers :
         \/ \E F \in Filters : Subscribe(s, F)
         \/ Unsubscribe(s) \/ Receive(s) \/ Wedge(s) \/ DropReceiver(s)

Spec == Init /\ [][Next]_vars

(* The engine flushes once per drain frame, for ever; nobody has to        *)
(* publish, and no receiver has to read.                                   *)
LiveSpec == Spec /\ WF_vars(Flush)

-----------------------------------------------------------------------------
(* Properties.                                                             *)

Increasing(s) == \A i, j \in DOMAIN s : i < j => s[i] < s[j]

(* The types of all variables; no queue outgrows its capacity.             *)
TypeOK ==
    /\ published \in 0..MaxEvents
    /\ channel \in Seq(Channels) /\ Len(channel) = published
    /\ subs \subseteq Subscribers
    /\ filter \in [Subscribers -> SUBSET Channels]
    /\ critical_drops \in [Subscribers -> Nat]
    /\ dropped_non_critical \in [Subscribers -> Nat]
    /\ stalled_flushes \in [Subscribers -> Nat]
    /\ last_q_before \in [Subscribers -> Nat]
    /\ sent_since_flush \in [Subscribers -> Nat]
    /\ disconnected \in [Subscribers -> BOOLEAN]
    /\ queue \in [Subscribers -> Seq(1..published)]
    /\ \A s \in Subscribers : Len(queue[s]) <= SUBSCRIBER_QUEUE_CAPACITY
    /\ rx \in [Subscribers -> {"none", "reading", "wedged", "dropped"}]
    /\ got \in [Subscribers -> Seq(1..published)]
    /\ since \in [Subscribers -> 0..published]
    /\ took \in [Subscribers -> BOOLEAN]
    /\ lagged \in [Subscribers -> BOOLEAN]

(* The stream a receiver sees, taken and still to come, is in publish      *)
(* order, without repetition, and only of events that its filter selects   *)
(* and that came after its subscription.                                   *)
StreamInOrder ==
    \A s \in Subscribers :
        /\ Increasing(got[s]) /\ Increasing(queue[s])
        /\ \A i \in DOMAIN got[s], j \in DOMAIN queue[s] : got[s][i] < queue[s][j]
        /\ \A e \in ToSet(got[s]) \cup ToSet(queue[s]) :
              e > since[s] /\ channel[e] \in filter[s]

(* The events a subscriber asked for and will never see.                   *)
Lost(s) == {e \in (since[s] + 1)..published : channel[e] \in filter[s]}
             \ (ToSet(got[s]) \cup ToSet(queue[s]))

(* No event disappears uncounted: while the bus serves a subscriber whose  *)
(* receiver lives, its drop counters are exactly the number of lossless    *)
(* and of coalescible events missing from its stream.                      *)
DropsAreCounted ==
    \A s \in subs : rx[s] # "dropped" =>
        /\ critical_drops[s] = Cardinality({e \in Lost(s) : is_critical(channel[e])})
        /\ dropped_non_critical[s] =
              Cardinality({e \in Lost(s) : ~is_critical(channel[e])})

(* A subscriber that never let its queue fill misses nothing it asked for. *)
KeepingUpLosesNothing ==
    \A s \in subs : ~lagged[s] /\ rx[s] # "dropped" => Lost(s) = {}

(* A stream holds what its filter selects, in publish order and each event *)
(* once, every gap in it is counted for the subscriber it is in, and none  *)
(* is in the stream of one that keeps up (try_enqueue, flush).             *)
StreamIsExact == StreamInOrder /\ DropsAreCounted /\ KeepingUpLosesNothing

(* tests: "a subscriber that keeps up must never be disconnected": flush   *)
(* removes only subscribers that are gone, once let their queue fill, or   *)
(* took nothing of a backlog for a whole interval.                         *)
OnlyLaggardsAreEvicted ==
    [][Flush => \A s \in subs \ subs' : rx[s] = "dropped" \/ lagged'[s]]_vars

(* A wedged receiver with a backlog is let go, publishing or not: the      *)
(* engine never serves a dead client for ever.                             *)
WedgedIsEvicted ==
    \A s \in Subscribers :
        rx[s] = "wedged" /\ queue[s] # <<>> /\ s \in subs
            ~> s \notin subs \/ rx[s] = "dropped"

(* The stream of each subscriber is what EventStream promises.             *)
Stream(s) == INSTANCE EventStream WITH
    Event <- Events, offered <- ToSet(queue[s]), taken <- ToSet(got[s]), open <- s \in subs
StreamsStart == \A s \in Subscribers : Stream(s)!StreamInit
StreamSteps ==
    \A s \in Subscribers : [Stream(s)!StreamNext]_(Stream(s)!streamVars)
StreamsImplement == StreamsStart /\ [][StreamSteps]_vars

=============================================================================
