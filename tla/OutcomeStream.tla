--------------------------- MODULE OutcomeStream ---------------------------
(***************************************************************************)
(* The outcome consumer: the Redis stream, its consumer group and the      *)
(* workers of all the instances of the service, from                       *)
(* src/consumer/outcomeConsumer.ts, src/redis/consumerGroup.ts and         *)
(* src/store/processedStore.ts.  A reader is the readLoop of an instance;  *)
(* a claimer is one run of claimStale, which the timer starts again        *)
(* whether or not the last one has ended, so that several run at once in   *)
(* one instance or in many.  What the handler does to the breaker is in    *)
(* module RoutingProtocol; here it records the outcome or fails.           *)
(***************************************************************************)
EXTENDS Integers, Sequences, FiniteSets, SequencesExt

CONSTANTS
    Messages,       \* the entries the producer puts on the stream
    Events,         \* the outcome events; a producer may send one twice
    EventOf,        \* the event of each message
    Kinds,          \* what a message can be: "outcome", "broken" or "newer"
    Readers, Claimers,
    MaxDeliveries,  \* config.MAX_DELIVERIES
    BatchSize,      \* COUNT of XREADGROUP and of XPENDING
    MaxRestarts,    \* bound on the restarts of Redis
    NoMessage

Workers == Readers \union Claimers

ASSUME StreamAssumption ==
    /\ EventOf \in [Messages -> Events]
    /\ Kinds \subseteq {"outcome", "broken", "newer"}
    /\ Readers \intersect Claimers = {}
    /\ IsFiniteSet(Claimers) /\ Claimers # {}
    /\ MaxDeliveries \in Nat \ {0}
    /\ BatchSize \in Nat \ {0}
    /\ MaxRestarts \in Nat
    /\ NoMessage \notin Messages

VARIABLES
    stream,     \* Redis: the entries of OUTCOME_STREAM
    group,      \* Redis: how many of them the group has read, -1 with no group
    pending,    \* Redis: deliveries and idleness of the unacknowledged ones
    processed,  \* Redis: the events with a processed:<event> key
    dead,       \* Redis: the messages on DEAD_LETTER_STREAM
    pc,         \* where each worker stands
    batch,      \* what it has still to go through
    current,    \* the message it works on
    sent,       \* the kind of each message the producer has sent
    restarts,   \* how often Redis has lost everything
    counted,    \* history: how often each event was recorded
    acked,      \* history: the messages that were acknowledged
    forgotten   \* history: the events whose processed key has expired or was lost

redis   == <<stream, group, pending, processed, dead>>
working == <<pc, batch, current>>
history == <<counted, acked, forgotten>>
vars    == <<redis, working, sent, restarts, history>>

\* The claimers that saw one delivery less may each add one more.
MostDeliveries == MaxDeliveries + Cardinality(Claimers) - 1

Delivery == [deliveries : 1 .. MostDeliveries, idle : BOOLEAN]

\* What a worker goes through: a message, and for a claimer the number of
\* deliveries that XPENDING told.
Item == [message : Messages, deliveries : 0 .. MostDeliveries]

TypeOK ==
    /\ stream \in Seq(Messages)
    /\ group \in -1 .. Len(stream)
    /\ DOMAIN pending \subseteq Messages
    /\ \A m \in DOMAIN pending : pending[m] \in Delivery
    /\ processed \subseteq Events
    /\ dead \subseteq Messages
    /\ pc \in [Workers -> {"idle", "next", "handle", "record", "ack",
                           "deadAdd", "deadAck"}]
    /\ batch \in [Workers -> Seq(Item)]
    /\ current \in [Workers -> Messages \union {NoMessage}]
    /\ DOMAIN sent \subseteq Messages /\ ToSet(stream) \subseteq DOMAIN sent
    /\ \A m \in DOMAIN sent : sent[m] \in Kinds
    /\ restarts \in 0 .. MaxRestarts
    /\ counted \in [Events -> Nat]
    /\ acked \subseteq Messages
    /\ forgotten \subseteq Events

(***************************************************************************)
(* The producer and Redis.                                                 *)
(***************************************************************************)
\* XADD, which makes the stream when there is none.
Publish(m) ==
    /\ m \notin DOMAIN sent
    /\ \E kind \in Kinds : sent' = [x \in DOMAIN sent \union {m} |->
                                    IF x = m THEN kind ELSE sent[x]]
    /\ stream' = Append(stream, m)
    /\ UNCHANGED <<group, pending, processed, dead, working, restarts, history>>

\* Redis keeps nothing on disk: a restart removes the stream, the group and
\* every key.  The counts of the window are gone too.
RedisRestart ==
    /\ restarts < MaxRestarts
    /\ restarts' = restarts + 1
    /\ stream' = <<>> /\ group' = -1 /\ pending' = <<>>
    /\ processed' = {} /\ dead' = {}
    /\ counted' = [e \in Events |-> 0]
    /\ forgotten' = forgotten \union processed
    /\ UNCHANGED <<working, sent, acked>>

\* CLAIM_MIN_IDLE_MS pass after a delivery, whether or not somebody still
\* works on the message.
GrowIdle(m) ==
    /\ m \in DOMAIN pending /\ ~pending[m].idle
    /\ pending' = [pending EXCEPT ![m].idle = TRUE]
    /\ UNCHANGED <<stream, group, processed, dead, working, sent, restarts, history>>

\* PROCESSED_TTL_SECONDS pass.
Expire(e) ==
    /\ e \in processed /\ e \notin forgotten
    /\ processed' = processed \ {e}
    /\ forgotten' = forgotten \union {e}
    /\ UNCHANGED <<stream, group, pending, dead, working, sent, restarts,
                   counted, acked>>

(***************************************************************************)
(* The workers.                                                            *)
(***************************************************************************)
Without(f, m) == Restrict(f, DOMAIN f \ {m})

Goto(w, place) == pc' = [pc EXCEPT ![w] = place]

\* The worker is through with its message and takes the next one.
Leave(w) ==
    /\ Goto(w, IF batch[w] = <<>> THEN "idle" ELSE "next")
    /\ current' = [current EXCEPT ![w] = NoMessage]

\* The worker gives up everything it has in memory.
Drop(w) ==
    /\ Goto(w, "idle")
    /\ current' = [current EXCEPT ![w] = NoMessage]
    /\ batch' = [batch EXCEPT ![w] = <<>>]

\* Fault: the group is not made again.
EnsureGroup_never(w) == FALSE /\ UNCHANGED vars

\* start(), and the repair of readLoop after NOGROUP: XGROUP CREATE from the
\* beginning of the stream, with MKSTREAM.
EnsureGroup(w) ==
    /\ pc[w] = "idle" /\ group = -1
    /\ group' = 0
    /\ UNCHANGED <<stream, pending, processed, dead, working, sent, restarts, history>>

\* XREADGROUP with ">": entries nobody has read yet.
ReadGroup(w) ==
    LET last == IF group + BatchSize < Len(stream) THEN group + BatchSize
                                                   ELSE Len(stream)
        new == SubSeq(stream, group + 1, last)
    IN  /\ pc[w] = "idle" /\ group # -1 /\ new # <<>>
        /\ group' = last
        /\ pending' = [m \in DOMAIN pending \union ToSet(new) |->
                          IF m \in ToSet(new)
                            THEN [deliveries |-> 1, idle |-> FALSE]
                            ELSE pending[m]]
        /\ batch' = [batch EXCEPT ![w] = [i \in DOMAIN new |->
                        [message |-> new[i], deliveries |-> 0]]]
        /\ Goto(w, "next")
        /\ UNCHANGED <<stream, processed, dead, current, sent, restarts, history>>

\* The loop of readLoop takes the next entry of its batch.
TakeRead(w) ==
    /\ pc[w] = "next"
    /\ current' = [current EXCEPT ![w] = Head(batch[w]).message]
    /\ batch' = [batch EXCEPT ![w] = Tail(@)]
    /\ Goto(w, "handle")
    /\ UNCHANGED <<redis, sent, restarts, history>>

\* The first places of S, at most n of them, in their order.
FirstOf(S, n) ==
    LET size == IF Cardinality(S) < n THEN Cardinality(S) ELSE n
    IN  {places \in [1 .. size -> S] :
            /\ \A i, j \in 1 .. size : i < j => places[i] < places[j]
            /\ \A i \in 1 .. size, k \in S :
                  k < places[i] => \E j \in 1 .. size : places[j] = k}

\* XPENDING: the oldest entries that are idle, with their deliveries.
ScanPending(w) ==
    LET old == {i \in DOMAIN stream :
                   stream[i] \in DOMAIN pending /\ pending[stream[i]].idle}
    IN  /\ pc[w] = "idle" /\ group # -1 /\ old # {}
        /\ \E first \in FirstOf(old, BatchSize) :
              batch' = [batch EXCEPT ![w] = [i \in DOMAIN first |->
                           [message |-> stream[first[i]],
                            deliveries |-> pending[stream[first[i]]].deliveries]]]
        /\ Goto(w, "next")
        /\ UNCHANGED <<redis, current, sent, restarts, history>>

\* Fault: one delivery more.
DeliveredEnough_oneMore(n) == n > MaxDeliveries

\* So many deliveries make a dead letter.
DeliveredEnough(n) == n >= MaxDeliveries

\* The loop of claimStale takes the next entry of what XPENDING told.  It makes a
\* dead letter of it, also of an entry that XRANGE no longer finds, or claims it:
\* XCLAIM gives nothing for an entry that is no longer pending or was delivered
\* to somebody else since, and needs the group.
TakeClaimed(w) ==
    LET item == Head(batch[w])
        m == item.message
        free == m \in DOMAIN pending /\ pending[m].idle
    IN  /\ pc[w] = "next"
        /\ DeliveredEnough(item.deliveries) \/ group # -1
        /\ batch' = [batch EXCEPT ![w] = Tail(@)]
        /\ \/ /\ DeliveredEnough(item.deliveries)
              /\ current' = [current EXCEPT ![w] = m]
              /\ Goto(w, "deadAdd")
              /\ UNCHANGED pending
           \/ /\ ~DeliveredEnough(item.deliveries) /\ free
              /\ pending' = [pending EXCEPT ![m] =
                                [deliveries |-> @.deliveries + 1, idle |-> FALSE]]
              /\ current' = [current EXCEPT ![w] = m]
              /\ Goto(w, "handle")
           \/ /\ ~DeliveredEnough(item.deliveries) /\ ~free
              /\ Goto(w, IF Tail(batch[w]) = <<>> THEN "idle" ELSE "next")
              /\ UNCHANGED <<pending, current>>
        /\ UNCHANGED <<stream, group, processed, dead, sent, restarts, history>>

\* XPENDING, XRANGE or XCLAIM fails, with no group for one: the run ends.
ClaimFails(w) ==
    /\ pc[w] = "next"
    /\ Drop(w)
    /\ UNCHANGED <<redis, sent, restarts, history>>

\* Fault: the processed key does not stop a repeat.
Claim_always(w) ==
    /\ processed' = processed \union {EventOf[current[w]]}
    /\ Goto(w, "record")

\* processed.claim: SET NX, and a repeat is acknowledged.
Claim(w) ==
    IF EventOf[current[w]] \in processed
      THEN /\ Goto(w, "ack")
           /\ UNCHANGED processed
      ELSE /\ processed' = processed \union {EventOf[current[w]]}
           /\ Goto(w, "record")

\* process() and the first half of OutcomeHandler.handle: a broken message
\* becomes a dead letter, one the consumer cannot read is ignored, and any
\* other is claimed.
Handle(w) ==
    LET kind == sent[current[w]]
    IN  /\ pc[w] = "handle"
        /\ \/ kind = "broken" /\ Goto(w, "deadAdd") /\ UNCHANGED processed
           \/ kind = "newer" /\ Goto(w, "ack") /\ UNCHANGED processed
           \/ kind = "outcome" /\ Claim(w)
        /\ UNCHANGED <<stream, group, pending, dead, batch, current, sent,
                       restarts, history>>

\* windows.record and the breaker.
RecordOutcome(w) ==
    /\ pc[w] = "record"
    /\ counted' = [counted EXCEPT ![EventOf[current[w]]] = @ + 1]
    /\ Goto(w, "ack")
    /\ UNCHANGED <<redis, batch, current, sent, restarts, acked, forgotten>>

\* XACK.
Ack(w) ==
    /\ pc[w] \in {"ack", "deadAck"}
    /\ pending' = Without(pending, current[w])
    /\ acked' = acked \union {current[w]}
    /\ Leave(w)
    /\ UNCHANGED <<stream, group, processed, dead, batch, sent, restarts,
                   counted, forgotten>>

\* Fault: a dead letter is written and the entry stays pending.
DeadAdd_noAck(w) ==
    /\ pc[w] = "deadAdd"
    /\ dead' = dead \union {current[w]}
    /\ Leave(w)
    /\ UNCHANGED <<stream, group, pending, processed, batch, sent, restarts, history>>

\* XADD to the dead letters.
DeadAdd(w) ==
    /\ pc[w] = "deadAdd"
    /\ dead' = dead \union {current[w]}
    /\ Goto(w, "deadAck")
    /\ UNCHANGED <<stream, group, pending, processed, batch, current, sent,
                   restarts, history>>

\* Fault: a failed message is acknowledged with the others.
HandlingFails_acks(w) ==
    /\ pc[w] \in {"handle", "record", "ack", "deadAdd", "deadAck"}
    /\ Leave(w)
    /\ pending' = Without(pending, current[w])
    /\ acked' = acked \union {current[w]}
    /\ UNCHANGED <<stream, group, processed, dead, batch, sent, restarts,
                   counted, forgotten>>

\* A Redis or Postgres call of the handling fails: the message stays pending
\* and the worker goes on.
HandlingFails(w) ==
    /\ pc[w] \in {"handle", "record", "ack", "deadAdd", "deadAck"}
    /\ Leave(w)
    /\ UNCHANGED <<redis, batch, sent, restarts, history>>

\* The process dies or is stopped, and another one takes its place.
Dies(w) ==
    /\ pc[w] # "idle"
    /\ Drop(w)
    /\ UNCHANGED <<redis, sent, restarts, history>>

Read(w) == EnsureGroup(w) \/ ReadGroup(w) \/ TakeRead(w)

ClaimStale(w) == ScanPending(w) \/ TakeClaimed(w) \/ ClaimFails(w)

Process(w) ==
    \/ Handle(w) \/ RecordOutcome(w) \/ Ack(w) \/ DeadAdd(w)
    \/ HandlingFails(w) \/ Dies(w)

Init ==
    /\ stream = <<>> /\ group = -1 /\ pending = <<>>
    /\ processed = {} /\ dead = {}
    /\ pc = [w \in Workers |-> "idle"]
    /\ batch = [w \in Workers |-> <<>>]
    /\ current = [w \in Workers |-> NoMessage]
    /\ sent = <<>> /\ restarts = 0
    /\ counted = [e \in Events |-> 0]
    /\ acked = {} /\ forgotten = {}

Next ==
    \/ \E m \in Messages : Publish(m) \/ GrowIdle(m)
    \/ \E e \in Events : Expire(e)
    \/ RedisRestart
    \/ \E w \in Readers : Read(w)
    \/ \E w \in Claimers : ClaimStale(w)
    \/ \E w \in Workers : Process(w)

Spec == Init /\ [][Next]_vars

\* The instances keep running, time passes, and no call fails every time it is
\* made: what is tried again and again succeeds some day.
KeepsTrying ==
    /\ \A m \in Messages : WF_vars(GrowIdle(m))
    /\ \A w \in Readers :
          WF_vars(EnsureGroup(w)) /\ SF_vars(ReadGroup(w)) /\ SF_vars(TakeRead(w))
    /\ \A w \in Claimers : SF_vars(ScanPending(w)) /\ SF_vars(TakeClaimed(w))
    /\ \A w \in Workers :
          /\ WF_vars(Handle(w) \/ HandlingFails(w) \/ Dies(w))
          /\ SF_vars(Ack(w)) /\ SF_vars(DeadAdd(w))

FairSpec == Spec /\ KeepsTrying

(***************************************************************************)
(* What must hold.                                                         *)
(***************************************************************************)
\* An outcome counts once however often it is sent, delivered, claimed by
\* another worker or retried, as long as its processed key lives
\* (processedStore.ts: one replayed failure would open a breaker).
CountedOncePerKey ==
    \A e \in Events : counted[e] > 1 => e \in forgotten

\* No message leaves the group unseen: an outcome that was acknowledged has
\* been claimed or stands in the dead letters (outcomeConsumer.ts: XACK only
\* after the handler).  What a restart of Redis removed is gone.
AckedWasSeen ==
    restarts = 0 =>
        \A m \in acked : sent[m] = "outcome" =>
            EventOf[m] \in processed \union forgotten \/ m \in dead

\* Whatever is on the stream is acknowledged some day or lost with Redis:
\* nothing blocks the group, neither a message that always fails nor the loss
\* of the group itself (outcomeConsumer.ts: "must not block the group forever").
StreamDrains ==
    \A m \in Messages :
        m \in ToSet(stream) ~> m \in acked \/ m \notin ToSet(stream)
=============================================================================
