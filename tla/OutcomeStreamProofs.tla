------------------------ MODULE OutcomeStreamProofs ------------------------
(***************************************************************************)
(* Proofs about OutcomeStream and AdminReset, for any messages, events and *)
(* workers, however often an event is sent, delivered, claimed and         *)
(* retried, and whatever fails, dies or restarts: an outcome counts once   *)
(* while its processed key lives, the types (and with them the bound on    *)
(* the deliveries), what may be acknowledged unseen, and then the reset of *)
(* the administrator against the workers, the producer and the requests:   *)
(* the group passes nothing over, what was deleted does not come back, and *)
(* a reset that is alone leaves nothing.                                   *)
(***************************************************************************)
EXTENDS AdminReset, FiniteSetTheorems, TLAPS

Places == {"idle", "next", "handle", "record", "ack", "deadAdd", "deadAck"}

LocalInv ==
    /\ pc \in [Workers -> Places] /\ DOMAIN current = Workers
    /\ counted \in [Events -> Nat]

\* w has claimed event e and has not recorded it.
Recording(w, e) == pc[w] = "record" /\ EventOf[current[w]] = e

\* As long as the key of an event was never lost, at most one worker has ever
\* got past the claim: it is about to record the event, or has.
OnceInv ==
    \A e \in Events : e \notin forgotten =>
        /\ counted[e] <= 1
        /\ counted[e] = 1 => e \in processed /\ \A w \in Workers : ~Recording(w, e)
        /\ \A w \in Workers : Recording(w, e) => e \in processed
        /\ \A v, w \in Workers : Recording(v, e) /\ Recording(w, e) => v = w

IInv == LocalInv /\ OnceInv

LEMMA InitIInv == Init => IInv
BY DEF Init, IInv, LocalInv, OnceInv, Recording, Places

\* A step that records nothing, loses no key without a trace and lets nobody past
\* the claim keeps the invariant.
LEMMA QuietStep ==
    ASSUME IInv, LocalInv',
           counted' = counted, processed \subseteq processed', forgotten' = forgotten,
           \A w \in Workers, e \in Events : Recording(w, e)' => Recording(w, e)
    PROVE  IInv'
BY DEF IInv, OnceInv, LocalInv

\* A key that is lost, alone or with all the others, leaves its trace.
LEMMA LossStep ==
    ASSUME IInv, LocalInv', pc' = pc, current' = current,
           \A e \in Events : counted'[e] = counted[e] \/ counted'[e] = 0,
           forgotten' = forgotten \union (processed \ processed'),
           processed' \subseteq processed
    PROVE  IInv'
<1>1. ASSUME NEW e \in Events, e \notin forgotten'
      PROVE  e \notin forgotten /\ (e \in processed => e \in processed')
  BY <1>1
<1>2. \A w \in Workers, e \in Events : Recording(w, e)' <=> Recording(w, e)
  BY DEF Recording
<1> QED  BY <1>1, <1>2 DEF IInv, OnceInv, LocalInv

\* The worker leaves its message, or goes on without a claim.
LEMMA WorkerStep ==
    ASSUME IInv, NEW w \in Workers, NEW place \in Places \ {"record"},
           Goto(w, place),
           \A v \in Workers \ {w} : current'[v] = current[v],
           DOMAIN current' = Workers,
           UNCHANGED <<counted, processed, forgotten>>
    PROVE  IInv'
<1>1. LocalInv'
  BY DEF IInv, LocalInv, Goto
<1>2. ASSUME NEW v \in Workers, NEW e \in Events, Recording(v, e)'
      PROVE  Recording(v, e)
  BY <1>2 DEF IInv, LocalInv, Goto, Recording
<1> QED  BY <1>1, <1>2, QuietStep

LEMMA HandleStep ==
    ASSUME IInv, NEW w \in Workers, Handle(w)
    PROVE  IInv'
<1>1. UNCHANGED <<current, counted, forgotten>> /\ DOMAIN current = Workers
  BY DEF Handle, history, IInv, LocalInv
<1>2. CASE UNCHANGED processed /\ (Goto(w, "deadAdd") \/ Goto(w, "ack"))
  BY <1>1, <1>2, WorkerStep DEF Places
<1>3. CASE /\ EventOf[current[w]] \notin processed
           /\ processed' = processed \union {EventOf[current[w]]}
           /\ Goto(w, "record")
  <2> USE DEF IInv
  <2>1. LocalInv'
    BY <1>1, <1>3 DEF LocalInv, Goto, Places
  <2>2. \A v \in Workers \ {w}, e \in Events : Recording(v, e)' <=> Recording(v, e)
    BY <1>1, <1>3 DEF Recording, Goto, LocalInv
  <2>3. \A e \in Events : Recording(w, e)' <=> e = EventOf[current[w]]
    BY <1>1, <1>3 DEF Recording, Goto, LocalInv
  <2>4. ASSUME NEW e \in Events, e \notin forgotten, e = EventOf[current[w]]
        PROVE  counted[e] = 0 /\ \A v \in Workers : ~Recording(v, e)
    BY <1>3, <2>4 DEF OnceInv, LocalInv
  <2>5. OnceInv'
    BY <1>1, <1>3, <2>2, <2>3, <2>4 DEF OnceInv, LocalInv
  <2> QED  BY <2>1, <2>5
<1> QED  BY <1>2, <1>3 DEF Handle, Claim

LEMMA RecordStep ==
    ASSUME IInv, NEW w \in Workers, RecordOutcome(w)
    PROVE  IInv'
<1> USE DEF IInv
<1>1. /\ UNCHANGED <<current, processed, forgotten>>
      /\ pc[w] = "record" /\ pc' = [pc EXCEPT ![w] = "ack"]
      /\ counted' = [counted EXCEPT ![EventOf[current[w]]] = @ + 1]
  BY DEF RecordOutcome, Goto, redis
<1>2. LocalInv'
  <2>1. \A e \in Events : counted'[e] \in Nat
    <3> SUFFICES ASSUME NEW e \in Events  PROVE counted'[e] \in Nat
      OBVIOUS
    <3>1. CASE e = EventOf[current[w]]
      BY <1>1, <3>1 DEF LocalInv
    <3>2. CASE e # EventOf[current[w]]
      BY <1>1, <3>2 DEF LocalInv
    <3> QED  BY <3>1, <3>2
  <2>2. counted' \in [Events -> Nat]
    BY <1>1, <2>1 DEF LocalInv
  <2> QED  BY <1>1, <2>2 DEF LocalInv, Places
<1>3. /\ \A v \in Workers \ {w}, e \in Events : Recording(v, e)' <=> Recording(v, e)
      /\ \A e \in Events : ~Recording(w, e)'
  BY <1>1 DEF Recording, LocalInv
<1>4. ASSUME NEW e \in Events, e \notin forgotten, e # EventOf[current[w]]
      PROVE  counted'[e] = counted[e]
  BY <1>1, <1>4 DEF LocalInv
<1>5. ASSUME NEW e \in Events, e \notin forgotten, e = EventOf[current[w]]
      PROVE  /\ counted'[e] = 1 /\ e \in processed
             /\ \A v \in Workers \ {w} : ~Recording(v, e)
  <2>1. Recording(w, e)
    BY <1>1, <1>5 DEF Recording
  <2>2. counted[e] = 0
    BY <1>5, <2>1 DEF OnceInv, LocalInv
  <2> QED  BY <1>1, <1>5, <2>1, <2>2 DEF OnceInv, LocalInv
<1>6. OnceInv'
  BY <1>1, <1>3, <1>4, <1>5 DEF OnceInv, LocalInv
<1> QED  BY <1>2, <1>6

LEMMA WorkStep ==
    ASSUME IInv, NEW w \in Workers,
           \/ ReadGroup(w) \/ TakeRead(w) \/ ScanPending(w) \/ TakeClaimed(w)
           \/ ClaimFails(w) \/ Ack(w) \/ DeadAdd(w) \/ HandlingFails(w) \/ Dies(w)
    PROVE  IInv'
<1>1. UNCHANGED <<counted, processed, forgotten>>
  BY DEF ReadGroup, TakeRead, ScanPending, TakeClaimed, ClaimFails, Ack, DeadAdd,
         HandlingFails, Dies, redis, history
<1>2. \E place \in Places \ {"record"} : Goto(w, place)
  <2>1. CASE ReadGroup(w) \/ ScanPending(w)
    BY <2>1 DEF ReadGroup, ScanPending, Places
  <2>2. CASE TakeRead(w)
    BY <2>2 DEF TakeRead, Places
  <2>3. CASE TakeClaimed(w)
    BY <2>3 DEF TakeClaimed, Places
  <2>4. CASE ClaimFails(w) \/ Dies(w)
    BY <2>4 DEF ClaimFails, Dies, Drop, Places
  <2>5. CASE Ack(w) \/ HandlingFails(w)
    BY <2>5 DEF Ack, HandlingFails, Leave, Places
  <2>6. CASE DeadAdd(w)
    BY <2>6 DEF DeadAdd, Places
  <2> QED  BY <2>1, <2>2, <2>3, <2>4, <2>5, <2>6
<1>3. \/ current' = current
      \/ \E m : current' = [current EXCEPT ![w] = m]
  <2>1. CASE ReadGroup(w) \/ ScanPending(w) \/ DeadAdd(w)
    BY <2>1 DEF ReadGroup, ScanPending, DeadAdd
  <2>2. CASE TakeRead(w)
    BY <2>2 DEF TakeRead
  <2>3. CASE TakeClaimed(w)
    BY <2>3 DEF TakeClaimed
  <2>4. CASE ClaimFails(w) \/ Dies(w)
    BY <2>4 DEF ClaimFails, Dies, Drop
  <2>5. CASE Ack(w) \/ HandlingFails(w)
    BY <2>5 DEF Ack, HandlingFails, Leave
  <2> QED  BY <2>1, <2>2, <2>3, <2>4, <2>5
<1>4. DOMAIN current' = Workers /\ \A v \in Workers \ {w} : current'[v] = current[v]
  BY <1>3 DEF IInv, LocalInv
<1> QED  BY <1>1, <1>2, <1>4, WorkerStep

\* The producer, the idle time, the group, and nothing at all.
LEMMA ElsewhereStep ==
    ASSUME IInv, UNCHANGED <<pc, current, counted, processed, forgotten>>
    PROVE  IInv'
BY DEF IInv, LocalInv, OnceInv, Recording

LEMMA RedisStep ==
    ASSUME IInv, RedisRestart \/ \E e \in Events : Expire(e)
    PROVE  IInv'
<1>1. CASE RedisRestart
  <2>1. /\ pc' = pc /\ current' = current
        /\ counted' = [e \in Events |-> 0]
        /\ processed' = {} /\ forgotten' = forgotten \union processed
    BY <1>1 DEF RedisRestart, working
  <2>2. LocalInv'
    BY <2>1 DEF IInv, LocalInv
  <2>3. forgotten' = forgotten \union (processed \ processed')
    BY <2>1
  <2> QED  BY <2>1, <2>2, <2>3, LossStep
<1>2. ASSUME NEW e \in Events, Expire(e)  PROVE IInv'
  <2>1. /\ pc' = pc /\ current' = current /\ counted' = counted
        /\ e \in processed /\ processed' = processed \ {e}
        /\ forgotten' = forgotten \union {e}
    BY <1>2 DEF Expire, working
  <2>2. LocalInv'
    BY <2>1 DEF IInv, LocalInv
  <2>3. forgotten' = forgotten \union (processed \ processed')
    BY <2>1
  <2> QED  BY <2>1, <2>2, <2>3, LossStep
<1> QED  BY <1>1, <1>2

\* An outcome counts once however often it is sent, delivered, claimed by another
\* worker or retried, as long as its processed key lives
\* (RedisProcessedStore.claim, OutcomeHandler.handle).
THEOREM OutcomesCountOncePerKey == Spec => []CountedOncePerKey
<1>1. IInv /\ [Next]_vars => IInv'
  <2> SUFFICES ASSUME IInv, [Next]_vars  PROVE IInv'
    OBVIOUS
  <2>1. ASSUME NEW m \in Messages, Publish(m) \/ GrowIdle(m)  PROVE IInv'
    BY <2>1, ElsewhereStep DEF Publish, GrowIdle, working, history
  <2>2. ASSUME NEW w \in Workers, Read(w) \/ ClaimStale(w)  PROVE IInv'
    <3>1. CASE EnsureGroup(w)
      BY <3>1, ElsewhereStep DEF EnsureGroup, working, history
    <3> QED  BY <2>2, <3>1, WorkStep DEF Read, ClaimStale
  <2>3. ASSUME NEW w \in Workers, Process(w)  PROVE IInv'
    BY <2>3, HandleStep, RecordStep, WorkStep DEF Process
  <2>4. CASE UNCHANGED vars
    BY <2>4, ElsewhereStep DEF vars, redis, working, history
  <2>5. Readers \subseteq Workers /\ Claimers \subseteq Workers
    BY DEF Workers
  <2> QED  BY <2>1, <2>2, <2>3, <2>4, <2>5, RedisStep DEF Next
<1>2. IInv => CountedOncePerKey
  BY DEF IInv, LocalInv, OnceInv, CountedOncePerKey
<1> QED  BY InitIInv, <1>1, <1>2, PTL DEF Spec

(***************************************************************************)
(* Type correctness, with the bound on the deliveries.                     *)
(***************************************************************************)
Busy == {"handle", "record", "ack", "deadAdd", "deadAck"}

\* What is on the stream once is on no second place of it, and everything the
\* consumer knows of was sent.
KnownInv ==
    /\ \A i, j \in DOMAIN stream : stream[i] = stream[j] => i = j
    /\ \A w \in Workers :
          /\ pc[w] = "next" => batch[w] # <<>>
          /\ pc[w] \in Busy => current[w] \in DOMAIN sent
          /\ \A i \in DOMAIN batch[w] : batch[w][i].message \in DOMAIN sent
    /\ DOMAIN pending \subseteq DOMAIN sent
    /\ acked \subseteq DOMAIN sent

\* The claimers that will deliver m once more, by what XPENDING told them.
Holders(m) ==
    {k \in Claimers : \E i \in DOMAIN batch[k] :
        batch[k][i].message = m /\ batch[k][i].deliveries < MaxDeliveries}

\* There is room for one delivery by each of them.
RoomInv ==
    /\ \A k \in Claimers :
          /\ \A i \in DOMAIN batch[k] : batch[k][i].deliveries >= 1
          /\ \A i, j \in DOMAIN batch[k] :
                batch[k][i].message = batch[k][j].message => i = j
    /\ \A m \in DOMAIN pending :
          pending[m].deliveries + Cardinality(Holders(m)) <= MostDeliveries

TypeInv == TypeOK /\ KnownInv /\ RoomInv

\* The first part of a sequence, left by its head.
LEMMA HeadTail ==
    ASSUME NEW S, NEW s \in Seq(S), s # <<>>
    PROVE  /\ Head(s) \in S /\ Tail(s) \in Seq(S)
           /\ 1 \in DOMAIN s /\ Head(s) = s[1]
           /\ \A i \in DOMAIN Tail(s) : i + 1 \in DOMAIN s /\ Tail(s)[i] = s[i + 1]
OBVIOUS

\* Appending an entry adds it to the entries and no other.
LEMMA AppendAdds ==
    ASSUME NEW S, NEW s \in Seq(S), NEW x \in S
    PROVE  ToSet(Append(s, x)) = ToSet(s) \union {x}
<1>1. \A i \in 1 .. Len(s) : Append(s, x)[i] = s[i]
  OBVIOUS
<1>2. /\ DOMAIN s = 1 .. Len(s) /\ DOMAIN Append(s, x) = 1 .. Len(s) + 1
      /\ Len(s) \in Nat /\ Append(s, x)[Len(s) + 1] = x
  OBVIOUS
<1>3. 1 .. Len(s) + 1 = (1 .. Len(s)) \union {Len(s) + 1}
  BY <1>2
<1> QED
  BY <1>1, <1>2, <1>3, Zenon DEF ToSet

\* The bound on the deliveries is at least the number that makes a dead letter.
LEMMA MostIsEnough ==
    /\ MostDeliveries \in Nat /\ MaxDeliveries <= MostDeliveries
    /\ Cardinality(Claimers) \in Nat \ {0}
<1>1. Cardinality(Claimers) \in Nat /\ Cardinality(Claimers) # 0
  BY StreamAssumption, FS_CardinalityType, FS_EmptySet
<1> QED
  BY <1>1, StreamAssumption DEF MostDeliveries

\* Every step keeps every variable in its type.
LEMMA TypeStep ==
    ASSUME TypeOK, KnownInv, RoomInv, Next
    PROVE  TypeOK'
<1> USE DEF TypeOK, redis, working, history
<1>1. ASSUME NEW m \in Messages, Publish(m) PROVE TypeOK'
  <2>1. stream' = Append(stream, m) /\ Len(stream') = Len(stream) + 1
    BY <1>1 DEF Publish
  <2>2. stream' \in Seq(Messages) /\ group' \in -1 .. Len(stream')
    BY <1>1, <2>1 DEF Publish
  <2>3. /\ DOMAIN sent' \subseteq Messages /\ ToSet(stream') \subseteq DOMAIN sent'
        /\ \A x \in DOMAIN sent' : sent'[x] \in Kinds
    <3>1. ToSet(stream') = ToSet(stream) \union {m}
      BY <2>1, AppendAdds
    <3> QED
      BY <1>1, <3>1 DEF Publish
  <2> QED
    BY <1>1, <2>2, <2>3 DEF Publish
<1>2. ASSUME NEW m \in Messages, GrowIdle(m) PROVE TypeOK'
  <2>1. /\ DOMAIN pending' = DOMAIN pending
        /\ \A x \in DOMAIN pending' : pending'[x] \in Delivery
    BY <1>2 DEF GrowIdle, Delivery
  <2> QED
    BY <1>2, <2>1 DEF GrowIdle
<1>3. ASSUME NEW e \in Events, Expire(e) PROVE TypeOK'
  BY <1>3 DEF Expire
<1>4. CASE RedisRestart
  <2>1. stream' \in Seq(Messages) /\ group' \in -1 .. Len(stream')
    BY <1>4 DEF RedisRestart
  <2>2. ToSet(stream') = {} /\ DOMAIN pending' = {}
    BY <1>4 DEF RedisRestart, ToSet
  <2>3. restarts' \in 0 .. MaxRestarts
    BY <1>4, StreamAssumption DEF RedisRestart
  <2> QED
    BY <1>4, <2>1, <2>2, <2>3 DEF RedisRestart
<1>5. ASSUME NEW w \in Workers, EnsureGroup(w) PROVE TypeOK'
  BY <1>5 DEF EnsureGroup
<1>6. ASSUME NEW w \in Workers, ReadGroup(w) PROVE TypeOK'
  <2> DEFINE last == IF group + BatchSize < Len(stream) THEN group + BatchSize
                                                       ELSE Len(stream)
             new == SubSeq(stream, group + 1, last)
  <2>1. group \in Nat /\ last \in Nat /\ last <= Len(stream) /\ group <= last
    BY <1>6, StreamAssumption DEF ReadGroup
  <2>2. new \in Seq(Messages) /\ ToSet(new) \subseteq Messages
    <3>1. new \in Seq(Messages)
      BY <2>1
    <3> QED
      BY <3>1 DEF ToSet
  <2>3. group' \in -1 .. Len(stream)
    BY <1>6, <2>1 DEF ReadGroup
  <2>4. /\ DOMAIN pending' \subseteq Messages
        /\ \A m \in DOMAIN pending' : pending'[m] \in Delivery
    <3>1. [deliveries |-> 1, idle |-> FALSE] \in Delivery
      BY MostIsEnough, StreamAssumption DEF Delivery
    <3> HIDE DEF new
    <3>2. pending' = [m \in DOMAIN pending \union ToSet(new) |->
                         IF m \in ToSet(new)
                           THEN [deliveries |-> 1, idle |-> FALSE]
                           ELSE pending[m]]
      BY <1>6 DEF ReadGroup, new
    <3> QED
      BY <2>2, <3>1, <3>2
  <2>5. [i \in DOMAIN new |-> [message |-> new[i], deliveries |-> 0]] \in Seq(Item)
    <3> HIDE DEF new
    <3>1. \A i \in DOMAIN new : [message |-> new[i], deliveries |-> 0] \in Item
      BY <2>2, MostIsEnough DEF Item
    <3>2. DOMAIN new = 1 .. Len(new) /\ Len(new) \in Nat
      BY <2>2
    <3> QED
      BY <3>1, <3>2
  <2>6. batch' \in [Workers -> Seq(Item)]
    BY <1>6, <2>5 DEF ReadGroup
  <2> QED
    BY <1>6, <2>3, <2>4, <2>6 DEF ReadGroup, Goto
<1>7. ASSUME NEW w \in Workers, TakeRead(w) PROVE TypeOK'
  <2>1. batch[w] \in Seq(Item) /\ batch[w] # <<>>
    BY <1>7 DEF TakeRead, KnownInv
  <2>2. Head(batch[w]) \in Item /\ Tail(batch[w]) \in Seq(Item)
    BY <2>1, HeadTail
  <2>3. Head(batch[w]).message \in Messages
    BY <2>2 DEF Item
  <2> QED
    BY <1>7, <2>2, <2>3 DEF TakeRead, Goto
<1>8. ASSUME NEW w \in Workers, ScanPending(w) PROVE TypeOK'
  <2> DEFINE old == {i \in DOMAIN stream :
                        stream[i] \in DOMAIN pending /\ pending[stream[i]].idle}
             items(first) == [i \in DOMAIN first |->
                                [message |-> stream[first[i]],
                                 deliveries |-> pending[stream[first[i]]].deliveries]]
  <2>1. PICK first \in FirstOf(old, BatchSize) :
          batch' = [batch EXCEPT ![w] = items(first)]
    BY <1>8 DEF ScanPending
  <2>2. PICK size \in Nat : first \in [1 .. size -> old]
    <3>1. old \subseteq 1 .. Len(stream) /\ Len(stream) \in Nat
      OBVIOUS
    <3>2. Cardinality(old) \in Nat
      <4>1. IsFiniteSet(1 .. Len(stream))
        BY <3>1, FS_Interval
      <4> QED
        BY <3>1, <4>1, FS_Subset, FS_CardinalityType
    <3> HIDE DEF old
    <3> QED
      BY <2>1, <3>2, StreamAssumption DEF FirstOf
  <2>3. \A i \in 1 .. size : items(first)[i] \in Item
    BY <2>2 DEF Item, Delivery
  <2>4. items(first) \in Seq(Item)
    BY <2>2, <2>3
  <2> HIDE DEF items, old
  <2> QED
    BY <1>8, <2>1, <2>4 DEF ScanPending, Goto
<1>9. ASSUME NEW w \in Claimers, TakeClaimed(w) PROVE TypeOK'
  <2> DEFINE item == Head(batch[w])
             m == item.message
  <2>1. w \in Workers /\ batch[w] \in Seq(Item) /\ batch[w] # <<>>
    BY <1>9 DEF TakeClaimed, KnownInv, Workers
  <2>2. /\ item \in Item /\ Tail(batch[w]) \in Seq(Item)
        /\ 1 \in DOMAIN batch[w] /\ item = batch[w][1]
    BY <2>1, HeadTail
  <2>3. ASSUME ~ DeliveredEnough(item.deliveries), m \in DOMAIN pending
        PROVE  pending[m].deliveries + 1 \in 1 .. MostDeliveries
    <3>1. w \in Holders(m)
      BY <2>2, <2>3, StreamAssumption DEF Holders, DeliveredEnough, Item
    <3>2. IsFiniteSet(Holders(m)) /\ Cardinality(Holders(m)) \in Nat
      BY StreamAssumption, FS_Subset, FS_CardinalityType DEF Holders
    <3>3. Cardinality(Holders(m)) # 0
      BY <3>1, <3>2, FS_EmptySet
    <3> QED
      BY <2>3, <3>2, <3>3, MostIsEnough DEF RoomInv, Delivery
  <2>4. /\ DOMAIN pending' = DOMAIN pending
        /\ \A x \in DOMAIN pending' : pending'[x] \in Delivery
    <3>1. \/ UNCHANGED pending
          \/ /\ ~ DeliveredEnough(item.deliveries) /\ m \in DOMAIN pending
             /\ pending' = [pending EXCEPT ![m] =
                               [deliveries |-> @.deliveries + 1, idle |-> FALSE]]
      BY <1>9 DEF TakeClaimed
    <3>2. CASE UNCHANGED pending
      BY <3>2
    <3>3. CASE ~ UNCHANGED pending
      <4>1. /\ DOMAIN pending' = DOMAIN pending
            /\ \A x \in DOMAIN pending \ {m} : pending'[x] = pending[x]
            /\ m \in DOMAIN pending
            /\ pending'[m] = [deliveries |-> pending[m].deliveries + 1, idle |-> FALSE]
        BY <3>1, <3>3
      <4>2. pending[m].deliveries + 1 \in 1 .. MostDeliveries
        BY <2>3, <3>1, <3>3
      <4>3. pending'[m] \in Delivery
        BY <4>1, <4>2 DEF Delivery
      <4> HIDE DEF m
      <4> QED
        BY <4>1, <4>3
    <3> QED
      BY <3>2, <3>3
  <2>5. /\ batch' \in [Workers -> Seq(Item)]
        /\ current' \in [Workers -> Messages \union {NoMessage}]
        /\ pc' \in [Workers -> {"idle", "next", "handle", "record", "ack",
                                "deadAdd", "deadAck"}]
    BY <1>9, <2>1, <2>2 DEF TakeClaimed, Goto, Item
  <2> QED
    BY <1>9, <2>4, <2>5 DEF TakeClaimed
<1>10. ASSUME NEW w \in Workers, ClaimFails(w) \/ Dies(w) PROVE TypeOK'
  <2>1. <<>> \in Seq(Item)
    OBVIOUS
  <2> QED
    BY <1>10, <2>1 DEF ClaimFails, Dies, Drop, Goto
<1>11. ASSUME NEW w \in Workers, pc[w] \in Busy
       PROVE  current[w] \in Messages /\ EventOf[current[w]] \in Events
  BY <1>11, StreamAssumption DEF KnownInv
<1>12. ASSUME NEW w \in Workers, Handle(w) PROVE TypeOK'
  BY <1>11, <1>12 DEF Handle, Claim, Goto, Busy
<1>13. ASSUME NEW w \in Workers, RecordOutcome(w) PROVE TypeOK'
  BY <1>11, <1>13 DEF RecordOutcome, Goto, Busy
<1>14. ASSUME NEW w \in Workers, Ack(w) PROVE TypeOK'
  BY <1>11, <1>14 DEF Ack, Leave, Goto, Busy, Without, Restrict
<1>15. ASSUME NEW w \in Workers, DeadAdd(w) PROVE TypeOK'
  BY <1>11, <1>15 DEF DeadAdd, Goto, Busy
<1>16. ASSUME NEW w \in Workers, HandlingFails(w) PROVE TypeOK'
  BY <1>16 DEF HandlingFails, Leave, Goto
<1> QED
  BY <1>1, <1>2, <1>3, <1>4, <1>5, <1>6, <1>7, <1>8, <1>9, <1>10, <1>12, <1>13, <1>14,
     <1>15, <1>16
  DEF Next, Read, ClaimStale, Process, Workers

\* What XREADGROUP hands out was on the stream and is not empty.
LEMMA ReadGroupBatch ==
    ASSUME TypeOK, NEW w \in Workers, ReadGroup(w)
    PROVE  /\ batch'[w] # <<>> /\ \A v \in Workers \ {w} : batch'[v] = batch[v]
           /\ \A i \in DOMAIN batch'[w] : batch'[w][i].message \in ToSet(stream)
           /\ DOMAIN pending' \subseteq DOMAIN pending \union ToSet(stream)
           /\ \A m \in DOMAIN pending' :
                 \/ pending'[m] = [deliveries |-> 1, idle |-> FALSE]
                 \/ m \in DOMAIN pending /\ pending'[m] = pending[m]
<1> DEFINE last == IF group + BatchSize < Len(stream) THEN group + BatchSize
                                                     ELSE Len(stream)
           new == SubSeq(stream, group + 1, last)
<1> USE DEF TypeOK
<1>1. group \in Nat /\ last \in Nat /\ last <= Len(stream) /\ group <= last /\ new # <<>>
  BY StreamAssumption DEF ReadGroup
<1>2. /\ new \in Seq(Messages) /\ DOMAIN new = 1 .. Len(new)
      /\ \A i \in DOMAIN new : new[i] \in ToSet(stream)
  BY <1>1 DEF ToSet
<1>3. ToSet(new) \subseteq ToSet(stream)
  BY <1>2 DEF ToSet
<1>4. /\ batch' = [batch EXCEPT ![w] = [i \in DOMAIN new |->
                     [message |-> new[i], deliveries |-> 0]]]
      /\ pending' = [m \in DOMAIN pending \union ToSet(new) |->
                       IF m \in ToSet(new)
                         THEN [deliveries |-> 1, idle |-> FALSE]
                         ELSE pending[m]]
  BY DEF ReadGroup
<1>5. DOMAIN new # {}
  BY <1>1, <1>2
<1> HIDE DEF new
<1>6. /\ batch'[w] = [i \in DOMAIN new |-> [message |-> new[i], deliveries |-> 0]]
      /\ \A v \in Workers \ {w} : batch'[v] = batch[v]
  BY <1>4
<1>7. DOMAIN batch'[w] # {} /\ DOMAIN <<>> = {}
  BY <1>5, <1>6
<1> QED
  BY <1>2, <1>3, <1>4, <1>6, <1>7

\* What XPENDING tells a claimer: entries that are pending, with their deliveries
\* and each of them once.
LEMMA ScanPendingBatch ==
    ASSUME TypeOK, KnownInv, NEW w \in Workers, ScanPending(w)
    PROVE  /\ batch'[w] # <<>> /\ \A v \in Workers \ {w} : batch'[v] = batch[v]
           /\ \A i \in DOMAIN batch'[w] :
                 /\ batch'[w][i].message \in DOMAIN pending \intersect ToSet(stream)
                 /\ batch'[w][i].deliveries = pending[batch'[w][i].message].deliveries
           /\ \A i, j \in DOMAIN batch'[w] :
                 batch'[w][i].message = batch'[w][j].message => i = j
<1> DEFINE old == {i \in DOMAIN stream :
                      stream[i] \in DOMAIN pending /\ pending[stream[i]].idle}
           items(first) == [i \in DOMAIN first |->
                              [message |-> stream[first[i]],
                               deliveries |-> pending[stream[first[i]]].deliveries]]
<1>1. PICK first \in FirstOf(old, BatchSize) :
        batch' = [batch EXCEPT ![w] = items(first)]
  BY DEF ScanPending
<1>2. PICK size \in Nat :
        /\ first \in [1 .. size -> old] /\ size # 0
        /\ \A i, j \in 1 .. size : i < j => first[i] < first[j]
  <2>1. old \subseteq 1 .. Len(stream) /\ Len(stream) \in Nat /\ old # {}
    BY DEF TypeOK, ScanPending
  <2>2. IsFiniteSet(1 .. Len(stream))
    BY <2>1, FS_Interval
  <2>3. Cardinality(old) \in Nat /\ Cardinality(old) # 0
    BY <2>1, <2>2, FS_Subset, FS_CardinalityType, FS_EmptySet
  <2> HIDE DEF old, items
  <2> QED
    BY <1>1, <2>3, StreamAssumption DEF FirstOf
<1>3. \A i, j \in 1 .. size : stream[first[i]] = stream[first[j]] => i = j
  <2> SUFFICES ASSUME NEW i \in 1 .. size, NEW j \in 1 .. size,
                      stream[first[i]] = stream[first[j]]
               PROVE  i = j
    OBVIOUS
  <2>1. first[i] = first[j] /\ first[i] \in DOMAIN stream
    BY <1>2 DEF KnownInv
  <2>2. first[i] \in Nat /\ i \in Nat /\ j \in Nat
    BY <2>1 DEF TypeOK
  <2>3. ~ (i < j) /\ ~ (j < i)
    BY <1>2, <2>1, <2>2
  <2> QED
    BY <2>2, <2>3
<1>4. DOMAIN batch = Workers
  BY DEF TypeOK
<1>5. \A i \in 1 .. size : /\ stream[first[i]] \in DOMAIN pending
                           /\ stream[first[i]] \in ToSet(stream)
  BY <1>2 DEF ToSet
<1>6. DOMAIN first = 1 .. size
  BY <1>2
<1>7. /\ batch'[w] = [i \in 1 .. size |->
                        [message |-> stream[first[i]],
                         deliveries |-> pending[stream[first[i]]].deliveries]]
      /\ \A v \in Workers \ {w} : batch'[v] = batch[v]
  BY <1>1, <1>4, <1>6
<1>8. DOMAIN batch'[w] # {} /\ DOMAIN <<>> = {}
  <2>1. 1 \in 1 .. size /\ DOMAIN batch'[w] = 1 .. size
    BY <1>2, <1>7
  <2> QED
    BY <2>1
<1> HIDE DEF old, items
<1> QED
  BY <1>3, <1>5, <1>7, <1>8

\* A step that changes no batch but by taking its first item, or dropping it,
\* makes no holder.
LEMMA HoldersShrink ==
    ASSUME TypeOK, RoomInv,
           \A k \in Claimers :
              \/ batch'[k] = batch[k] \/ batch'[k] = <<>>
              \/ batch[k] # <<>> /\ batch'[k] = Tail(batch[k])
    PROVE  /\ \A k \in Claimers :
                 /\ \A i \in DOMAIN batch'[k] : batch'[k][i].deliveries >= 1
                 /\ \A i, j \in DOMAIN batch'[k] :
                       batch'[k][i].message = batch'[k][j].message => i = j
           /\ \A m : /\ Holders(m)' \subseteq Holders(m) /\ IsFiniteSet(Holders(m))
                     /\ Cardinality(Holders(m)') <= Cardinality(Holders(m))
                     /\ Cardinality(Holders(m)) \in Nat /\ Cardinality(Holders(m)') \in Nat
<1>1. ASSUME NEW k \in Claimers, NEW i \in DOMAIN batch'[k]
      PROVE  \E d \in {0, 1} : /\ i \in Nat /\ i + d \in DOMAIN batch[k]
                               /\ batch'[k][i] = batch[k][i + d]
                               /\ \A j \in DOMAIN batch'[k] :
                                     j + d \in DOMAIN batch[k] /\ batch'[k][j] = batch[k][j + d]
  <2>1. batch[k] \in Seq(Item)
    BY DEF TypeOK, Workers
  <2>2. CASE batch'[k] = batch[k]
    BY <1>1, <2>1, <2>2
  <2>3. CASE batch[k] # <<>> /\ batch'[k] = Tail(batch[k])
    BY <1>1, <2>1, <2>3, HeadTail
  <2>4. CASE batch'[k] = <<>>
    BY <1>1, <2>4
  <2> QED
    BY <2>2, <2>3, <2>4
<1>2. ASSUME NEW m
      PROVE  /\ Holders(m)' \subseteq Holders(m) /\ IsFiniteSet(Holders(m))
             /\ Cardinality(Holders(m)') <= Cardinality(Holders(m))
             /\ Cardinality(Holders(m)) \in Nat /\ Cardinality(Holders(m)') \in Nat
  <2>1. Holders(m)' \subseteq Holders(m) /\ Holders(m) \subseteq Claimers
    BY <1>1 DEF Holders
  <2> QED
    BY <2>1, StreamAssumption, FS_Subset, FS_CardinalityType
<1>3. ASSUME NEW k \in Claimers
      PROVE  /\ \A i \in DOMAIN batch'[k] : batch'[k][i].deliveries >= 1
             /\ \A i, j \in DOMAIN batch'[k] :
                   batch'[k][i].message = batch'[k][j].message => i = j
  <2>1. \A i \in DOMAIN batch'[k] : batch'[k][i].deliveries >= 1
    BY <1>1 DEF RoomInv
  <2>2. ASSUME NEW i \in DOMAIN batch'[k], NEW j \in DOMAIN batch'[k],
               batch'[k][i].message = batch'[k][j].message
        PROVE  i = j
    <3>1. PICK d \in {0, 1} :
            /\ i \in Nat /\ i + d \in DOMAIN batch[k] /\ batch'[k][i] = batch[k][i + d]
            /\ j + d \in DOMAIN batch[k] /\ batch'[k][j] = batch[k][j + d]
      BY <1>1
    <3>2. i + d = j + d
      BY <2>2, <3>1 DEF RoomInv
    <3>3. j \in Nat
      BY <1>1
    <3> QED
      BY <3>1, <3>2, <3>3
  <2> QED
    BY <2>1, <2>2
<1> QED
  BY <1>2, <1>3

\* If it also delivers nothing, the room stays.
LEMMA RoomKept ==
    ASSUME TypeOK, RoomInv,
           \A k \in Claimers :
              \/ batch'[k] = batch[k] \/ batch'[k] = <<>>
              \/ batch[k] # <<>> /\ batch'[k] = Tail(batch[k]),
           \A m \in DOMAIN pending' :
              m \in DOMAIN pending /\ pending'[m].deliveries = pending[m].deliveries
    PROVE  RoomInv'
<1>1. ASSUME NEW m \in DOMAIN pending'
      PROVE  pending'[m].deliveries + Cardinality(Holders(m)') <= MostDeliveries
  <2>1. /\ m \in DOMAIN pending /\ pending'[m].deliveries = pending[m].deliveries
        /\ pending[m].deliveries \in Nat
        /\ pending[m].deliveries + Cardinality(Holders(m)) <= MostDeliveries
    BY <1>1 DEF TypeOK, RoomInv, Delivery
  <2> QED
    BY <2>1, HoldersShrink, MostIsEnough
<1>2. \A m \in DOMAIN pending' :
        pending'[m].deliveries + Cardinality(Holders(m))' <= MostDeliveries
  BY <1>1
<1> QED
  BY <1>2, HoldersShrink DEF RoomInv, MostDeliveries

\* Every step keeps KnownInv.
LEMMA KnownStep ==
    ASSUME TypeOK, KnownInv, Next
    PROVE  KnownInv'
<1> USE DEF KnownInv, redis, working, history
<1>0. ToSet(stream) \subseteq DOMAIN sent /\ \A i \in DOMAIN stream : stream[i] \in DOMAIN sent
  BY DEF TypeOK, ToSet
<1>1. ASSUME NEW m \in Messages, Publish(m) PROVE KnownInv'
  <2>1. /\ m \notin DOMAIN sent /\ stream' = Append(stream, m)
        /\ DOMAIN sent' = DOMAIN sent \union {m}
    BY <1>1 DEF Publish
  <2>2. \A i, j \in DOMAIN stream' : stream'[i] = stream'[j] => i = j
    BY <1>0, <2>1 DEF TypeOK
  <2> QED
    BY <1>1, <2>1, <2>2 DEF Publish
<1>2. ASSUME NEW m \in Messages, GrowIdle(m) PROVE KnownInv'
  <2>1. DOMAIN pending' = DOMAIN pending
    BY <1>2 DEF GrowIdle
  <2> QED
    BY <1>2, <2>1 DEF GrowIdle
<1>3. ASSUME NEW e \in Events, Expire(e) PROVE KnownInv'
  BY <1>3 DEF Expire
<1>4. CASE RedisRestart
  <2>1. DOMAIN stream' = {} /\ DOMAIN pending' = {}
    BY <1>4 DEF RedisRestart
  <2> QED
    BY <1>4, <2>1 DEF RedisRestart
<1>5. ASSUME NEW w \in Workers, EnsureGroup(w) PROVE KnownInv'
  BY <1>5 DEF EnsureGroup
\* A worker that takes, or drops, items of its batch.
<1>6. ASSUME NEW w \in Workers, NEW place, Goto(w, place),
             \A v \in Workers \ {w} : batch'[v] = batch[v] /\ current'[v] = current[v],
             place = "next" => batch'[w] # <<>>,
             place \in Busy => current'[w] \in DOMAIN sent,
             \A i \in DOMAIN batch'[w] : batch'[w][i].message \in DOMAIN sent,
             DOMAIN pending' \subseteq DOMAIN sent, acked' \subseteq DOMAIN sent,
             UNCHANGED <<stream, sent>>
      PROVE  KnownInv'
  BY <1>6 DEF TypeOK, Goto
<1>7. ASSUME NEW w \in Workers, ReadGroup(w) PROVE KnownInv'
  <2>1. Goto(w, "next") /\ UNCHANGED <<stream, sent, current, acked>>
    BY <1>7 DEF ReadGroup
  <2> QED
    BY <1>0, <1>6, <1>7, <2>1, ReadGroupBatch DEF Busy
<1>8. ASSUME NEW w \in Workers, ScanPending(w) PROVE KnownInv'
  <2>1. Goto(w, "next") /\ UNCHANGED <<stream, sent, current, acked, pending>>
    BY <1>8 DEF ScanPending
  <2> QED
    BY <1>0, <1>6, <1>8, <2>1, ScanPendingBatch DEF Busy
<1>9. ASSUME NEW w \in Workers, batch[w] # <<>>
      PROVE  /\ Head(batch[w]).message \in DOMAIN sent
             /\ \A i \in DOMAIN Tail(batch[w]) : Tail(batch[w])[i].message \in DOMAIN sent
  BY <1>9, HeadTail DEF TypeOK
<1>10. ASSUME NEW w \in Workers, TakeRead(w) PROVE KnownInv'
  <2>1. /\ pc[w] = "next" /\ Goto(w, "handle")
        /\ UNCHANGED <<stream, sent, acked, pending>>
        /\ batch'[w] = Tail(batch[w]) /\ current'[w] = Head(batch[w]).message
        /\ \A v \in Workers \ {w} : batch'[v] = batch[v] /\ current'[v] = current[v]
    BY <1>10 DEF TakeRead, TypeOK
  <2> QED
    BY <1>6, <1>9, <2>1
<1>11. ASSUME NEW w \in Workers, TakeClaimed(w) PROVE KnownInv'
  <2>1. /\ pc[w] = "next" /\ UNCHANGED <<stream, sent, acked>>
        /\ batch'[w] = Tail(batch[w]) /\ DOMAIN pending' = DOMAIN pending
        /\ \A v \in Workers \ {w} : batch'[v] = batch[v] /\ current'[v] = current[v]
        /\ \/ /\ current'[w] = Head(batch[w]).message
              /\ Goto(w, "deadAdd") \/ Goto(w, "handle")
           \/ Goto(w, IF Tail(batch[w]) = <<>> THEN "idle" ELSE "next")
    BY <1>11 DEF TakeClaimed, TypeOK
  <2>2. CASE Goto(w, IF Tail(batch[w]) = <<>> THEN "idle" ELSE "next")
    BY <1>6, <1>9, <2>1, <2>2 DEF Busy
  <2> QED
    BY <1>6, <1>9, <2>1, <2>2
<1>12. ASSUME NEW w \in Workers, ClaimFails(w) \/ Dies(w) PROVE KnownInv'
  <2>1. /\ Goto(w, "idle") /\ UNCHANGED <<stream, sent, acked, pending>>
        /\ DOMAIN batch'[w] = {}
        /\ \A v \in Workers \ {w} : batch'[v] = batch[v] /\ current'[v] = current[v]
    BY <1>12 DEF ClaimFails, Dies, Drop, TypeOK
  <2> QED
    BY <1>6, <2>1 DEF Busy
<1>13. ASSUME NEW w \in Workers, HandlingFails(w) \/ Ack(w) PROVE KnownInv'
  <2>1. /\ Goto(w, IF batch[w] = <<>> THEN "idle" ELSE "next")
        /\ UNCHANGED <<stream, sent, batch>> /\ pc[w] \in Busy
        /\ \A v \in Workers \ {w} : current'[v] = current[v]
        /\ DOMAIN pending' \subseteq DOMAIN pending
        /\ acked' \subseteq acked \union {current[w]}
    BY <1>13 DEF HandlingFails, Ack, Leave, Busy, Without, Restrict, TypeOK
  <2> QED
    BY <1>6, <2>1 DEF Busy
<1>14. ASSUME NEW w \in Workers, Handle(w) \/ RecordOutcome(w) \/ DeadAdd(w) PROVE KnownInv'
  <2>1. /\ UNCHANGED <<stream, sent, batch, current, pending, acked>> /\ pc[w] \in Busy
        /\ \E place \in Busy : Goto(w, place)
    BY <1>14 DEF Handle, Claim, RecordOutcome, DeadAdd, Busy
  <2>2. PICK place \in Busy : Goto(w, place)
    BY <2>1
  <2>3. place # "next"
    BY DEF Busy
  <2> QED
    BY <1>6, <2>1, <2>2, <2>3
<1> QED
  BY <1>1, <1>2, <1>3, <1>4, <1>5, <1>7, <1>8, <1>10, <1>11, <1>12, <1>13, <1>14
  DEF Next, Read, ClaimStale, Process, Workers

\* Every step keeps RoomInv.
LEMMA RoomStep ==
    ASSUME TypeOK, KnownInv, RoomInv, Next
    PROVE  RoomInv'
<1> USE DEF redis, working, history
<1>1. ASSUME NEW m \in Messages, Publish(m) PROVE RoomInv'
  BY <1>1, RoomKept DEF Publish
<1>2. ASSUME NEW m \in Messages, GrowIdle(m) PROVE RoomInv'
  <2>1. /\ DOMAIN pending' = DOMAIN pending
        /\ \A x \in DOMAIN pending : pending'[x].deliveries = pending[x].deliveries
    BY <1>2 DEF GrowIdle, TypeOK, Delivery
  <2> QED
    BY <1>2, <2>1, RoomKept DEF GrowIdle
<1>3. ASSUME NEW e \in Events, Expire(e) PROVE RoomInv'
  BY <1>3, RoomKept DEF Expire
<1>4. CASE RedisRestart
  BY <1>4, RoomKept DEF RedisRestart
<1>5. ASSUME NEW w \in Workers, EnsureGroup(w) PROVE RoomInv'
  BY <1>5, RoomKept DEF EnsureGroup
\* An entry that was just read is held by no claimer when one delivery is enough.
<1>6. ASSUME NEW m
      PROVE  /\ Cardinality(Holders(m)) \in Nat
             /\ 1 + Cardinality(Holders(m)) <= MostDeliveries
  <2>1. /\ Holders(m) \subseteq Claimers /\ IsFiniteSet(Holders(m))
        /\ Cardinality(Holders(m)) \in Nat
        /\ Cardinality(Holders(m)) <= Cardinality(Claimers)
    BY StreamAssumption, FS_Subset, FS_CardinalityType DEF Holders
  <2>2. CASE MaxDeliveries = 1
    <3>1. Holders(m) = {}
      <4>1. ASSUME NEW k \in Claimers, NEW i \in DOMAIN batch[k]
            PROVE  ~ (batch[k][i].deliveries < MaxDeliveries)
        <5>1. batch[k] \in Seq(Item)
          BY DEF TypeOK, Workers
        <5>2. batch[k][i] \in Item /\ batch[k][i].deliveries >= 1
          BY <4>1, <5>1 DEF RoomInv
        <5>3. batch[k][i].deliveries \in Nat
          BY <5>2 DEF Item
        <5> QED
          BY <2>2, <5>2, <5>3
      <4> QED
        BY <4>1 DEF Holders
    <3> QED
      BY <2>1, <2>2, <3>1, MostIsEnough, FS_EmptySet
  <2>3. CASE MaxDeliveries # 1
    BY <2>1, <2>3, MostIsEnough, StreamAssumption DEF MostDeliveries
  <2> QED
    BY <2>2, <2>3
<1>7. ASSUME NEW w \in Readers, ReadGroup(w) PROVE RoomInv'
  <2>1. \A k \in Claimers : batch'[k] = batch[k]
    BY <1>7, ReadGroupBatch, StreamAssumption DEF Workers
  <2>2. \A m : Holders(m)' = Holders(m)
    BY <2>1 DEF Holders
  <2>3. ASSUME NEW m \in DOMAIN pending'
        PROVE  pending'[m].deliveries + Cardinality(Holders(m)) <= MostDeliveries
    <3>1. w \in Workers
      BY DEF Workers
    <3>2. \/ pending'[m] = [deliveries |-> 1, idle |-> FALSE]
          \/ m \in DOMAIN pending /\ pending'[m] = pending[m]
      BY <1>7, <2>3, <3>1, ReadGroupBatch
    <3>3. CASE pending'[m] = [deliveries |-> 1, idle |-> FALSE]
      BY <1>6, <3>3
    <3>4. CASE m \in DOMAIN pending /\ pending'[m] = pending[m]
      BY <3>4 DEF RoomInv
    <3> QED
      BY <3>2, <3>3, <3>4
  <2> QED
    BY <2>1, <2>2, <2>3 DEF RoomInv, MostDeliveries
<1>8. ASSUME NEW w \in Claimers, ScanPending(w) PROVE RoomInv'
  <2>0. w \in Workers /\ Claimers \subseteq Workers
    BY DEF Workers
  <2>1. UNCHANGED pending
    BY <1>8 DEF ScanPending
  <2>2. ASSUME NEW m \in DOMAIN pending
        PROVE  pending[m].deliveries + Cardinality(Holders(m)') <= MostDeliveries
    <3>1. /\ Holders(m) \subseteq Claimers /\ Holders(m)' \subseteq Claimers
          /\ Cardinality(Holders(m)) \in Nat /\ Cardinality(Holders(m)') \in Nat
          /\ Cardinality(Holders(m)') <= Cardinality(Claimers)
          /\ IsFiniteSet(Holders(m))
      BY StreamAssumption, FS_Subset, FS_CardinalityType DEF Holders
    <3>2. pending[m].deliveries \in Nat
      BY <2>2 DEF TypeOK, Delivery
    <3>3. CASE pending[m].deliveries < MaxDeliveries
      BY <3>1, <3>2, <3>3, MostIsEnough, StreamAssumption DEF MostDeliveries
    <3>4. CASE ~ (pending[m].deliveries < MaxDeliveries)
      <4>1. Holders(m)' \subseteq Holders(m)
        BY <1>8, <2>0, <3>4, ScanPendingBatch DEF Holders
      <4>2. Cardinality(Holders(m)') <= Cardinality(Holders(m))
        BY <3>1, <4>1, FS_Subset
      <4> QED
        BY <2>2, <3>1, <3>2, <4>2, MostIsEnough DEF RoomInv
    <3> QED
      BY <3>3, <3>4
  <2>3. ASSUME NEW k \in Claimers
        PROVE  /\ \A i \in DOMAIN batch'[k] : batch'[k][i].deliveries >= 1
               /\ \A i, j \in DOMAIN batch'[k] :
                     batch'[k][i].message = batch'[k][j].message => i = j
    <3>1. CASE k # w
      BY <1>8, <2>0, <3>1, ScanPendingBatch DEF RoomInv
    <3>2. CASE k = w
      <4>1. \A m \in DOMAIN pending : pending[m].deliveries >= 1
        BY DEF TypeOK, Delivery
      <4> QED
        BY <1>8, <2>0, <3>2, <4>1, ScanPendingBatch
    <3> QED
      BY <3>1, <3>2
  <2>4. \A m \in DOMAIN pending' :
          pending'[m].deliveries + Cardinality(Holders(m))' <= MostDeliveries
    BY <2>1, <2>2
  <2> QED
    BY <2>3, <2>4 DEF RoomInv, MostDeliveries
<1>9. ASSUME NEW w \in Readers, TakeRead(w) PROVE RoomInv'
  <2>1. UNCHANGED pending /\ \A k \in Claimers : batch'[k] = batch[k]
    BY <1>9, StreamAssumption DEF TakeRead, TypeOK, Workers
  <2> QED
    BY <2>1, RoomKept
<1>10. ASSUME NEW w \in Claimers, TakeClaimed(w) PROVE RoomInv'
  <2> DEFINE item == Head(batch[w])
  <2>0. w \in Workers /\ Claimers \subseteq Workers
    BY DEF Workers
  <2> PICK m : m = item.message
    OBVIOUS
  <2>1. /\ batch[w] \in Seq(Item) /\ batch[w] # <<>>
        /\ batch'[w] = Tail(batch[w]) /\ \A k \in Claimers \ {w} : batch'[k] = batch[k]
    BY <1>10, <2>0 DEF TakeClaimed, TypeOK, KnownInv
  <2>2. CASE UNCHANGED pending
    BY <2>1, <2>2, RoomKept
  <2>3. CASE ~ UNCHANGED pending
    <3>1. /\ ~ DeliveredEnough(item.deliveries) /\ m \in DOMAIN pending
          /\ DOMAIN pending' = DOMAIN pending
          /\ \A x \in DOMAIN pending \ {m} : pending'[x] = pending[x]
          /\ pending'[m] = [deliveries |-> pending[m].deliveries + 1, idle |-> FALSE]
      BY <1>10, <2>3 DEF TakeClaimed
    <3>2. /\ item \in Item /\ 1 \in DOMAIN batch[w] /\ item = batch[w][1]
          /\ \A i \in DOMAIN Tail(batch[w]) :
                i \in Nat /\ i + 1 \in DOMAIN batch[w] /\ Tail(batch[w])[i] = batch[w][i + 1]
      BY <2>1, HeadTail
    <3>3. w \in Holders(m)
      BY <3>1, <3>2, StreamAssumption DEF Holders, DeliveredEnough, Item
    \* The one item it had of this message is gone.
    <3>4. w \notin Holders(m)'
      <4>1. ASSUME NEW i \in DOMAIN Tail(batch[w]) PROVE Tail(batch[w])[i].message # m
        <5>1. i \in Nat /\ i + 1 \in DOMAIN batch[w] /\ i + 1 # 1
          BY <3>2
        <5>2. Tail(batch[w])[i].message = batch[w][i + 1].message
          BY <3>2
        <5> QED
          BY <3>2, <5>1, <5>2 DEF RoomInv
      <4>2. \A i \in DOMAIN batch'[w] : batch'[w][i].message # m
        BY <2>1, <4>1
      <4> QED
        BY <4>2 DEF Holders
    <3>5. /\ \A k \in Claimers :
                /\ \A i \in DOMAIN batch'[k] : batch'[k][i].deliveries >= 1
                /\ \A i, j \in DOMAIN batch'[k] :
                      batch'[k][i].message = batch'[k][j].message => i = j
          /\ \A x : /\ Holders(x)' \subseteq Holders(x) /\ IsFiniteSet(Holders(x))
                    /\ Cardinality(Holders(x)') <= Cardinality(Holders(x))
                    /\ Cardinality(Holders(x)) \in Nat /\ Cardinality(Holders(x)') \in Nat
      BY <2>1, HoldersShrink
    <3>6. \A x \in DOMAIN pending :
            /\ pending[x].deliveries \in Nat
            /\ pending[x].deliveries + Cardinality(Holders(x)) <= MostDeliveries
      BY DEF TypeOK, RoomInv, Delivery
    <3>7. pending'[m].deliveries + Cardinality(Holders(m)') <= MostDeliveries
      <4>1. Holders(m)' \subseteq Holders(m) \ {w} /\ IsFiniteSet(Holders(m) \ {w})
        BY <3>4, <3>5, FS_RemoveElement
      <4>2. /\ Cardinality(Holders(m)') <= Cardinality(Holders(m) \ {w})
            /\ Cardinality(Holders(m) \ {w}) = Cardinality(Holders(m)) - 1
        BY <3>3, <3>5, <4>1, FS_Subset, FS_RemoveElement
      <4>3. pending'[m].deliveries = pending[m].deliveries + 1
        BY <3>1
      <4> QED
        BY <3>1, <3>5, <3>6, <4>2, <4>3, MostIsEnough
    <3>8. \A x \in DOMAIN pending' :
            pending'[x].deliveries + Cardinality(Holders(x))' <= MostDeliveries
      <4>1. ASSUME NEW x \in DOMAIN pending', x # m
            PROVE  pending'[x].deliveries + Cardinality(Holders(x)') <= MostDeliveries
        BY <3>1, <3>5, <3>6, <4>1, MostIsEnough
      <4> QED
        BY <3>7, <4>1
    <3> QED
      BY <3>5, <3>8 DEF RoomInv, MostDeliveries
  <2> QED
    BY <2>2, <2>3
<1>11. ASSUME NEW w \in Workers, ClaimFails(w) \/ Dies(w) PROVE RoomInv'
  <2>1. UNCHANGED pending /\ batch' = [batch EXCEPT ![w] = <<>>]
    BY <1>11 DEF ClaimFails, Dies, Drop
  <2>2. \A k \in Claimers : batch'[k] = batch[k] \/ batch'[k] = <<>>
    BY <2>1 DEF TypeOK, Workers
  <2> QED
    BY <2>1, <2>2, RoomKept
<1>12. ASSUME NEW w \in Workers,
              Handle(w) \/ RecordOutcome(w) \/ DeadAdd(w) \/ HandlingFails(w) \/ Ack(w)
       PROVE  RoomInv'
  <2>1. /\ UNCHANGED batch
        /\ \A m \in DOMAIN pending' : m \in DOMAIN pending /\ pending'[m] = pending[m]
    BY <1>12 DEF Handle, RecordOutcome, DeadAdd, HandlingFails, Ack, Without, Restrict
  <2> QED
    BY <2>1, RoomKept
<1> QED
  BY <1>1, <1>2, <1>3, <1>4, <1>5, <1>7, <1>8, <1>9, <1>10, <1>11, <1>12
  DEF Next, Read, ClaimStale, Process, Workers

\* Where nothing happens, everything stays.
LEMMA StutterTypes ==
    ASSUME TypeInv, UNCHANGED vars
    PROVE  TypeInv'
BY DEF TypeInv, TypeOK, KnownInv, RoomInv, Holders, vars, redis, working, history

\* An initial state is right.
LEMMA TypeInit == Init => TypeInv
<1> SUFFICES ASSUME Init PROVE TypeInv
  OBVIOUS
<1>1. TypeOK
  <2>1. <<>> \in Seq(Messages) /\ <<>> \in Seq(Item) /\ Len(stream) = 0
    BY DEF Init
  <2>2. ToSet(stream) = {} /\ DOMAIN sent = {} /\ DOMAIN pending = {}
    BY DEF Init, ToSet
  <2> QED
    BY <2>1, <2>2, StreamAssumption DEF Init, TypeOK
<1>2. KnownInv /\ RoomInv
  BY DEF Init, KnownInv, RoomInv, Busy, Workers
<1> QED
  BY <1>1, <1>2 DEF TypeInv

\* Every variable keeps its type, and no entry is delivered more often than
\* MAX_DELIVERIES and the overlapping runs of claimStale allow: a run that was
\* told fewer deliveries may add one more, and no run adds two.
THEOREM TypeCorrect == Spec => []TypeOK
<1>1. TypeInv /\ [Next]_vars => TypeInv'
  BY TypeStep, KnownStep, RoomStep, StutterTypes DEF TypeInv
<1>2. TypeInv => TypeOK
  BY DEF TypeInv
<1> QED
  BY TypeInit, <1>1, <1>2, PTL DEF Spec

(***************************************************************************)
(* No message leaves the group unseen.                                     *)
(***************************************************************************)
\* The event of m was claimed once, be it that its key has expired since.
Claimed(m) == EventOf[m] \in processed \union forgotten

\* A worker that is about to acknowledge an outcome has seen to it that the event
\* is claimed, or that the message stands in the dead letters.
SeenInv ==
    restarts = 0 =>
        /\ \A m \in acked : sent[m] = "outcome" => Claimed(m) \/ m \in dead
        /\ \A w \in Workers :
              /\ pc[w] = "record" => Claimed(current[w])
              /\ pc[w] = "ack" /\ sent[current[w]] = "outcome" => Claimed(current[w])
              /\ pc[w] = "deadAck" => current[w] \in dead

\* Every step keeps it: only a restart of Redis forgets without a trace.
LEMMA SeenStep ==
    ASSUME TypeOK, KnownInv, SeenInv, Next
    PROVE  SeenInv'
<1> USE DEF redis, working, history
<1>1. CASE RedisRestart
  BY <1>1 DEF RedisRestart, SeenInv, TypeOK
\* What was seen stays seen.
<1>2. ASSUME restarts' = restarts, dead \subseteq dead',
             processed \union forgotten \subseteq processed' \union forgotten',
             \A m \in DOMAIN sent : sent'[m] = sent[m],
             \A m \in acked' \ acked :
                m \in DOMAIN sent /\ (sent[m] = "outcome" => Claimed(m)' \/ m \in dead'),
             \A w \in Workers :
                \/ pc'[w] \notin {"record", "ack", "deadAck"}
                \/ pc'[w] = pc[w] /\ current'[w] = current[w]
                \/ /\ pc'[w] = "record" => Claimed(current[w])'
                   /\ pc'[w] = "ack" /\ sent'[current'[w]] = "outcome"
                         => Claimed(current[w])'
                   /\ pc'[w] = "deadAck" => current'[w] \in dead'
      PROVE  SeenInv'
  <2> SUFFICES ASSUME restarts = 0 PROVE SeenInv'
    BY <1>2 DEF SeenInv
  <2>1. \A m : Claimed(m) => Claimed(m)'
    BY <1>2 DEF Claimed
  <2>2. ASSUME NEW m \in acked', sent'[m] = "outcome" PROVE Claimed(m)' \/ m \in dead'
    BY <1>2, <2>1, <2>2 DEF SeenInv, KnownInv
  <2>3. ASSUME NEW w \in Workers
        PROVE  /\ pc'[w] = "record" => Claimed(current[w])'
               /\ pc'[w] = "ack" /\ sent'[current'[w]] = "outcome" => Claimed(current[w])'
               /\ pc'[w] = "deadAck" => current'[w] \in dead'
    <3>1. CASE pc'[w] = pc[w] /\ current'[w] = current[w]
      <4>1. Claimed(current[w]) => Claimed(current[w])'
        BY <1>2, <3>1 DEF Claimed
      <4>2. pc[w] \in Busy => sent'[current[w]] = sent[current[w]]
        BY <1>2 DEF KnownInv
      <4> QED
        BY <1>2, <3>1, <4>1, <4>2 DEF SeenInv, Busy
    <3> QED
      BY <1>2, <3>1
  <2> QED
    BY <2>2, <2>3 DEF SeenInv
<1>3. ASSUME NEW m \in Messages, Publish(m) PROVE SeenInv'
  BY <1>2, <1>3 DEF Publish
<1>4. ASSUME NEW m \in Messages, GrowIdle(m) PROVE SeenInv'
  BY <1>2, <1>4 DEF GrowIdle
<1>5. ASSUME NEW e \in Events, Expire(e) PROVE SeenInv'
  BY <1>2, <1>5 DEF Expire
\* A step of one worker that ends at a place where nothing was promised.
<1>6. ASSUME NEW w \in Workers, NEW place \in Places \ {"record", "ack", "deadAck"},
             Goto(w, place), \A v \in Workers \ {w} : current'[v] = current[v],
             dead \subseteq dead', acked' = acked,
             UNCHANGED <<processed, sent, restarts, forgotten>>
      PROVE  SeenInv'
  BY <1>2, <1>6 DEF Goto, TypeOK
<1>7. ASSUME NEW w \in Workers, Read(w) \/ ClaimStale(w) PROVE SeenInv'
  <2>1. CASE EnsureGroup(w)
    BY <1>2, <2>1 DEF EnsureGroup
  <2>2. CASE ~ EnsureGroup(w)
    <3>1. UNCHANGED <<processed, dead, sent, restarts, acked, forgotten>>
      BY <1>7, <2>2 DEF Read, ClaimStale, ReadGroup, TakeRead, ScanPending, TakeClaimed,
         ClaimFails
    <3>2. \A v \in Workers \ {w} : current'[v] = current[v]
      BY <1>7, <2>2 DEF Read, ClaimStale, ReadGroup, TakeRead, ScanPending, TakeClaimed,
         ClaimFails, Drop, TypeOK
    <3>3. \E place \in Places \ {"record", "ack", "deadAck"} : Goto(w, place)
      BY <1>7, <2>2 DEF Read, ClaimStale, ReadGroup, TakeRead, ScanPending, TakeClaimed,
         ClaimFails, Drop, Places
    <3> QED
      BY <1>6, <3>1, <3>2, <3>3
  <2> QED
    BY <2>1, <2>2
<1>8. ASSUME NEW w \in Workers, HandlingFails(w) \/ Dies(w) PROVE SeenInv'
  <2>1. /\ UNCHANGED <<processed, dead, sent, restarts, acked, forgotten>>
        /\ \A v \in Workers \ {w} : current'[v] = current[v]
        /\ Goto(w, "idle") \/ Goto(w, "next")
    BY <1>8 DEF HandlingFails, Dies, Leave, Drop, TypeOK
  <2> QED
    BY <1>6, <2>1 DEF Places
<1>9. ASSUME NEW w \in Workers, Handle(w) PROVE SeenInv'
  <2>1. UNCHANGED <<current, dead, sent, restarts, acked, forgotten>>
    BY <1>9 DEF Handle
  <2>2. CASE Goto(w, "deadAdd") /\ UNCHANGED processed
    BY <1>6, <2>1, <2>2 DEF Places
  <2>3. CASE ~ (Goto(w, "deadAdd") /\ UNCHANGED processed)
    <3>1. /\ processed \subseteq processed'
          /\ \/ Goto(w, "ack") /\ sent[current[w]] = "newer"
             \/ Goto(w, "ack") /\ EventOf[current[w]] \in processed'
             \/ Goto(w, "record") /\ EventOf[current[w]] \in processed'
      BY <1>9, <2>3 DEF Handle, Claim
    <3>2. \A v \in Workers \ {w} : pc'[v] = pc[v]
      BY <3>1 DEF Goto, TypeOK
    <3>3. /\ pc'[w] \in {"record", "ack"}
          /\ EventOf[current[w]] \in processed' \/ (pc'[w] = "ack" /\ sent[current[w]] = "newer")
      BY <3>1 DEF Goto, TypeOK
    <3>4. /\ pc'[w] = "record" => Claimed(current[w])'
          /\ pc'[w] = "ack" /\ sent'[current'[w]] = "outcome" => Claimed(current[w])'
      BY <2>1, <3>3 DEF Claimed
    <3> QED
      BY <1>2, <2>1, <3>1, <3>2, <3>3, <3>4
  <2> QED
    BY <2>2, <2>3
<1>10. ASSUME NEW w \in Workers, RecordOutcome(w) PROVE SeenInv'
  <2>1. /\ UNCHANGED <<current, processed, dead, sent, restarts, acked, forgotten>>
        /\ pc[w] = "record" /\ pc'[w] = "ack"
        /\ \A v \in Workers \ {w} : pc'[v] = pc[v]
    BY <1>10 DEF RecordOutcome, Goto, TypeOK
  <2>2. restarts = 0 => Claimed(current[w])'
    BY <2>1 DEF SeenInv, Claimed
  <2>3. CASE restarts = 0
    BY <1>2, <2>1, <2>2, <2>3
  <2>4. CASE restarts # 0
    BY <2>1, <2>4 DEF SeenInv
  <2> QED
    BY <2>3, <2>4
<1>11. ASSUME NEW w \in Workers, DeadAdd(w) PROVE SeenInv'
  <2>1. /\ UNCHANGED <<current, processed, sent, restarts, acked, forgotten>>
        /\ dead' = dead \union {current[w]} /\ pc'[w] = "deadAck"
        /\ \A v \in Workers \ {w} : pc'[v] = pc[v]
    BY <1>11 DEF DeadAdd, Goto, TypeOK
  <2> QED
    BY <1>2, <2>1
<1>12. ASSUME NEW w \in Workers, Ack(w) PROVE SeenInv'
  <2>1. /\ UNCHANGED <<processed, dead, sent, restarts, forgotten>>
        /\ acked' = acked \union {current[w]}
        /\ pc[w] \in {"ack", "deadAck"} /\ pc'[w] \in {"idle", "next"}
        /\ \A v \in Workers \ {w} : pc'[v] = pc[v] /\ current'[v] = current[v]
    BY <1>12 DEF Ack, Leave, Goto, TypeOK
  <2>2. current[w] \in DOMAIN sent
    BY <2>1 DEF KnownInv, Busy
  <2>3. restarts = 0 /\ sent[current[w]] = "outcome"
           => EventOf[current[w]] \in processed \union forgotten \/ current[w] \in dead
    BY <2>1 DEF SeenInv, Claimed
  <2>4. CASE restarts # 0
    BY <2>1, <2>4 DEF SeenInv
  <2>5. CASE restarts = 0
    <3>1. ASSUME NEW m \in acked' \ acked
          PROVE  m \in DOMAIN sent /\ (sent[m] = "outcome" => Claimed(m)' \/ m \in dead')
      BY <2>1, <2>2, <2>3, <2>5, <3>1 DEF Claimed
    <3> QED
      BY <1>2, <2>1, <3>1
  <2> QED
    BY <2>4, <2>5
<1>13. Readers \subseteq Workers /\ Claimers \subseteq Workers
  BY DEF Workers
<1> QED
  BY <1>1, <1>3, <1>4, <1>5, <1>7, <1>8, <1>9, <1>10, <1>11, <1>12, <1>13
  DEF Next, Process

\* XACK comes only after the handler: as long as Redis keeps its data, an outcome
\* that was acknowledged was claimed or stands in the dead letters, whichever
\* worker it was delivered to, and whatever failed or died on the way.
THEOREM NothingAckedUnseen == Spec => []AckedWasSeen
<1> DEFINE Inv == TypeInv /\ SeenInv
<1>1. Init => Inv
  <2>1. Init => SeenInv
    BY DEF Init, SeenInv
  <2> QED
    BY <2>1, TypeInit
<1>2. ASSUME Inv, [Next]_vars PROVE Inv'
  <2>1. CASE Next
    BY <1>2, <2>1, TypeStep, KnownStep, RoomStep, SeenStep DEF TypeInv
  <2>2. CASE UNCHANGED vars
    <3>1. SeenInv'
      BY <1>2, <2>2 DEF SeenInv, Claimed, vars, redis, working, history
    <3> QED
      BY <1>2, <2>2, <3>1, StutterTypes
  <2> QED
    BY <1>2, <2>1, <2>2
<1>3. Inv => AckedWasSeen
  BY DEF SeenInv, Claimed, AckedWasSeen
<1> QED
  BY <1>1, <1>2, <1>3, PTL DEF Spec

(***************************************************************************)
(* The consumer beside resets: AdminReset.                                 *)
(***************************************************************************)
\* The steps of reset() that touch what the consumer works on.
LEMMA AdminSplit ==
    ASSUME AdminNext
    PROVE  \/ Next /\ UNCHANGED gone
           \/ \E w \in Workers : IgnoreUnknown(w)
           \/ ClearWindows \/ DeleteStream \/ DeleteLetters \/ MakeGroup
           \/ DeleteProcessed
           \/ UNCHANGED <<vars, gone>>
<1> USE DEF admin
<1>1. ASSUME NEW w \in Workers, Take(w) PROVE Next /\ UNCHANGED gone
  BY <1>1 DEF Take, Next
<1>2. ASSUME NEW w \in Workers, Consume(w)
      PROVE  \/ (Next /\ UNCHANGED gone) \/ IgnoreUnknown(w)
             \/ UNCHANGED <<vars, gone>>
  <2>1. CASE HandleKnown(w) \/ RecordThenApply(w) \/ WorkerStops(w)
    BY <2>1 DEF HandleKnown, RecordThenApply, WorkerStops, Next, Process
  <2>2. CASE WriteBreaker(w) \/ ReleaseSlot(w)
    BY <2>2 DEF WriteBreaker, ReleaseSlot
  <2> QED
    BY <1>2, <2>1, <2>2 DEF Consume, Next, Process
<1>3. ASSUME NEW c \in Channels, Request(c) \/ Seed(c) PROVE UNCHANGED <<vars, gone>>
  BY <1>3 DEF Request, RouteReads, RouteWrites, RouteTakesSlot, RouteLogs, RouteFails, Seed
<1>4. CASE Reset \/ ResetFails
  BY <1>4 DEF Reset, ResetFails
<1>5. CASE ListChannels \/ ResetBreakers \/ TruncateDecisions \/ DeleteChannels
           \/ DeleteProbes
  BY <1>5 DEF ListChannels, ResetBreakers, TruncateDecisions, DeleteChannels, DeleteProbes,
     Step, vars, redis, working, history
<1>6. CASE Time \/ \E m \in Messages : Produce(m)
  BY <1>6 DEF Time, Produce, Next
<1> QED
  BY <1>1, <1>2, <1>3, <1>4, <1>5, <1>6 DEF AdminNext, ResetSteps

\* No step of the service beside resets breaks a type or delivers too often.
LEMMA AdminTypeStep ==
    ASSUME TypeInv, [AdminNext]_all
    PROVE  TypeInv'
<1> USE DEF TypeInv, redis, working, history
<1>1. CASE Next
  BY <1>1, TypeStep, KnownStep, RoomStep
<1>2. CASE UNCHANGED vars
  BY <1>2, StutterTypes
<1>3. ASSUME NEW w \in Workers, IgnoreUnknown(w) PROVE TypeInv'
  <2>1. UNCHANGED <<redis, batch, current, sent, restarts, history>> /\ Goto(w, "ack")
        /\ pc[w] = "handle"
    BY <1>3 DEF IgnoreUnknown
  <2>2. TypeOK' /\ KnownInv'
    BY <2>1 DEF TypeOK, KnownInv, Goto, Busy
  <2>3. RoomInv'
    BY <2>1 DEF RoomInv, Holders
  <2> QED
    BY <2>2, <2>3
<1>4. CASE ClearWindows
  <2>1. UNCHANGED <<redis, working, sent, restarts, acked, forgotten>>
        /\ counted' \in [Events -> Nat]
    BY <1>4 DEF ClearWindows, Step
  <2> QED
    BY <2>1 DEF TypeOK, KnownInv, RoomInv, Holders
<1>5. CASE DeleteStream
  <2>1. UNCHANGED <<processed, dead, working, sent, restarts, history>>
    BY <1>5 DEF DeleteStream, Step
  <2>2. CASE UNCHANGED <<stream, group, pending>>
    BY <2>1, <2>2 DEF TypeOK, KnownInv, RoomInv, Holders
  <2>3. CASE stream' = <<>> /\ group' = -1 /\ pending' = <<>>
    <3>1. /\ stream' \in Seq(Messages) /\ group' \in -1 .. Len(stream')
          /\ ToSet(stream') = {} /\ DOMAIN pending' = {} /\ DOMAIN stream' = {}
      BY <2>3 DEF ToSet
    <3> QED
      BY <2>1, <3>1 DEF TypeOK, KnownInv, RoomInv
  <2> QED
    BY <1>5, <2>2, <2>3 DEF DeleteStream
<1>6. CASE DeleteLetters \/ DeleteProcessed
  <2>1. /\ UNCHANGED <<stream, group, pending, working, sent, restarts, counted, acked>>
        /\ dead' \subseteq dead /\ processed' \subseteq processed
        /\ forgotten' \subseteq forgotten \union processed
    BY <1>6 DEF DeleteLetters, DeleteProcessed, Step
  <2>2. TypeOK'
    BY <2>1 DEF TypeOK
  <2>3. KnownInv' /\ RoomInv'
    BY <2>1 DEF KnownInv, RoomInv, Holders
  <2> QED
    BY <2>2, <2>3
<1>7. CASE MakeGroup
  <2>1. /\ UNCHANGED <<stream, pending, processed, dead, working, sent, restarts, history>>
        /\ group' = IF group = -1 THEN 0 ELSE group
    BY <1>7 DEF MakeGroup, Step
  <2>2. TypeOK'
    BY <2>1 DEF TypeOK
  <2>3. KnownInv' /\ RoomInv'
    BY <2>1 DEF KnownInv, RoomInv, Holders
  <2> QED
    BY <2>2, <2>3
<1> QED
  BY <1>1, <1>2, <1>3, <1>4, <1>5, <1>6, <1>7, AdminSplit DEF all

\* Nothing is skipped: the group goes by an entry only to hand it out, and an
\* entry that is no longer pending was acknowledged.
LEMMA SkipStep ==
    ASSUME TypeInv, NothingIsSkipped, [AdminNext]_all
    PROVE  NothingIsSkipped'
<1> USE DEF TypeInv, redis, working, history
<1>1. ASSUME stream' = stream, group' = group \/ group' \in {-1, 0},
             DOMAIN pending \union acked \subseteq DOMAIN pending' \union acked'
      PROVE  NothingIsSkipped'
  BY <1>1 DEF NothingIsSkipped, TypeOK
<1>2. ASSUME group' \in {-1, 0} PROVE NothingIsSkipped'
  BY <1>2 DEF NothingIsSkipped
<1>3. ASSUME NEW m \in Messages, Publish(m) PROVE NothingIsSkipped'
  <2>1. stream' = Append(stream, m) /\ UNCHANGED <<group, pending, acked>>
    BY <1>3 DEF Publish
  <2>2. \A i \in 1 .. group : stream'[i] = stream[i]
    BY <2>1 DEF TypeOK
  <2> QED
    BY <2>1, <2>2 DEF NothingIsSkipped
<1>4. ASSUME NEW w \in Workers, ReadGroup(w) PROVE NothingIsSkipped'
  <2> DEFINE last == IF group + BatchSize < Len(stream) THEN group + BatchSize
                                                       ELSE Len(stream)
             new == SubSeq(stream, group + 1, last)
  <2>1. /\ group \in Nat /\ last \in Nat /\ last <= Len(stream) /\ group <= last
        /\ stream \in Seq(Messages)
    BY <1>4, StreamAssumption DEF ReadGroup, TypeOK
  <2>2. group' = last /\ UNCHANGED <<stream, acked>>
    BY <1>4 DEF ReadGroup
  <2>3. DOMAIN pending' = DOMAIN pending \union ToSet(new)
    BY <1>4 DEF ReadGroup
  <2>4. ASSUME NEW i \in 1 .. last, ~ (i \in 1 .. group) PROVE stream[i] \in ToSet(new)
    <3>1. i - group \in DOMAIN new /\ new[i - group] = stream[i]
      BY <2>1, <2>4
    <3> QED
      BY <3>1 DEF ToSet
  <2> QED
    BY <2>2, <2>3, <2>4 DEF NothingIsSkipped
<1>5. CASE Next
  <2>1. CASE RedisRestart
    BY <1>2, <2>1 DEF RedisRestart
  <2>2. ASSUME NEW w \in Workers, Ack(w) PROVE NothingIsSkipped'
    BY <1>1, <2>2 DEF Ack, Without, Restrict
  <2>3. ASSUME NEW w \in Workers, EnsureGroup(w) PROVE NothingIsSkipped'
    BY <1>1, <2>3 DEF EnsureGroup
  <2>4. ASSUME NEW w \in Workers,
               \/ TakeRead(w) \/ ScanPending(w) \/ TakeClaimed(w) \/ ClaimFails(w)
               \/ Handle(w) \/ RecordOutcome(w) \/ DeadAdd(w) \/ HandlingFails(w) \/ Dies(w)
        PROVE  NothingIsSkipped'
    <3>1. UNCHANGED <<stream, group, acked>> /\ DOMAIN pending' = DOMAIN pending
      BY <2>4 DEF TakeRead, ScanPending, TakeClaimed, ClaimFails, Handle, RecordOutcome,
         DeadAdd, HandlingFails, Dies
    <3> QED
      BY <1>1, <3>1
  <2>5. ASSUME NEW m \in Messages, GrowIdle(m) PROVE NothingIsSkipped'
    BY <1>1, <2>5 DEF GrowIdle
  <2>6. ASSUME NEW e \in Events, Expire(e) PROVE NothingIsSkipped'
    BY <1>1, <2>6 DEF Expire
  <2> QED
    BY <1>3, <1>4, <1>5, <2>1, <2>2, <2>3, <2>4, <2>5, <2>6
    DEF Next, Read, ClaimStale, Process, Workers
<1>6. CASE UNCHANGED vars
  BY <1>1, <1>6 DEF vars
<1>7. CASE DeleteStream
  BY <1>1, <1>2, <1>7 DEF DeleteStream, Step
<1>8. CASE MakeGroup
  BY <1>1, <1>8 DEF MakeGroup, Step
<1>9. CASE ClearWindows \/ DeleteLetters \/ DeleteProcessed
           \/ \E w \in Workers : IgnoreUnknown(w)
  BY <1>1, <1>9 DEF ClearWindows, DeleteLetters, DeleteProcessed, IgnoreUnknown, Step
<1> QED
  BY <1>5, <1>6, <1>7, <1>8, <1>9, AdminSplit DEF all

\* However a reset and the consumers make the group again, and whatever is
\* published, read, acknowledged or lost meanwhile, no entry is passed over.
THEOREM GroupSkipsNothing == AdminSpec => []NothingIsSkipped
<1> DEFINE Inv == TypeInv /\ NothingIsSkipped
<1>1. AdminInit => Inv
  BY TypeInit DEF AdminInit, Init, NothingIsSkipped
<1>2. Inv /\ [AdminNext]_all => Inv'
  BY AdminTypeStep, SkipStep
<1> QED
  BY <1>1, <1>2, PTL DEF AdminSpec

\* What was deleted was sent, and is on no place of the stream.
GoneInv == ToSet(stream) \intersect gone = {} /\ gone \subseteq DOMAIN sent

\* Every step keeps it: an entry is published once.
LEMMA GoneStep ==
    ASSUME TypeInv, GoneInv, [AdminNext]_all
    PROVE  GoneInv'
<1> USE DEF redis, working, history
<1>1. ASSUME gone' = gone, DOMAIN sent \subseteq DOMAIN sent', stream' = stream
      PROVE  GoneInv'
  BY <1>1 DEF GoneInv, ToSet
<1>2. CASE Next /\ UNCHANGED gone
  <2>1. ASSUME NEW m \in Messages, Publish(m) PROVE GoneInv'
    <3>1. /\ m \notin DOMAIN sent /\ DOMAIN sent' = DOMAIN sent \union {m}
          /\ stream' = Append(stream, m)
      BY <2>1 DEF Publish
    <3>2. ToSet(stream') = ToSet(stream) \union {m}
      <4>1. stream \in Seq(Messages)
        BY DEF TypeInv, TypeOK
      <4> QED
        BY <3>1, <4>1, AppendAdds
    <3> QED
      BY <1>2, <3>1, <3>2 DEF GoneInv
  <2>2. CASE RedisRestart
    <3>1. ToSet(stream') = {} /\ UNCHANGED sent
      BY <2>2 DEF RedisRestart, ToSet
    <3> QED
      BY <1>2, <3>1 DEF GoneInv
  <2>3. ASSUME NEW w \in Workers, Read(w) \/ ClaimStale(w) \/ Process(w)
        PROVE  UNCHANGED <<sent, stream>>
    BY <2>3 DEF Read, ClaimStale, Process, EnsureGroup, ReadGroup, TakeRead, ScanPending,
       TakeClaimed, ClaimFails, Handle, RecordOutcome, Ack, DeadAdd, HandlingFails, Dies
  <2>4. ASSUME NEW m \in Messages, GrowIdle(m) PROVE UNCHANGED <<sent, stream>>
    BY <2>4 DEF GrowIdle
  <2>5. ASSUME NEW e \in Events, Expire(e) PROVE UNCHANGED <<sent, stream>>
    BY <2>5 DEF Expire
  <2> QED
    BY <1>1, <1>2, <2>1, <2>2, <2>3, <2>4, <2>5 DEF Next, Workers
<1>3. CASE UNCHANGED <<vars, gone>>
  BY <1>1, <1>3 DEF vars
<1>4. CASE DeleteStream
  <2>1. CASE stream' = <<>> /\ gone' = gone \union ToSet(stream)
    <3>1. ToSet(stream') = {} /\ UNCHANGED sent /\ ToSet(stream) \subseteq DOMAIN sent
      BY <1>4, <2>1 DEF DeleteStream, Step, ToSet, TypeInv, TypeOK
    <3> QED
      BY <2>1, <3>1 DEF GoneInv
  <2>2. CASE UNCHANGED <<stream, gone>>
    BY <1>1, <1>4, <2>2 DEF DeleteStream, Step
  <2> QED
    BY <1>4, <2>1, <2>2 DEF DeleteStream
<1>5. CASE ClearWindows \/ DeleteLetters \/ MakeGroup \/ DeleteProcessed
           \/ \E w \in Workers : IgnoreUnknown(w)
  BY <1>1, <1>5 DEF ClearWindows, DeleteLetters, MakeGroup, DeleteProcessed, IgnoreUnknown,
     Step, admin
<1> QED
  BY <1>2, <1>3, <1>4, <1>5, AdminSplit DEF all, admin

\* What a worker has was in its hands before or is on the stream.
LEMMA HasStep ==
    ASSUME TypeInv, Next, NEW w \in Workers
    PROVE  Has(w)' \subseteq Has(w) \union ToSet(stream)
<1> USE DEF redis, working, history
<1>1. ASSUME \A i \in DOMAIN batch'[w] : \E j \in DOMAIN batch[w] : batch'[w][i] = batch[w][j],
             \/ current'[w] \in {current[w], NoMessage}
             \/ \E j \in DOMAIN batch[w] : current'[w] = batch[w][j].message
      PROVE  Has(w)' \subseteq Has(w) \union ToSet(stream)
  BY <1>1 DEF Has
<1>2. ASSUME current'[w] = current[w],
             \A i \in DOMAIN batch'[w] : batch'[w][i].message \in ToSet(stream)
      PROVE  Has(w)' \subseteq Has(w) \union ToSet(stream)
  BY <1>2 DEF Has
<1>3. CASE UNCHANGED <<current[w], batch[w]>>
  BY <1>1, <1>3
<1>4. CASE ReadGroup(w)
  BY <1>2, <1>4, ReadGroupBatch DEF ReadGroup, TypeInv
<1>5. CASE ScanPending(w)
  BY <1>2, <1>5, ScanPendingBatch DEF ScanPending, TypeInv
<1>6. CASE TakeRead(w) \/ TakeClaimed(w)
  <2>1. batch[w] \in Seq(Item) /\ batch[w] # <<>> /\ batch'[w] = Tail(batch[w])
    BY <1>6 DEF TakeRead, TakeClaimed, TypeInv, TypeOK, KnownInv
  <2>2. current'[w] \in {current[w], Head(batch[w]).message}
    BY <1>6 DEF TakeRead, TakeClaimed, TypeInv, TypeOK
  <2> QED
    BY <1>1, <2>1, <2>2, HeadTail
<1>7. CASE ClaimFails(w) \/ Dies(w)
  <2>1. DOMAIN batch'[w] = {} /\ current'[w] = NoMessage
    BY <1>7 DEF ClaimFails, Dies, Drop, TypeInv, TypeOK
  <2> QED
    BY <1>1, <2>1
<1>8. CASE Ack(w) \/ HandlingFails(w)
  <2>1. batch' = batch /\ current'[w] = NoMessage
    BY <1>8 DEF Ack, HandlingFails, Leave, TypeInv, TypeOK
  <2> QED
    BY <1>1, <2>1
<1>9. CASE EnsureGroup(w) \/ Handle(w) \/ RecordOutcome(w) \/ DeadAdd(w)
  BY <1>3, <1>9 DEF EnsureGroup, Handle, RecordOutcome, DeadAdd
<1>10. ASSUME NEW v \in Workers, v # w, Read(v) \/ ClaimStale(v) \/ Process(v)
       PROVE  UNCHANGED <<current[w], batch[w]>>
  <2>1. ASSUME EnsureGroup(v) \/ ReadGroup(v) \/ TakeRead(v) PROVE UNCHANGED <<current[w], batch[w]>>
    BY <1>10, <2>1 DEF EnsureGroup, ReadGroup, TakeRead, TypeInv, TypeOK
  <2>2. ASSUME ScanPending(v) PROVE UNCHANGED <<current[w], batch[w]>>
    BY <1>10, <2>2, ScanPendingBatch DEF ScanPending, TypeInv
  <2>3. ASSUME TakeClaimed(v) \/ ClaimFails(v) PROVE UNCHANGED <<current[w], batch[w]>>
    BY <1>10, <2>3 DEF TakeClaimed, ClaimFails, Drop, TypeInv, TypeOK
  <2>4. ASSUME Process(v) PROVE UNCHANGED <<current[w], batch[w]>>
    BY <1>10, <2>4 DEF Process, Handle, RecordOutcome, Ack, DeadAdd, HandlingFails, Dies,
       Leave, Drop, TypeInv, TypeOK
  <2> QED
    BY <1>10, <2>1, <2>2, <2>3, <2>4 DEF Read, ClaimStale
<1>11. ASSUME NEW m \in Messages, Publish(m) \/ GrowIdle(m) PROVE UNCHANGED <<current, batch>>
  BY <1>11 DEF Publish, GrowIdle
<1>12. ASSUME RedisRestart \/ \E e \in Events : Expire(e) PROVE UNCHANGED <<current, batch>>
  BY <1>12 DEF RedisRestart, Expire
<1> QED
  BY <1>3, <1>4, <1>5, <1>6, <1>7, <1>8, <1>9, <1>10, <1>11, <1>12
  DEF Next, Read, ClaimStale, Process, Workers

\* Once a reset has deleted the stream, no worker lays hands on an entry of it
\* that it did not have in memory: XREADGROUP and XPENDING only tell of entries
\* that were published since.
THEOREM OldOutcomesAreGone == AdminSpec => OldOutcomesStop
<1> DEFINE Inv == TypeInv /\ GoneInv
           Stops == \A w \in Workers : Has(w)' \intersect gone \subseteq Has(w)
<1>1. AdminInit => Inv
  BY TypeInit DEF AdminInit, Init, GoneInv, ToSet
<1>2. Inv /\ [AdminNext]_all => Inv'
  BY AdminTypeStep, GoneStep
<1>3. ASSUME Inv, AdminNext PROVE Stops
  <2>1. CASE Next
    BY <1>3, <2>1, HasStep DEF GoneInv
  <2>2. CASE UNCHANGED <<current, batch>>
    BY <2>2 DEF Has
  <2>3. CASE \/ \E w \in Workers : IgnoreUnknown(w)
             \/ ClearWindows \/ DeleteStream \/ DeleteLetters \/ MakeGroup
             \/ DeleteProcessed
    BY <2>2, <2>3 DEF IgnoreUnknown, ClearWindows, DeleteStream, DeleteLetters, MakeGroup,
       DeleteProcessed, Step
  <2> QED
    BY <1>3, <2>1, <2>2, <2>3, AdminSplit DEF vars, working
<1>4. Inv /\ [AdminNext]_all => [Stops]_all
  BY <1>3
<1> QED
  BY <1>1, <1>2, <1>4, PTL DEF AdminSpec, OldOutcomesStop

\* A worker has something left to do to the breaker only while it is about to
\* acknowledge.
ApplyInv == \A w \in Workers : applying[w] # "nothing" => pc[w] = "ack"

\* While nothing but the reset is at work, nobody else has anything to do, and
\* what each of its steps has cleared stays so.
QuietInv ==
    quiet =>
        /\ step # "none"
        /\ \A w \in Workers : pc[w] = "idle" /\ applying[w] = "nothing"
        /\ \A c \in Channels : route[c] = "none"
        /\ DOMAIN pending = {} /\ (group = Len(stream) \/ Len(stream) = 0)
        /\ step # "windows" => \A e \in Events : counted[e] = 0
        /\ step \notin {"windows", "list", "breakers"} => breakers \intersect listed = {}
        /\ step \notin {"windows", "list", "breakers", "decisions"} => ~decisions
        /\ step \notin {"windows", "list", "breakers", "decisions", "channels"}
              => table = {}
        /\ step \in {"letters", "group", "processed", "probes"} => Len(stream) = 0
        /\ step \in {"group", "processed", "probes"} => dead = {}
        /\ step \in {"processed", "probes"} => group = 0
        /\ step = "probes" => processed = {}

Wheres == [Workers -> {"nothing", "write", "release"}]

\* The types of the variables that AdminReset adds.
ResetTypes == applying \in Wheres /\ DOMAIN route = Channels

AdminInv == TypeInv /\ ResetTypes /\ ApplyInv /\ QuietInv

\* Every step keeps ApplyInv: an outcome is acknowledged after the breaker.
LEMMA ApplyStep ==
    ASSUME TypeInv, ResetTypes, ApplyInv, [AdminNext]_all
    PROVE  ResetTypes' /\ ApplyInv'
<1> USE DEF ResetTypes, Wheres
<1>0. pc \in [Workers -> Places]
  BY DEF TypeInv, TypeOK, Places
<1>1. CASE UNCHANGED <<pc, applying>> /\ DOMAIN route' = DOMAIN route
  BY <1>1 DEF ApplyInv
<1>2. ASSUME NEW w \in Workers, UNCHANGED route, applying' = [applying EXCEPT ![w] = "nothing"],
             \A v \in Workers \ {w} : pc'[v] = pc[v]
      PROVE  ResetTypes' /\ ApplyInv'
  BY <1>2 DEF ApplyInv
<1>3. ASSUME NEW w \in Workers, UNCHANGED <<route, applying>>, applying[w] = "nothing",
             \A v \in Workers \ {w} : pc'[v] = pc[v]
      PROVE  ResetTypes' /\ ApplyInv'
  BY <1>3 DEF ApplyInv
<1>4. ASSUME NEW w \in Workers, Take(w) PROVE ResetTypes' /\ ApplyInv'
  <2>1. \A v \in Workers \ {w} : pc'[v] = pc[v]
    BY <1>0, <1>4 DEF Take, Read, ClaimStale, EnsureGroup, ReadGroup, TakeRead, ScanPending,
       TakeClaimed, ClaimFails, Drop, Goto, working
  <2> QED
    BY <1>2, <1>4, <2>1 DEF Take, Applying
<1>5. ASSUME NEW w \in Workers, Consume(w) PROVE ResetTypes' /\ ApplyInv'
  <2>1. CASE IgnoreUnknown(w) \/ HandleKnown(w)
    <3>1. pc[w] = "handle" /\ UNCHANGED <<route, applying>>
      BY <2>1 DEF IgnoreUnknown, HandleKnown, Handle
    <3>2. \A v \in Workers \ {w} : pc'[v] = pc[v]
      BY <1>0, <2>1 DEF IgnoreUnknown, HandleKnown, Handle, Claim, Goto
    <3>3. applying[w] = "nothing"
      BY <3>1 DEF ApplyInv
    <3> QED
      BY <1>3, <3>1, <3>2, <3>3
  <2>2. CASE RecordThenApply(w)
    <3>1. /\ pc'[w] = "ack" /\ \A v \in Workers \ {w} : pc'[v] = pc[v]
          /\ UNCHANGED route
          /\ \E what \in {"nothing", "write"} : applying' = [applying EXCEPT ![w] = what]
      BY <1>0, <2>2 DEF RecordThenApply, RecordOutcome, Goto, Applying
    <3> QED
      BY <3>1 DEF ApplyInv
  <2>3. CASE WriteBreaker(w) \/ ReleaseSlot(w)
    <3>1. /\ applying[w] # "nothing" /\ UNCHANGED <<pc, route>>
          /\ \E what \in {"nothing", "release"} : applying' = [applying EXCEPT ![w] = what]
      BY <2>3 DEF WriteBreaker, ReleaseSlot, Applying, vars, working
    <3> QED
      BY <3>1 DEF ApplyInv
  <2>4. CASE WorkerStops(w)
    <3>1. \A v \in Workers \ {w} : pc'[v] = pc[v]
      BY <1>0, <2>4 DEF WorkerStops, HandlingFails, Dies, Leave, Drop, Goto
    <3> QED
      BY <1>2, <2>4, <3>1 DEF WorkerStops, Applying
  <2>5. CASE /\ applying[w] = "nothing"
             /\ Ack(w) \/ DeadAdd(w)
             /\ UNCHANGED <<stores, applying, route, admin>>
    <3>1. \A v \in Workers \ {w} : pc'[v] = pc[v]
      BY <1>0, <2>5 DEF Ack, DeadAdd, Leave, Goto
    <3> QED
      BY <1>3, <2>5, <3>1
  <2> QED
    BY <1>5, <2>1, <2>2, <2>3, <2>4, <2>5 DEF Consume
<1>6. ASSUME NEW c \in Channels, Request(c) \/ Seed(c) PROVE ResetTypes' /\ ApplyInv'
  <2>1. UNCHANGED <<pc, applying>> /\ DOMAIN route' = DOMAIN route
    BY <1>6 DEF Request, RouteReads, RouteWrites, RouteTakesSlot, RouteLogs, RouteFails,
       RouteTo, Seed, vars, working
  <2> QED
    BY <1>1, <2>1
<1>7. CASE Reset \/ ResetFails
  BY <1>1, <1>7 DEF Reset, ResetFails, vars, working
<1>8. CASE ResetSteps
  BY <1>1, <1>8 DEF ResetSteps, ClearWindows, ListChannels, ResetBreakers,
     TruncateDecisions, DeleteChannels, DeleteStream, DeleteLetters, MakeGroup,
     DeleteProcessed, DeleteProbes, Step
<1>9. CASE Time \/ \E m \in Messages : Produce(m)
  BY <1>1, <1>9 DEF Time, Produce, Publish, GrowIdle, Expire, working
<1>10. CASE UNCHANGED all
  BY <1>1, <1>10 DEF all, vars, working
<1> QED
  BY <1>4, <1>5, <1>6, <1>7, <1>8, <1>9, <1>10 DEF AdminNext

\* While nobody else has anything to do, nobody else changes what a reset clears.
LEMMA NobodyElse ==
    ASSUME AdminInv, quiet
    PROVE  /\ \A w \in Workers : ~ Consume(w)
           /\ \A w \in Workers : Take(w) => /\ group' = 0 /\ group = -1
                                            /\ UNCHANGED <<stream, pending, processed, dead, pc,
                                                           counted, stores, route, admin>>
           /\ \A c \in Channels : ~ RouteWrites(c) /\ ~ RouteTakesSlot(c)
                                    /\ ~ RouteLogs(c) /\ ~ RouteFails(c)
           /\ \A m \in Messages : ~ GrowIdle(m)
<1>1. /\ \A w \in Workers : pc[w] = "idle" /\ applying[w] = "nothing"
      /\ \A c \in Channels : route[c] = "none"
      /\ DOMAIN pending = {} /\ (group = Len(stream) \/ Len(stream) = 0)
  BY DEF AdminInv, QuietInv
<1>2. ASSUME NEW w \in Workers PROVE ~ Consume(w)
  BY <1>1 DEF Consume, IgnoreUnknown, HandleKnown, Handle, RecordThenApply, RecordOutcome,
     WriteBreaker, ReleaseSlot, WorkerStops, HandlingFails, Dies, Ack, DeadAdd
<1>3. ASSUME NEW w \in Workers, Take(w) PROVE EnsureGroup(w)
  <2>1. CASE ReadGroup(w)
    <3>1. stream \in Seq(Messages) /\ group = Len(stream) /\ Len(stream) \in Nat
      BY <1>1, <2>1 DEF ReadGroup, AdminInv, TypeInv, TypeOK
    <3>2. ~ (group + BatchSize < Len(stream))
      BY <3>1, StreamAssumption
    <3>3. SubSeq(stream, group + 1, Len(stream)) # <<>>
      BY <2>1, <3>2 DEF ReadGroup
    <3> QED
      BY <3>1, <3>3
  <2>2. ~ ScanPending(w)
    BY <1>1 DEF ScanPending
  <2> QED
    BY <1>1, <1>3, <2>1, <2>2 DEF Take, Read, ClaimStale, TakeRead, TakeClaimed, ClaimFails
<1>4. ASSUME NEW w \in Workers, Take(w)
      PROVE  /\ group' = 0 /\ group = -1
             /\ UNCHANGED <<stream, pending, processed, dead, pc, counted, stores, route, admin>>
  BY <1>3, <1>4 DEF EnsureGroup, Take, working, history
<1>5. \A c \in Channels : ~ RouteWrites(c) /\ ~ RouteTakesSlot(c)
                            /\ ~ RouteLogs(c) /\ ~ RouteFails(c)
  BY <1>1 DEF RouteWrites, RouteTakesSlot, RouteLogs, RouteFails
<1>6. \A m \in Messages : ~ GrowIdle(m)
  BY <1>1 DEF GrowIdle
<1> QED
  BY <1>2, <1>4, <1>5, <1>6

\* Every step keeps QuietInv.
LEMMA ResetAloneStep ==
    ASSUME AdminInv, ApplyInv', [AdminNext]_all
    PROVE  QuietInv'
<1> USE DEF admin, stores, redis, working, history
<1> SUFFICES ASSUME quiet' PROVE QuietInv'
  BY DEF QuietInv
<1>1. CASE Reset
  <2>1. Idle /\ step' = "windows" /\ UNCHANGED <<vars, stores, applying, route>>
    BY <1>1 DEF Reset
  <2>2. \A w \in Workers : pc[w] = "idle" /\ applying[w] = "nothing"
    BY <2>1 DEF Idle, AdminInv, ApplyInv
  <2>3. /\ \A c \in Channels : route[c] = "none"
        /\ group = Len(stream) \/ Len(stream) = 0
    BY <2>1 DEF Idle
  <2>4. DOMAIN pending = {}
    BY <2>1 DEF Idle
  <2>5. UNCHANGED <<pc, applying, route, group, stream, pending>>
    BY <2>1 DEF vars
  <2> QED
    BY <2>1, <2>2, <2>3, <2>4, <2>5 DEF QuietInv
<1>2. ASSUME NEW w \in Workers, Take(w) PROVE QuietInv'
  <2>1. quiet /\ Len(stream) \in Nat
    BY <1>2 DEF Take, AdminInv, TypeInv, TypeOK
  <2>2. /\ group' = 0 /\ group = -1
        /\ UNCHANGED <<stream, pending, processed, dead, pc, counted, stores, route, admin>>
    BY <1>2, <2>1, NobodyElse
  <2>3. applying' = [applying EXCEPT ![w] = "nothing"]
    BY <1>2 DEF Take, Applying
  <2>4. \A v \in Workers : applying'[v] = "nothing"
    BY <2>1, <2>3 DEF AdminInv, QuietInv, ResetTypes, Wheres
  <2> QED
    BY <2>1, <2>2, <2>4 DEF AdminInv, QuietInv
<1>3. CASE Time
  <2>1. quiet
    BY <1>3 DEF Time
  <2>2. PICK e \in Events : Expire(e)
    BY <1>3, <2>1, NobodyElse DEF Time
  <2> QED
    BY <1>3, <2>1, <2>2 DEF AdminInv, QuietInv, Time, Expire
<1>4. CASE ResetSteps
  <2>1. quiet
    BY <1>4 DEF ResetSteps, ClearWindows, ListChannels, ResetBreakers, TruncateDecisions,
       DeleteChannels, DeleteStream, DeleteLetters, MakeGroup, DeleteProcessed, DeleteProbes
  <2>2. QuietInv
    BY DEF AdminInv
  <2>3. UNCHANGED <<pc, batch, current, sent, restarts, acked, applying, route>>
    BY <1>4 DEF ResetSteps, ClearWindows, ListChannels, ResetBreakers, TruncateDecisions,
       DeleteChannels, DeleteStream, DeleteLetters, MakeGroup, DeleteProcessed, DeleteProbes,
       Step
  <2>4. CASE ClearWindows
    BY <2>1, <2>2, <2>3, <2>4 DEF QuietInv, ClearWindows, Step
  <2>5. CASE ListChannels
    BY <2>1, <2>2, <2>3, <2>5 DEF QuietInv, ListChannels, Step
  <2>6. CASE ResetBreakers
    BY <2>1, <2>2, <2>3, <2>6 DEF QuietInv, ResetBreakers, Step
  <2>7. CASE TruncateDecisions
    BY <2>1, <2>2, <2>3, <2>7 DEF QuietInv, TruncateDecisions, Step
  <2>8. CASE DeleteChannels
    BY <2>1, <2>2, <2>3, <2>8 DEF QuietInv, DeleteChannels, Step
  <2>9. CASE DeleteStream
    <3>1. stream' = <<>> /\ Len(stream') = 0 /\ DOMAIN pending' = {}
      BY <2>9 DEF DeleteStream
    <3> QED
      BY <2>1, <2>2, <2>3, <2>9, <3>1 DEF QuietInv, DeleteStream, Step
  <2>10. CASE DeleteLetters
    BY <2>1, <2>2, <2>3, <2>10 DEF QuietInv, DeleteLetters, Step
  <2>11. CASE MakeGroup
    <3>1. Len(stream) = 0 /\ group \in -1 .. 0
      BY <2>1, <2>2, <2>11 DEF QuietInv, MakeGroup, Step, AdminInv, TypeInv, TypeOK
    <3>2. group' = 0 /\ UNCHANGED stream
      BY <2>11, <3>1 DEF MakeGroup
    <3> QED
      BY <2>1, <2>2, <2>3, <2>11, <3>1, <3>2 DEF QuietInv, MakeGroup, Step
  <2>12. CASE DeleteProcessed
    BY <2>1, <2>2, <2>3, <2>12 DEF QuietInv, DeleteProcessed, Step
  <2>13. CASE DeleteProbes
    BY <2>13 DEF DeleteProbes
  <2> QED
    BY <1>4, <2>4, <2>5, <2>6, <2>7, <2>8, <2>9, <2>10, <2>11, <2>12, <2>13 DEF ResetSteps
<1>5. ASSUME NEW w \in Workers, Consume(w) PROVE FALSE
  <2>1. quiet
    BY <1>5 DEF Consume, IgnoreUnknown, HandleKnown, RecordThenApply, WriteBreaker,
       ReleaseSlot, WorkerStops
  <2> QED
    BY <1>5, <2>1, NobodyElse
<1>6. ASSUME NEW c \in Channels, Request(c) \/ Seed(c) PROVE FALSE
  BY <1>6, NobodyElse DEF Request, RouteReads, RouteWrites, RouteTakesSlot, RouteLogs,
     RouteFails, Seed
<1>7. ~ ResetFails /\ \A m \in Messages : ~ Produce(m)
  BY DEF ResetFails, Produce
<1>8. CASE UNCHANGED all
  BY <1>8 DEF all, vars, AdminInv, QuietInv
<1> QED
  BY <1>1, <1>2, <1>3, <1>4, <1>5, <1>6, <1>7, <1>8 DEF AdminNext

\* A reset during which no request, outcome, seed or failure comes in leaves
\* nothing behind, whatever earlier resets and late writers left: AdminService
\* .reset clears every store, and none of its steps undoes an earlier one.
THEOREM ResetsAreComplete == AdminSpec => ResetIsComplete
<1> DEFINE Complete == DeleteProbes /\ quiet => Cleared' /\ breakers' \intersect listed = {}
<1>1. AdminInit => AdminInv
  BY TypeInit
  DEF AdminInit, Init, AdminInv, ResetTypes, Wheres, ApplyInv, QuietInv
<1>2. AdminInv /\ [AdminNext]_all => AdminInv'
  BY AdminTypeStep, ApplyStep, ResetAloneStep DEF AdminInv
<1>3. ASSUME AdminInv, DeleteProbes, quiet PROVE Cleared' /\ breakers' \intersect listed = {}
  <2>1. /\ step = "probes" /\ probes' = {}
        /\ UNCHANGED <<redis, counted, table, decisions, breakers>>
    BY <1>3 DEF DeleteProbes, Step
  <2>2. /\ \A e \in Events : counted[e] = 0
        /\ breakers \intersect listed = {}
        /\ ~decisions /\ table = {} /\ dead = {} /\ group = 0 /\ processed = {}
        /\ DOMAIN pending = {} /\ Len(stream) = 0
    BY <1>3, <2>1 DEF AdminInv, QuietInv
  <2>3. stream = <<>> /\ pending = <<>>
    BY <1>3, <2>2 DEF AdminInv, TypeInv, TypeOK
  <2>4. Cleared'
    <3>1. table' = {} /\ ~decisions' /\ \A e \in Events : counted'[e] = 0
      BY <2>1, <2>2
    <3>2. /\ stream' = <<>> /\ pending' = <<>> /\ group' = 0
          /\ processed' = {} /\ dead' = {}
      BY <2>1, <2>2, <2>3 DEF redis
    <3> QED
      BY <2>1, <3>1, <3>2 DEF Cleared
  <2>5. breakers' \intersect listed = {}
    BY <2>1, <2>2
  <2> QED
    BY <2>4, <2>5
<1>4. AdminInv /\ [AdminNext]_all => [Complete]_all
  BY <1>3
<1> QED
  BY <1>1, <1>2, <1>4, PTL DEF AdminSpec, ResetIsComplete
=============================================================================
