----------------------- MODULE RoutingProtocolProofs -----------------------
(***************************************************************************)
(* What holds of RoutingProtocol for every set of channels, payouts and    *)
(* handlers and every configuration of the breaker.                        *)
(***************************************************************************)
EXTENDS RoutingProtocol, FiniteSetTheorems, WellFoundedInduction, TLAPS

(***************************************************************************)
(* The rules of the breaker.                                               *)
(***************************************************************************)
\* evaluateBreaker returns a snapshot.
LEMMA EvaluateType ==
    ASSUME NEW s \in Snapshot, NEW st \in Stats, NEW t \in Nat
    PROVE  evaluateBreaker(s, st, t) \in Snapshot
BY DEF Snapshot, BreakerState, evaluateBreaker, openBreaker, halfOpenBreaker

\* recordProbe returns a snapshot.
LEMMA ProbeType ==
    ASSUME NEW s \in Snapshot, NEW ok \in BOOLEAN, NEW t \in Nat
    PROVE  recordProbe(s, ok, t) \in Snapshot
BY DEF Snapshot, BreakerState, recordProbe, closedBreaker, openBreaker, halfOpenBreaker

\* A missing hash reads as a snapshot.
LEMMA ClosedType == closedBreaker \in Snapshot /\ closedBreaker.state = "CLOSED"
BY DEF closedBreaker, Snapshot, BreakerState

\* The window of a channel sums up to two natural numbers.
LEMMA ReadWindowType ==
    ASSUME IsFiniteSet(recorded), NEW c, NEW t
    PROVE  ReadWindow(c, t) \in Stats
<1>1. IsFiniteSet(InWindow(recorded, c, t))
  BY FS_Subset DEF InWindow
<1>2. /\ IsFiniteSet({r \in InWindow(recorded, c, t) : r.success})
      /\ IsFiniteSet({r \in InWindow(recorded, c, t) : ~r.success})
  BY <1>1, FS_Subset
<1> QED
  BY <1>2, FS_CardinalityType DEF ReadWindow, Stats

\* The channel picked from a non-empty set of channels is one of them.
LEMMA FirstIsMember ==
    ASSUME NEW S \in SUBSET Channels, S # {}
    PROVE  First(S) \in S
<1> DEFINE I == {i \in DOMAIN ChannelSeq : ChannelSeq[i] \in S}
<1>1. ChannelSeq \in Seq(Channels)
  BY RoutingAssumption
<1>2. I \subseteq Nat /\ I # {}
  BY <1>1 DEF Channels
<1>3. PICK i \in I : \A j \in I : i <= j
  <2> DEFINE T == {1 .. i : i \in I}
             R == StrictSubsetOrdering(Nat)
             F == FiniteSubsetsOf(Nat)
  <2>1. \A i \in Nat : IsFiniteSet(1 .. i)
    BY FS_Interval
  <2>2. T \subseteq F /\ T # {}
    BY <1>2, <2>1 DEF FiniteSubsetsOf
  <2>3. PICK x \in T : \A y \in T : <<y, x>> \notin R
    BY <2>2, FS_StrictSubsetOrderingWellFounded, WFMin
  <2>4. PICK i \in I : x = 1 .. i
    BY <2>3
  <2>5. ASSUME NEW j \in I, j < i PROVE FALSE
    <3>1. 1 .. j \in SUBSET Nat /\ 1 .. i \in SUBSET Nat
      OBVIOUS
    <3>2. 1 .. j \subseteq 1 .. i /\ i \in 1 .. i /\ i \notin 1 .. j
      BY <1>2, <2>5
    <3>3. <<1 .. j, 1 .. i>> \in R
      BY <3>1, <3>2 DEF StrictSubsetOrdering
    <3> QED
      BY <2>3, <2>4, <3>3
  <2> QED
    BY <1>2, <2>5
<1> QED
  BY <1>1, <1>3 DEF First

(***************************************************************************)
(* Type correctness.                                                       *)
(***************************************************************************)
\* What a request with a decision, or without hope of one, leaves behind is of the
\* right type.
LEMMA FinishType ==
    ASSUME TypeOK, NEW p \in Payouts, NEW end \in Waiting \union Done,
           NEW a \in Answer, Finish(p, end, a)
    PROVE  /\ pc' \in [Payouts -> {"idle"} \union Waiting \union Done]
           /\ at' \in [Payouts -> Nat]
           /\ ids' \in [Payouts -> SUBSET Channels]
           /\ stats' \in [Payouts -> [Channels -> Stats]]
           /\ view' \in [Payouts -> [Channels -> Snapshot]]
           /\ todo' \in [Payouts -> SUBSET Channels]
           /\ chosen' \in [Payouts -> Channels \union {NoChannel}]
           /\ answer' \in [Payouts -> Answer]
<1>1. NoStats \in [Channels -> Stats]
  BY DEF NoStats, Stats
<1>2. NoView \in [Channels -> Snapshot]
  BY ClosedType DEF NoView
<1>3. /\ [pc EXCEPT ![p] = end] \in [Payouts -> {"idle"} \union Waiting \union Done]
      /\ [answer EXCEPT ![p] = a] \in [Payouts -> Answer]
      /\ [at EXCEPT ![p] = 0] \in [Payouts -> Nat]
  BY DEF TypeOK
<1>4. /\ [stats EXCEPT ![p] = NoStats] \in [Payouts -> [Channels -> Stats]]
      /\ [view EXCEPT ![p] = NoView] \in [Payouts -> [Channels -> Snapshot]]
  BY <1>1, <1>2 DEF TypeOK
<1>5. /\ [todo EXCEPT ![p] = {}] \in [Payouts -> SUBSET Channels]
      /\ [ids EXCEPT ![p] = {}] \in [Payouts -> SUBSET Channels]
      /\ [chosen EXCEPT ![p] = NoChannel] \in [Payouts -> Channels \union {NoChannel}]
  BY DEF TypeOK
<1> QED
  BY <1>3, <1>4, <1>5 DEF Finish

\* A step of a handler changes where that handler stands, and no other.
LEMMA OneHandlerMoves ==
    ASSUME TypeOK, Next, NEW g \in Handlers
    PROVE  Handle(g) \/ UNCHANGED <<hpc[g], event[g], hat[g], hsnap[g]>>
<1>1. ASSUME NEW h \in Handlers, Handle(h), h # g
      PROVE  UNCHANGED <<hpc[g], event[g], hat[g], hsnap[g]>>
  BY <1>1 DEF TypeOK, Handle, Claim, RecordOutcome, ReadBreaker, Evaluate, Write,
     WriteProbe, ReleaseSlot, HandlerFails, Leave
<1>2. ASSUME NEW p \in Payouts, Route(p) \/ Publish(p) PROVE UNCHANGED handling
  BY <1>2 DEF Route, Start, ReadStats, ReadBreakers, Degrade, RefreshWrite,
     RefreshWriteFails, Select, TakeSlot, SlotRefused, SlotFails, Persist, Publish
<1>3. Tick => UNCHANGED handling
  BY DEF Tick
<1> QED
  BY <1>1, <1>2, <1>3 DEF Next, handling

\* The good outcome of the handler g as a probe of the breaker it read.
ProbeOf(g) == [outcome |-> OutcomeOf(g), opened |-> breaker[Of(g)].openedAt]

\* The handler g looks at a HALF_OPEN breaker with a good outcome.
GoodProbe(g) ==
    /\ ReadBreaker(g) /\ breaker[Of(g)].state = "HALF_OPEN"
    /\ outcome[event[g]] = "success"

\* At most one probe is added in a step, by the handler that looks.
LEMMA ProbedStep ==
    ASSUME TypeOK, Next
    PROVE  \/ probed' = probed /\ \A g \in Handlers : ~ GoodProbe(g)
           \/ \E g \in Handlers : GoodProbe(g) /\ probed' = probed \union {ProbeOf(g)}
<1> DEFINE Looks(g) == /\ hpc[g] = "read" /\ hpc'[g] = "writeProbe"
                       /\ outcome[event[g]] = "success"
<1>1. \A g \in Handlers : Looks(g) <=> GoodProbe(g)
  <2>1. ASSUME NEW g \in Handlers, Looks(g) PROVE ReadBreaker(g)
    <3>1. Handle(g)
      BY <2>1, OneHandlerMoves
    <3>2. ~ Leave(g)
      BY <2>1 DEF Leave, TypeOK
    <3> QED
      BY <2>1, <3>1, <3>2 DEF Handle, Claim, RecordOutcome, Evaluate, Write, WriteProbe,
         ReleaseSlot, HandlerFails
  <2> QED
    BY <2>1 DEF GoodProbe, ReadBreaker, TypeOK
<1>2. ASSUME NEW g \in Handlers, NEW h \in Handlers, Looks(g), Looks(h) PROVE g = h
  <2>1. ReadBreaker(g)
    BY <1>1, <1>2 DEF GoodProbe
  <2> QED
    BY <1>2, <2>1 DEF ReadBreaker, TypeOK
<1>3. probed' = probed \union {ProbeOf(h) : h \in {g \in Handlers : Looks(g)}}
  BY DEF Next, Observe, ProbeOf
<1> HIDE DEF Looks
<1>4. CASE \E g \in Handlers : Looks(g)
  <2>1. PICK g \in Handlers : Looks(g)
    BY <1>4
  <2>2. {ProbeOf(h) : h \in {k \in Handlers : Looks(k)}} = {ProbeOf(g)}
    BY <1>2, <2>1
  <2> QED
    BY <1>1, <1>3, <2>1, <2>2
<1>5. CASE ~ \E g \in Handlers : Looks(g)
  BY <1>1, <1>3, <1>5
<1> QED
  BY <1>4, <1>5

\* What a busy handler records is a record of a known channel.
LEMMA OutcomeType ==
    ASSUME TypeOK, Control, NEW h \in Handlers, hpc[h] # "idle"
    PROVE  OutcomeOf(h) \in Record /\ Of(h) \in Channels
BY DEF TypeOK, Control, OutcomeOf, Of, Record

\* Every step keeps every variable in its type.
LEMMA TypeStep ==
    ASSUME TypeOK, Control, Next
    PROVE  TypeOK'
<1>0. /\ standing' \in [Payouts -> SUBSET Channels]
      /\ probed' \subseteq Probe /\ IsFiniteSet(probed')
  <2>1. standing' \in [Payouts -> SUBSET Channels]
    BY DEF TypeOK, Next, Observe
  <2>2. ASSUME NEW h \in Handlers, GoodProbe(h) PROVE ProbeOf(h) \in Probe
    BY <2>2, OutcomeType DEF TypeOK, GoodProbe, ReadBreaker, ProbeOf, Probe, Snapshot
  <2>3. CASE probed' = probed
    BY <2>1, <2>3 DEF TypeOK
  <2>4. ASSUME NEW h \in Handlers, GoodProbe(h), probed' = probed \union {ProbeOf(h)}
        PROVE  probed' \subseteq Probe /\ IsFiniteSet(probed')
    <3>1. IsFiniteSet(probed \union {ProbeOf(h)})
      BY FS_AddElement DEF TypeOK
    <3> QED
      BY <2>2, <2>4, <3>1 DEF TypeOK
  <2> QED
    BY <2>1, <2>3, <2>4, ProbedStep
<1>1. NoAnswer \in Answer
  BY DEF NoAnswer, Answer
<1>2. \A c \in Channels, got \in BOOLEAN : [channel |-> c, slot |-> got] \in Answer
  BY DEF Answer
<1>3. now + SlotTtl \in Nat /\ now + ProcessedTtl \in Nat
  BY RoutingAssumption DEF TypeOK
<1>4. \A c \in Channels, t \in Nat : ReadWindow(c, t) \in Stats
  BY ReadWindowType DEF TypeOK
<1>5. ASSUME NEW p \in Payouts, Start(p) PROVE TypeOK'
  BY <1>0, <1>5, RoutingAssumption DEF TypeOK, Start, redis, handling, Waiting, Done
<1>6. ASSUME NEW p \in Payouts, ReadStats(p) PROVE TypeOK'
  <2>1. [c \in Channels |-> IF c \in ids[p] THEN ReadWindow(c, at[p]) ELSE NoStats[c]]
          \in [Channels -> Stats]
    BY <1>4 DEF TypeOK, NoStats, Stats
  <2> QED
    BY <1>0, <1>6, <2>1 DEF TypeOK, ReadStats, redis, handling, Waiting, Done
<1>7. ASSUME NEW p \in Payouts, ReadBreakers(p) PROVE TypeOK'
  <2>1. [c \in Channels |-> IF c \in ids[p]
            THEN evaluateBreaker(breaker[c], stats[p][c], at[p])
            ELSE closedBreaker] \in [Channels -> Snapshot]
    <3>1. ASSUME NEW c \in Channels
          PROVE  evaluateBreaker(breaker[c], stats[p][c], at[p]) \in Snapshot
      BY EvaluateType DEF TypeOK
    <3> QED
      BY <3>1, ClosedType
  <2>2. NoStats \in [Channels -> Stats]
    BY DEF NoStats, Stats
  <2> QED
    BY <1>0, <1>7, <2>1, <2>2 DEF TypeOK, ReadBreakers, redis, handling, Waiting, Done
<1>8. ASSUME NEW p \in Payouts, Degrade(p) PROVE TypeOK'
  <2>1. \E a \in Answer, end \in Waiting \union Done : Finish(p, end, a)
    <3>1. CASE ids[p] \intersect Enabled = {}
      BY <1>1, <1>8, <3>1 DEF Degrade, Reject, Done
    <3>2. CASE ids[p] \intersect Enabled # {}
      <4> DEFINE S == ids[p] \intersect Enabled
      <4>0. S \in SUBSET Channels
        BY DEF TypeOK
      <4>1. First(S) \in Channels
        BY <3>2, <4>0, FirstIsMember
      <4> QED
        BY <1>2, <1>8, <3>2, <4>1 DEF Degrade, Done
    <3> QED
      BY <3>1, <3>2
  <2> QED
    BY <1>0, <1>8, <2>1, FinishType DEF TypeOK, Degrade, redis, handling
<1>9. ASSUME NEW p \in Payouts, RefreshWrite(p) PROVE TypeOK'
  <2>1. First(todo[p]) \in Channels
    BY <1>9, FirstIsMember DEF TypeOK, RefreshWrite
  <2> QED
    BY <1>0, <1>9, <2>1 DEF TypeOK, RefreshWrite, handling
<1>10. ASSUME NEW p \in Payouts, RefreshWriteFails(p) PROVE TypeOK'
  BY <1>0, <1>10 DEF TypeOK, RefreshWriteFails, redis, handling
<1>11. ASSUME NEW p \in Payouts, Select(p) PROVE TypeOK'
  <2>1. CASE \E a \in Answer, end \in Waiting \union Done : Finish(p, end, a)
    BY <1>0, <1>11, <2>1, FinishType DEF TypeOK, Select, redis, handling
  <2>2. CASE ~ \E a \in Answer, end \in Waiting \union Done : Finish(p, end, a)
    <3>1. PICK c \in Channels :
            /\ pc' = [pc EXCEPT ![p] = "takeSlot"]
            /\ chosen' = [chosen EXCEPT ![p] = c]
            /\ UNCHANGED <<at, ids, stats, view, todo, answer>>
      BY <1>1, <1>2, <1>11, <2>2
      DEF TypeOK, Select, Decide, Reject, Waiting, Done, Eligible
    <3> QED
      BY <1>0, <1>11, <3>1 DEF TypeOK, Select, redis, handling, Waiting
  <2> QED
    BY <2>1, <2>2
<1>12. ASSUME NEW p \in Payouts, TakeSlot(p) PROVE TypeOK'
  <2>1. chosen[p] \in Channels
    BY <1>12 DEF TypeOK, Control, TakeSlot, Eligible
  <2>2. \E a \in Answer, end \in Waiting \union Done : Finish(p, end, a)
    BY <1>2, <1>12, <2>1 DEF TakeSlot, Decide, Waiting
  <2>3. slot' \in [Channels -> Nat]
    BY <1>3, <1>12 DEF TypeOK, TakeSlot
  <2>4. UNCHANGED <<now, breaker, recorded, processed, outcome, handling>>
    BY <1>12 DEF TakeSlot
  <2> QED
    BY <1>0, <2>2, <2>3, <2>4, FinishType DEF TypeOK, handling
<1>13. ASSUME NEW p \in Payouts, SlotRefused(p) PROVE TypeOK'
  <2>1. \E a \in Answer, end \in Waiting \union Done : Finish(p, end, a)
    BY <1>1, <1>2, <1>13
    DEF TypeOK, SlotRefused, Decide, Reject, Eligible, Waiting, Done
  <2> QED
    BY <1>0, <1>13, <2>1, FinishType DEF TypeOK, SlotRefused, redis, handling
<1>14. ASSUME NEW p \in Payouts, SlotFails(p) PROVE TypeOK'
  <2>1. slot' \in [Channels -> Nat]
    BY <1>3, <1>14 DEF TypeOK, SlotFails
  <2>2. "failed" \in Waiting \union Done
    BY DEF Done
  <2> QED
    BY <1>0, <1>1, <1>14, <2>1, <2>2, FinishType DEF TypeOK, SlotFails, handling
<1>15. ASSUME NEW p \in Payouts, Publish(p) PROVE TypeOK'
  BY <1>0, <1>15 DEF TypeOK, Publish, redis, request, handling
<1>16. ASSUME NEW h \in Handlers, Claim(h) PROVE TypeOK'
  BY <1>0, <1>3, <1>16 DEF TypeOK, Claim, claim, request
<1>17. ASSUME NEW h \in Handlers, RecordOutcome(h) PROVE TypeOK'
  <2>1. recorded' \subseteq Record /\ IsFiniteSet(recorded')
    <3>1. recorded' = recorded \union {OutcomeOf(h)} /\ hpc[h] # "idle"
      BY <1>17 DEF RecordOutcome
    <3>2. IsFiniteSet(recorded \union {OutcomeOf(h)})
      BY FS_AddElement DEF TypeOK
    <3> QED
      BY <3>1, <3>2, OutcomeType DEF TypeOK
  <2> QED
    BY <1>0, <1>17, <2>1 DEF TypeOK, RecordOutcome, request
<1>18. ASSUME NEW h \in Handlers, ReadBreaker(h) PROVE TypeOK'
  <2>1. event[h] \in Payouts /\ Of(h) \in Channels
    BY <1>18 DEF TypeOK, Control, ReadBreaker, Of
  <2>2. recordProbe(breaker[Of(h)], outcome[event[h]] = "success", hat[h]) \in Snapshot
    BY <2>1, ProbeType DEF TypeOK
  <2> QED
    BY <1>0, <1>18, <2>1, <2>2 DEF TypeOK, ReadBreaker, redis, request
<1>19. ASSUME NEW h \in Handlers, Leave(h)
       PROVE  /\ hpc' \in [Handlers -> {"idle", "record", "read", "evaluate", "write",
                                        "writeProbe", "release"}]
              /\ event' \in [Handlers -> Payouts \union {NoPayout}]
              /\ hat' \in [Handlers -> Nat]
              /\ hsnap' \in [Handlers -> Snapshot]
  BY <1>19, ClosedType DEF TypeOK, Leave
<1>20. ASSUME NEW h \in Handlers, Evaluate(h) PROVE TypeOK'
  <2>1. event[h] \in Payouts /\ Of(h) \in Channels
    BY <1>20 DEF TypeOK, Control, Evaluate, Of
  <2>2. evaluateBreaker(hsnap[h], ReadWindow(Of(h), hat[h]), hat[h]) \in Snapshot
    BY <1>4, <2>1, EvaluateType DEF TypeOK
  <2> QED
    BY <1>0, <1>19, <1>20, <2>2 DEF TypeOK, Evaluate, redis, request
<1>21. ASSUME NEW h \in Handlers, Write(h) PROVE TypeOK'
  BY <1>0, <1>19, <1>21 DEF TypeOK, Write, request
<1>22. ASSUME NEW h \in Handlers, WriteProbe(h) PROVE TypeOK'
  BY <1>0, <1>22, ClosedType DEF TypeOK, WriteProbe, request
<1>23. ASSUME NEW h \in Handlers, ReleaseSlot(h) PROVE TypeOK'
  BY <1>0, <1>19, <1>23 DEF TypeOK, ReleaseSlot, request
<1>24. ASSUME NEW h \in Handlers, HandlerFails(h) PROVE TypeOK'
  BY <1>0, <1>19, <1>24 DEF TypeOK, HandlerFails, redis, request
<1>25. ASSUME Tick PROVE TypeOK'
  <2>1. slot' \in [Channels -> Nat] /\ processed' \in [Payouts -> Nat]
    BY <1>25 DEF TypeOK, Tick
  <2> QED
    BY <1>0, <1>25, <2>1 DEF TypeOK, Tick, request, handling
<1>26. ASSUME NEW p \in Payouts, Persist(p) PROVE TypeOK'
  BY <1>0, <1>26 DEF TypeOK, Persist, redis, handling, Done
<1> QED
  BY <1>5, <1>6, <1>7, <1>8, <1>9, <1>10, <1>11, <1>12, <1>13, <1>14, <1>15, <1>16,
     <1>17, <1>18, <1>20, <1>21, <1>22, <1>23, <1>24, <1>25, <1>26
  DEF Next, Route, Handle

\* An initial state has the right types.
LEMMA TypeInit == Init => TypeOK
BY ClosedType, FS_EmptySet, RoutingAssumption
DEF Init, TypeOK, NoStats, NoView, NoAnswer, Answer, Stats, Waiting, Done

(***************************************************************************)
(* Where every request and every handler stands.                           *)
(***************************************************************************)
\* Every step keeps Control.
LEMMA ControlStep ==
    ASSUME TypeOK, Control, Next
    PROVE  Control'
<1> USE DEF Waiting, Done
<1>1. ASSUME NEW p \in Payouts, NEW end \in Done \union {"persist"}, NEW a \in Answer,
             Finish(p, end, a),
             end \in {"persist", "answered"} => a.channel \in Channels,
             pc[p] # "answered", UNCHANGED <<outcome, handling>>
      PROVE  Control'
  BY <1>1 DEF TypeOK, Control, Finish, Eligible, handling
<1>2. NoAnswer \in Answer
  BY DEF NoAnswer, Answer
<1>3. \A c \in Channels, got \in BOOLEAN : [channel |-> c, slot |-> got] \in Answer
  BY DEF Answer
<1>4. ASSUME NEW p \in Payouts, NEW c \in Channels, NEW got \in BOOLEAN,
             Decide(p, c, got), pc[p] # "answered", UNCHANGED <<outcome, handling>>
      PROVE  Control'
  BY <1>1, <1>3, <1>4 DEF Decide
<1>5. ASSUME NEW p \in Payouts, Reject(p), pc[p] # "answered",
             UNCHANGED <<outcome, handling>>
      PROVE  Control'
  BY <1>1, <1>2, <1>5 DEF Reject
<1>6. ASSUME NEW p \in Payouts, Start(p) PROVE Control'
  BY <1>6 DEF TypeOK, Control, Start, Eligible, handling
<1>7. ASSUME NEW p \in Payouts, ReadStats(p) PROVE Control'
  BY <1>7 DEF TypeOK, Control, ReadStats, Eligible, handling
<1>8. ASSUME NEW p \in Payouts, ReadBreakers(p) PROVE Control'
  BY <1>8 DEF TypeOK, Control, ReadBreakers, Eligible, handling
<1>9. ASSUME NEW p \in Payouts, Degrade(p) PROVE Control'
  <2>1. pc[p] # "answered" /\ UNCHANGED <<outcome, handling>>
    BY <1>9 DEF Degrade
  <2>2. CASE ids[p] \intersect Enabled = {}
    BY <1>5, <1>9, <2>1, <2>2 DEF Degrade
  <2>3. CASE ids[p] \intersect Enabled # {}
    <3> DEFINE S == ids[p] \intersect Enabled
               a == [channel |-> First(S), slot |-> FALSE]
    <3>1. S \in SUBSET Channels
      BY DEF TypeOK
    <3>2. First(S) \in Channels
      BY <2>3, <3>1, FirstIsMember
    <3>3. a \in Answer /\ a.channel \in Channels
      BY <3>2 DEF Answer
    <3>4. Finish(p, "answered", a)
      BY <1>9, <2>3 DEF Degrade
    <3> QED
      BY <1>1, <2>1, <3>3, <3>4
  <2> QED
    BY <2>2, <2>3
<1>10. ASSUME NEW p \in Payouts, RefreshWrite(p) PROVE Control'
  BY <1>10 DEF TypeOK, Control, RefreshWrite, Eligible, handling
<1>11. ASSUME NEW p \in Payouts, RefreshWriteFails(p) PROVE Control'
  BY <1>11 DEF TypeOK, Control, RefreshWriteFails, Eligible, handling
<1>12. ASSUME NEW p \in Payouts, Select(p) PROVE Control'
  <2>1. pc[p] = "refresh" /\ UNCHANGED <<outcome, handling>>
    BY <1>12 DEF Select
  <2>2. CASE Reject(p)
    BY <1>5, <2>1, <2>2
  <2>3. CASE \E c \in Eligible(p) : Decide(p, c, FALSE)
    BY <1>4, <2>1, <2>3 DEF TypeOK, Eligible
  <2>4. ASSUME NEW c \in Eligible(p),
               pc' = [pc EXCEPT ![p] = "takeSlot"],
               chosen' = [chosen EXCEPT ![p] = c],
               UNCHANGED <<at, ids, stats, view, todo, answer>>
        PROVE  Control'
    BY <2>1, <2>4 DEF TypeOK, Control, Eligible, handling
  <2> QED
    BY <1>12, <2>2, <2>3, <2>4 DEF Select
<1>13. ASSUME NEW p \in Payouts, TakeSlot(p) PROVE Control'
  BY <1>4, <1>13 DEF TypeOK, Control, TakeSlot, Eligible
<1>14. ASSUME NEW p \in Payouts, SlotRefused(p) PROVE Control'
  BY <1>4, <1>5, <1>14 DEF TypeOK, SlotRefused, Eligible
<1>15. ASSUME NEW p \in Payouts, SlotFails(p) PROVE Control'
  BY <1>1, <1>2, <1>15 DEF SlotFails
<1>16. ASSUME NEW p \in Payouts, Publish(p) PROVE Control'
  BY <1>16 DEF TypeOK, Control, Publish, Eligible, request, handling
<1>17. ASSUME NEW h \in Handlers, Claim(h) PROVE Control'
  BY <1>17 DEF TypeOK, Control, Claim, Eligible, request
<1>18. ASSUME NEW h \in Handlers, RecordOutcome(h) PROVE Control'
  BY <1>18 DEF TypeOK, Control, RecordOutcome, Eligible, request
<1>19. ASSUME NEW h \in Handlers, ReadBreaker(h) PROVE Control'
  <2>1. hpc[h] = "read" /\ UNCHANGED <<request, outcome, event>>
    BY <1>19 DEF ReadBreaker
  <2>2. /\ \E k \in {"writeProbe", "evaluate"} : hpc' = [hpc EXCEPT ![h] = k]
        /\ \E s : hsnap' = [hsnap EXCEPT ![h] = s]
    BY <1>19 DEF ReadBreaker
  <2> QED
    BY <2>1, <2>2 DEF TypeOK, Control, Eligible, request
<1>20. ASSUME NEW h \in Handlers, Evaluate(h) PROVE Control'
  <2>1. hpc[h] = "evaluate" /\ UNCHANGED <<request, outcome>>
    BY <1>20 DEF Evaluate
  <2>2. CASE Leave(h)
    BY <2>1, <2>2 DEF TypeOK, Control, Leave, Eligible, request
  <2>3. CASE /\ hpc' = [hpc EXCEPT ![h] = "write"] /\ UNCHANGED event
             /\ \E s : hsnap' = [hsnap EXCEPT ![h] = s]
    BY <2>1, <2>3 DEF TypeOK, Control, Eligible, request
  <2> QED
    BY <1>20, <2>2, <2>3 DEF Evaluate
<1>21. ASSUME NEW h \in Handlers, Write(h) PROVE Control'
  BY <1>21 DEF TypeOK, Control, Write, Leave, Eligible, request
<1>22. ASSUME NEW h \in Handlers, WriteProbe(h) PROVE Control'
  BY <1>22 DEF TypeOK, Control, WriteProbe, Eligible, request
<1>23. ASSUME NEW h \in Handlers, ReleaseSlot(h) PROVE Control'
  BY <1>23 DEF TypeOK, Control, ReleaseSlot, Leave, Eligible, request
<1>24. ASSUME NEW h \in Handlers, HandlerFails(h) PROVE Control'
  BY <1>24 DEF TypeOK, Control, HandlerFails, Leave, Eligible, request
<1>25. ASSUME Tick PROVE Control'
  BY <1>25 DEF TypeOK, Control, Tick, Eligible, request, handling
<1>26. ASSUME NEW p \in Payouts, Persist(p) PROVE Control'
  BY <1>26 DEF TypeOK, Control, Persist, Eligible, handling
<1> QED
  BY <1>6, <1>7, <1>8, <1>9, <1>10, <1>11, <1>12, <1>13, <1>14, <1>15, <1>16,
     <1>17, <1>18, <1>19, <1>20, <1>21, <1>22, <1>23, <1>24, <1>25, <1>26
  DEF Next, Route, Handle

\* The stuttering step keeps both.
LEMMA StutterControl ==
    ASSUME TypeOK, Control, UNCHANGED vars
    PROVE  TypeOK' /\ Control'
BY DEF TypeOK, Control, Eligible, vars, redis, request, handling

\* An initial state satisfies Control.
LEMMA ControlInit == Init => Control
BY DEF Init, Control

\* The specification keeps every variable in its type: RoutingService.route and
\* OutcomeHandler.handle never store a malformed snapshot or an unknown channel.
THEOREM TypeCorrect == Spec => []TypeOK
<1>1. Init => TypeOK /\ Control
  BY TypeInit, ControlInit
<1>2. TypeOK /\ Control /\ [Next]_vars => (TypeOK /\ Control)'
  BY TypeStep, ControlStep, StutterControl
<1> QED
  BY <1>1, <1>2, PTL DEF Spec

(***************************************************************************)
(* An outcome counts once.                                                 *)
(***************************************************************************)
\* A route request touches nothing a handler depends on.
LEMMA RouteFrame ==
    ASSUME TypeOK, NEW p \in Payouts, Route(p)
    PROVE  /\ UNCHANGED <<now, recorded, processed, outcome, handling>>
           /\ \A q \in Payouts : pc[q] = "answered" => answer'[q] = answer[q]
<1>1. UNCHANGED <<now, recorded, processed, outcome, handling>>
  BY DEF Route, Start, ReadStats, ReadBreakers, Degrade, RefreshWrite,
     RefreshWriteFails, Select, TakeSlot, SlotRefused, SlotFails, Persist, redis
<1>2. pc[p] # "answered"
  BY DEF Route, Start, ReadStats, ReadBreakers, Degrade, RefreshWrite,
     RefreshWriteFails, Select, TakeSlot, SlotRefused, SlotFails, Persist
<1>3. \/ UNCHANGED answer
      \/ \E a : answer' = [answer EXCEPT ![p] = a]
  BY DEF Route, Start, ReadStats, ReadBreakers, Degrade, RefreshWrite,
     RefreshWriteFails, Select, TakeSlot, SlotRefused, SlotFails, Persist, Decide,
     Reject, Finish
<1> QED
  BY <1>1, <1>2, <1>3 DEF TypeOK

\* Nothing is spent earlier when the clock and the keys move on.
LEMMA SpentStays ==
    ASSUME TypeOK, Control, NEW p \in Payouts, NEW t \in Nat, Spent(p, t),
           Tick \/ UNCHANGED <<now, processed[p]>> \/ \E h \in Handlers : Claim(h)
    PROVE  Spent(p, t)'
<1>0. now \in Nat /\ processed[p] \in Nat /\ ProcessedTtl \in Nat
  BY RoutingAssumption DEF TypeOK
<1>1. CASE UNCHANGED <<now, processed[p]>>
  BY <1>1 DEF Spent
<1>2. CASE Tick
  BY <1>0, <1>2 DEF Tick, Spent
<1>3. ASSUME NEW h \in Handlers, Claim(h) PROVE Spent(p, t)'
  <2>1. PICK q \in Payouts : claim(q) /\ now' = now
    BY <1>3 DEF Claim
  <2>2. CASE q # p
    <3>1. processed'[p] = processed[p]
      BY <2>1, <2>2 DEF claim, TypeOK
    <3> QED
      BY <1>1, <2>1, <3>1
  <2>3. CASE q = p
    <3>1. processed[p] = 0 /\ processed'[p] = now + ProcessedTtl
      BY <2>1, <2>3 DEF claim, TypeOK
    <3> QED
      BY <1>0, <2>1, <3>1 DEF Spent
  <2> QED
    BY <2>2, <2>3
<1> QED
  BY <1>1, <1>2, <1>3

\* Only a claim and the clock touch the processed keys.
LEMMA KeysChange ==
    ASSUME TypeOK, Next
    PROVE  Tick \/ UNCHANGED <<now, processed>> \/ \E h \in Handlers : Claim(h)
<1>1. ASSUME NEW h \in Handlers, Handle(h), ~ Claim(h)
      PROVE  UNCHANGED <<now, processed>>
  BY <1>1 DEF Handle, RecordOutcome, ReadBreaker, Evaluate, Write, WriteProbe,
     ReleaseSlot, HandlerFails, redis
<1>2. ASSUME NEW p \in Payouts, Publish(p) PROVE UNCHANGED <<now, processed>>
  BY <1>2 DEF Publish, redis
<1>3. ASSUME NEW p \in Payouts, Route(p) PROVE UNCHANGED <<now, processed>>
  BY <1>3, RouteFrame
<1> QED
  BY <1>1, <1>2, <1>3 DEF Next

\* A claim that succeeds comes ProcessedTtl after every other of its payout.
LEMMA ClaimIsApart ==
    ASSUME TypeOK, NEW p \in Payouts, NEW t \in Nat, claim(p), Spent(p, t)
    PROVE  t + ProcessedTtl <= now /\ Apart(t, now)
BY DEF claim, Spent, Apart

\* Every step keeps Claims.
LEMMA ClaimsStep ==
    ASSUME TypeOK, Control, Claims, Next
    PROVE  Claims'
<1>1. ASSUME NEW p \in Payouts, NEW t \in Nat, Spent(p, t) PROVE Spent(p, t)'
  BY <1>1, KeysChange, SpentStays
\* Whoever is at work after the step was before, on the same claim, or claims now.
<1>2. ASSUME NEW h \in Handlers, hpc'[h] # "idle", ~ Claim(h)
      PROVE  /\ hpc[h] # "idle" /\ UNCHANGED <<event[h], hat[h]>>
             /\ hpc'[h] = "record" => hpc[h] = "record"
  <2>1. CASE UNCHANGED <<hpc[h], event[h], hat[h], hsnap[h]>>
    BY <1>2, <2>1
  <2>2. CASE Handle(h)
    BY <1>2, <2>2 DEF TypeOK, Handle, RecordOutcome, ReadBreaker, Evaluate, Write,
       WriteProbe, ReleaseSlot, HandlerFails, Leave
  <2> QED
    BY <2>1, <2>2, OneHandlerMoves
<1>3. ASSUME NEW h \in Handlers, Claim(h)
      PROVE  /\ event'[h] \in Payouts /\ claim(event'[h]) /\ hat'[h] = now
             /\ UNCHANGED <<now, recorded>>
             /\ \A g \in Handlers : g # h => ~ Claim(g)
  <2>1. \A g \in Handlers : g # h => ~ Claim(g)
    BY <1>3 DEF TypeOK, Claim
  <2> QED
    BY <1>3, <2>1 DEF TypeOK, Claim
<1>4. \A r \in recorded' : \/ r \in recorded
                          \/ \E h \in Handlers : RecordOutcome(h) /\ r = OutcomeOf(h)
  <2>1. ASSUME NEW h \in Handlers, Handle(h), ~ RecordOutcome(h) PROVE UNCHANGED recorded
    BY <2>1 DEF Handle, Claim, ReadBreaker, Evaluate, Write, WriteProbe, ReleaseSlot,
       HandlerFails, redis
  <2>2. ASSUME NEW p \in Payouts, Route(p) \/ Publish(p) PROVE UNCHANGED recorded
    BY <2>2, RouteFrame DEF Publish, redis
  <2>3. Tick => UNCHANGED recorded
    BY DEF Tick
  <2>4. ASSUME NEW h \in Handlers, RecordOutcome(h)
        PROVE  recorded' = recorded \union {OutcomeOf(h)}
    BY <2>4 DEF RecordOutcome
  <2> QED
    BY <2>1, <2>2, <2>3, <2>4 DEF Next
<1>5. \A h \in Handlers : hpc[h] # "idle" => event[h] \in Payouts /\ hat[h] \in Nat
  BY DEF TypeOK, Control
<1>6. \A r \in recorded : r.payout \in Payouts /\ r.at \in Nat
  BY DEF TypeOK, Record
<1>7. ASSUME NEW h \in Handlers, hpc'[h] # "idle" PROVE Spent(event[h], hat[h])'
  <2>1. CASE ~ Claim(h)
    BY <1>1, <1>2, <1>5, <1>7, <2>1 DEF Claims, Spent
  <2>2. CASE Claim(h)
    <3>1. event'[h] \in Payouts /\ claim(event'[h]) /\ hat'[h] = now
      BY <1>3, <2>2
    <3>2. processed'[event'[h]] = now + ProcessedTtl /\ now + ProcessedTtl \in Nat
          /\ now + ProcessedTtl # 0
      BY <3>1, RoutingAssumption DEF claim, TypeOK
    <3> QED
      BY <3>1, <3>2 DEF Spent
  <2> QED
    BY <2>1, <2>2
<1>8. ASSUME NEW r \in recorded' PROVE Spent(r.payout, r.at)'
  <2>1. CASE r \in recorded
    BY <1>1, <1>6, <2>1 DEF Claims, Spent
  <2>2. ASSUME NEW h \in Handlers, RecordOutcome(h), r = OutcomeOf(h)
        PROVE  Spent(r.payout, r.at)'
    <3>1. hpc[h] # "idle" /\ r.payout = event[h] /\ r.at = hat[h]
      BY <2>2 DEF RecordOutcome, OutcomeOf
    <3>2. Spent(event[h], hat[h])
      BY <3>1 DEF Claims
    <3> QED
      BY <1>1, <1>5, <3>1, <3>2 DEF Spent
  <2> QED
    BY <1>4, <2>1, <2>2
<1>9. ASSUME NEW h \in Handlers, NEW g \in Handlers, h # g, hpc'[h] # "idle",
             hpc'[g] # "idle", event'[h] = event'[g]
      PROVE  Apart(hat'[h], hat'[g])
  <2>1. CASE ~ Claim(h) /\ ~ Claim(g)
    BY <1>2, <1>9, <2>1 DEF Claims
  <2>2. ASSUME NEW k \in Handlers, NEW j \in Handlers, Claim(k), j # k,
               hpc'[j] # "idle", event'[j] = event'[k]
        PROVE  Apart(hat'[j], hat'[k]) /\ Apart(hat'[k], hat'[j])
    <3>1. event'[k] \in Payouts /\ claim(event'[k]) /\ hat'[k] = now
      BY <1>3, <2>2
    <3>2. hpc[j] # "idle" /\ event[j] = event'[k] /\ hat'[j] = hat[j]
      BY <1>2, <1>3, <2>2
    <3>3. Apart(hat[j], now)
      BY <1>5, <3>1, <3>2, ClaimIsApart DEF Claims
    <3> QED
      BY <3>1, <3>2, <3>3 DEF Apart
  <2> QED
    BY <1>9, <2>1, <2>2
<1>10. ASSUME NEW h \in Handlers, NEW r \in recorded', hpc'[h] = "record",
              r.payout = event'[h]
       PROVE  Apart(r.at, hat'[h])
  <2>1. CASE r \in recorded /\ ~ Claim(h)
    BY <1>2, <1>10, <2>1 DEF Claims
  <2>2. CASE r \in recorded /\ Claim(h)
    <3>1. event'[h] \in Payouts /\ claim(event'[h]) /\ hat'[h] = now
      BY <1>3, <2>2
    <3> QED
      BY <1>6, <1>10, <2>2, <3>1, ClaimIsApart DEF Claims
  <2>3. ASSUME NEW g \in Handlers, RecordOutcome(g), r = OutcomeOf(g)
        PROVE  Apart(r.at, hat'[h])
    <3>1. /\ hpc[g] = "record" /\ hpc'[g] = "read" /\ r.payout = event[g]
          /\ r.at = hat[g]
      BY <2>3 DEF RecordOutcome, OutcomeOf, TypeOK
    <3>2. g # h /\ ~ Claim(h)
      <4>1. g # h
        BY <1>10, <3>1
      <4>2. hpc'[h] = hpc[h]
        BY <2>3, <4>1 DEF RecordOutcome, TypeOK
      <4> QED
        BY <1>10, <4>1, <4>2 DEF Claim
    <3>3. hpc[h] # "idle" /\ event[h] = event'[h] /\ hat[h] = hat'[h]
      BY <1>2, <1>10, <3>2
    <3> QED
      BY <1>10, <3>1, <3>2, <3>3 DEF Claims
  <2> QED
    BY <1>4, <2>1, <2>2, <2>3
<1> QED
  BY <1>7, <1>8, <1>9, <1>10 DEF Claims

\* A record that comes into being is apart from the others of its payout.
LEMMA CountedOnceStep ==
    ASSUME TypeOK, Control, Claims, CountedOnce, Next
    PROVE  CountedOnce'
<1>1. CASE UNCHANGED recorded
  BY <1>1 DEF CountedOnce
<1>2. ASSUME NEW h \in Handlers, RecordOutcome(h) PROVE CountedOnce'
  <2>1. hpc[h] = "record" /\ recorded' = recorded \union {OutcomeOf(h)}
    BY <1>2 DEF RecordOutcome
  <2>2. OutcomeOf(h).payout = event[h] /\ OutcomeOf(h).at = hat[h]
    BY DEF OutcomeOf
  <2>3. ASSUME NEW r \in recorded, r.payout = event[h]
        PROVE  Apart(r.at, hat[h]) /\ Apart(hat[h], r.at)
    BY <2>1, <2>3 DEF Claims, Apart
  <2> QED
    BY <2>1, <2>2, <2>3 DEF CountedOnce
<1>3. ASSUME NEW p \in Payouts, Route(p) PROVE UNCHANGED recorded
  BY <1>3, RouteFrame
<1>4. ASSUME NEW h \in Handlers, Handle(h), ~ RecordOutcome(h) PROVE UNCHANGED recorded
  BY <1>4 DEF Handle, Claim, ReadBreaker, Evaluate, Write, WriteProbe, ReleaseSlot,
     HandlerFails, redis
<1> QED
  BY <1>1, <1>2, <1>3, <1>4 DEF Next, Publish, Tick, redis

\* The stuttering step keeps both.
LEMMA StutterClaims ==
    ASSUME UNCHANGED vars
    PROVE  (Claims => Claims') /\ (CountedOnce => CountedOnce')
BY DEF Claims, Spent, CountedOnce, vars, redis, handling

\* However often the stream delivers an outcome and however many handlers work
\* at the same time, the window counts it at most once in each lifetime of its
\* processed key: whatever it counts again was claimed ProcessedTtl later.
THEOREM OutcomesCountOnce == Spec => []CountedOnce
<1>1. Init => TypeOK /\ Control /\ Claims /\ CountedOnce
  BY TypeInit, ControlInit DEF Init, Claims, CountedOnce
<1>2. TypeOK /\ Control /\ Claims /\ CountedOnce /\ [Next]_vars
        => (TypeOK /\ Control /\ Claims /\ CountedOnce)'
  BY TypeStep, ControlStep, StutterControl, ClaimsStep, CountedOnceStep, StutterClaims
<1> QED
  BY <1>1, <1>2, PTL DEF Spec

(***************************************************************************)
(* A breaker is opened for a reason and half opened in time.               *)
(***************************************************************************)
\* A product grows with its first factor.
LEMMA TimesMonotone ==
    ASSUME NEW a \in Nat, NEW b \in Nat, NEW k \in Nat, a <= b
    PROVE  a * k <= b * k
<1>1. b = a + (b - a) /\ b - a \in Nat
  OBVIOUS
<1>2. b * k = a * k + (b - a) * k
  BY <1>1
<1>3. (b - a) * k \in Nat /\ a * k \in Nat
  BY <1>1
<1> QED
  BY <1>2, <1>3

\* A window that is over the threshold holds so many failures that MinSamples
\* outcomes could be over it with them.
LEMMA FailureBound ==
    ASSUME NEW st \in Stats, TooManyFailures(st), NEW n \in Nat, st.failure <= n
    PROVE  n * ThresholdDen > (ThresholdDen - ThresholdNum) * MinSamples
<1> DEFINE good == st.success
           bad == st.failure
           k == ThresholdDen - ThresholdNum
<1>1. good \in Nat /\ bad \in Nat /\ k \in Nat
  BY BreakerAssumption DEF Stats
<1>2. MinSamples <= good + bad /\ good * ThresholdDen < ThresholdNum * (good + bad)
  BY DEF TooManyFailures
<1>3. (good + bad) * ThresholdDen = (good + bad) * k + ThresholdNum * (good + bad)
  BY <1>1, BreakerAssumption
<1>4. (good + bad) * ThresholdDen = good * ThresholdDen + bad * ThresholdDen
  BY <1>1, BreakerAssumption
<1>5. /\ bad * ThresholdDen \in Nat /\ good * ThresholdDen \in Nat
      /\ (good + bad) * k \in Nat /\ ThresholdNum * (good + bad) \in Nat
      /\ (good + bad) * ThresholdDen \in Nat
  BY <1>1, BreakerAssumption
<1>6. bad * ThresholdDen > (good + bad) * k
  BY <1>2, <1>3, <1>4, <1>5
<1>7. MinSamples * k <= (good + bad) * k
  BY <1>1, <1>2, TimesMonotone, BreakerAssumption
<1>8. bad * ThresholdDen <= n * ThresholdDen
  BY <1>1, TimesMonotone, BreakerAssumption
<1>9. MinSamples * k = k * MinSamples /\ k * MinSamples \in Nat /\ n * ThresholdDen \in Nat
  BY <1>1, BreakerAssumption
<1> QED
  BY <1>5, <1>6, <1>7, <1>8, <1>9

\* Recording more outcomes never takes a failure out of a window.
LEMMA FailuresGrow ==
    ASSUME NEW R, NEW S, R \subseteq S, IsFiniteSet(S), NEW c, NEW t
    PROVE  /\ FailuresUpTo(R, c, t) \subseteq FailuresUpTo(S, c, t)
           /\ Cardinality(FailuresUpTo(R, c, t)) \in Nat
           /\ Cardinality(FailuresUpTo(S, c, t)) \in Nat
           /\ Cardinality(FailuresUpTo(R, c, t)) <= Cardinality(FailuresUpTo(S, c, t))
<1>1. FailuresUpTo(R, c, t) \subseteq FailuresUpTo(S, c, t)
  BY DEF FailuresUpTo
<1>2. IsFiniteSet(FailuresUpTo(S, c, t))
  BY FS_Subset DEF FailuresUpTo
<1> QED
  BY <1>1, <1>2, FS_Subset, FS_CardinalityType

\* What justified a breaker once justifies it forever.
LEMMA JustifiedGrows ==
    ASSUME NEW R, NEW S, R \subseteq S, IsFiniteSet(S), NEW c, NEW t, Justified(R, c, t)
    PROVE  Justified(S, c, t)
<1> DEFINE m == Cardinality(FailuresUpTo(R, c, t))
           n == Cardinality(FailuresUpTo(S, c, t))
           k == (ThresholdDen - ThresholdNum) * MinSamples
<1>1. FailuresUpTo(R, c, t) \subseteq FailuresUpTo(S, c, t) /\ m \in Nat /\ n \in Nat /\ m <= n
  BY FailuresGrow
<1>2. m * ThresholdDen <= n * ThresholdDen
  BY <1>1, TimesMonotone, BreakerAssumption
<1>3. m * ThresholdDen \in Nat /\ n * ThresholdDen \in Nat /\ k \in Int
  BY <1>1, BreakerAssumption
<1>4. CASE \E r \in FailuresUpTo(R, c, t) : r.at = t
  BY <1>1, <1>4 DEF Justified
<1>5. CASE m * ThresholdDen > k
  <2>1. n * ThresholdDen > k
    BY <1>2, <1>3, <1>5
  <2> QED
    BY <2>1 DEF Justified
<1> QED
  BY <1>4, <1>5 DEF Justified

\* A sound snapshot stays sound when time passes and outcomes are recorded.
LEMMA SoundGrows ==
    ASSUME NEW R, NEW S, R \subseteq S, IsFiniteSet(S), NEW n \in Nat, NEW m \in Nat,
           n <= m, NEW c, NEW s \in Snapshot, Sound(R, n, c, s)
    PROVE  Sound(S, m, c, s)
BY JustifiedGrows, BreakerAssumption DEF Sound, Snapshot

\* A closed breaker needs no reason.
LEMMA ClosedSound == \A R, n, c : Sound(R, n, c, closedBreaker)
BY DEF Sound, closedBreaker

\* evaluateBreaker makes a sound snapshot of a sound one.
LEMMA EvaluateSound ==
    ASSUME NEW R, IsFiniteSet(R), NEW n \in Nat, NEW c, NEW s \in Snapshot,
           NEW st \in Stats, NEW t \in Nat, t <= n, Sound(R, n, c, s),
           st.failure <= Cardinality(FailuresUpTo(R, c, t))
    PROVE  Sound(R, n, c, evaluateBreaker(s, st, t))
<1>1. CASE s.state = "CLOSED" /\ TooManyFailures(st)
  <2>1. Cardinality(FailuresUpTo(R, c, t)) \in Nat
    BY FailuresGrow
  <2>2. Justified(R, c, t)
    BY <1>1, <2>1, FailureBound DEF Justified
  <2> QED
    BY <1>1, <2>2 DEF Sound, evaluateBreaker, openBreaker
<1>2. CASE s.state = "OPEN" /\ t - s.openedAt >= OpenMs
  BY <1>2, BreakerAssumption
  DEF Sound, evaluateBreaker, halfOpenBreaker, Snapshot
<1> QED
  BY <1>1, <1>2 DEF evaluateBreaker

\* recordProbe makes a sound snapshot of a sound one, when the failed outcome
\* that reopens the breaker is recorded.
LEMMA ProbeSound ==
    ASSUME NEW R, NEW n \in Nat, NEW c, NEW s \in Snapshot, NEW ok \in BOOLEAN,
           NEW t \in Nat, Sound(R, n, c, s),
           NEW r \in R, r.channel = c, r.success = ok, r.at = t
    PROVE  Sound(R, n, c, recordProbe(s, ok, t))
<1>1. CASE s.state = "HALF_OPEN" /\ ~ok
  <2>1. r \in FailuresUpTo(R, c, t)
    BY <1>1, RoutingAssumption DEF FailuresUpTo
  <2> QED
    BY <1>1, <2>1 DEF Sound, Justified, recordProbe, openBreaker
<1>2. CASE s.state = "HALF_OPEN" /\ ok
  BY <1>2, ClosedSound DEF Sound, recordProbe, halfOpenBreaker
<1> QED
  BY <1>1, <1>2 DEF recordProbe

\* No step loses a recorded outcome or turns the clock back.
LEMMA Growth ==
    ASSUME TypeOK, Control, Next
    PROVE  /\ recorded \subseteq recorded' /\ IsFiniteSet(recorded')
           /\ now \in Nat /\ now' \in Nat /\ now <= now'
<1>1. IsFiniteSet(recorded') /\ now' \in Nat /\ now \in Nat
  BY TypeStep DEF TypeOK
<1>2. ASSUME NEW p \in Payouts, Route(p) PROVE UNCHANGED <<now, recorded>>
  BY <1>2, RouteFrame
<1>3. ASSUME NEW h \in Handlers, Handle(h)
      PROVE  now' = now /\ recorded \subseteq recorded'
  BY <1>3 DEF Handle, Claim, RecordOutcome, ReadBreaker, Evaluate, Write, WriteProbe,
     ReleaseSlot, HandlerFails, redis
<1>4. ASSUME Tick PROVE now <= now' /\ recorded' = recorded
  BY <1>1, <1>4 DEF Tick
<1>5. ASSUME NEW p \in Payouts, Publish(p) PROVE UNCHANGED <<now, recorded>>
  BY <1>5 DEF Publish, redis
<1> QED
  BY <1>1, <1>2, <1>3, <1>4, <1>5 DEF Next

\* The snapshots in Redis stay sound: three actions write one.
LEMMA StoreStep ==
    ASSUME TypeOK, Control, Evidence, Next
    PROVE  StoreSound'
<1>1. ASSUME NEW c \in Channels, NEW s \in Snapshot, Sound(recorded, now, c, s)
      PROVE  Sound(recorded', now', c, s)
  BY <1>1, Growth, SoundGrows
<1>2. CASE UNCHANGED breaker
  BY <1>1, <1>2 DEF TypeOK, Evidence, StoreSound
<1>3. ASSUME NEW d \in Channels, NEW s \in Snapshot, Sound(recorded, now, d, s),
             breaker' = [breaker EXCEPT ![d] = s]
      PROVE  StoreSound'
  BY <1>1, <1>3 DEF TypeOK, Evidence, StoreSound
<1>4. ASSUME NEW p \in Payouts, Route(p) PROVE StoreSound'
  <2>1. CASE RefreshWrite(p)
    <3>1. First(todo[p]) \in Channels
      BY <2>1, FirstIsMember DEF TypeOK, RefreshWrite
    <3>2. view[p][First(todo[p])] \in Snapshot
      BY <3>1 DEF TypeOK
    <3>3. Sound(recorded, now, First(todo[p]), view[p][First(todo[p])])
      BY <3>1 DEF Evidence, RequestsSound
    <3>4. breaker' = [breaker EXCEPT ![First(todo[p])] = view[p][First(todo[p])]]
      BY <2>1 DEF RefreshWrite
    <3> QED
      BY <1>3, <3>1, <3>2, <3>3, <3>4
  <2>2. CASE ~ RefreshWrite(p)
    <3>1. UNCHANGED breaker
      BY <1>4, <2>2 DEF Route, Start, ReadStats, ReadBreakers, Degrade, RefreshWriteFails,
         Select, TakeSlot, SlotRefused, SlotFails, Persist, redis
    <3> QED
      BY <1>2, <3>1
  <2> QED
    BY <2>1, <2>2
<1>5. ASSUME NEW h \in Handlers, Write(h) \/ WriteProbe(h) PROVE StoreSound'
  <2>1. hpc[h] # "idle" /\ breaker' = [breaker EXCEPT ![Of(h)] = hsnap[h]]
    BY <1>5 DEF Write, WriteProbe
  <2>2. Of(h) \in Channels /\ hsnap[h] \in Snapshot
    BY <2>1 DEF TypeOK, Control, Of
  <2>3. Sound(recorded, now, Of(h), hsnap[h])
    BY <2>1 DEF Evidence, HandlersSound
  <2> QED
    BY <1>3, <2>1, <2>2, <2>3
<1>6. ASSUME NEW h \in Handlers, Handle(h), ~ (Write(h) \/ WriteProbe(h))
      PROVE  UNCHANGED breaker
  BY <1>6 DEF Handle, Claim, RecordOutcome, ReadBreaker, Evaluate, ReleaseSlot,
     HandlerFails, redis
<1>7. ASSUME NEW p \in Payouts, Publish(p) PROVE UNCHANGED breaker
  BY <1>7 DEF Publish, redis
<1>8. ASSUME Tick PROVE UNCHANGED breaker
  BY <1>8 DEF Tick
<1> QED
  BY <1>2, <1>4, <1>5, <1>6, <1>7, <1>8 DEF Next

\* What the requests carry stays sound: two actions read, the others drop it.
LEMMA RequestsStep ==
    ASSUME TypeOK, Control, Evidence, Next
    PROVE  RequestsSound'
<1> DEFINE Safe(n, R, t, v, w) ==
             /\ t <= n
             /\ \A c \in Channels :
                   /\ Sound(R, n, c, v[c])
                   /\ w[c].failure <= Cardinality(FailuresUpTo(R, c, t))
<1>1. \A p \in Payouts : Safe(now, recorded, at[p], view[p], stats[p])
  BY DEF Evidence, RequestsSound
<1>2. ASSUME NEW t \in Nat, NEW v \in [Channels -> Snapshot],
             NEW w \in [Channels -> Stats], Safe(now, recorded, t, v, w)
      PROVE  Safe(now', recorded', t, v, w)
  <2>1. t <= now'
    BY <1>2, Growth
  <2>2. ASSUME NEW c \in Channels
        PROVE  /\ Sound(recorded', now', c, v[c])
               /\ w[c].failure <= Cardinality(FailuresUpTo(recorded', c, t))
    <3>1. Sound(recorded', now', c, v[c])
      BY <1>2, Growth, SoundGrows
    <3>2. /\ Cardinality(FailuresUpTo(recorded, c, t)) \in Nat
          /\ Cardinality(FailuresUpTo(recorded', c, t)) \in Nat
          /\ Cardinality(FailuresUpTo(recorded, c, t))
                <= Cardinality(FailuresUpTo(recorded', c, t))
      BY Growth, FailuresGrow
    <3> QED
      BY <1>2, <3>1, <3>2 DEF Stats
  <2> QED
    BY <2>1, <2>2
<1>3. ASSUME NEW p \in Payouts, NEW t \in Nat, NEW v \in [Channels -> Snapshot],
             NEW w \in [Channels -> Stats], Safe(now, recorded, t, v, w),
             at' = [at EXCEPT ![p] = t], view' = [view EXCEPT ![p] = v],
             stats' = [stats EXCEPT ![p] = w]
      PROVE  RequestsSound'
  <2>1. \A q \in Payouts : Safe(now, recorded, at'[q], view'[q], stats'[q])
    BY <1>1, <1>3 DEF TypeOK
  <2>2. \A q \in Payouts : Safe(now', recorded', at'[q], view'[q], stats'[q])
    BY <1>2, <2>1, TypeStep DEF TypeOK
  <2> QED
    BY <2>2 DEF RequestsSound
<1>4. CASE UNCHANGED <<at, view, stats>>
  <2>1. \A q \in Payouts : Safe(now', recorded', at[q], view[q], stats[q])
    BY <1>1, <1>2 DEF TypeOK
  <2> QED
    BY <1>4, <2>1 DEF RequestsSound
<1>5. NoView \in [Channels -> Snapshot] /\ NoStats \in [Channels -> Stats]
  BY ClosedType DEF NoView, NoStats, Stats
<1>6. ASSUME NEW t \in Nat, t <= now PROVE Safe(now, recorded, t, NoView, NoStats)
  <2>1. \A c \in Channels : Cardinality(FailuresUpTo(recorded, c, t)) \in Nat
    BY FailuresGrow DEF TypeOK
  <2> QED
    BY <1>6, <2>1, ClosedSound DEF NoView, NoStats
<1>7. ASSUME NEW p \in Payouts, NEW end, NEW a, Finish(p, end, a) PROVE RequestsSound'
  <2>1. 0 \in Nat /\ 0 <= now
    BY DEF TypeOK
  <2>2. Safe(now, recorded, 0, NoView, NoStats)
    BY <1>6, <2>1
  <2> HIDE DEF Safe
  <2> QED
    BY <1>3, <1>5, <1>7, <2>1, <2>2 DEF Finish
<1>8. ASSUME NEW p \in Payouts, Start(p) PROVE RequestsSound'
  <2>1. \E t \in Nat : t <= now /\ at' = [at EXCEPT ![p] = t]
    <3>1. now \in Nat /\ 0 \in Nat /\ 0 <= now /\ now <= now
      BY DEF TypeOK
    <3>2. at' = [at EXCEPT ![p] = now] \/ at' = [at EXCEPT ![p] = 0]
      BY <1>8 DEF Start
    <3> QED
      BY <3>1, <3>2
  <2>2. PICK t \in Nat : t <= now /\ at' = [at EXCEPT ![p] = t]
    BY <2>1
  <2>3. pc[p] = "idle" /\ UNCHANGED <<view, stats>>
    BY <1>8 DEF Start
  <2>4. stats[p] = NoStats
    BY <2>3 DEF Control
  <2>5. Safe(now, recorded, t, NoView, NoStats)
    BY <1>6, <2>2
  <2>6. Safe(now, recorded, t, view[p], stats[p])
    BY <1>1, <2>2, <2>4, <2>5
  <2>7. view[p] \in [Channels -> Snapshot] /\ stats[p] \in [Channels -> Stats]
    BY DEF TypeOK
  <2>8. view' = [view EXCEPT ![p] = view[p]] /\ stats' = [stats EXCEPT ![p] = stats[p]]
    BY <2>3 DEF TypeOK
  <2> HIDE DEF Safe
  <2> QED
    BY <1>3, <2>2, <2>6, <2>7, <2>8
<1>9. ASSUME NEW p \in Payouts, ReadStats(p) PROVE RequestsSound'
  <2> DEFINE w == [c \in Channels |->
                     IF c \in ids[p] THEN ReadWindow(c, at[p]) ELSE NoStats[c]]
  <2>1. ASSUME NEW c \in Channels
        PROVE  /\ w[c] \in Stats
               /\ w[c].failure <= Cardinality(FailuresUpTo(recorded, c, at[p]))
    <3>1. {r \in InWindow(recorded, c, at[p]) : ~r.success}
            = FailuresUpTo(recorded, c, at[p])
      BY DEF InWindow, FailuresUpTo
    <3>2. Cardinality(FailuresUpTo(recorded, c, at[p])) \in Nat
      BY FailuresGrow DEF TypeOK
    <3>3. ReadWindow(c, at[p]) \in Stats
      BY ReadWindowType DEF TypeOK
    <3>4. NoStats[c] \in Stats /\ NoStats[c].failure = 0
      BY DEF NoStats, Stats
    <3>5. ReadWindow(c, at[p]).failure = Cardinality(FailuresUpTo(recorded, c, at[p]))
      BY <3>1 DEF ReadWindow
    <3> QED
      BY <3>2, <3>3, <3>4, <3>5
  <2>2. w \in [Channels -> Stats]
    BY <2>1
  <2>3. Safe(now, recorded, at[p], view[p], w)
    BY <1>1, <2>1
  <2>4. /\ at' = [at EXCEPT ![p] = at[p]] /\ view' = [view EXCEPT ![p] = view[p]]
        /\ stats' = [stats EXCEPT ![p] = w]
    BY <1>9 DEF ReadStats, TypeOK
  <2>5. at[p] \in Nat /\ view[p] \in [Channels -> Snapshot]
    BY DEF TypeOK
  <2> HIDE DEF Safe, w
  <2> QED
    BY <1>3, <2>2, <2>3, <2>4, <2>5
<1>10. ASSUME NEW p \in Payouts, ReadBreakers(p) PROVE RequestsSound'
  <2> DEFINE v == [c \in Channels |-> IF c \in ids[p]
                     THEN evaluateBreaker(breaker[c], stats[p][c], at[p])
                     ELSE closedBreaker]
  <2>1. ASSUME NEW c \in Channels
        PROVE  v[c] \in Snapshot /\ Sound(recorded, now, c, v[c])
    <3>1. /\ breaker[c] \in Snapshot /\ stats[p][c] \in Stats /\ at[p] \in Nat
          /\ now \in Nat /\ IsFiniteSet(recorded)
      BY DEF TypeOK
    <3>2. /\ Sound(recorded, now, c, breaker[c]) /\ at[p] <= now
          /\ stats[p][c].failure <= Cardinality(FailuresUpTo(recorded, c, at[p]))
      BY DEF Evidence, StoreSound, RequestsSound
    <3>3. /\ evaluateBreaker(breaker[c], stats[p][c], at[p]) \in Snapshot
          /\ Sound(recorded, now, c, evaluateBreaker(breaker[c], stats[p][c], at[p]))
      BY <3>1, <3>2, EvaluateType, EvaluateSound
    <3> QED
      BY <3>3, ClosedType, ClosedSound
  <2>2. v \in [Channels -> Snapshot]
    BY <2>1
  <2>3. Safe(now, recorded, at[p], v, NoStats)
    <3>1. Safe(now, recorded, at[p], NoView, NoStats)
      BY <1>1, <1>6 DEF TypeOK
    <3> QED
      BY <2>1, <3>1
  <2>4. /\ at' = [at EXCEPT ![p] = at[p]] /\ view' = [view EXCEPT ![p] = v]
        /\ stats' = [stats EXCEPT ![p] = NoStats]
    BY <1>10 DEF ReadBreakers, TypeOK
  <2>5. at[p] \in Nat
    BY DEF TypeOK
  <2> HIDE DEF Safe, v
  <2> QED
    BY <1>3, <1>5, <2>2, <2>3, <2>4, <2>5
<1>11. ASSUME NEW p \in Payouts, Route(p) PROVE RequestsSound'
  <2>1. CASE \E end, a : Finish(p, end, a)
    BY <1>7, <2>1
  <2>2. CASE ~ \E end, a : Finish(p, end, a)
    <3>1. \/ Start(p) \/ ReadStats(p) \/ ReadBreakers(p)
          \/ UNCHANGED <<at, view, stats>>
      BY <1>11, <2>2 DEF Route, Degrade, RefreshWrite, RefreshWriteFails, Select,
         TakeSlot, SlotRefused, SlotFails, Persist, Decide, Reject
    <3> QED
      BY <1>4, <1>8, <1>9, <1>10, <3>1
  <2> QED
    BY <2>1, <2>2
<1>12. ASSUME NEW h \in Handlers, Handle(h) PROVE UNCHANGED <<at, view, stats>>
  BY <1>12 DEF Handle, Claim, RecordOutcome, ReadBreaker, Evaluate, Write, WriteProbe,
     ReleaseSlot, HandlerFails, request
<1>13. ASSUME NEW p \in Payouts, Publish(p) PROVE UNCHANGED <<at, view, stats>>
  BY <1>13 DEF Publish, request
<1>14. ASSUME Tick PROVE UNCHANGED <<at, view, stats>>
  BY <1>14 DEF Tick, request
<1> QED
  BY <1>4, <1>11, <1>12, <1>13, <1>14 DEF Next

\* What the handlers carry stays sound.
LEMMA HandlersStep ==
    ASSUME TypeOK, Control, Evidence, Next
    PROVE  HandlersSound'
<1> DEFINE Rec(p, c, o, t) == [payout |-> p, channel |-> c, success |-> o = "success",
                               at |-> t]
           \* The clauses of HandlersSound for one handler.
           Safe(n, R, t, c, s, k, p, o) ==
             /\ t <= n
             /\ k # "idle" => Sound(R, n, c, s)
             /\ k \notin {"idle", "record"} => Rec(p, c, o, t) \in R
<1>1. \A h \in Handlers : Safe(now, recorded, hat[h], Of(h), hsnap[h], hpc[h], event[h],
                                outcome[event[h]])
  BY DEF Evidence, HandlersSound, OutcomeOf
<1>2. ASSUME NEW t \in Nat, NEW c, NEW s \in Snapshot, NEW k, NEW p, NEW o,
             Safe(now, recorded, t, c, s, k, p, o)
      PROVE  Safe(now', recorded', t, c, s, k, p, o)
  <2>1. t <= now' /\ recorded \subseteq recorded'
    BY <1>2, Growth
  <2>2. k # "idle" => Sound(recorded', now', c, s)
    BY <1>2, Growth, SoundGrows
  <2> QED
    BY <1>2, <2>1, <2>2
<1>3. SUFFICES ASSUME NEW g \in Handlers
               PROVE  Safe(now', recorded', hat'[g], answer'[event'[g]].channel,
                           hsnap'[g], hpc'[g], event'[g], outcome'[event'[g]])
  BY DEF HandlersSound, OutcomeOf, Of
<1>4. hat'[g] \in Nat /\ hsnap'[g] \in Snapshot
  BY TypeStep DEF TypeOK
\* The payout a busy handler works on is answered, and stays so.
<1>5. hpc[g] # "idle" => /\ event[g] \in Payouts /\ outcome[event[g]] # "none"
                         /\ pc[event[g]] = "answered"
                         /\ Of(g) \in Channels
  BY DEF Control, Of
<1>6. ASSUME UNCHANGED <<hat[g], hsnap[g], hpc[g], event[g]>>,
             hpc[g] # "idle" => UNCHANGED <<answer[event[g]], outcome[event[g]]>>
      PROVE  Safe(now', recorded', hat'[g], answer'[event'[g]].channel, hsnap'[g],
                  hpc'[g], event'[g], outcome'[event'[g]])
  <2>1. hat[g] \in Nat /\ hsnap[g] \in Snapshot
    BY DEF TypeOK
  <2>2. Safe(now', recorded', hat[g], Of(g), hsnap[g], hpc[g], event[g],
             outcome[event[g]])
    BY <1>1, <1>2, <2>1
  <2>3. CASE hpc[g] = "idle"
    BY <1>6, <2>2, <2>3
  <2>4. CASE hpc[g] # "idle"
    BY <1>6, <2>2, <2>4 DEF Of
  <2> QED
    BY <2>3, <2>4
<1>7. ASSUME NEW p \in Payouts, Route(p)
      PROVE  Safe(now', recorded', hat'[g], answer'[event'[g]].channel, hsnap'[g],
                  hpc'[g], event'[g], outcome'[event'[g]])
  BY <1>5, <1>6, <1>7, RouteFrame DEF handling
<1>8. ASSUME NEW p \in Payouts, Publish(p)
      PROVE  Safe(now', recorded', hat'[g], answer'[event'[g]].channel, hsnap'[g],
                  hpc'[g], event'[g], outcome'[event'[g]])
  <2>1. UNCHANGED <<hat[g], hsnap[g], hpc[g], event[g], answer>>
    BY <1>8 DEF Publish, handling, request
  <2>2. \A q \in Payouts : outcome[q] # "none" => outcome'[q] = outcome[q]
    BY <1>8 DEF Publish, TypeOK
  <2> QED
    BY <1>5, <1>6, <2>1, <2>2
<1>9. ASSUME Tick
      PROVE  Safe(now', recorded', hat'[g], answer'[event'[g]].channel, hsnap'[g],
                  hpc'[g], event'[g], outcome'[event'[g]])
  BY <1>6, <1>9 DEF Tick, handling, request
<1>10. ASSUME NEW h \in Handlers, Handle(h)
       PROVE  Safe(now', recorded', hat'[g], answer'[event'[g]].channel, hsnap'[g],
                   hpc'[g], event'[g], outcome'[event'[g]])
  <2>1. UNCHANGED <<now, answer, outcome>>
    BY <1>10 DEF Handle, Claim, RecordOutcome, ReadBreaker, Evaluate, Write,
       WriteProbe, ReleaseSlot, HandlerFails, request
  <2>2. CASE h # g
    <3>1. UNCHANGED <<hat[g], hsnap[g], hpc[g], event[g]>>
      BY <1>10, <2>2 DEF TypeOK, Handle, Claim, RecordOutcome, ReadBreaker, Evaluate,
         Write, WriteProbe, ReleaseSlot, HandlerFails, Leave
    <3> QED
      BY <1>6, <2>1, <3>1
  <2>3. CASE h = g
    <3>1. now \in Nat /\ hat[g] \in Nat /\ hsnap[g] \in Snapshot
      BY DEF TypeOK
    <3>2. Safe(now', recorded', hat[g], Of(g), hsnap[g], hpc[g], event[g],
               outcome[event[g]])
      BY <1>1, <1>2, <3>1
    <3>3. CASE Leave(g)
      <4>1. hpc'[g] = "idle" /\ hat'[g] = 0
        BY <3>3 DEF Leave, TypeOK
      <4> QED
        BY <2>1, <3>1, <4>1
    <3>4. CASE Claim(g)
      <4>1. /\ hpc'[g] = "record" /\ hat'[g] = now /\ hsnap'[g] = closedBreaker
            /\ hpc[g] = "idle"
        BY <3>4 DEF Claim, TypeOK, Control
      <4> QED
        BY <2>1, <3>1, <4>1, ClosedSound
    <3>5. CASE RecordOutcome(g)
      <4>1. /\ hpc[g] = "record" /\ hpc'[g] = "read"
            /\ UNCHANGED <<hat, hsnap, event>>
            /\ Rec(event[g], Of(g), outcome[event[g]], hat[g]) \in recorded'
        BY <3>5 DEF RecordOutcome, OutcomeOf, TypeOK
      <4> QED
        BY <2>1, <3>2, <4>1 DEF Of
    <3>6. CASE ReadBreaker(g)
      <4> DEFINE r == Rec(event[g], Of(g), outcome[event[g]], hat[g])
                 ok == outcome[event[g]] = "success"
                 b == breaker[Of(g)]
      <4>1. hpc[g] = "read" /\ UNCHANGED <<hat, event, recorded>>
        BY <3>6 DEF ReadBreaker, redis
      <4>2. r \in recorded /\ b \in Snapshot /\ Sound(recorded, now, Of(g), b)
        BY <1>1, <1>5, <4>1 DEF TypeOK, Evidence, StoreSound
      <4>3. Sound(recorded, now, Of(g), recordProbe(b, ok, hat[g]))
        BY <3>1, <4>2, ProbeSound
      <4>4. Sound(recorded, now, Of(g), hsnap'[g])
        BY <3>6, <4>2, <4>3 DEF ReadBreaker, TypeOK
      <4> QED
        BY <2>1, <3>2, <4>1, <4>2, <4>4 DEF Of
    <3>7. CASE Evaluate(g) /\ ~ Leave(g)
      <4> DEFINE w == ReadWindow(Of(g), hat[g])
      <4>1. hpc[g] = "evaluate" /\ UNCHANGED <<hat, event, recorded>>
            /\ hsnap'[g] = evaluateBreaker(hsnap[g], w, hat[g])
        BY <3>7 DEF Evaluate, TypeOK, redis
      <4>2. w \in Stats /\ IsFiniteSet(recorded)
        BY ReadWindowType DEF TypeOK
      <4>3. w.failure <= Cardinality(FailuresUpTo(recorded, Of(g), hat[g]))
        <5>1. {r \in InWindow(recorded, Of(g), hat[g]) : ~r.success}
                = FailuresUpTo(recorded, Of(g), hat[g])
          BY DEF InWindow, FailuresUpTo
        <5>2. Cardinality(FailuresUpTo(recorded, Of(g), hat[g])) \in Nat
          BY <4>2, FailuresGrow
        <5>3. w.failure = Cardinality({r \in InWindow(recorded, Of(g), hat[g]) : ~r.success})
          BY DEF ReadWindow
        <5>4. w.failure = Cardinality(FailuresUpTo(recorded, Of(g), hat[g]))
          BY <5>1, <5>3, Zenon
        <5> HIDE DEF w
        <5> QED
          BY <5>2, <5>4
      <4>4. Sound(recorded, now, Of(g), hsnap'[g])
        BY <1>1, <3>1, <4>1, <4>2, <4>3, EvaluateSound
      <4> QED
        BY <2>1, <3>2, <4>1, <4>4 DEF Of
    <3>8. CASE WriteProbe(g)
      <4>1. /\ hpc[g] = "writeProbe" /\ hpc'[g] = "release"
            /\ UNCHANGED <<hat, event>> /\ hsnap'[g] = closedBreaker
        BY <3>8 DEF WriteProbe, TypeOK
      <4> QED
        BY <2>1, <3>2, <4>1, ClosedSound DEF Of
    <3> QED
      BY <1>10, <2>3, <3>3, <3>4, <3>5, <3>6, <3>7, <3>8
      DEF Handle, Write, ReleaseSlot, HandlerFails
  <2> QED
    BY <2>2, <2>3
<1> QED
  BY <1>7, <1>8, <1>9, <1>10 DEF Next

\* The stuttering step keeps Evidence.
LEMMA StutterEvidence ==
    ASSUME Evidence, UNCHANGED vars
    PROVE  Evidence'
BY DEF Evidence, StoreSound, RequestsSound, HandlersSound, OutcomeOf, Of, vars, redis,
   request, handling

\* Init satisfies it.
LEMMA EvidenceInit == Init => Evidence
<1> SUFFICES ASSUME Init PROVE Evidence
  OBVIOUS
<1>1. StoreSound
  BY ClosedSound DEF Init, StoreSound
<1>2. RequestsSound
  <2>1. \A c \in Channels : Cardinality(FailuresUpTo({}, c, 0)) \in Nat
    BY FailuresGrow, FS_EmptySet
  <2> QED
    BY <2>1, ClosedSound DEF Init, RequestsSound, NoView, NoStats
<1>3. HandlersSound
  BY DEF Init, HandlersSound
<1> QED
  BY <1>1, <1>2, <1>3 DEF Evidence

\* The evidence behind every breaker is an invariant of the specification.
LEMMA EvidenceHolds == Spec => [](TypeOK /\ Control /\ Evidence)
<1>1. Init => TypeOK /\ Control /\ Evidence
  BY TypeInit, ControlInit, EvidenceInit
<1>2. TypeOK /\ Control /\ Evidence /\ [Next]_vars => (TypeOK /\ Control /\ Evidence)'
  BY TypeStep, ControlStep, StutterControl, StoreStep, RequestsStep, HandlersStep,
     StutterEvidence DEF Evidence
<1> QED
  BY <1>1, <1>2, PTL DEF Spec

\* A channel is taken out of the payouts only for a reason, however the
\* unlocked writes of refreshBreakers and applyToBreaker overwrite each other.
THEOREM BlocksAreJustified == Spec => []BlockIsJustified
<1>1. TypeOK /\ Control /\ Evidence => BlockIsJustified
  BY DEF Evidence, StoreSound, Sound, BlockIsJustified
<1> QED
  BY <1>1, EvidenceHolds, PTL

\* No channel is half open before OpenMs have passed since the opening time its
\* breaker carries, whoever wrote it and however late.
THEOREM HalfOpensAreAged == Spec => []HalfOpenIsAged
<1>1. TypeOK /\ Control /\ Evidence => HalfOpenIsAged
  BY DEF Evidence, StoreSound, Sound, HalfOpenIsAged
<1> QED
  BY <1>1, EvidenceHolds, PTL

(***************************************************************************)
(* A standing block holds.                                                 *)
(***************************************************************************)
\* A step that is not a step of request p leaves its variables alone.
LEMMA OtherRequests ==
    ASSUME TypeOK, Next, NEW p \in Payouts, ~ Route(p)
    PROVE  UNCHANGED <<pc[p], ids[p], view[p], answer[p]>>
<1>1. ASSUME NEW q \in Payouts, Route(q)
      PROVE  UNCHANGED <<pc[p], ids[p], view[p], answer[p]>>
  <2>1. p # q
    BY <1>1
  <2>2. /\ UNCHANGED pc \/ \E x : pc' = [pc EXCEPT ![q] = x]
        /\ UNCHANGED ids \/ \E x : ids' = [ids EXCEPT ![q] = x]
        /\ UNCHANGED view \/ \E x : view' = [view EXCEPT ![q] = x]
        /\ UNCHANGED answer \/ \E x : answer' = [answer EXCEPT ![q] = x]
    BY <1>1 DEF Route, Start, ReadStats, ReadBreakers, Degrade, RefreshWrite,
       RefreshWriteFails, Select, TakeSlot, SlotRefused, SlotFails, Persist, Decide, Reject,
       Finish
  <2> QED
    BY <2>1, <2>2 DEF TypeOK
<1>2. ASSUME NEW q \in Payouts, Publish(q)
      PROVE  UNCHANGED <<pc[p], ids[p], view[p], answer[p]>>
  BY <1>2 DEF Publish, request
<1>3. ASSUME NEW h \in Handlers, Handle(h)
      PROVE  UNCHANGED <<pc[p], ids[p], view[p], answer[p]>>
  BY <1>3 DEF Handle, Claim, RecordOutcome, ReadBreaker, Evaluate, Write, WriteProbe,
     ReleaseSlot, HandlerFails, request
<1>4. ASSUME Tick PROVE UNCHANGED <<pc[p], ids[p], view[p], answer[p]>>
  BY <1>4 DEF Tick, request
<1> QED
  BY <1>1, <1>2, <1>3, <1>4 DEF Next

\* Every step keeps Standing.
LEMMA StandingStep ==
    ASSUME TypeOK, Standing, Next
    PROVE  Standing'
<1> SUFFICES ASSUME NEW p \in Payouts, NEW c \in standing'[p]
             PROVE  /\ Blocked(breaker[c], at[p])'
                    /\ (pc[p] \in {"refresh", "takeSlot"} /\ c \in ids[p]
                           => view[p][c].state = "OPEN")'
  BY DEF Standing
<1>1. /\ c \in Channels
      /\ pc[p] # "idle" => c \in standing[p]
      /\ Blocked(breaker'[c], at'[p])
  BY DEF TypeOK, Next, Observe
<1>2. /\ pc[p] \in {"refresh", "takeSlot"} /\ c \in ids[p]
           => view[p][c].state = "OPEN"
      /\ pc[p] # "idle" => Blocked(breaker[c], at[p])
  BY <1>1 DEF Standing
<1>3. ASSUME pc'[p] \in {"refresh", "takeSlot"}, c \in ids'[p]
      PROVE  view'[p][c].state = "OPEN"
  <2>1. CASE ~ Route(p)
    BY <1>2, <1>3, <2>1, OtherRequests
  <2>2. CASE ReadBreakers(p)
    <3>1. pc[p] = "readBreakers" /\ ids'[p] = ids[p]
      BY <2>2 DEF ReadBreakers
    <3>2. view'[p][c] = evaluateBreaker(breaker[c], stats[p][c], at[p])
      BY <1>1, <1>3, <2>2, <3>1 DEF TypeOK, ReadBreakers
    <3>3. breaker[c].state = "OPEN" /\ at[p] - breaker[c].openedAt < OpenMs
      BY <1>2, <3>1 DEF Blocked
    <3>4. breaker[c] \in Snapshot /\ at[p] \in Nat
      BY <1>1 DEF TypeOK
    <3> QED
      BY <3>2, <3>3, <3>4, BreakerAssumption DEF evaluateBreaker, Snapshot
  <2>3. CASE RefreshWrite(p) \/ RefreshWriteFails(p)
    BY <1>2, <1>3, <2>3 DEF RefreshWrite, RefreshWriteFails
  <2>4. CASE Select(p)
    <3>1. pc[p] = "refresh"
      BY <2>4 DEF Select
    <3>2. UNCHANGED <<ids, view>>
      BY <1>3, <2>4 DEF TypeOK, Select, Decide, Reject, Finish, Done
    <3> QED
      BY <1>2, <1>3, <3>1, <3>2
  <2>5. CASE Start(p) \/ ReadStats(p)
    BY <1>3, <2>5 DEF TypeOK, Start, ReadStats
  <2>6. CASE \/ Degrade(p) \/ TakeSlot(p) \/ SlotRefused(p) \/ SlotFails(p)
             \/ Persist(p)
    BY <1>3, <2>6 DEF TypeOK, Degrade, TakeSlot, SlotRefused, SlotFails, Persist,
       Decide, Reject, Finish
  <2> QED
    BY <2>1, <2>2, <2>3, <2>4, <2>5, <2>6 DEF Route
<1> QED
  BY <1>1, <1>3

\* A scored decision is never a channel that has been blocked all along.
LEMMA DecisionStep ==
    ASSUME TypeOK, Control, Standing, Next, NEW p \in Payouts,
           pc[p] \in {"refresh", "takeSlot"}, pc'[p] = "persist"
    PROVE  answer'[p].channel \notin standing[p]
<1>1. ASSUME NEW c \in Eligible(p), Decide(p, c, FALSE) \/ Decide(p, c, TRUE)
      PROVE  answer'[p].channel \notin standing[p]
  <2>1. c \notin standing[p]
    BY DEF Standing, Eligible
  <2> QED
    BY <1>1, <2>1 DEF TypeOK, Decide, Finish
<1>2. Route(p)
  BY OtherRequests
<1>3. CASE Select(p)
  <2>1. PICK c \in Eligible(p) : Decide(p, c, FALSE)
    BY <1>3 DEF TypeOK, Select, Reject, Finish
  <2> QED
    BY <1>1, <2>1
<1>4. CASE TakeSlot(p)
  BY <1>1, <1>4 DEF Control, TakeSlot
<1>5. CASE SlotRefused(p)
  <2>1. PICK c \in Eligible(p) : Decide(p, c, FALSE)
    BY <1>5 DEF TypeOK, SlotRefused, Reject, Finish
  <2> QED
    BY <1>1, <2>1
<1>6. CASE \/ Start(p) \/ ReadStats(p) \/ ReadBreakers(p) \/ Degrade(p)
           \/ RefreshWrite(p) \/ RefreshWriteFails(p) \/ SlotFails(p) \/ Persist(p)
  BY <1>6 DEF TypeOK, Start, ReadStats, ReadBreakers, Degrade, RefreshWrite,
     RefreshWriteFails, SlotFails, Persist, Finish
<1> QED
  BY <1>2, <1>3, <1>4, <1>5, <1>6 DEF Route

\* Whatever else runs between the reads of a request and its decision, a channel
\* that was OPEN and not due when the request began, and still is, is not the
\* decision of RoutingService.route unless it is degraded.
THEOREM StandingBlocksHold == Spec => StandingBlockHolds
<1> DEFINE Inv == TypeOK /\ Control /\ Standing
           Holds == \A p \in Payouts :
                      pc[p] \in {"refresh", "takeSlot"} /\ pc'[p] = "persist"
                        => answer'[p].channel \notin standing[p]
<1>1. Init => Inv
  BY TypeInit, ControlInit DEF Init, Standing
<1>2. Inv /\ UNCHANGED vars => Inv'
  BY StutterControl DEF Standing, Blocked, vars, redis, request
<1>3. Inv /\ [Next]_vars => Inv'
  BY <1>2, TypeStep, ControlStep, StandingStep
<1>4. Inv /\ [Next]_vars => [Holds]_vars
  BY DecisionStep
<1> QED
  BY <1>1, <1>3, <1>4, PTL DEF Spec, StandingBlockHolds

(***************************************************************************)
(* A breaker closes on good probes.                                        *)
(***************************************************************************)
\* The probes of one opening are finitely many, and more of them stay more.
LEMMA ProbesGrow ==
    ASSUME NEW P, NEW Q, P \subseteq Q, IsFiniteSet(Q), NEW c, NEW o
    PROVE  /\ Probes(P, c, o) \subseteq Probes(Q, c, o)
           /\ Cardinality(Probes(P, c, o)) \in Nat
           /\ Cardinality(Probes(Q, c, o)) \in Nat
           /\ Cardinality(Probes(P, c, o)) <= Cardinality(Probes(Q, c, o))
<1>1. Probes(P, c, o) \subseteq Probes(Q, c, o)
  BY DEF Probes
<1>2. IsFiniteSet(Probes(Q, c, o))
  BY FS_Subset DEF Probes
<1> QED
  BY <1>1, <1>2, FS_Subset, FS_CardinalityType

\* A new probe of an opening makes one more.
LEMMA ProbesAdd ==
    ASSUME NEW P, IsFiniteSet(P), NEW x, x \notin P
    PROVE  Cardinality(Probes(P \union {x}, x.outcome.channel, x.opened))
             = Cardinality(Probes(P, x.outcome.channel, x.opened)) + 1
<1> DEFINE S == Probes(P, x.outcome.channel, x.opened)
<1>1. Probes(P \union {x}, x.outcome.channel, x.opened) = S \union {x}
  BY DEF Probes
<1>2. IsFiniteSet(S) /\ x \notin S
  BY FS_Subset DEF Probes
<1>3. Cardinality(S \union {x}) = Cardinality(S) + 1
  BY <1>2, FS_AddElement
<1> QED
  BY <1>1, <1>3

\* No step forgets a probe.
LEMMA ProbedGrows ==
    ASSUME TypeOK, Control, Next
    PROVE  probed \subseteq probed' /\ IsFiniteSet(probed')
BY ProbedStep, TypeStep DEF TypeOK

\* What is backed stays backed.
LEMMA BackedGrows ==
    ASSUME TypeOK, Control, Next, NEW c, NEW s \in Snapshot, Backed(probed, c, s)
    PROVE  Backed(probed', c, s)
<1>1. probed \subseteq probed' /\ IsFiniteSet(probed')
  BY ProbedGrows
<1>2. /\ Cardinality(Probes(probed, c, s.openedAt)) \in Nat
      /\ Cardinality(Probes(probed', c, s.openedAt)) \in Nat
      /\ Cardinality(Probes(probed, c, s.openedAt))
            <= Cardinality(Probes(probed', c, s.openedAt))
  BY <1>1, ProbesGrow
<1> QED
  BY <1>2 DEF Backed, Snapshot

\* A channel that can be closed still can later.
LEMMA ClosableGrows ==
    ASSUME TypeOK, Control, Next, NEW c, Closable(probed, now, c)
    PROVE  Closable(probed', now', c)
<1>1. PICK o \in 0 .. now : Cardinality(Probes(probed, c, o)) >= ProbesToClose
  BY DEF Closable
<1>2. probed \subseteq probed' /\ IsFiniteSet(probed')
  BY ProbedGrows
<1>3. /\ Cardinality(Probes(probed, c, o)) \in Nat
      /\ Cardinality(Probes(probed', c, o)) \in Nat
      /\ Cardinality(Probes(probed, c, o)) <= Cardinality(Probes(probed', c, o))
  BY <1>2, ProbesGrow
<1>4. o \in 0 .. now'
  BY Growth
<1>5. Cardinality(Probes(probed', c, o)) >= ProbesToClose
  BY <1>1, <1>3, BreakerAssumption
<1> QED
  BY <1>4, <1>5 DEF Closable

\* evaluateBreaker counts no probe and closes no breaker.
LEMMA EvaluateBacked ==
    ASSUME NEW s \in Snapshot, NEW st \in Stats, NEW t \in Nat, NEW P,
           IsFiniteSet(P), NEW c, Backed(P, c, s)
    PROVE  /\ Backed(P, c, evaluateBreaker(s, st, t))
           /\ evaluateBreaker(s, st, t) # s
                => evaluateBreaker(s, st, t).state # "CLOSED"
<1>1. \A o : Cardinality(Probes(P, c, o)) \in Nat
  BY ProbesGrow
<1> QED
  BY <1>1 DEF Backed, Snapshot, evaluateBreaker, openBreaker, halfOpenBreaker

\* recordProbe counts one probe more when the outcome is good, and closes only
\* on the last one it needs.
LEMMA ProbeBacked ==
    ASSUME NEW s \in Snapshot, s.state = "HALF_OPEN", NEW ok \in BOOLEAN,
           NEW t \in Nat, NEW P, NEW Q, P \subseteq Q, IsFiniteSet(Q), NEW c,
           Backed(P, c, s),
           ok => Cardinality(Probes(Q, c, s.openedAt))
                    = Cardinality(Probes(P, c, s.openedAt)) + 1
    PROVE  /\ Backed(Q, c, recordProbe(s, ok, t))
           /\ recordProbe(s, ok, t).state = "CLOSED"
                 => Cardinality(Probes(Q, c, s.openedAt)) >= ProbesToClose
<1> DEFINE n == Cardinality(Probes(P, c, s.openedAt))
           m == Cardinality(Probes(Q, c, s.openedAt))
<1>1. n \in Nat /\ m \in Nat /\ s.probeSuccess \in Nat /\ s.probeSuccess <= n
  BY ProbesGrow DEF Backed, Snapshot
<1>2. CASE ~ ok
  BY <1>2 DEF Backed, recordProbe, openBreaker
<1>3. CASE ok /\ s.probeSuccess + 1 >= ProbesToClose
  <2>1. recordProbe(s, ok, t) = closedBreaker
    BY <1>3 DEF recordProbe
  <2>2. m >= ProbesToClose
    BY <1>1, <1>3, BreakerAssumption
  <2> QED
    BY <2>1, <2>2 DEF Backed, closedBreaker
<1>4. CASE ok /\ ~ (s.probeSuccess + 1 >= ProbesToClose)
  <2>1. recordProbe(s, ok, t) = halfOpenBreaker(s.openedAt, s.probeSuccess + 1)
    BY <1>4 DEF recordProbe
  <2>2. s.probeSuccess + 1 <= m
    BY <1>1, <1>4
  <2> QED
    BY <2>1, <2>2 DEF Backed, halfOpenBreaker
<1> QED
  BY <1>2, <1>3, <1>4

\* What a handler records depends on nothing that another step changes.
LEMMA OutcomeStays ==
    ASSUME TypeOK, Control, Next, NEW h \in Handlers, hpc[h] # "idle",
           UNCHANGED <<event[h], hat[h]>>
    PROVE  OutcomeOf(h)' = OutcomeOf(h) /\ Of(h)' = Of(h)
<1>1. /\ event[h] \in Payouts /\ outcome[event[h]] # "none"
      /\ pc[event[h]] = "answered"
  BY DEF Control
<1>2. ASSUME NEW p \in Payouts, Route(p)
      PROVE  UNCHANGED <<outcome[event[h]], answer[event[h]]>>
  BY <1>1, <1>2, RouteFrame
<1>3. ASSUME NEW p \in Payouts, Publish(p)
      PROVE  UNCHANGED <<outcome[event[h]], answer[event[h]]>>
  BY <1>1, <1>3 DEF Publish, TypeOK, request
<1>4. ASSUME NEW g \in Handlers, Handle(g) PROVE UNCHANGED <<outcome, answer>>
  BY <1>4 DEF Handle, Claim, RecordOutcome, ReadBreaker, Evaluate, Write, WriteProbe,
     ReleaseSlot, HandlerFails, request
<1>5. Tick => UNCHANGED <<outcome, answer>>
  BY DEF Tick, request
<1> QED
  BY <1>2, <1>3, <1>4, <1>5 DEF Next, OutcomeOf, Of

\* Every step keeps Fresh: whoever still has to look works on a claim of its own.
LEMMA FreshStep ==
    ASSUME TypeOK, Control, Claims, Evidence, Fresh, Next
    PROVE  Fresh'
<1>1. ASSUME NEW g \in Handlers, GoodProbe(g)
      PROVE  /\ OutcomeOf(g) \in recorded /\ hpc[g] = "read" /\ hpc'[g] = "writeProbe"
             /\ \A h \in Handlers \ {g} : ~ Handle(h)
  <2>1. hpc[g] = "read" /\ hpc'[g] = "writeProbe"
    BY <1>1 DEF GoodProbe, ReadBreaker, TypeOK
  <2>2. ASSUME NEW h \in Handlers, h # g, Handle(h) PROVE FALSE
    BY <2>1, <2>2 DEF TypeOK, Handle, Claim, RecordOutcome, ReadBreaker, Evaluate,
       Write, WriteProbe, ReleaseSlot, HandlerFails, Leave
  <2> QED
    BY <2>1, <2>2 DEF Evidence, HandlersSound
<1>2. ASSUME NEW x \in probed' PROVE x.outcome \in recorded'
  BY <1>1, <1>2, ProbedStep, Growth DEF Fresh, ProbeOf
<1>3. ASSUME NEW h \in Handlers, NEW x \in probed', hpc'[h] \in {"record", "read"}
      PROVE  x.outcome # OutcomeOf(h)'
  <2>1. CASE x \in probed /\ ~ Claim(h)
    <3>1. /\ hpc[h] \in {"record", "read"} /\ UNCHANGED <<event[h], hat[h]>>
      <4>1. CASE UNCHANGED <<hpc[h], event[h], hat[h], hsnap[h]>>
        BY <1>3, <4>1
      <4>2. CASE Handle(h)
        BY <1>3, <2>1, <4>2 DEF TypeOK, Handle, RecordOutcome, ReadBreaker, Evaluate,
           Write, WriteProbe, ReleaseSlot, HandlerFails, Leave
      <4> QED
        BY <4>1, <4>2, OneHandlerMoves
    <3>2. OutcomeOf(h)' = OutcomeOf(h)
      BY <3>1, OutcomeStays
    <3> QED
      BY <2>1, <3>1, <3>2 DEF Fresh
  <2>2. CASE x \in probed /\ Claim(h)
    <3>1. event'[h] \in Payouts /\ claim(event'[h]) /\ hat'[h] = now
      BY <2>2 DEF TypeOK, Claim
    <3>2. OutcomeOf(h)'.payout = event'[h] /\ OutcomeOf(h)'.at = now
      BY <3>1 DEF OutcomeOf
    <3>3. SUFFICES ASSUME x.outcome.payout = event'[h] PROVE x.outcome.at # now
      BY <3>2
    <3>4. x.outcome \in recorded
      BY <2>2 DEF Fresh
    <3>5. x.outcome.at \in Nat /\ Spent(event'[h], x.outcome.at)
      BY <3>3, <3>4 DEF TypeOK, Record, Claims
    <3>6. x.outcome.at + ProcessedTtl <= now
      BY <3>1, <3>5, ClaimIsApart
    <3> QED
      BY <3>5, <3>6, RoutingAssumption DEF TypeOK
  <2>3. ASSUME NEW g \in Handlers, GoodProbe(g), x = ProbeOf(g)
        PROVE  x.outcome # OutcomeOf(h)'
    <3>1. x.outcome = OutcomeOf(g) /\ h # g
      BY <1>1, <1>3, <2>3 DEF ProbeOf
    <3>2. UNCHANGED <<hpc[h], event[h], hat[h]>>
      BY <1>1, <2>3, <3>1, OneHandlerMoves
    <3>3. OutcomeOf(h)' = OutcomeOf(h)
      BY <1>3, <3>2, OutcomeStays
    <3>4. event[h] = event[g] => Apart(hat[h], hat[g])
      BY <1>1, <1>3, <2>3, <3>1, <3>2 DEF Claims
    <3>5. hat[h] \in Nat /\ hat[g] \in Nat
      BY DEF TypeOK
    <3>6. event[h] = event[g] => hat[h] # hat[g]
      BY <3>4, <3>5, RoutingAssumption DEF Apart
    <3> QED
      BY <3>1, <3>3, <3>6 DEF OutcomeOf
  <2> QED
    BY <1>3, <2>1, <2>2, <2>3, ProbedStep
<1> QED
  BY <1>2, <1>3 DEF Fresh

\* The stored snapshots stay backed.
LEMMA StoreBackedStep ==
    ASSUME TypeOK, Control, ProbesBacked, Next
    PROVE  \A c \in Channels : Backed(probed, c, breaker[c])'
<1> SUFFICES ASSUME NEW c \in Channels
             PROVE  Backed(probed', c, breaker'[c])
  OBVIOUS
<1>1. CASE breaker'[c] = breaker[c]
  BY <1>1, BackedGrows DEF TypeOK, ProbesBacked
<1>2. ASSUME NEW p \in Payouts, RefreshWrite(p)
      PROVE  Backed(probed', c, breaker'[c])
  <2>1. breaker' = [breaker EXCEPT ![First(todo[p])] = view[p][First(todo[p])]]
    BY <1>2 DEF RefreshWrite
  <2>2. breaker'[c] = breaker[c] \/ breaker'[c] = view[p][c]
    BY <2>1 DEF TypeOK
  <2>3. view[p][c] \in Snapshot /\ Backed(probed, c, view[p][c])
    BY DEF TypeOK, ProbesBacked
  <2> QED
    BY <1>1, <2>2, <2>3, BackedGrows
<1>3. ASSUME NEW h \in Handlers, Write(h) \/ WriteProbe(h)
      PROVE  Backed(probed', c, breaker'[c])
  <2>1. hpc[h] # "idle" /\ breaker' = [breaker EXCEPT ![Of(h)] = hsnap[h]]
    BY <1>3 DEF Write, WriteProbe
  <2>2. breaker'[c] = breaker[c] \/ (c = Of(h) /\ breaker'[c] = hsnap[h])
    BY <2>1 DEF TypeOK
  <2>3. hsnap[h] \in Snapshot /\ Backed(probed, Of(h), hsnap[h])
    BY <2>1 DEF TypeOK, ProbesBacked
  <2> QED
    BY <1>1, <2>2, <2>3, BackedGrows
<1>4. ASSUME NEW p \in Payouts, Route(p), ~ RefreshWrite(p) PROVE UNCHANGED breaker
  BY <1>4 DEF Route, Start, ReadStats, ReadBreakers, Degrade, RefreshWriteFails, Select,
     TakeSlot, SlotRefused, SlotFails, Persist, redis
<1>5. ASSUME NEW h \in Handlers, Handle(h), ~ (Write(h) \/ WriteProbe(h))
      PROVE  UNCHANGED breaker
  BY <1>5 DEF Handle, Claim, RecordOutcome, ReadBreaker, Evaluate, ReleaseSlot,
     HandlerFails, redis
<1>6. ASSUME NEW p \in Payouts, Publish(p) PROVE UNCHANGED breaker
  BY <1>6 DEF Publish, redis
<1>7. Tick => UNCHANGED breaker
  BY DEF Tick
<1> QED
  BY <1>1, <1>2, <1>3, <1>4, <1>5, <1>6, <1>7 DEF Next

\* What the requests carry stays backed, and they never have to close a breaker.
LEMMA RequestsBackedStep ==
    ASSUME TypeOK, Control, ProbesBacked, Next
    PROVE  (\A p \in Payouts, c \in Channels :
              /\ Backed(probed, c, view[p][c])
              /\ c \in todo[p] => view[p][c].state # "CLOSED")'
<1> SUFFICES ASSUME NEW p \in Payouts, NEW c \in Channels
             PROVE  /\ Backed(probed', c, view'[p][c])
                    /\ c \in todo'[p] => view'[p][c].state # "CLOSED"
  OBVIOUS
<1>1. /\ view[p][c] \in Snapshot /\ Backed(probed, c, view[p][c])
      /\ c \in todo[p] => view[p][c].state # "CLOSED"
  BY DEF TypeOK, ProbesBacked
<1>2. ASSUME view'[p] = view[p], todo'[p] \subseteq todo[p]
      PROVE  /\ Backed(probed', c, view'[p][c])
             /\ c \in todo'[p] => view'[p][c].state # "CLOSED"
  BY <1>1, <1>2, BackedGrows
<1>3. ASSUME NEW end, NEW a, Finish(p, end, a)
      PROVE  /\ Backed(probed', c, view'[p][c])
             /\ c \in todo'[p] => view'[p][c].state # "CLOSED"
  <2>1. todo'[p] = {} /\ view'[p][c] = closedBreaker
    BY <1>3 DEF TypeOK, Finish, NoView
  <2> QED
    BY <2>1, ClosedType DEF Backed
<1>4. ASSUME ReadBreakers(p)
      PROVE  /\ Backed(probed', c, view'[p][c])
             /\ c \in todo'[p] => view'[p][c].state # "CLOSED"
  <2> DEFINE b == breaker[c]
             e == evaluateBreaker(b, stats[p][c], at[p])
  <2>1. /\ view'[p][c] = (IF c \in ids[p] THEN e ELSE closedBreaker)
        /\ c \in todo'[p] => /\ c \in ids[p]
                             /\ view'[p][c].state # b.state \/ view'[p][c].openedAt # b.openedAt
    BY <1>4 DEF TypeOK, ReadBreakers
  <2>2. /\ b \in Snapshot /\ stats[p][c] \in Stats /\ at[p] \in Nat
        /\ Backed(probed, c, b) /\ IsFiniteSet(probed)
    BY DEF TypeOK, ProbesBacked
  <2>3. /\ e \in Snapshot /\ Backed(probed, c, e)
        /\ e # b => e.state # "CLOSED"
    BY <2>2, EvaluateType, EvaluateBacked
  <2>4. Backed(probed', c, view'[p][c])
    BY <2>1, <2>3, BackedGrows, ClosedType DEF Backed
  <2>5. c \in todo'[p] => e # b /\ view'[p][c] = e
    BY <2>1
  <2> QED
    BY <2>3, <2>4, <2>5
<1>5. CASE Route(p)
  <2>1. CASE \E end, a : Finish(p, end, a)
    BY <1>3, <2>1
  <2>2. CASE ~ (\E end, a : Finish(p, end, a)) /\ ~ ReadBreakers(p)
    <3>1. UNCHANGED view /\ todo'[p] \subseteq todo[p]
      BY <1>5, <2>2 DEF TypeOK, Route, Start, ReadStats, Degrade, RefreshWrite,
         RefreshWriteFails, Select, TakeSlot, SlotRefused, SlotFails, Persist, Decide, Reject
    <3> QED
      BY <1>2, <3>1
  <2> QED
    BY <1>4, <2>1, <2>2
<1>6. ASSUME NEW q \in Payouts, Route(q), q # p
      PROVE  UNCHANGED <<view[p], todo[p]>>
  <2>1. /\ UNCHANGED view \/ \E x : view' = [view EXCEPT ![q] = x]
        /\ UNCHANGED todo \/ \E x : todo' = [todo EXCEPT ![q] = x]
    BY <1>6 DEF Route, Start, ReadStats, ReadBreakers, Degrade, RefreshWrite,
       RefreshWriteFails, Select, TakeSlot, SlotRefused, SlotFails, Persist, Decide, Reject,
       Finish
  <2> QED
    BY <1>6, <2>1 DEF TypeOK
<1>7. ASSUME NEW q \in Payouts, Publish(q) PROVE UNCHANGED <<view, todo>>
  BY <1>7 DEF Publish, request
<1>8. ASSUME NEW h \in Handlers, Handle(h) PROVE UNCHANGED <<view, todo>>
  BY <1>8 DEF Handle, Claim, RecordOutcome, ReadBreaker, Evaluate, Write, WriteProbe,
     ReleaseSlot, HandlerFails, request
<1>9. Tick => UNCHANGED <<view, todo>>
  BY DEF Tick, request
<1> QED
  BY <1>2, <1>5, <1>6, <1>7, <1>8, <1>9 DEF Next

\* What the handlers carry stays backed: a good probe adds the outcome of the
\* handler itself, which no count held before.
LEMMA HandlersBackedStep ==
    ASSUME TypeOK, Control, Evidence, Fresh, ProbesBacked, Next
    PROVE  (\A h \in Handlers :
              /\ hpc[h] # "idle" => Backed(probed, Of(h), hsnap[h])
              /\ hpc[h] = "write" => hsnap[h].state # "CLOSED"
              /\ hpc[h] = "writeProbe" /\ hsnap[h].state = "CLOSED"
                    => Closable(probed, now, Of(h)))'
<1> DEFINE Fine(k, s, P, n, c) ==
             /\ k # "idle" => Backed(P, c, s)
             /\ k = "write" => s.state # "CLOSED"
             /\ k = "writeProbe" /\ s.state = "CLOSED" => Closable(P, n, c)
<1>1. SUFFICES ASSUME NEW g \in Handlers, NEW d, d = Of(g)', hpc'[g] # "idle"
               PROVE  Fine(hpc'[g], hsnap'[g], probed', now', d)
  OBVIOUS
<1>2. Fine(hpc[g], hsnap[g], probed, now, Of(g)) /\ hsnap[g] \in Snapshot
  BY DEF TypeOK, ProbesBacked
<1>3. ASSUME hpc[g] # "idle", UNCHANGED <<event[g], hat[g]>>
      PROVE  d = Of(g) /\ d \in Channels
  BY <1>1, <1>3, OutcomeStays, OutcomeType
<1>4. CASE UNCHANGED <<hpc[g], event[g], hat[g], hsnap[g]>>
  <2>1. hpc[g] # "idle" /\ d = Of(g)
    BY <1>1, <1>3, <1>4
  <2>2. Backed(probed', d, hsnap[g])
    BY <1>2, <2>1, BackedGrows
  <2>3. Closable(probed, now, d) => Closable(probed', now', d)
    BY ClosableGrows
  <2> QED
    BY <1>2, <1>4, <2>1, <2>2, <2>3
<1>5. CASE Leave(g)
  BY <1>1, <1>5 DEF Leave, TypeOK
<1>6. CASE Claim(g)
  <2>1. hpc'[g] = "record" /\ hsnap'[g] = closedBreaker
    BY <1>6 DEF TypeOK, Claim, Control
  <2> QED
    BY <2>1, ClosedType DEF Backed
<1>7. CASE RecordOutcome(g)
  <2>1. /\ hpc[g] = "record" /\ hpc'[g] = "read"
        /\ UNCHANGED <<event[g], hat[g], hsnap[g]>>
    BY <1>7 DEF TypeOK, RecordOutcome
  <2>2. Backed(probed', d, hsnap[g])
    BY <1>2, <1>3, <2>1, BackedGrows
  <2> QED
    BY <2>1, <2>2
<1>8. CASE ReadBreaker(g)
  <2> DEFINE ok == outcome[event[g]] = "success"
             b == breaker[d]
  <2>1. hpc[g] = "read" /\ UNCHANGED <<event[g], hat[g]>>
    BY <1>8 DEF ReadBreaker
  <2>2. d = Of(g) /\ d \in Channels
    BY <1>3, <2>1
  <2>3. b \in Snapshot /\ Backed(probed, d, b) /\ hat[g] \in Nat /\ ok \in BOOLEAN
    BY <2>2 DEF TypeOK, ProbesBacked
  <2>4. probed \subseteq probed' /\ IsFiniteSet(probed') /\ IsFiniteSet(probed)
    BY ProbedGrows DEF TypeOK
  <2>5. CASE b.state # "HALF_OPEN"
    <3>1. hpc'[g] = "evaluate" /\ hsnap'[g] = b
      BY <1>8, <2>2, <2>5 DEF ReadBreaker, TypeOK
    <3> QED
      BY <2>5, <3>1 DEF Backed
  <2>6. CASE b.state = "HALF_OPEN"
    <3> DEFINE next == recordProbe(b, ok, hat[g])
    <3>1. hpc'[g] = "writeProbe" /\ hsnap'[g] = next
      BY <1>8, <2>2, <2>6 DEF ReadBreaker, TypeOK
    <3>2. ASSUME ok
          PROVE  Cardinality(Probes(probed', d, b.openedAt))
                    = Cardinality(Probes(probed, d, b.openedAt)) + 1
      <4>1. GoodProbe(g)
        BY <1>8, <2>2, <2>6, <3>2 DEF GoodProbe
      <4>2. probed' = probed \union {ProbeOf(g)}
        <5>1. ASSUME NEW h \in Handlers, GoodProbe(h) PROVE h = g
          BY <2>1, <5>1, <1>8 DEF GoodProbe, ReadBreaker, TypeOK
        <5> QED
          BY <4>1, <5>1, ProbedStep
      <4>3. ProbeOf(g) \notin probed
        BY <2>1 DEF Fresh, ProbeOf
      <4>4. ProbeOf(g).outcome.channel = d /\ ProbeOf(g).opened = b.openedAt
        BY <2>2 DEF ProbeOf, OutcomeOf
      <4> QED
        BY <2>4, <4>2, <4>3, <4>4, ProbesAdd
    <3>3. /\ Backed(probed', d, next)
          /\ next.state = "CLOSED"
                => Cardinality(Probes(probed', d, b.openedAt)) >= ProbesToClose
      <4> HIDE DEF b, ok
      <4> QED
        BY <2>3, <2>4, <2>6, <3>2, ProbeBacked
    <3>4. b.openedAt \in 0 .. now'
      <4>1. now - b.openedAt >= OpenMs
        BY <2>2, <2>6 DEF Evidence, StoreSound, Sound
      <4> QED
        BY <2>3, <4>1, Growth, BreakerAssumption DEF Snapshot, TypeOK
    <3>5. next.state = "CLOSED" => Closable(probed', now', d)
      BY <3>3, <3>4 DEF Closable
    <3> QED
      BY <3>1, <3>3, <3>5
  <2> QED
    BY <2>5, <2>6
<1>9. CASE Evaluate(g) /\ ~ Leave(g)
  <2> DEFINE w == ReadWindow(Of(g), hat[g])
             e == evaluateBreaker(hsnap[g], w, hat[g])
  <2>1. /\ hpc[g] = "evaluate" /\ UNCHANGED <<event[g], hat[g]>>
        /\ hpc'[g] = "write" /\ hsnap'[g] = e /\ e # hsnap[g]
    BY <1>9 DEF Evaluate, TypeOK
  <2>2. Of(g) = d /\ w \in Stats /\ hat[g] \in Nat
    BY <1>3, <2>1, ReadWindowType DEF TypeOK
  <2>3. Backed(probed, d, hsnap[g]) /\ IsFiniteSet(probed)
    BY <1>2, <2>1, <2>2 DEF TypeOK
  <2>4. e \in Snapshot /\ Backed(probed, d, e) /\ e.state # "CLOSED"
    <3> HIDE DEF w
    <3> QED
      BY <1>2, <2>1, <2>2, <2>3, EvaluateType, EvaluateBacked
  <2>5. Backed(probed', d, e)
    BY <2>4, BackedGrows
  <2> QED
    BY <2>1, <2>4, <2>5
<1>10. CASE WriteProbe(g)
  <2>1. hpc'[g] = "release" /\ hsnap'[g] = closedBreaker
    BY <1>10 DEF WriteProbe, TypeOK
  <2> QED
    BY <2>1, ClosedType DEF Backed
<1>11. CASE Handle(g)
  BY <1>5, <1>6, <1>7, <1>8, <1>9, <1>10, <1>11
     DEF Handle, Write, ReleaseSlot, HandlerFails
<1> QED
  BY <1>4, <1>11, OneHandlerMoves

\* The stuttering step keeps the counts backed and the outcomes fresh.
LEMMA StutterBacked ==
    ASSUME Fresh, ProbesBacked, UNCHANGED vars
    PROVE  Fresh' /\ ProbesBacked'
BY DEF Fresh, OutcomeOf, ProbesBacked, Of, vars, redis, request, handling

\* Init satisfies it.
LEMMA BackedInit == Init => Fresh /\ ProbesBacked
BY ClosedType DEF Init, Fresh, ProbesBacked, Backed, NoView

\* Only the last good probe of a channel closes its breaker.
LEMMA ClosingStep ==
    ASSUME TypeOK, Control, ProbesBacked, Next, NEW c \in Channels,
           breaker[c].state # "CLOSED", breaker'[c].state = "CLOSED"
    PROVE  Closable(probed, now, c)
<1>1. ASSUME NEW p \in Payouts, RefreshWrite(p) PROVE FALSE
  <2> DEFINE d == First(todo[p])
  <2>1. d \in todo[p] /\ breaker' = [breaker EXCEPT ![d] = view[p][d]]
    BY <1>1, FirstIsMember DEF TypeOK, RefreshWrite
  <2>2. d \in Channels /\ view[p][d].state # "CLOSED"
    BY <2>1 DEF TypeOK, ProbesBacked
  <2> HIDE DEF d
  <2> QED
    BY <2>1, <2>2 DEF TypeOK
<1>2. ASSUME NEW h \in Handlers, Write(h) PROVE FALSE
  BY <1>2 DEF TypeOK, ProbesBacked, Write
<1>3. ASSUME NEW h \in Handlers, WriteProbe(h)
      PROVE  Closable(probed, now, c)
  <2>1. c = Of(h) /\ hsnap[h].state = "CLOSED" /\ hpc[h] = "writeProbe"
    BY <1>3 DEF TypeOK, WriteProbe
  <2> QED
    BY <2>1 DEF ProbesBacked
<1>4. ASSUME NEW p \in Payouts, Route(p), ~ RefreshWrite(p) PROVE UNCHANGED breaker
  BY <1>4 DEF Route, Start, ReadStats, ReadBreakers, Degrade, RefreshWriteFails, Select,
     TakeSlot, SlotRefused, SlotFails, Persist, redis
<1>5. ASSUME NEW h \in Handlers, Handle(h), ~ (Write(h) \/ WriteProbe(h))
      PROVE  UNCHANGED breaker
  BY <1>5 DEF Handle, Claim, RecordOutcome, ReadBreaker, Evaluate, ReleaseSlot,
     HandlerFails, redis
<1>6. ASSUME NEW p \in Payouts, Publish(p) PROVE UNCHANGED breaker
  BY <1>6 DEF Publish, redis
<1>7. Tick => UNCHANGED breaker
  BY DEF Tick
<1> QED
  BY <1>1, <1>2, <1>3, <1>4, <1>5, <1>6, <1>7 DEF Next

\* A breaker closes only when ProbesToClose different good outcomes of its
\* channel were looked at while it was HALF_OPEN after one and the same opening,
\* however applyToBreaker and refreshBreakers overwrite each other's snapshots:
\* recordProbe never counts one outcome twice, nor one of an earlier trial.
THEOREM ClosesAreProven == Spec => ClosesOnGoodProbes
<1> DEFINE Inv == TypeOK /\ Control /\ Claims /\ Evidence /\ Fresh /\ ProbesBacked
           Holds == \A c \in Channels :
                      breaker[c].state # "CLOSED" /\ breaker'[c].state = "CLOSED"
                        => \E o \in 0 .. now :
                              Cardinality(Probes(probed, c, o)) >= ProbesToClose
<1>1. Init => Inv
  BY TypeInit, ControlInit, EvidenceInit, BackedInit DEF Init, Claims
<1>2. ASSUME Inv, UNCHANGED vars PROVE Inv'
  BY <1>2, StutterClaims, StutterControl, StutterEvidence, StutterBacked
<1>3. ASSUME Inv, Next PROVE Inv'
  <2>1. TypeOK' /\ Control' /\ Claims'
    BY <1>3, TypeStep, ControlStep, ClaimsStep
  <2>2. Evidence'
    BY <1>3, StoreStep, RequestsStep, HandlersStep DEF Evidence
  <2>3. Fresh'
    BY <1>3, FreshStep
  <2>4. ProbesBacked'
    BY <1>3, StoreBackedStep, RequestsBackedStep, HandlersBackedStep DEF ProbesBacked
  <2> QED
    BY <2>1, <2>2, <2>3, <2>4
<1>4. Inv /\ [Next]_vars => [Holds]_vars
  BY ClosingStep DEF Closable
<1> QED
  BY <1>1, <1>2, <1>3, <1>4, PTL DEF Spec, ClosesOnGoodProbes
=============================================================================
