------------------------- MODULE ChannelCacheProofs -------------------------
(***************************************************************************)
(* The proof that a list of channels is never older than the TTL and the   *)
(* lag of the replica, for any instances, readers, corridors, TTL and lag, *)
(* and however often the registry changes.                                 *)
(***************************************************************************)
EXTENDS ChannelCache, TLAPS

\* These rows were the whole list of a corridor at some time after t.
HeldAfter(list, t) ==
    \E T \in InForceAfter(t), k \in Corridors : list = listChannels(T, k)

VersionsInv ==
    /\ versions \in Seq([table : SUBSET Row, from : Int])
    /\ Len(versions) > 0

LocalInv ==
    /\ pc \in [Readers \union Operators ->
                  {"idle", "query", "fill", "answered", "clear"}]
    /\ corridor \in [Readers -> Corridors]
    /\ DOMAIN rows = Readers /\ DOMAIN cache = Instances

TimeInv ==
    /\ now \in Nat
    /\ since \in [Readers -> Int] /\ \A x \in Readers : since[x] <= now

\* What the replica has not applied is not older than MaxLag.
ReplicaInv ==
    /\ replica \in 1 .. Len(versions)
    /\ \A v \in DOMAIN versions : v > replica => now <= versions[v].from + MaxLag

\* A list in memory was held after the moment before it was asked for, less the
\* lag, and so was one that is about to go there; `at` is the time of the request,
\* never a later one.
CacheInv ==
    \A i \in Instances : cache[i] # Empty =>
        /\ cache[i].at \in Int /\ cache[i].at <= now
        /\ HeldAfter(cache[i].rows, cache[i].at - MaxLag - 1)

FillInv ==
    \A x \in Readers :
        pc[x] = "fill" => HeldAfter(rows[x], since[x] - MaxLag - 1)

AnswerInv ==
    \A x \in Readers :
        pc[x] = "answered" => HeldAfter(rows[x], since[x] - CacheTtl - MaxLag)

IInv ==
    /\ VersionsInv /\ LocalInv /\ TimeInv /\ ReplicaInv
    /\ CacheInv /\ FillInv /\ AnswerInv

LEMMA VersionsFacts ==
    ASSUME VersionsInv
    PROVE  /\ Len(versions) \in Nat \ {0} /\ DOMAIN versions = 1 .. Len(versions)
           /\ \A i \in 1 .. Len(versions) :
                  versions[i].from \in Int /\ versions[i].table \in SUBSET Row
<1> DEFINE Version == [table : SUBSET Row, from : Int]
<1>1. versions \in Seq(Version) /\ Len(versions) > 0
  BY DEF VersionsInv
<1> HIDE DEF Version
<1>2. /\ Len(versions) \in Nat \ {0} /\ DOMAIN versions = 1 .. Len(versions)
      /\ \A i \in 1 .. Len(versions) : versions[i] \in Version
  BY <1>1
<1>3. \A v \in Version : v.from \in Int /\ v.table \in SUBSET Row
  BY DEF Version
<1> QED  BY <1>2, <1>3

\* A list held after u was held after every earlier t.
LEMMA HeldEarlier ==
    ASSUME VersionsInv, NEW t \in Int, NEW u \in Int, t <= u, NEW list,
           HeldAfter(list, u)
    PROVE  HeldAfter(list, t)
<1>1. ASSUME NEW v \in DOMAIN versions, v # Len(versions)
      PROVE  versions[v + 1].from \in Int
  <2>1. v + 1 \in 1 .. Len(versions)
    BY <1>1, VersionsFacts
  <2> QED  BY <2>1, VersionsFacts
<1>2. InForceAfter(u) \subseteq InForceAfter(t)
  BY <1>1 DEF InForceAfter
<1> QED  BY <1>2 DEF HeldAfter

\* A change of the table now leaves in force what was in force after a moment
\* before now.
LEMMA HeldBeforeChange ==
    ASSUME VersionsInv, now \in Int, NEW T, NEW t \in Int, t < now,
           versions' = Append(versions, [table |-> T, from |-> now]),
           NEW list, HeldAfter(list, t)
    PROVE  HeldAfter(list, t)'
<1>1. ASSUME NEW v \in DOMAIN versions,
             v = Len(versions) \/ versions[v + 1].from > t
      PROVE  /\ v \in DOMAIN versions'
             /\ versions'[v].table = versions[v].table
             /\ v = Len(versions') \/ versions'[v + 1].from > t
  <2>1. /\ Len(versions') = Len(versions) + 1
        /\ versions'[Len(versions) + 1] = [table |-> T, from |-> now]
        /\ \A i \in 1 .. Len(versions) : versions'[i] = versions[i]
        /\ DOMAIN versions' = 1 .. Len(versions')
    BY DEF VersionsInv
  <2> /\ Len(versions) \in Nat \ {0} /\ DOMAIN versions = 1 .. Len(versions)
    BY VersionsFacts
  <2>2. v \in 1 .. Len(versions) /\ versions'[v] = versions[v] /\ v \in DOMAIN versions'
    BY <2>1
  <2>3. CASE v = Len(versions)
    <3>1. versions'[v + 1] = [table |-> T, from |-> now]
      BY <2>1, <2>3
    <3>2. versions'[v + 1].from = now
      BY <3>1
    <3> QED  BY <2>2, <3>2
  <2>4. CASE v # Len(versions)
    <3>1. v + 1 \in 1 .. Len(versions)
      BY <2>2, <2>4
    <3> QED  BY <1>1, <2>1, <2>2, <2>4, <3>1
  <2> QED  BY <2>3, <2>4
<1>2. InForceAfter(t) \subseteq InForceAfter(t)'
  BY <1>1 DEF InForceAfter
<1> QED  BY <1>2 DEF HeldAfter

\* What the replica holds was in force less than MaxLag ago.
LEMMA ReplicaIsRecent ==
    ASSUME IInv, NEW k \in Corridors, NEW t \in Int, t < now - MaxLag
    PROVE  HeldAfter(listChannels(versions[replica].table, k), t)
<1>1. /\ Len(versions) \in Nat \ {0} /\ DOMAIN versions = 1 .. Len(versions)
      /\ replica \in 1 .. Len(versions) /\ now \in Nat /\ MaxLag \in Nat
  BY VersionsFacts, CacheAssumption DEF IInv, ReplicaInv, TimeInv
<1>2. ASSUME replica # Len(versions) PROVE versions[replica + 1].from > t
  <2> DEFINE n == Len(versions)
  <2>1. replica + 1 \in 1 .. n /\ replica + 1 > replica
    <3>1. n \in Nat /\ replica \in 1 .. n /\ replica # n
      BY <1>1, <1>2
    <3> HIDE DEF n
    <3> QED  BY <3>1
  <2>2. versions[replica + 1].from \in Int
    BY <1>1, <2>1, VersionsFacts DEF IInv
  <2>3. now <= versions[replica + 1].from + MaxLag
    BY <1>1, <2>1 DEF IInv, ReplicaInv
  <2> QED  BY <1>1, <2>2, <2>3
<1>3. versions[replica].table \in InForceAfter(t)
  BY <1>1, <1>2 DEF InForceAfter
<1> QED  BY <1>3 DEF HeldAfter

LEMMA InitIInv == Init => IInv
<1> SUFFICES ASSUME Init  PROVE IInv
  OBVIOUS
<1>1. PICK T \in SUBSET Row : versions = <<[table |-> T, from |-> 0]>>
  <2> DEFINE All == {[id |-> c, corridor |-> DefaultCorridor, enabled |-> TRUE] :
                        c \in Channels}
  <2>1. ASSUME NEW c \in Channels
        PROVE  [id |-> c, corridor |-> DefaultCorridor, enabled |-> TRUE] \in Row
    BY CacheAssumption DEF Row
  <2>2. All \in SUBSET Row /\ {} \in SUBSET Row
    BY <2>1
  <2> QED  BY <2>2 DEF Init
<1>2. VersionsInv
  <2>1. [table |-> T, from |-> 0] \in [table : SUBSET Row, from : Int]
    OBVIOUS
  <2> QED  BY <1>1, <2>1 DEF VersionsInv
<1>3. LocalInv /\ TimeInv /\ ReplicaInv
  BY <1>1, CacheAssumption DEF Init, LocalInv, TimeInv, ReplicaInv
<1>4. CacheInv /\ FillInv /\ AnswerInv
  BY DEF Init, CacheInv, FillInv, AnswerInv, Readers
<1> QED  BY <1>2, <1>3, <1>4 DEF IInv

LEMMA SameVersions ==
    ASSUME versions' = versions, NEW list, NEW t
    PROVE  HeldAfter(list, t)' <=> HeldAfter(list, t)
BY DEF HeldAfter, InForceAfter

\* A step of reader x: what the others have read stays what it was.
LEMMA CallStep ==
    ASSUME IInv, NEW x \in Readers, NEW k \in Corridors, Call(x, k)
    PROVE  IInv'
<1> USE DEF IInv
<1>1. versions' = versions /\ now' = now /\ cache' = cache /\ DOMAIN rows' = Readers
  BY DEF Call, LocalInv
<1>2. VersionsInv' /\ CacheInv' /\ ReplicaInv'
  BY <1>1, SameVersions DEF VersionsInv, CacheInv, ReplicaInv, Call
<1>3. LocalInv' /\ TimeInv'
  BY <1>1 DEF Call, LocalInv, TimeInv
<1>4. \A y \in Readers \ {x} : pc'[y] = pc[y] /\ since'[y] = since[y] /\ rows'[y] = rows[y]
  BY DEF Call, LocalInv, TimeInv
<1>5. CASE Fresh(Home[x], now)
  <2>1. pc'[x] = "answered" /\ since'[x] = now /\ rows'[x] = cache[Home[x]].rows
    BY <1>5 DEF Call, LocalInv, TimeInv
  <2>2. HeldAfter(cache[Home[x]].rows, now - CacheTtl - MaxLag)
    <3>1. Home[x] \in Instances /\ CacheTtl \in Nat \ {0} /\ MaxLag \in Nat
      BY CacheAssumption
    <3>2. /\ cache[Home[x]].at \in Int /\ now - CacheTtl <= cache[Home[x]].at - 1
          /\ HeldAfter(cache[Home[x]].rows, cache[Home[x]].at - MaxLag - 1)
      BY <1>5, <3>1 DEF Fresh, CacheInv, TimeInv
    <3> QED  BY <3>1, <3>2, HeldEarlier DEF TimeInv
  <2>3. FillInv'
    BY <1>1, <1>4, <2>1, SameVersions DEF FillInv
  <2>4. AnswerInv'
    BY <1>1, <1>4, <2>1, <2>2, SameVersions DEF AnswerInv
  <2> QED  BY <1>2, <1>3, <2>3, <2>4
<1>6. CASE ~Fresh(Home[x], now)
  <2>1. pc'[x] = "query"
    BY <1>6 DEF Call, LocalInv
  <2>2. FillInv'
    BY <1>1, <1>4, <2>1, SameVersions DEF FillInv
  <2>3. AnswerInv'
    BY <1>1, <1>4, <2>1, SameVersions DEF AnswerInv
  <2> QED  BY <1>2, <1>3, <2>2, <2>3
<1> QED  BY <1>5, <1>6

LEMMA QueryStep ==
    ASSUME IInv, NEW x \in Readers, Query(x)
    PROVE  IInv'
<1> USE DEF IInv
<1>1. versions' = versions /\ now' = now /\ cache' = cache /\ since' = since
  BY DEF Query
<1>2. VersionsInv' /\ CacheInv' /\ ReplicaInv'
  BY <1>1, SameVersions DEF VersionsInv, CacheInv, ReplicaInv, Query
<1>3. LocalInv' /\ TimeInv'
  BY <1>1 DEF Query, LocalInv, TimeInv
<1>4. /\ \A y \in Readers \ {x} : pc'[y] = pc[y] /\ rows'[y] = rows[y]
      /\ pc'[x] = "fill" /\ rows'[x] = listChannels(versions[replica].table, corridor[x])
  BY DEF Query, LocalInv
<1>5. HeldAfter(rows'[x], since[x] - MaxLag - 1)
  <2>1. /\ since[x] - MaxLag - 1 \in Int /\ since[x] - MaxLag - 1 < now - MaxLag
        /\ corridor[x] \in Corridors
    BY CacheAssumption DEF TimeInv, LocalInv
  <2> QED  BY <1>4, <2>1, ReplicaIsRecent
<1>6. FillInv'
  BY <1>1, <1>4, <1>5, SameVersions DEF FillInv
<1>7. AnswerInv'
  BY <1>1, <1>4, SameVersions DEF AnswerInv
<1> QED  BY <1>2, <1>3, <1>6, <1>7

LEMMA FillStep ==
    ASSUME IInv, NEW x \in Readers, Fill(x)
    PROVE  IInv'
<1> USE DEF IInv
<1>1. versions' = versions /\ now' = now /\ since' = since /\ rows' = rows
  BY DEF Fill
<1>2. VersionsInv' /\ LocalInv' /\ TimeInv' /\ ReplicaInv'
  BY <1>1 DEF Fill, VersionsInv, LocalInv, TimeInv, ReplicaInv
<1>3. /\ \A y \in Readers \ {x} : pc'[y] = pc[y]
      /\ pc[x] = "fill" /\ pc'[x] = "answered"
  BY DEF Fill, LocalInv
<1>4. HeldAfter(rows[x], since[x] - MaxLag - 1) /\ since[x] \in Int /\ since[x] <= now
  BY <1>3 DEF FillInv, TimeInv
<1>5. CacheInv'
  <2>1. /\ \A i \in Instances \ {Home[x]} : cache'[i] = cache[i]
        /\ cache'[Home[x]] = [at |-> since[x], rows |-> rows[x]]
    BY CacheAssumption DEF Fill, LocalInv
  <2> QED  BY <1>1, <1>4, <2>1, SameVersions DEF CacheInv
<1>6. FillInv'
  BY <1>1, <1>3, SameVersions DEF FillInv
<1>7. HeldAfter(rows[x], since[x] - CacheTtl - MaxLag)
  BY <1>4, CacheAssumption, HeldEarlier
<1>8. AnswerInv'
  BY <1>1, <1>3, <1>7, SameVersions DEF AnswerInv
<1> QED  BY <1>2, <1>5, <1>6, <1>8

LEMMA EndStep ==
    ASSUME IInv, NEW x \in Readers, QueryFails(x) \/ Return(x)
    PROVE  IInv'
<1> USE DEF IInv
<1>1. versions' = versions /\ now' = now /\ cache' = cache
  BY DEF QueryFails, Return
<1>2. VersionsInv' /\ CacheInv' /\ ReplicaInv'
  BY <1>1, SameVersions DEF VersionsInv, CacheInv, ReplicaInv, QueryFails, Return
<1>3. LocalInv' /\ TimeInv'
  BY <1>1, CacheAssumption DEF QueryFails, Return, LocalInv, TimeInv
<1>4. /\ \A y \in Readers \ {x} :
             pc'[y] = pc[y] /\ since'[y] = since[y] /\ rows'[y] = rows[y]
      /\ pc'[x] = "idle"
  BY DEF QueryFails, Return, LocalInv, TimeInv
<1>5. FillInv'
  BY <1>1, <1>4, SameVersions DEF FillInv
<1>6. AnswerInv'
  BY <1>1, <1>4, SameVersions DEF AnswerInv
<1> QED  BY <1>2, <1>3, <1>5, <1>6

\* A change of the registry: what was held some time ago still was.
LEMMA ChangeStep ==
    ASSUME IInv, NEW o \in Operators, NEW T \in SUBSET Row, Change(o, T)
    PROVE  IInv'
<1> USE DEF IInv
<1>1. /\ now' = now /\ cache' = cache /\ since' = since /\ rows' = rows
      /\ versions' = Append(versions, [table |-> T, from |-> now])
      /\ \A x \in Readers : pc'[x] = pc[x] \/ pc'[x] = "clear"
  BY DEF Change, LocalInv
<1>2. LocalInv' /\ TimeInv'
  BY <1>1 DEF Change, LocalInv, TimeInv
<1>3. VersionsInv'
  <2> DEFINE Version == [table : SUBSET Row, from : Int]
  <2>1. [table |-> T, from |-> now] \in Version
    BY DEF TimeInv
  <2>2. versions \in Seq(Version) /\ Len(versions) > 0
    BY DEF VersionsInv
  <2> HIDE DEF Version
  <2>3. versions' \in Seq(Version) /\ Len(versions') > 0
    BY <1>1, <2>1, <2>2
  <2> QED  BY <2>3 DEF VersionsInv, Version
<1>8. ReplicaInv'
  <2>1. /\ Len(versions') = Len(versions) + 1 /\ DOMAIN versions' = 1 .. Len(versions')
        /\ versions'[Len(versions) + 1].from = now
        /\ \A v \in 1 .. Len(versions) : versions'[v] = versions[v]
    BY <1>1 DEF VersionsInv
  <2>2. Len(versions) \in Nat /\ DOMAIN versions = 1 .. Len(versions) /\ replica' = replica
    BY VersionsFacts DEF Change
  <2>3. now <= now + MaxLag
    BY CacheAssumption DEF TimeInv
  <2> QED  BY <1>1, <2>1, <2>2, <2>3 DEF ReplicaInv
<1>4. ASSUME NEW list, NEW t \in Int, t < now, HeldAfter(list, t)
      PROVE  HeldAfter(list, t)'
  BY <1>1, <1>4, HeldBeforeChange DEF TimeInv
<1>5. CacheInv'
  <2>1. ASSUME NEW i \in Instances, cache[i] # Empty
        PROVE  /\ cache[i].at \in Int /\ cache[i].at <= now
               /\ HeldAfter(cache[i].rows, cache[i].at - MaxLag - 1)'
    <3>1. /\ cache[i].at - MaxLag - 1 \in Int /\ cache[i].at - MaxLag - 1 < now
          /\ HeldAfter(cache[i].rows, cache[i].at - MaxLag - 1)
          /\ cache[i].at \in Int /\ cache[i].at <= now
      BY <2>1, CacheAssumption DEF CacheInv, TimeInv
    <3>2. HeldAfter(cache[i].rows, cache[i].at - MaxLag - 1)'
      BY <1>1, <3>1, HeldBeforeChange DEF TimeInv
    <3> QED  BY <3>1, <3>2
  <2> QED  BY <1>1, <2>1 DEF CacheInv
<1>6. FillInv'
  <2>1. ASSUME NEW x \in Readers
        PROVE  since[x] - MaxLag - 1 \in Int /\ since[x] - MaxLag - 1 < now
    BY CacheAssumption DEF TimeInv
  <2> QED  BY <1>1, <1>4, <2>1 DEF FillInv
<1>7. AnswerInv'
  BY <1>1, <1>4, CacheAssumption DEF AnswerInv, TimeInv
<1> QED  BY <1>2, <1>3, <1>5, <1>6, <1>7, <1>8

LEMMA OperatorStep ==
    ASSUME IInv, NEW o \in Operators,
           \/ setEnabled(o) \/ upsertChannel(o) \/ deleteAllChannels(o)
           \/ clearChannelCache(o)
    PROVE  IInv'
<1>1. table \in SUBSET Row
  BY VersionsFacts DEF IInv, table, Last
<1>2. CASE setEnabled(o)
  <2>1. PICK r \in table, enabled \in BOOLEAN :
            Change(o, (table \ {r}) \union {[r EXCEPT !.enabled = enabled]})
    BY <1>2 DEF setEnabled
  <2>2. [r EXCEPT !.enabled = enabled] \in Row
    BY <1>1, <2>1 DEF Row
  <2> QED  BY <1>1, <2>1, <2>2, ChangeStep
<1>3. CASE upsertChannel(o)
  BY <1>1, <1>3, ChangeStep DEF upsertChannel
<1>4. CASE deleteAllChannels(o)
  BY <1>4, ChangeStep DEF deleteAllChannels
<1>5. CASE clearChannelCache(o)
  <2> USE DEF IInv
  <2>1. /\ now' = now /\ versions' = versions /\ since' = since /\ rows' = rows
        /\ \A x \in Readers : pc'[x] = pc[x] \/ pc'[x] = "idle"
        /\ \A i \in Instances : cache'[i] = cache[i] \/ cache'[i] = Empty
    BY <1>5 DEF clearChannelCache, LocalInv
  <2>2. VersionsInv' /\ TimeInv' /\ ReplicaInv'
    BY <1>5, <2>1 DEF VersionsInv, TimeInv, ReplicaInv, clearChannelCache
  <2>3. LocalInv'
    BY <1>5 DEF clearChannelCache, LocalInv
  <2>4. CacheInv' /\ FillInv' /\ AnswerInv'
    BY <2>1, SameVersions DEF CacheInv, FillInv, AnswerInv
  <2> QED  BY <2>2, <2>3, <2>4
<1> QED  BY <1>2, <1>3, <1>4, <1>5

LEMMA TickStep == IInv /\ Tick => IInv'
<1> SUFFICES ASSUME IInv, Tick  PROVE IInv'
  OBVIOUS
<1> USE DEF IInv
<1>1. /\ now' = now + 1 /\ versions' = versions /\ cache' = cache /\ replica' = replica
      /\ pc' = pc /\ since' = since /\ corridor' = corridor /\ rows' = rows
  BY DEF Tick
<1>2. VersionsInv' /\ LocalInv' /\ TimeInv'
  BY <1>1 DEF VersionsInv, LocalInv, TimeInv
<1>3. CacheInv'
  BY <1>1, SameVersions DEF CacheInv, TimeInv
<1>4. FillInv' /\ AnswerInv'
  BY <1>1, SameVersions DEF FillInv, AnswerInv
<1>5. ReplicaInv'
  <2>1. \A v \in DOMAIN versions :
            v > replica => now < versions[v].from + MaxLag /\ versions[v].from \in Int
    BY VersionsFacts DEF Tick
  <2> QED  BY <1>1, <2>1, CacheAssumption DEF ReplicaInv, TimeInv
<1> QED  BY <1>2, <1>3, <1>4, <1>5

\* The replica catches up by one change, and nothing else changes.
LEMMA ReplicateStep == IInv /\ Replicate => IInv'
<1> SUFFICES ASSUME IInv, Replicate  PROVE IInv'
  OBVIOUS
<1> USE DEF IInv
<1>1. /\ now' = now /\ versions' = versions /\ cache' = cache
      /\ pc' = pc /\ since' = since /\ corridor' = corridor /\ rows' = rows
  BY DEF Replicate
<1>2. VersionsInv' /\ LocalInv' /\ TimeInv'
  BY <1>1 DEF VersionsInv, LocalInv, TimeInv
<1>3. ReplicaInv'
  <2>1. replica < Len(versions) /\ replica' = replica + 1 /\ Len(versions) \in Nat
    BY VersionsFacts DEF Replicate
  <2> QED  BY <1>1, <2>1, VersionsFacts DEF ReplicaInv
<1>4. CacheInv' /\ FillInv' /\ AnswerInv'
  BY <1>1, SameVersions DEF CacheInv, FillInv, AnswerInv
<1> QED  BY <1>2, <1>3, <1>4

LEMMA UnchangedStep == IInv /\ UNCHANGED vars => IInv'
<1> SUFFICES ASSUME IInv, UNCHANGED vars  PROVE IInv'
  OBVIOUS
<1>1. /\ now' = now /\ versions' = versions /\ cache' = cache /\ replica' = replica
      /\ pc' = pc /\ since' = since /\ corridor' = corridor /\ rows' = rows
  BY DEF vars
<1> QED
  BY <1>1, SameVersions
  DEF IInv, VersionsInv, LocalInv, TimeInv, ReplicaInv, CacheInv, FillInv,
      AnswerInv

LEMMA Invariance == Spec => []IInv
<1>1. IInv /\ [Next]_vars => IInv'
  <2> SUFFICES ASSUME IInv, [Next]_vars  PROVE IInv'
    OBVIOUS
  <2>1. ASSUME NEW x \in Readers, RequestList(x) \/ knownChannel(x)  PROVE IInv'
    BY <2>1, CacheAssumption, CallStep DEF RequestList, knownChannel
  <2>2. ASSUME NEW x \in Readers,
               Query(x) \/ QueryFails(x) \/ Fill(x) \/ Return(x)
        PROVE  IInv'
    BY <2>2, QueryStep, FillStep, EndStep
  <2>3. ASSUME NEW o \in Operators,
               \/ setEnabled(o) \/ upsertChannel(o) \/ deleteAllChannels(o)
               \/ clearChannelCache(o)
        PROVE  IInv'
    BY <2>3, OperatorStep
  <2>4. Requests \subseteq Readers /\ Lookups \subseteq Readers
    BY DEF Readers
  <2> QED
    BY <2>1, <2>2, <2>3, <2>4, ReplicateStep, TickStep, UnchangedStep DEF Next
<1> QED  BY InitIInv, <1>1, PTL DEF Spec

\* A change is seen CACHE_TTL_MS and the lag of the replica later at the latest,
\* in every instance, whatever the queries under way put back into memory after
\* it was cleared (listChannelsCached, listChannels, clearChannelCache).
THEOREM ListsAreRecent == Spec => []StaleAtMostTtlAndLag
<1>1. IInv => StaleAtMostTtlAndLag
  BY DEF IInv, AnswerInv, StaleAtMostTtlAndLag, HeldAfter
<1> QED  BY Invariance, <1>1, PTL
=============================================================================
