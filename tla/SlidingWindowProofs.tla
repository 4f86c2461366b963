------------------------ MODULE SlidingWindowProofs ------------------------
(***************************************************************************)
(* Proofs about SlidingWindow, for any window, bucket, second and delay    *)
(* that the assumption allows and any channels, outcomes, writers and      *)
(* readers: old keys go, the buckets implement the ideal window, the chart *)
(* is exact, and the lists of latencies are the newest.                    *)
(***************************************************************************)
EXTENDS SlidingWindow, FiniteSetTheorems, WellFoundedInduction, TLAPS

\* A set of natural numbers has a least one: with it, induction is the search
\* for the least counterexample.
LEMMA LeastNat ==
    ASSUME NEW S \in SUBSET Nat, S # {}
    PROVE  \E m \in S : \A k \in S : m <= k
<1> DEFINE R == OpToRel(<, Nat)
<1>1. IsWellFoundedOn(R, Nat)
  BY NatLessThanWellFounded, Zenon
<1>2. \A x, y \in Nat : x < y => <<x, y>> \in R
  BY DEF OpToRel
<1> HIDE DEF R
<1>3. PICK m \in S : \A k \in S : <<k, m>> \notin R
  BY <1>1, WFMin
<1>4. ASSUME NEW k \in S PROVE m <= k
  <2>1. k \in Nat /\ m \in Nat
    OBVIOUS
  <2>2. ~ (k < m)
    BY <1>2, <1>3, <2>1
  <2> QED BY <2>1, <2>2
<1> QED BY <1>4

\* Rounding up adds less than the unit.
LEMMA RoundsUp ==
    ASSUME NEW a \in Nat, NEW b \in Nat \ {0}
    PROVE  CeilDiv(a, b) * b \in a .. a + b - 1
BY DEF CeilDiv

\* A time lies in its bucket.
LEMMA TimeInBucket ==
    ASSUME NEW t \in Nat
    PROVE  /\ bucketIdAt(t) \in Nat
           /\ t \in bucketIdAt(t) * BucketMs .. (bucketIdAt(t) + 1) * BucketMs - 1
BY WindowAssumption DEF bucketIdAt

LEMMA TtlBounds ==
    bucketTtl \in WindowMs * 2 .. WindowMs * 2 + SecondMs - 1 /\ bucketTtl > 0
BY WindowAssumption, RoundsUp DEF bucketTtl

(***************************************************************************)
(* The invariant.                                                          *)
(***************************************************************************)
\* A writer's time is at most MaxDelay old.
WriterInv ==
    /\ now \in Nat
    /\ DOMAIN writing = Writers
    /\ \A w \in Writers : writing[w] # Idle =>
          /\ writing[w].channel \in Channels
          /\ writing[w].at \in Nat /\ writing[w].at <= now
          /\ now - writing[w].at <= MaxDelay

\* The last moment at which a key of bucket b may expire.
LastExpiry(b) == (b + 1) * BucketMs - 1 + MaxDelay + bucketTtl

\* The keys of one channel are alive, and each was last written while its bucket
\* could still be written.
KeysInv(keys) ==
    \A b \in DOMAIN keys :
        /\ b \in Nat
        /\ keys[b].expires \in now + 1 .. LastExpiry(b)

\* Both keys of a bucket are written together, so they expire together.
PairInv ==
    \A c \in Channels :
        /\ DOMAIN latency[c] = DOMAIN counters[c]
        /\ \A b \in DOMAIN counters[c] : latency[c][b].expires = counters[c][b].expires

StoreInv ==
    /\ DOMAIN counters = Channels /\ DOMAIN latency = Channels
    /\ \A c \in Channels : KeysInv(counters[c])
    /\ PairInv

IInv == WriterInv /\ StoreInv

\* What is written now for a time that is MaxDelay old at most expires in time.
LEMMA ExpiryBound ==
    ASSUME NEW at \in Nat, NEW n \in Nat, at <= n, n - at <= MaxDelay
    PROVE  n + bucketTtl \in n + 1 .. LastExpiry(bucketIdAt(at))
<1> DEFINE end == (bucketIdAt(at) + 1) * BucketMs
<1>1. bucketIdAt(at) \in Nat /\ at \in bucketIdAt(at) * BucketMs .. end - 1
  BY TimeInBucket
<1>2. end \in Int /\ at <= end - 1
  BY <1>1, WindowAssumption
<1>3. bucketTtl \in Nat \ {0} /\ MaxDelay \in Nat
  BY TtlBounds, WindowAssumption
<1>4. LastExpiry(bucketIdAt(at)) = end - 1 + MaxDelay + bucketTtl
  BY DEF LastExpiry
<1> HIDE DEF end
<1> QED  BY <1>2, <1>3, <1>4

LEMMA InitIInv == Init => IInv
BY WindowAssumption DEF Init, IInv, WriterInv, StoreInv, KeysInv, PairInv

\* Any step that leaves the clock and the keys alone.
LEMMA KeysUntouched ==
    ASSUME StoreInv, UNCHANGED <<now, counters, latency>>
    PROVE  StoreInv'
BY DEF StoreInv, KeysInv, PairInv, LastExpiry

LEMMA BeginStep ==
    ASSUME IInv, NEW w \in Writers, Begin(w)
    PROVE  IInv'
<1>1. WriterInv'
  BY WindowAssumption DEF Begin, IInv, WriterInv
<1> QED  BY <1>1, KeysUntouched DEF Begin, IInv

LEMMA RecordStep ==
    ASSUME IInv, NEW w \in Writers, Record(w)
    PROVE  IInv'
<1> DEFINE e == writing[w]
           b == bucketIdAt(e.at)
           hash == Counted(CountersAt(e.channel, b), e.success)
           list == Pushed(ListAt(e.channel, b), e.outcome)
<1>1. /\ e # Idle /\ now' = now
      /\ counters' = [counters EXCEPT ![e.channel] = Put(@, b, hash)]
      /\ latency' = [latency EXCEPT ![e.channel] = Put(@, b, list)]
      /\ writing' = [writing EXCEPT ![w] = Idle]
  BY DEF Record
<1>2. /\ e.channel \in Channels /\ e.at \in Nat /\ e.at <= now
      /\ now \in Nat /\ now - e.at <= MaxDelay
  BY <1>1 DEF IInv, WriterInv
<1>3. hash.expires = now + bucketTtl /\ list.expires = now + bucketTtl
  BY DEF Counted, Pushed
<1>4. b \in Nat /\ now + bucketTtl \in now + 1 .. LastExpiry(b)
  BY <1>2, TimeInBucket, ExpiryBound
<1> HIDE DEF b, hash, list, e
<1>5. WriterInv'
  BY <1>1 DEF IInv, WriterInv
<1>6. DOMAIN counters' = Channels /\ DOMAIN latency' = Channels
  BY <1>1 DEF IInv, StoreInv
<1>7. ASSUME NEW c \in Channels
      PROVE  /\ KeysInv(counters[c])'
             /\ DOMAIN latency'[c] = DOMAIN counters'[c]
             /\ \A k \in DOMAIN counters'[c] :
                    latency'[c][k].expires = counters'[c][k].expires
  <2>1. CASE c = e.channel
    <3>1. counters'[c] = Put(counters[c], b, hash) /\ latency'[c] = Put(latency[c], b, list)
      BY <1>1, <1>2, <2>1 DEF IInv, StoreInv
    <3>2. /\ DOMAIN counters'[c] = DOMAIN counters[c] \union {b}
          /\ DOMAIN latency'[c] = DOMAIN latency[c] \union {b}
          /\ counters'[c][b] = hash /\ latency'[c][b] = list
          /\ \A k \in DOMAIN counters[c] \ {b} : counters'[c][k] = counters[c][k]
          /\ \A k \in DOMAIN latency[c] \ {b} : latency'[c][k] = latency[c][k]
      BY <3>1 DEF Put
    <3>3. /\ KeysInv(counters[c]) /\ DOMAIN latency[c] = DOMAIN counters[c]
          /\ \A k \in DOMAIN counters[c] : latency[c][k].expires = counters[c][k].expires
      BY DEF IInv, StoreInv, PairInv
    <3>4. \A k \in DOMAIN counters'[c] :
             /\ k \in Nat /\ counters'[c][k].expires \in now + 1 .. LastExpiry(k)
             /\ latency'[c][k].expires = counters'[c][k].expires
      BY <1>3, <1>4, <3>2, <3>3 DEF KeysInv
    <3> QED  BY <1>1, <3>2, <3>3, <3>4 DEF KeysInv, LastExpiry
  <2>2. CASE c # e.channel
    <3>1. counters'[c] = counters[c] /\ latency'[c] = latency[c]
      BY <1>1, <2>2 DEF IInv, StoreInv
    <3> QED  BY <1>1, <3>1 DEF IInv, StoreInv, KeysInv, PairInv, LastExpiry
  <2> QED  BY <2>1, <2>2
<1> QED  BY <1>5, <1>6, <1>7 DEF IInv, StoreInv, PairInv

LEMMA TickStep ==
    ASSUME IInv, Tick
    PROVE  IInv'
<1>1. /\ now' = now + 1 /\ writing' = writing
      /\ counters' = [c \in Channels |-> Alive(counters[c], now')]
      /\ latency' = [c \in Channels |-> Alive(latency[c], now')]
  BY DEF Tick
<1>2. WriterInv'
  BY <1>1, WindowAssumption DEF Tick, IInv, WriterInv
<1>3. ASSUME NEW c \in Channels
      PROVE  /\ KeysInv(counters[c])'
             /\ DOMAIN latency'[c] = DOMAIN counters'[c]
             /\ \A k \in DOMAIN counters'[c] :
                    latency'[c][k].expires = counters'[c][k].expires
  <2>1. /\ counters'[c] = Alive(counters[c], now')
        /\ latency'[c] = Alive(latency[c], now')
    BY <1>1
  <2>2. KeysInv(counters[c]) /\ now \in Nat
    BY DEF IInv, StoreInv, WriterInv
  <2>3. KeysInv(counters[c])'
    BY <1>1, <2>1, <2>2, TtlBounds, WindowAssumption DEF KeysInv, Alive, Restrict, LastExpiry
  <2>4. /\ DOMAIN latency[c] = DOMAIN counters[c]
        /\ \A k \in DOMAIN counters[c] : latency[c][k].expires = counters[c][k].expires
    BY DEF IInv, StoreInv, PairInv
  <2> QED  BY <2>1, <2>3, <2>4 DEF Alive, Restrict
<1> QED  BY <1>1, <1>2, <1>3 DEF IInv, StoreInv, PairInv

LEMMA Invariance == Spec => []IInv
<1>1. IInv /\ [Next]_vars => IInv'
  <2> SUFFICES ASSUME IInv, [Next]_vars  PROVE IInv'
    OBVIOUS
  <2>1. ASSUME NEW r \in Readers, Ask(r) \/ Read(r)  PROVE IInv'
    <3>1. UNCHANGED <<now, counters, latency, writing>>
      BY <2>1 DEF Ask, Read
    <3> QED  BY <3>1, KeysUntouched DEF IInv, WriterInv
  <2>2. CASE UNCHANGED vars
    BY <2>2, KeysUntouched DEF vars, IInv, WriterInv
  <2> QED  BY <2>1, <2>2, BeginStep, RecordStep, TickStep DEF Next
<1> QED  BY InitIInv, <1>1, PTL DEF Spec

\* No key of the window is left behind: two windows, rounded up to a second,
\* after the last outcome that could be recorded in a bucket its hash and its
\* list are gone (WindowStore.record, bucketTtlSeconds).
THEOREM OldKeysGo == Spec => []OldBucketsGo
<1>1. ASSUME IInv, NEW c \in Channels, NEW b \in DOMAIN counters[c] \union DOMAIN latency[c]
      PROVE  now < (b + 1) * BucketMs + MaxDelay + 2 * WindowMs + SecondMs
  <2>1. b \in Nat /\ counters[c][b].expires \in now + 1 .. LastExpiry(b) /\ now \in Nat
    BY <1>1 DEF IInv, StoreInv, PairInv, KeysInv, WriterInv
  <2> DEFINE end == (b + 1) * BucketMs
  <2>2. end \in Int /\ LastExpiry(b) = end - 1 + MaxDelay + bucketTtl
    BY <2>1, WindowAssumption DEF LastExpiry
  <2>3. bucketTtl \in Int /\ bucketTtl <= WindowMs * 2 + SecondMs - 1
    BY TtlBounds, WindowAssumption
  <2> HIDE DEF end
  <2>4. now < end + MaxDelay + 2 * WindowMs + SecondMs
    BY <2>1, <2>2, <2>3, WindowAssumption
  <2> QED  BY <2>4 DEF end
<1>2. IInv => OldBucketsGo
  BY <1>1 DEF OldBucketsGo
<1> QED  BY Invariance, <1>2, PTL

(***************************************************************************)
(* Sums.                                                                   *)
(***************************************************************************)
\* SumOf adds up: its partial sums are any function that starts at 0 and grows
\* by each element in turn.
LEMMA SumIs ==
    ASSUME NEW seq, NEW n \in Nat, Len(seq) = n,
           NEW f, f = [k \in 0 .. n |-> IF k = 0 THEN 0 ELSE f[k - 1] + seq[k]]
    PROVE  SumOf(seq) = f[n]
<1> DEFINE Is(g) == g = [k \in 0 .. n |-> IF k = 0 THEN 0 ELSE g[k - 1] + seq[k]]
           sum == CHOOSE g : Is(g)
<1>1. Is(sum)
  <2>1. Is(f)
    OBVIOUS
  <2> HIDE DEF Is
  <2> QED BY <2>1
<1>2. SumOf(seq) = sum[n]
  BY DEF SumOf
<1> HIDE DEF sum
<1> DEFINE wrong == {k \in 0 .. n : sum[k] # f[k]}
<1>3. ASSUME wrong # {} PROVE FALSE
  <2>1. PICK m \in wrong : \A k \in wrong : m <= k
    <3>1. wrong \in SUBSET Nat
      OBVIOUS
    <3> HIDE DEF wrong
    <3> QED BY <1>3, <3>1, LeastNat
  <2>2. m # 0 /\ m \in 0 .. n
    BY <1>1, <2>1
  <2>3. m - 1 \in 0 .. n /\ m - 1 \notin wrong
    BY <2>1, <2>2
  <2>4. sum[m - 1] = f[m - 1]
    BY <2>3
  <2>5. sum[m] = sum[m - 1] + seq[m] /\ f[m] = f[m - 1] + seq[m]
    BY <1>1, <2>2
  <2> QED BY <2>1, <2>4, <2>5
<1> QED BY <1>2, <1>3

(***************************************************************************)
(* What the hashes count.                                                  *)
(***************************************************************************)
Entry == [outcome : Outcomes, channel : Channels, success : BOOLEAN, at : 0 .. MaxTime]

\* An outcome is recorded once.
LogInv ==
    /\ now \in 0 .. MaxTime
    /\ log \in Seq(Entry) /\ IsFiniteSet(ToSet(log))
    /\ \A w \in Writers : writing[w] # Idle =>
          /\ writing[w] \in Entry
          /\ \A e \in ToSet(log) : e.outcome # writing[w].outcome
          /\ \A v \in Writers \ {w} : writing[v].outcome # writing[w].outcome

\* The good, or the failed, outcomes of channel c recorded in bucket b.
Of(c, b, good) ==
    {e \in ToSet(log) : e.channel = c /\ e.success = good /\ bucketIdAt(e.at) = b}

\* A hash counts every outcome of its bucket: it outlives a read of any window
\* that holds the bucket, and so was not lost between two of them.
CountInv ==
    \A c \in Channels, b \in Int :
        /\ b \in DOMAIN counters[c] =>
              /\ counters[c][b].success = Cardinality(Of(c, b, TRUE))
              /\ counters[c][b].failure = Cardinality(Of(c, b, FALSE))
              /\ counters[c][b].expires >= b * BucketMs + bucketTtl
        /\ b \notin DOMAIN counters[c] /\ now < b * BucketMs + bucketTtl
              => Recorded(c, b) = {}

LEMMA WindowSize ==
    /\ bucketCount \in Nat \ {0} /\ bucketCount = CeilDiv(WindowMs, BucketMs)
    /\ bucketCount * BucketMs \in WindowMs .. WindowMs + BucketMs - 1
<1>1. CeilDiv(WindowMs, BucketMs) * BucketMs \in WindowMs .. WindowMs + BucketMs - 1
  BY RoundsUp, WindowAssumption
<1>2. CeilDiv(WindowMs, BucketMs) \in Nat \ {0}
  BY WindowAssumption DEF CeilDiv
<1> QED
  BY <1>1, <1>2 DEF bucketCount

\* A bucket of the window that ends at t, at most MaxDelay ago, is not expired,
\* when its key was written at its beginning.
LEMMA WindowIsKept ==
    ASSUME NEW t \in Int, NEW n \in Int, t <= n, n - t <= MaxDelay,
           NEW b \in Int, b > bucketIdAt(t) - bucketCount
    PROVE  n < b * BucketMs + bucketTtl
<1> DEFINE q == bucketIdAt(t)
<1>1. q \in Int /\ q * BucketMs >= t - BucketMs + 1
  BY WindowAssumption DEF bucketIdAt
<1>2. /\ bucketCount \in Int /\ bucketCount * BucketMs \in Int
      /\ bucketCount * BucketMs <= WindowMs + BucketMs - 1
  BY WindowSize, WindowAssumption
<1>3. b * BucketMs \in Int /\ q * BucketMs \in Int /\ BucketMs \in Nat \ {0}
  BY <1>1, WindowAssumption
<1> HIDE DEF q
<1>4. b * BucketMs >= q * BucketMs - bucketCount * BucketMs + BucketMs
  <2>1. b - q + bucketCount >= 1
    BY <1>1, <1>2 DEF q
  <2>2. (b - q + bucketCount) * BucketMs >= BucketMs
    BY <1>1, <1>2, <1>3, <2>1
  <2>3. (b - q + bucketCount) * BucketMs = b * BucketMs - q * BucketMs + bucketCount * BucketMs
    BY <1>1, <1>2, <1>3
  <2> QED
    BY <1>2, <1>3, <2>2, <2>3
<1>5. bucketTtl \in Int /\ bucketTtl >= WindowMs * 2
  BY TtlBounds, WindowAssumption
<1> DEFINE bB == b * BucketMs
           qB == q * BucketMs
           nB == bucketCount * BucketMs
<1>6. /\ bB \in Int /\ qB \in Int /\ nB \in Int
      /\ bB >= qB - nB + BucketMs /\ qB >= t - BucketMs + 1 /\ nB <= WindowMs + BucketMs - 1
  BY <1>1, <1>2, <1>3, <1>4
<1> HIDE DEF bB, qB, nB
<1>7. n < bB + bucketTtl
  BY <1>5, <1>6, WindowAssumption
<1> QED
  BY <1>7 DEF bB

LEMMA AppendedSet ==
    ASSUME NEW S, NEW s \in Seq(S), NEW e
    PROVE  ToSet(Append(s, e)) = ToSet(s) \union {e}
<1>1. /\ DOMAIN Append(s, e) = 1 .. Len(s) + 1 /\ DOMAIN s = 1 .. Len(s)
      /\ \A i \in 1 .. Len(s) : Append(s, e)[i] = s[i]
      /\ Append(s, e)[Len(s) + 1] = e /\ Len(s) \in Nat
  OBVIOUS
<1>2. 1 .. Len(s) + 1 = 1 .. Len(s) \union {Len(s) + 1}
  BY <1>1
<1> QED
  BY <1>1, <1>2 DEF ToSet

LEMMA LogStep ==
    ASSUME IInv, LogInv, [Next]_vars
    PROVE  LogInv'
<1> USE DEF LogInv, IInv, WriterInv
<1>1. CASE UNCHANGED <<writing, log>> /\ now' \in 0 .. MaxTime
  BY <1>1
<1>2. ASSUME NEW w \in Writers, Begin(w)
      PROVE  LogInv'
  <2>1. PICK o \in Outcomes, c \in Channels, success \in BOOLEAN :
           /\ \A e \in ToSet(log) \union {writing[v] : v \in Writers} : e.outcome # o
           /\ writing' = [writing EXCEPT ![w] = [outcome |-> o, channel |-> c,
                                                 success |-> success, at |-> now]]
    BY <1>2 DEF Begin
  <2>2. UNCHANGED <<now, log>>
    BY <1>2 DEF Begin
  <2>3. writing'[w] \in Entry /\ writing'[w].outcome = o
    BY <2>1 DEF Entry
  <2> QED
    BY <2>1, <2>2, <2>3
<1>3. ASSUME NEW w \in Writers, Record(w)
      PROVE  LogInv'
  <2>1. /\ writing[w] # Idle /\ now' = now
        /\ log' = Append(log, writing[w]) /\ writing' = [writing EXCEPT ![w] = Idle]
    BY <1>3 DEF Record
  <2>2. ToSet(log') = ToSet(log) \union {writing[w]}
    BY <2>1, AppendedSet
  <2>3. log' \in Seq(Entry)
    BY <2>1
  <2>4. IsFiniteSet(ToSet(log'))
    <3>1. IsFiniteSet(ToSet(log) \union {writing[w]})
      BY FS_AddElement
    <3> QED
      BY <2>2, <3>1
  <2>5. ASSUME NEW v \in Writers, writing'[v] # Idle
        PROVE  /\ writing'[v] \in Entry
               /\ \A e \in ToSet(log') : e.outcome # writing'[v].outcome
               /\ \A u \in Writers \ {v} : writing'[u].outcome # writing'[v].outcome
    <3>1. v # w /\ writing'[v] = writing[v]
      BY <2>1, <2>5
    <3>2. writing[v].outcome # NoOutcome
      BY <2>5, <3>1, WindowAssumption DEF Entry
    <3>3. \A u \in Writers \ {v} : writing'[u].outcome # writing'[v].outcome
      BY <2>1, <2>5, <3>1, <3>2 DEF Idle
    <3> QED
      BY <2>1, <2>2, <2>5, <3>1, <3>3
  <2> QED
    BY <2>1, <2>3, <2>4, <2>5
<1>4. ASSUME NEW r \in Readers, Ask(r) \/ Read(r)
      PROVE  LogInv'
  BY <1>1, <1>4 DEF Ask, Read
<1>5. CASE Tick
  BY <1>1, <1>5, WindowAssumption DEF Tick
<1>6. CASE UNCHANGED vars
  BY <1>1, <1>6 DEF vars
<1> QED
  BY <1>2, <1>3, <1>4, <1>5, <1>6 DEF Next

\* Where the hash of a bucket lives or need not, it tells what was recorded.
LEMMA CountersAreTrue ==
    ASSUME LogInv, CountInv, NEW c \in Channels, NEW b \in Int,
           now < b * BucketMs + bucketTtl
    PROVE  /\ CountersAt(c, b).success = Cardinality(Of(c, b, TRUE))
           /\ CountersAt(c, b).failure = Cardinality(Of(c, b, FALSE))
<1>1. CASE b \in DOMAIN counters[c]
  BY <1>1 DEF CountInv, CountersAt
<1>2. CASE b \notin DOMAIN counters[c]
  <2>1. Recorded(c, b) = {}
    BY <1>2 DEF CountInv
  <2>2. Of(c, b, TRUE) = {} /\ Of(c, b, FALSE) = {}
    BY <2>1 DEF Of, Recorded, ToSet
  <2> QED
    BY <1>2, <2>2, FS_EmptySet DEF CountersAt, NoCounters
<1> QED
  BY <1>1, <1>2

LEMMA OfIsFinite ==
    ASSUME LogInv, NEW c, NEW b, NEW good
    PROVE  IsFiniteSet(Of(c, b, good)) /\ Cardinality(Of(c, b, good)) \in Nat
<1>1. Of(c, b, good) \subseteq ToSet(log)
  BY DEF Of
<1> QED
  BY <1>1, FS_Subset, FS_CardinalityType DEF LogInv

\* What a new outcome adds to the log, by places and by outcomes.
LEMMA PlacesGrow ==
    ASSUME LogInv, NEW w \in Writers, Record(w), NEW c, NEW k
    PROVE  LET b == bucketIdAt(writing[w].at)
           IN  /\ ~ (c = writing[w].channel /\ k = b) => Recorded(c, k)' = Recorded(c, k)
               /\ c = writing[w].channel /\ k = b
                     => Recorded(c, k)' = Recorded(c, k) \union {Len(log) + 1}
<1> DEFINE e == writing[w]
           b == bucketIdAt(e.at)
<1>1. log' = Append(log, e) /\ log \in Seq(Entry)
  BY DEF Record, LogInv
<1>2. /\ DOMAIN log' = 1 .. Len(log) + 1 /\ DOMAIN log = 1 .. Len(log) /\ Len(log) \in Nat
      /\ \A i \in 1 .. Len(log) : log'[i] = log[i]
      /\ log'[Len(log) + 1] = e
  BY <1>1
<1> HIDE DEF e
<1>3. Recorded(c, k)' = {i \in 1 .. Len(log) + 1 : log'[i].channel = c
                                                     /\ bucketIdAt(log'[i].at) = k}
  BY <1>2 DEF Recorded
<1>4. ~ (c = e.channel /\ k = b) => Recorded(c, k)' = Recorded(c, k)
  BY <1>2, <1>3 DEF Recorded
<1>5. c = e.channel /\ k = b => Recorded(c, k)' = Recorded(c, k) \union {Len(log) + 1}
  BY <1>2, <1>3 DEF Recorded
<1> QED
  BY <1>4, <1>5 DEF e

LEMMA OutcomesGrow ==
    ASSUME LogInv, NEW w \in Writers, Record(w), NEW c, NEW k, NEW good \in BOOLEAN
    PROVE  LET e == writing[w]
               same == c = e.channel /\ k = bucketIdAt(e.at) /\ good = e.success
           IN  /\ same => Of(c, k, good)' = Of(c, k, good) \union {e}
               /\ ~ same => Of(c, k, good)' = Of(c, k, good)
               /\ e \notin ToSet(log)
<1> DEFINE e == writing[w]
<1>1. e # Idle /\ log' = Append(log, e) /\ e \in Entry
  BY DEF Record, LogInv
<1>2. ToSet(log') = ToSet(log) \union {e} /\ e \notin ToSet(log)
  BY <1>1, AppendedSet DEF LogInv
<1> HIDE DEF e
<1>3. c = e.channel /\ k = bucketIdAt(e.at) /\ good = e.success
         => Of(c, k, good)' = Of(c, k, good) \union {e}
  BY <1>2 DEF Of
<1>4. ~ (c = e.channel /\ k = bucketIdAt(e.at) /\ good = e.success)
         => Of(c, k, good)' = Of(c, k, good)
  BY <1>2 DEF Of
<1> QED
  BY <1>2, <1>3, <1>4 DEF e

LEMMA CountStep ==
    ASSUME IInv, LogInv, CountInv, [Next]_vars
    PROVE  CountInv'
<1> DEFINE CountOf(c, b) ==
        /\ b \in DOMAIN counters[c] =>
              /\ counters[c][b].success = Cardinality(Of(c, b, TRUE))
              /\ counters[c][b].failure = Cardinality(Of(c, b, FALSE))
              /\ counters[c][b].expires >= b * BucketMs + bucketTtl
        /\ b \notin DOMAIN counters[c] /\ now < b * BucketMs + bucketTtl
              => Recorded(c, b) = {}
<1>1. CASE UNCHANGED <<now, counters, log>>
  BY <1>1 DEF CountInv, Of, Recorded
<1>2. ASSUME NEW w \in Writers, Record(w), NEW c \in Channels, NEW k \in Int
      PROVE  CountOf(c, k)'
  <2> DEFINE e == writing[w]
             b == bucketIdAt(e.at)
             hash == Counted(CountersAt(e.channel, b), e.success)
  <2>1. /\ now' = now
        /\ counters' = [counters EXCEPT ![e.channel] = Put(@, b, hash)]
    BY <1>2 DEF Record
  <2>2. /\ e.channel \in Channels /\ e.at \in Nat /\ e.at <= now
        /\ now \in Nat /\ now - e.at <= MaxDelay /\ e.success \in BOOLEAN
    BY <1>2 DEF IInv, WriterInv, LogInv, Entry, Record
  <2>3. DOMAIN counters = Channels
    BY DEF IInv, StoreInv
  <2>4. ASSUME NEW good \in BOOLEAN
        PROVE  /\ ~ (c = e.channel /\ k = b /\ good = e.success)
                     => Of(c, k, good)' = Of(c, k, good)
               /\ c = e.channel /\ k = b /\ good = e.success
                     => Of(c, k, good)' = Of(c, k, good) \union {e}
               /\ e \notin ToSet(log)
    BY <1>2, OutcomesGrow
  <2>10. ~ (c = e.channel /\ k = b) => Recorded(c, k)' = Recorded(c, k)
    BY <1>2, PlacesGrow
  <2>5. CASE ~ (c = e.channel /\ k = b)
    <3>1. /\ k \in DOMAIN counters'[c] <=> k \in DOMAIN counters[c]
          /\ k \in DOMAIN counters[c] => counters'[c][k] = counters[c][k]
      BY <2>1, <2>3, <2>5 DEF Put
    <3>2. UNCHANGED <<Recorded(c, k), Of(c, k, TRUE), Of(c, k, FALSE)>>
      BY <2>4, <2>5, <2>10
    <3> QED
      BY <2>1, <3>1, <3>2 DEF CountInv
  <2>6. CASE c = e.channel /\ k = b
    <3>1. k \in DOMAIN counters'[c] /\ counters'[c][k] = hash
      BY <2>1, <2>3, <2>6 DEF Put
    <3>2. b \in Nat /\ e.at >= b * BucketMs
      BY <2>2, TimeInBucket
    <3>3. now < b * BucketMs + bucketTtl
      <4>1. b > bucketIdAt(e.at) - bucketCount
        BY <3>2, WindowSize
      <4> QED
        BY <2>2, <3>2, <4>1, WindowIsKept
    <3>4. /\ CountersAt(c, k).success = Cardinality(Of(c, k, TRUE))
          /\ CountersAt(c, k).failure = Cardinality(Of(c, k, FALSE))
      BY <2>6, <3>2, <3>3, CountersAreTrue
    <3>5. ASSUME NEW good \in BOOLEAN
          PROVE  /\ IsFiniteSet(Of(c, k, good)) /\ e \notin Of(c, k, good)
                 /\ Cardinality(Of(c, k, good)) \in Nat
      <4>1. e \notin Of(c, k, good)
        BY <2>4 DEF Of
      <4> QED
        BY <4>1, OfIsFinite
    <3>6. ASSUME NEW good \in BOOLEAN
          PROVE  Cardinality(Of(c, k, good) \union {e}) = Cardinality(Of(c, k, good)) + 1
      BY <3>5, FS_AddElement
    <3>7. hash.expires >= k * BucketMs + bucketTtl
      <4>1. k * BucketMs \in Int /\ bucketTtl \in Int
        BY WindowAssumption, TtlBounds
      <4> QED
        BY <2>2, <2>6, <3>2, <4>1 DEF Counted
    <3>10. /\ Cardinality(Of(c, k, TRUE)) \in Nat /\ Cardinality(Of(c, k, FALSE)) \in Nat
           /\ Cardinality(Of(c, k, TRUE) \union {e}) = Cardinality(Of(c, k, TRUE)) + 1
           /\ Cardinality(Of(c, k, FALSE) \union {e}) = Cardinality(Of(c, k, FALSE)) + 1
      BY <3>5, <3>6, Zenon
    <3>11. /\ Cardinality(Of(c, k, TRUE)) + 0 = Cardinality(Of(c, k, TRUE))
           /\ Cardinality(Of(c, k, FALSE)) + 0 = Cardinality(Of(c, k, FALSE))
      <4>1. \A n \in Nat : n + 0 = n
        OBVIOUS
      <4> QED
        BY <3>10, <4>1, Zenon
    <3> SUFFICES /\ hash.success = Cardinality(Of(c, k, TRUE))'
                 /\ hash.failure = Cardinality(Of(c, k, FALSE))'
      BY <3>1, <3>7
    <3>8. CASE e.success = TRUE
      <4>1. /\ hash.success = CountersAt(c, k).success + 1
            /\ hash.failure = CountersAt(c, k).failure + 0
        BY <2>6, <3>8 DEF Counted
      <4>2. Of(c, k, FALSE)' = Of(c, k, FALSE) /\ Of(c, k, TRUE)' = Of(c, k, TRUE) \union {e}
        BY <2>4, <2>6, <3>8
      <4>3. /\ Cardinality(Of(c, k, TRUE))' = Cardinality(Of(c, k, TRUE) \union {e})
            /\ Cardinality(Of(c, k, FALSE))' = Cardinality(Of(c, k, FALSE))
        BY <4>2, Zenon
      <4>4. /\ hash.success = Cardinality(Of(c, k, TRUE)) + 1
            /\ hash.failure = Cardinality(Of(c, k, FALSE))
        BY <3>4, <3>11, <4>1, Zenon
      <4> QED
        BY <3>10, <4>3, <4>4, Zenon
    <3>9. CASE e.success = FALSE
      <4>1. /\ hash.success = CountersAt(c, k).success + 0
            /\ hash.failure = CountersAt(c, k).failure + 1
        BY <2>6, <3>9 DEF Counted
      <4>2. Of(c, k, TRUE)' = Of(c, k, TRUE) /\ Of(c, k, FALSE)' = Of(c, k, FALSE) \union {e}
        BY <2>4, <2>6, <3>9
      <4>3. /\ Cardinality(Of(c, k, FALSE))' = Cardinality(Of(c, k, FALSE) \union {e})
            /\ Cardinality(Of(c, k, TRUE))' = Cardinality(Of(c, k, TRUE))
        BY <4>2, Zenon
      <4>4. /\ hash.failure = Cardinality(Of(c, k, FALSE)) + 1
            /\ hash.success = Cardinality(Of(c, k, TRUE))
        BY <3>4, <3>11, <4>1, Zenon
      <4> QED
        BY <3>10, <4>3, <4>4, Zenon
    <3> QED
      BY <2>2, <3>8, <3>9
  <2> QED
    BY <2>5, <2>6
<1>3. ASSUME Tick, NEW c \in Channels, NEW k \in Int
      PROVE  CountOf(c, k)'
  <2>1. /\ now' = now + 1 /\ log' = log
        /\ counters'[c] = Alive(counters[c], now')
    BY <1>3 DEF Tick
  <2>2. CountOf(c, k)
    BY DEF CountInv
  <2>3. UNCHANGED <<Recorded(c, k), Of(c, k, TRUE), Of(c, k, FALSE)>>
    BY <2>1 DEF Recorded, Of
  <2>4. now \in Int /\ k * BucketMs + bucketTtl \in Int
    BY WindowAssumption, TtlBounds DEF LogInv
  <2>5. DOMAIN counters'[c] = {b \in DOMAIN counters[c] : counters[c][b].expires > now'}
    BY <2>1 DEF Alive, Restrict
  <2>6. ASSUME k \in DOMAIN counters'[c] PROVE counters'[c][k] = counters[c][k]
    BY <2>1, <2>5, <2>6 DEF Alive, Restrict
  <2> DEFINE last == k * BucketMs + bucketTtl
  <2>7. ASSUME k \in DOMAIN counters[c], now' < last
        PROVE  k \in DOMAIN counters'[c]
    <3>1. KeysInv(counters[c])
      BY DEF IInv, StoreInv
    <3>2. counters[c][k].expires \in now + 1 .. LastExpiry(k)
      BY <2>7, <3>1 DEF KeysInv
    <3>3. counters[c][k].expires \in Int /\ counters[c][k].expires >= last /\ last \in Int
      <4>1. LastExpiry(k) \in Int
        BY WindowAssumption, TtlBounds DEF LastExpiry
      <4>2. counters[c][k].expires >= last
        BY <2>2, <2>7
      <4> QED
        BY <2>4, <3>2, <4>1, <4>2
    <3> HIDE DEF last
    <3>4. counters[c][k].expires > now'
      BY <2>1, <2>4, <2>7, <3>3
    <3> QED
      BY <2>5, <2>7, <3>4
  <2>8. k \in DOMAIN counters'[c] => CountOf(c, k)'
    BY <2>1, <2>2, <2>3, <2>5, <2>6
  <2>9. k \notin DOMAIN counters'[c] => CountOf(c, k)'
    <3>1. ASSUME k \notin DOMAIN counters'[c], now' < last
          PROVE  Recorded(c, k) = {}
      <4>1. now < last
        BY <2>1, <2>4, <3>1
      <4> QED
        BY <2>2, <2>7, <3>1, <4>1
    <3> QED
      BY <2>3, <3>1
  <2> QED
    BY <2>8, <2>9
<1>4. ASSUME NEW r \in Readers, Ask(r) \/ Read(r)
      PROVE  CountInv'
  BY <1>1, <1>4 DEF Ask, Read
<1>5. ASSUME NEW w \in Writers, Begin(w)
      PROVE  CountInv'
  BY <1>1, <1>5 DEF Begin
<1>6. CASE UNCHANGED vars
  BY <1>1, <1>6 DEF vars
<1> QED
  BY <1>2, <1>3, <1>4, <1>5, <1>6 DEF Next, CountInv

(***************************************************************************)
(* What a read is answered.                                                *)
(***************************************************************************)
\* A read is at most MaxDelay old when it is sent.
ReaderInv ==
    /\ DOMAIN asked = Readers /\ DOMAIN result = Readers
    /\ \A r \in Readers : asked[r] # Nothing =>
          /\ asked[r] \in [channels : Pipelines, at : 0 .. MaxTime]
          /\ asked[r].at <= now /\ now - asked[r].at <= MaxDelay

LEMMA ReaderStep ==
    ASSUME LogInv, ReaderInv, [Next]_vars
    PROVE  ReaderInv'
<1> USE DEF ReaderInv, LogInv
<1>1. ASSUME NEW r \in Readers, Ask(r)
      PROVE  ReaderInv'
  <2>1. PICK channels \in Pipelines :
           asked' = [asked EXCEPT ![r] = [channels |-> channels, at |-> now]]
    BY <1>1 DEF Ask
  <2>2. UNCHANGED now /\ DOMAIN result' = DOMAIN result
    BY <1>1 DEF Ask
  <2> QED
    BY <2>1, <2>2, WindowAssumption
<1>2. ASSUME NEW r \in Readers, Read(r)
      PROVE  ReaderInv'
  BY <1>2 DEF Read
<1>3. CASE Tick
  BY <1>3, WindowAssumption DEF Tick
<1>4. ASSUME NEW w \in Writers, Begin(w) \/ Record(w)
      PROVE  ReaderInv'
  BY <1>4 DEF Begin, Record
<1>5. CASE UNCHANGED vars
  BY <1>5 DEF vars
<1> QED
  BY <1>1, <1>2, <1>3, <1>4, <1>5 DEF Next

LEMMA DivMod ==
    ASSUME NEW n \in Nat \ {0}, NEW i \in Nat, NEW j \in 0 .. n - 1
    PROVE  (i * n + j) \div n = i /\ (i * n + j) % n = j
<1> DEFINE x == i * n + j
           q == x \div n
           r == x % n
<1>1. x \in Nat /\ q \in Int /\ r \in 0 .. n - 1 /\ x = n * q + r
  OBVIOUS
<1>2. n * (i - q) = r - j
  BY <1>1
<1> HIDE DEF q, r, x
<1>3. i - q = 0
  <2>1. i - q >= 1 => n * (i - q) >= n
    BY <1>1
  <2>2. i - q <= -1 => n * (i - q) <= -n
    BY <1>1
  <2> QED
    BY <1>1, <1>2, <2>1, <2>2
<1>4. r = j
  BY <1>1, <1>2, <1>3
<1> QED
  BY <1>1, <1>3, <1>4 DEF q, r, x

LEMMA WindowIds ==
    ASSUME NEW t \in Int
    PROVE  /\ windowBucketIds(t) \in Seq(Int) /\ Len(windowBucketIds(t)) = bucketCount
           /\ \A k \in 1 .. bucketCount :
                 windowBucketIds(t)[k] = bucketIdAt(t) - (bucketCount - k)
<1>1. bucketIdAt(t) \in Int /\ bucketCount \in Nat
  BY WindowAssumption, WindowSize DEF bucketIdAt
<1> QED
  BY <1>1 DEF windowBucketIds

\* The two replies that readMany takes for a bucket of a channel are those of its
\* hash and of its list.
LEMMA RightKeys ==
    ASSUME NEW channels \in Seq(Channels), NEW t \in Int, NEW i \in 1 .. Len(channels),
           NEW j \in 0 .. bucketCount - 1
    PROVE  LET index == (i - 1) * bucketCount + j
               b == bucketIdAt(t) - (bucketCount - 1 - j)
           IN  /\ Replies(channels, t)[index * 2 + 1] = CountersAt(channels[i], b)
               /\ Replies(channels, t)[index * 2 + 2] = ListAt(channels[i], b)
<1> DEFINE n == bucketCount
           index == (i - 1) * n + j
           k == index * 2 + 1
           ids == windowBucketIds(t)
           size == 2 * Len(ids) * Len(channels)
<1>1. n \in Nat \ {0} /\ Len(ids) = n /\ Len(channels) \in Nat /\ i - 1 \in Nat
  <2>1. n \in Nat \ {0} /\ Len(ids) = n
    BY WindowSize, WindowIds
  <2>2. Len(channels) \in Nat /\ i - 1 \in Nat
    OBVIOUS
  <2> QED
    BY <2>1, <2>2
<1>2. index \div n = i - 1 /\ index % n = j
  BY <1>1, DivMod
<1>3. index \in Nat /\ index < n * Len(channels)
  <2>1. (i - 1) * n + n <= n * Len(channels)
    <3>1. i * n <= Len(channels) * n
      BY <1>1
    <3> QED
      BY <1>1, <3>1
  <2> QED
    BY <1>1, <2>1
<1>4. k \in 1 .. size /\ k + 1 \in 1 .. size
  <2>1. n * Len(channels) \in Nat /\ size = 2 * (n * Len(channels))
    BY <1>1
  <2> HIDE DEF index, size
  <2> QED
    BY <1>3, <2>1
<1>5. (k - 1) \div 2 = index /\ k % 2 = 1 /\ (k + 1 - 1) \div 2 = index /\ (k + 1) % 2 # 1
  <2> HIDE DEF index
  <2> QED
    BY <1>3
<1>6. ids[j + 1] = bucketIdAt(t) - (n - 1 - j)
  BY <1>1, WindowIds DEF bucketIdAt
<1> HIDE DEF index, ids, size
<1>7. /\ Replies(channels, t)[k] = CountersAt(channels[(index \div n) + 1],
                                              ids[(index % n) + 1])
      /\ Replies(channels, t)[k + 1] = ListAt(channels[(index \div n) + 1],
                                              ids[(index % n) + 1])
  <2>1. Replies(channels, t) =
          [m \in 1 .. size |->
              IF m % 2 = 1
                THEN CountersAt(channels[(((m - 1) \div 2) \div Len(ids)) + 1],
                                ids[(((m - 1) \div 2) % Len(ids)) + 1])
                ELSE ListAt(channels[(((m - 1) \div 2) \div Len(ids)) + 1],
                            ids[(((m - 1) \div 2) % Len(ids)) + 1])]
    BY DEF Replies, ids, size
  <2>2. ASSUME NEW m \in 1 .. size, (m - 1) \div 2 = index, m % 2 = 1
        PROVE  Replies(channels, t)[m] = CountersAt(channels[(index \div n) + 1],
                                                    ids[(index % n) + 1])
    BY <1>1, <2>1, <2>2
  <2>3. ASSUME NEW m \in 1 .. size, (m - 1) \div 2 = index, m % 2 # 1
        PROVE  Replies(channels, t)[m] = ListAt(channels[(index \div n) + 1],
                                                ids[(index % n) + 1])
    BY <1>1, <2>1, <2>3
  <2> HIDE DEF k
  <2>4. Replies(channels, t)[k] = CountersAt(channels[(index \div n) + 1],
                                             ids[(index % n) + 1])
    BY <1>4, <1>5, <2>2
  <2>5. Replies(channels, t)[k + 1] = ListAt(channels[(index \div n) + 1],
                                             ids[(index % n) + 1])
    BY <1>4, <1>5, <2>3
  <2> QED
    BY <2>4, <2>5
<1>8. /\ Replies(channels, t)[k] = CountersAt(channels[i], bucketIdAt(t) - (n - 1 - j))
      /\ Replies(channels, t)[k + 1] = ListAt(channels[i], bucketIdAt(t) - (n - 1 - j))
  BY <1>1, <1>2, <1>6, <1>7
<1>9. k + 1 = index * 2 + 2
  BY <1>3
<1> QED
  BY <1>8, <1>9 DEF index

\* So a bucket of a channel is read from its own hash.
LEMMA RightReply ==
    ASSUME NEW channels \in Seq(Channels), NEW t \in Int, NEW i \in 1 .. Len(channels),
           NEW j \in 0 .. bucketCount - 1
    PROVE  LET key == CountersAt(channels[i], bucketIdAt(t) - (bucketCount - 1 - j))
           IN  readBucketReply(Replies(channels, t), (i - 1) * bucketCount + j)
                  = [success |-> key.success, failure |-> key.failure]
BY RightKeys DEF readBucketReply

\* The outcomes of k buckets, the first of which is first.
Upto(c, first, k, good) ==
    {e \in ToSet(log) : /\ e.channel = c /\ e.success = good
                        /\ bucketIdAt(e.at) \in first .. first + k - 1}

LEMMA UptoIsFinite ==
    ASSUME LogInv, NEW c, NEW first, NEW k, NEW good
    PROVE  /\ IsFiniteSet(Upto(c, first, k, good))
           /\ Cardinality(Upto(c, first, k, good)) \in Nat
<1>1. Upto(c, first, k, good) \subseteq ToSet(log)
  BY DEF Upto
<1> QED
  BY <1>1, FS_Subset, FS_CardinalityType DEF LogInv

LEMMA BucketsAddUp ==
    ASSUME LogInv, NEW c, NEW first \in Int, NEW k \in Nat \ {0}, NEW good
    PROVE  Cardinality(Upto(c, first, k, good)) =
              Cardinality(Upto(c, first, k - 1, good))
                 + Cardinality(Of(c, first + k - 1, good))
<1> DEFINE S == Upto(c, first, k - 1, good)
           T == Of(c, first + k - 1, good)
<1>1. first .. first + k - 1 = first .. first + (k - 1) - 1 \union {first + k - 1}
  OBVIOUS
<1>2. Upto(c, first, k, good) = S \union T
  BY <1>1 DEF Upto, Of
<1>3. first + k - 1 \notin first .. first + (k - 1) - 1
  OBVIOUS
<1>4. S \intersect T = {}
  BY <1>3 DEF Upto, Of
<1>5. /\ IsFiniteSet(S) /\ Cardinality(S) \in Nat
      /\ IsFiniteSet(T) /\ Cardinality(T) \in Nat
  BY UptoIsFinite, OfIsFinite
<1> HIDE DEF S, T
<1>6. Cardinality(S \union T) = Cardinality(S) + Cardinality(T) - Cardinality({})
  BY <1>4, <1>5, FS_Union
<1>7. Cardinality({}) = 0
  BY FS_EmptySet
<1> QED
  BY <1>2, <1>5, <1>6, <1>7 DEF S, T

\* The sum over the buckets of the window is what was recorded in it.
LEMMA SumIsWindow ==
    ASSUME LogInv, NEW c, NEW first \in Int, NEW n \in Nat, NEW good,
           NEW seq \in Seq(Int), Len(seq) = n,
           \A j \in 1 .. n : seq[j] = Cardinality(Of(c, first + j - 1, good))
    PROVE  SumOf(seq) = Cardinality(Upto(c, first, n, good))
<1> DEFINE f == [k \in 0 .. n |-> Cardinality(Upto(c, first, k, good))]
<1>1. ASSUME NEW k \in 0 .. n
      PROVE  f[k] = IF k = 0 THEN 0 ELSE f[k - 1] + seq[k]
  <2>1. CASE k = 0
    <3>1. Upto(c, first, 0, good) = {}
      BY DEF Upto
    <3> QED
      BY <2>1, <3>1, FS_EmptySet
  <2>2. CASE k # 0
    <3>1. k \in Nat \ {0} /\ k - 1 \in 0 .. n /\ k \in 1 .. n
      BY <2>2
    <3>2. Cardinality(Upto(c, first, k, good)) =
             Cardinality(Upto(c, first, k - 1, good))
                + Cardinality(Of(c, first + k - 1, good))
      BY <3>1, BucketsAddUp
    <3>3. /\ f[k] = Cardinality(Upto(c, first, k, good))
          /\ f[k - 1] = Cardinality(Upto(c, first, k - 1, good))
          /\ seq[k] = Cardinality(Of(c, first + k - 1, good))
      BY <3>1
    <3> HIDE DEF f
    <3> QED
      BY <2>2, <3>2, <3>3, Zenon
  <2> QED
    BY <2>1, <2>2
<1> HIDE DEF f
<1>2. f = [k \in 0 .. n |-> IF k = 0 THEN 0 ELSE f[k - 1] + seq[k]]
  BY <1>1 DEF f
<1>3. SumOf(seq) = f[n]
  BY <1>2, SumIs
<1> QED
  BY <1>3 DEF f

LEMMA TimesAreBuckets ==
    ASSUME NEW t \in Int, NEW b \in Int
    PROVE  bucketIdAt(t) = b <=> t \in b * BucketMs .. b * BucketMs + BucketMs - 1
<1>1. BucketMs \in Nat \ {0}
  BY WindowAssumption
<1> DEFINE q == t \div BucketMs
<1>2. q \in Int /\ q * BucketMs <= t /\ t <= q * BucketMs + BucketMs - 1
  BY <1>1
<1> HIDE DEF q
<1>3. ASSUME b * BucketMs <= t, t <= b * BucketMs + BucketMs - 1
      PROVE  q = b
  <2>1. (q - b) * BucketMs < BucketMs /\ (b - q) * BucketMs < BucketMs
    BY <1>1, <1>2, <1>3
  <2>2. q - b >= 1 => (q - b) * BucketMs >= BucketMs
    BY <1>1, <1>2
  <2>3. b - q >= 1 => (b - q) * BucketMs >= BucketMs
    BY <1>1, <1>2
  <2>4. (q - b) * BucketMs \in Int /\ (b - q) * BucketMs \in Int
    BY <1>1, <1>2
  <2> QED
    BY <1>1, <1>2, <2>1, <2>2, <2>3, <2>4
<1>4. b * BucketMs \in Int
  BY <1>1
<1> QED
  BY <1>1, <1>2, <1>3, <1>4 DEF q, bucketIdAt

\* A read at most MaxDelay old is told, for each channel of its pipeline, what
\* was recorded in its window.
LEMMA StatsAreTrue ==
    ASSUME LogInv, CountInv, NEW channels \in Seq(Channels), NEW i \in 1 .. Len(channels),
           NEW t \in Int, t <= now, now - t <= MaxDelay
    PROVE  LET first == bucketIdAt(t) - bucketCount + 1
           IN  Stats(channels, i, t) =
                  [success |-> Cardinality(Upto(channels[i], first, bucketCount, TRUE)),
                   failure |-> Cardinality(Upto(channels[i], first, bucketCount, FALSE))]
<1> DEFINE c == channels[i]
           n == bucketCount
           first == bucketIdAt(t) - n + 1
           bucket(b) == readBucketReply(Replies(channels, t), (i - 1) * n + b)
           good == [j \in 1 .. n |-> bucket(j - 1).success]
           failed == [j \in 1 .. n |-> bucket(j - 1).failure]
<1>1. c \in Channels /\ n \in Nat \ {0} /\ bucketIdAt(t) \in Int /\ first \in Int
  BY WindowSize, WindowAssumption DEF bucketIdAt
<1>2. ASSUME NEW j \in 1 .. n
      PROVE  /\ good[j] = Cardinality(Of(c, first + j - 1, TRUE))
             /\ failed[j] = Cardinality(Of(c, first + j - 1, FALSE))
  <2> DEFINE b == bucketIdAt(t) - (n - 1 - (j - 1))
  <2>1. b \in Int /\ b = first + j - 1 /\ b > bucketIdAt(t) - bucketCount
    BY <1>1
  <2>2. now < b * BucketMs + bucketTtl
    BY <2>1, WindowIsKept DEF LogInv
  <2>3. /\ CountersAt(c, b).success = Cardinality(Of(c, b, TRUE))
        /\ CountersAt(c, b).failure = Cardinality(Of(c, b, FALSE))
    BY <1>1, <2>1, <2>2, CountersAreTrue
  <2>4. j - 1 \in 0 .. n - 1
    BY <1>1
  <2>5. bucket(j - 1) = [success |-> CountersAt(c, b).success,
                         failure |-> CountersAt(c, b).failure]
    BY <2>4, RightReply
  <2>6. good[j] = CountersAt(c, b).success /\ failed[j] = CountersAt(c, b).failure
    BY <2>5
  <2> HIDE DEF b, c, good, failed, first
  <2> QED
    BY <2>1, <2>3, <2>6, Zenon
<1> HIDE DEF c, first
<1>3. ASSUME NEW j \in 1 .. n
      PROVE  good[j] \in Int /\ failed[j] \in Int
  <2>1. \A g : Cardinality(Of(c, first + j - 1, g)) \in Nat
    BY OfIsFinite
  <2> HIDE DEF good, failed
  <2>2. good[j] \in Nat /\ failed[j] \in Nat
    BY <1>2, <2>1, Zenon
  <2> QED
    BY <2>2
<1>4. good \in Seq(Int) /\ Len(good) = n /\ failed \in Seq(Int) /\ Len(failed) = n
  <2>1. good \in [1 .. n -> Int] /\ failed \in [1 .. n -> Int]
    BY <1>3
  <2> HIDE DEF good, failed, n
  <2> QED
    BY <1>1, <2>1
<1>5. Stats(channels, i, t) = [success |-> SumOf(good), failure |-> SumOf(failed)]
  BY DEF Stats
<1> HIDE DEF good, failed
<1>6. SumOf(good) = Cardinality(Upto(c, first, n, TRUE))
  <2>1. \A j \in 1 .. n : good[j] = Cardinality(Of(c, first + j - 1, TRUE))
    BY <1>2, Zenon
  <2>2. n \in Nat /\ first \in Int /\ good \in Seq(Int) /\ Len(good) = n
    BY <1>1, <1>4
  <2> HIDE DEF n
  <2> QED
    BY <2>1, <2>2, SumIsWindow
<1>7. SumOf(failed) = Cardinality(Upto(c, first, n, FALSE))
  <2>1. \A j \in 1 .. n : failed[j] = Cardinality(Of(c, first + j - 1, FALSE))
    BY <1>2, Zenon
  <2>2. n \in Nat /\ first \in Int /\ failed \in Seq(Int) /\ Len(failed) = n
    BY <1>1, <1>4
  <2> HIDE DEF n
  <2> QED
    BY <2>1, <2>2, SumIsWindow
<1> QED
  BY <1>5, <1>6, <1>7, Zenon DEF c, first

(***************************************************************************)
(* The ideal window.                                                       *)
(***************************************************************************)
\* IdealWindow counts with the Cardinality of its own FiniteSets.
LEMMA SameCardinality == \A S : Ideal!Cardinality(S) = Cardinality(S)
BY DEF Ideal!Cardinality, Cardinality

\* The numbers of the ideal window are those of the buckets.
LEMMA NumbersAreBuckets ==
    ASSUME LogInv, NEW c \in Channels, NEW t \in Int
    PROVE  LET first == bucketIdAt(t) - bucketCount + 1
           IN  Ideal!Numbers(c, t) =
                  [success |-> Cardinality(Upto(c, first, bucketCount, TRUE)),
                   failure |-> Cardinality(Upto(c, first, bucketCount, FALSE))]
<1> DEFINE first == bucketIdAt(t) - bucketCount + 1
<1>1. /\ bucketCount \in Int /\ bucketCount = CeilDiv(WindowMs, BucketMs)
      /\ bucketIdAt(t) \in Int
  BY WindowSize, WindowAssumption DEF bucketIdAt
<1>2. first + bucketCount - 1 = bucketIdAt(t)
  BY <1>1
<1>3. \A e \in ToSet(log) : e.success \in BOOLEAN
  <2>1. \A i \in DOMAIN log : log[i] \in Entry
    BY DEF LogInv
  <2> QED
    BY <2>1 DEF ToSet, Entry
<1>4. Ideal!InWindow(c, t) =
         {e \in ToSet(log) : e.channel = c
                               /\ bucketIdAt(e.at) \in first .. first + bucketCount - 1}
  BY <1>1, <1>2 DEF Ideal!InWindow, bucketIdAt
<1> HIDE DEF first
<1>5. /\ {e \in Ideal!InWindow(c, t) : e.success} = Upto(c, first, bucketCount, TRUE)
      /\ {e \in Ideal!InWindow(c, t) : ~e.success} = Upto(c, first, bucketCount, FALSE)
  BY <1>3, <1>4 DEF Upto
<1>6. Ideal!Numbers(c, t) =
         [success |-> Cardinality({e \in Ideal!InWindow(c, t) : e.success}),
          failure |-> Cardinality({e \in Ideal!InWindow(c, t) : ~e.success})]
  BY SameCardinality DEF Ideal!Numbers
<1> QED
  BY <1>5, <1>6, Zenon DEF first

\* What a read answers is what the ideal window answers.
LEMMA ReadIsIdeal ==
    ASSUME LogInv, CountInv, NEW channels \in Seq(Channels),
           NEW t \in Int, t <= now, now - t <= MaxDelay
    PROVE  readMany(channels, t) = [c \in ToSet(channels) |-> Ideal!Numbers(c, t)]
<1>1. ASSUME NEW c \in ToSet(channels)
      PROVE  Stats(channels, CHOOSE i \in DOMAIN channels : channels[i] = c, t)
                = Ideal!Numbers(c, t)
  <2> DEFINE i == CHOOSE i \in DOMAIN channels : channels[i] = c
  <2>1. i \in 1 .. Len(channels) /\ channels[i] = c
    BY <1>1 DEF ToSet
  <2> HIDE DEF i
  <2>2. c \in Channels
    BY <2>1
  <2>3. Stats(channels, i, t) = Ideal!Numbers(channels[i], t)
    BY <2>1, <2>2, StatsAreTrue, NumbersAreBuckets, Zenon
  <2> QED
    BY <2>1, <2>3 DEF i
<1> QED
  BY <1>1, Zenon DEF readMany

ExactInv == IInv /\ LogInv /\ CountInv /\ ReaderInv

LEMMA ExactInit == Init => ExactInv
<1> SUFFICES ASSUME Init PROVE ExactInv
  OBVIOUS
<1>1. IInv
  BY InitIInv
<1>2. log = <<>> /\ ToSet(log) = {} /\ now = StartTime
      /\ \A w \in Writers : writing[w] = Idle
  BY DEF Init, ToSet
<1>3. LogInv
  <2>1. log \in Seq(Entry) /\ IsFiniteSet(ToSet(log))
    BY <1>2, FS_EmptySet
  <2> QED
    BY <1>2, <2>1, WindowAssumption DEF LogInv
<1>4. CountInv
  <2>1. \A c \in Channels : DOMAIN counters[c] = {}
    BY DEF Init
  <2>2. \A c, b : Recorded(c, b) = {}
    BY <1>2 DEF Recorded
  <2> QED
    BY <2>1, <2>2 DEF CountInv
<1>5. ReaderInv
  BY DEF Init, ReaderInv
<1> QED
  BY <1>1, <1>3, <1>4, <1>5 DEF ExactInv

LEMMA Exactness == Spec => []ExactInv
<1>1. ExactInv /\ [Next]_vars /\ IInv' => ExactInv'
  BY LogStep, CountStep, ReaderStep DEF ExactInv
<1> QED
  BY ExactInit, <1>1, Invariance, PTL DEF Spec

\* A step of the window is a step of the ideal window, or nothing to it.
LEMMA StepIsIdeal ==
    ASSUME ExactInv, [Next]_vars
    PROVE  [Ideal!Next]_(Ideal!vars)
<1> DEFINE read == [r \in Readers |-> [channels |-> ToSet(asked[r].channels),
                                       at |-> asked[r].at]]
<1>0. ToSet(<<>>) = {}
  BY DEF ToSet
<1>1. CASE UNCHANGED <<log, asked, result>>
  BY <1>1 DEF Ideal!vars
<1>2. ASSUME NEW w \in Writers, Record(w)
      PROVE  Ideal!Next
  <2>1. /\ writing[w] # Idle /\ log' = Append(log, writing[w])
        /\ UNCHANGED <<asked, result>>
    BY <1>2 DEF Record
  <2>2. /\ writing[w] \in Entry
        /\ \A e \in ToSet(log) : e.outcome # writing[w].outcome
    BY <2>1 DEF ExactInv, LogInv
  <2>3. ToSet(log)' = ToSet(log) \union {writing[w]}
    BY <2>1, AppendedSet DEF ExactInv, LogInv
  <2>4. writing[w] \in Ideal!Entry
    BY <2>2 DEF Entry, Ideal!Entry
  <2>5. Ideal!Record
    BY <2>1, <2>2, <2>3, <2>4 DEF Ideal!Record
  <2> QED
    BY <2>5 DEF Ideal!Next
<1>3. ASSUME NEW r \in Readers, Ask(r)
      PROVE  Ideal!Next
  <2>1. PICK channels \in Pipelines :
           asked' = [asked EXCEPT ![r] = [channels |-> channels, at |-> now]]
    BY <1>3 DEF Ask
  <2>2. /\ asked[r] = Nothing /\ result' = [result EXCEPT ![r] = <<>>] /\ log' = log
    BY <1>3 DEF Ask
  <2>3. read[r] = Ideal!Nothing
    <3>1. asked[r].channels = <<>> /\ asked[r].at = 0
      BY <2>2 DEF Nothing
    <3> QED
      BY <1>0, <3>1 DEF Ideal!Nothing
  <2>4. read' = [read EXCEPT ![r] = [channels |-> ToSet(channels), at |-> now]]
    BY <2>1 DEF ExactInv, ReaderInv
  <2>5. /\ ToSet(channels) \in {ToSet(p) : p \in Pipelines} /\ now \in 0 .. MaxTime
    BY DEF ExactInv, LogInv
  <2>6. ToSet(log)' = ToSet(log)
    BY <2>2
  <2>7. Ideal!Ask(r)
    BY <2>2, <2>3, <2>4, <2>5, <2>6 DEF Ideal!Ask
  <2> QED
    BY <2>7 DEF Ideal!Next
<1>4. ASSUME NEW r \in Readers, Read(r)
      PROVE  Ideal!Next
  <2> DEFINE t == asked[r].at
             channels == asked[r].channels
  <2>1. /\ asked[r] # Nothing /\ log' = log
        /\ result' = [result EXCEPT ![r] = readMany(channels, t)]
        /\ asked' = [asked EXCEPT ![r] = Nothing]
    BY <1>4 DEF Read
  <2>2. /\ channels \in Seq(Channels) /\ t \in 0 .. MaxTime /\ t <= now /\ now - t <= MaxDelay
        /\ DOMAIN asked = Readers
    BY <2>1, WindowAssumption DEF ExactInv, ReaderInv
  <2>3. readMany(channels, t) = [c \in ToSet(channels) |-> Ideal!Numbers(c, t)]
    BY <2>2, ReadIsIdeal DEF ExactInv
  <2>4. read[r] # Ideal!Nothing
    <3>1. channels # <<>> \/ t # 0
      BY <2>1 DEF Nothing, ExactInv, ReaderInv
    <3>2. channels # <<>> => ToSet(channels) # {}
      <4>1. channels # <<>> => 1 \in DOMAIN channels
        BY <2>2
      <4> QED
        BY <4>1 DEF ToSet
    <3> QED
      BY <3>1, <3>2 DEF Ideal!Nothing
  <2>5. read' = [read EXCEPT ![r] = Ideal!Nothing]
    BY <1>0, <2>1, <2>2 DEF Nothing, Ideal!Nothing
  <2>6. ToSet(log)' = ToSet(log)
    BY <2>1
  <2>7. read[r].channels = ToSet(channels) /\ read[r].at = t
    OBVIOUS
  <2>8. Ideal!Answer(r)
    BY <2>1, <2>3, <2>4, <2>5, <2>6, <2>7 DEF Ideal!Answer
  <2> QED
    BY <2>8 DEF Ideal!Next
<1>5. ASSUME NEW w \in Writers, Begin(w)
      PROVE  UNCHANGED <<log, asked, result>>
  BY <1>5 DEF Begin
<1>6. CASE Tick
  BY <1>1, <1>6 DEF Tick
<1>7. CASE UNCHANGED vars
  BY <1>1, <1>7 DEF vars
<1> QED
  BY <1>1, <1>2, <1>3, <1>4, <1>5, <1>6, <1>7 DEF Next

\* The buckets in Redis, their TTLs and the pipelined reads keep the promise of
\* the ideal window: for any window and bucket and any delay up to a window less
\* a bucket, every read is told the true numbers.
THEOREM CountsStayExact == Spec => CountsAreExact
<1>1. Init => Ideal!Init
  <2>1. ToSet(<<>>) = {}
    BY DEF ToSet
  <2>2. ASSUME Init
        PROVE  [r \in Readers |-> [channels |-> ToSet(asked[r].channels), at |-> asked[r].at]]
                  = [r \in Readers |-> Ideal!Nothing]
    <3>1. \A r \in Readers : asked[r].channels = <<>> /\ asked[r].at = 0
      BY <2>2 DEF Init, Nothing
    <3> QED
      BY <2>1, <3>1 DEF Ideal!Nothing
  <2>3. Init => ToSet(log) = {} /\ result = [r \in Readers |-> <<>>]
    BY <2>1 DEF Init
  <2> QED
    BY <2>2, <2>3, Zenon DEF Ideal!Init
<1> QED
  BY <1>1, Exactness, StepIsIdeal, PTL DEF Spec, CountsAreExact, Ideal!Spec

(***************************************************************************)
(* The chart.                                                              *)
(***************************************************************************)
\* A point of the chart stands for its bucket.
LEMMA PointIsBucket ==
    ASSUME LogInv, CountInv, NEW c \in Channels, NEW t \in Int, t <= now, now - t <= MaxDelay,
           NEW i \in 1 .. bucketCount
    PROVE  LET b == bucketIdAt(t) - (bucketCount - i)
               p == Series(c, t)[i]
           IN  /\ p.startMs = b * BucketMs
               /\ p.success = Cardinality(Of(c, b, TRUE))
               /\ p.failure = Cardinality(Of(c, b, FALSE))
               /\ p.successRate = <<>> <=> p.success + p.failure = 0
<1> DEFINE b == bucketIdAt(t) - (bucketCount - i)
           key == CountersAt(c, b)
           reply == readBucketReply(Replies(<<c>>, t), i - 1)
           bucket == readBuckets(c, t)[i]
           p == Series(c, t)[i]
<1>1. bucketCount \in Nat \ {0} /\ bucketIdAt(t) \in Int /\ b \in Int
  BY WindowSize, WindowAssumption DEF bucketIdAt
<1>2. key.success = Cardinality(Of(c, b, TRUE)) /\ key.failure = Cardinality(Of(c, b, FALSE))
  <2>1. b > bucketIdAt(t) - bucketCount
    BY <1>1
  <2>2. now < b * BucketMs + bucketTtl
    BY <1>1, <2>1, WindowIsKept DEF LogInv
  <2> QED
    BY <1>1, <2>2, CountersAreTrue
<1>3. reply = [success |-> key.success, failure |-> key.failure]
  <2>1. /\ <<c>> \in Seq(Channels) /\ 1 \in 1 .. Len(<<c>>) /\ <<c>>[1] = c
        /\ i - 1 \in 0 .. bucketCount - 1
    BY <1>1
  <2>2. (1 - 1) * bucketCount + (i - 1) = i - 1
    BY <1>1
  <2>3. bucketIdAt(t) - (bucketCount - 1 - (i - 1)) = b
    BY <1>1
  <2> HIDE DEF b, key
  <2>4. LET k == CountersAt(<<c>>[1], bucketIdAt(t) - (bucketCount - 1 - (i - 1)))
        IN  readBucketReply(Replies(<<c>>, t), (1 - 1) * bucketCount + (i - 1))
               = [success |-> k.success, failure |-> k.failure]
    BY <2>1, RightReply, Zenon
  <2> QED
    BY <2>1, <2>2, <2>3, <2>4, Zenon DEF key
<1> HIDE DEF reply
<1>4. /\ windowBucketIds(t) \in Seq(Int) /\ Len(windowBucketIds(t)) = bucketCount
      /\ windowBucketIds(t)[i] = b
  BY WindowIds
<1>5. DOMAIN windowBucketIds(t) = 1 .. bucketCount
  BY <1>4
<1> HIDE DEF b, key
<1>6. bucket = [startMs |-> b * BucketMs, success |-> reply.success, failure |-> reply.failure]
  BY <1>4, <1>5 DEF readBuckets, reply, startMs
<1>7. i \in DOMAIN readBuckets(c, t)
  BY <1>5 DEF readBuckets
<1> HIDE DEF bucket
<1>8. /\ p.startMs = bucket.startMs /\ p.success = bucket.success /\ p.failure = bucket.failure
      /\ p.successRate = IF bucket.success + bucket.failure = 0
                           THEN <<>> ELSE <<bucket.success, bucket.success + bucket.failure>>
  BY <1>7 DEF Series, bucket
<1> HIDE DEF p
<1>9. p.successRate = <<>> <=> p.success + p.failure = 0
  BY <1>8
<1>10. /\ p.startMs = b * BucketMs /\ p.success = key.success /\ p.failure = key.failure
  BY <1>3, <1>6, <1>8
<1> QED
  BY <1>2, <1>9, <1>10, Zenon DEF b, p

LEMMA SeriesDomain ==
    ASSUME NEW c, NEW t \in Int
    PROVE  DOMAIN Series(c, t) = 1 .. bucketCount /\ Len(Series(c, t)) = bucketCount
<1>1. DOMAIN windowBucketIds(t) = 1 .. bucketCount /\ bucketCount \in Nat
  BY WindowIds, WindowSize
<1> QED
  BY <1>1 DEF Series, readBuckets

\* For any window and bucket, the chart of a channel, drawn up to MaxDelay late,
\* tells exactly what was recorded in each stretch of time, with a gap where
\* nothing was, and covers the window.
THEOREM ChartStaysExact == Spec => []SeriesIsExact
<1>1. ASSUME ExactInv, NEW c \in Channels, NEW delay \in 0 .. MaxDelay
      PROVE  LET t == now - delay
                 points == Series(c, t)
                 within(p, good) == {e \in ToSet(log) :
                     e.channel = c /\ e.success = good
                         /\ e.at \in p.startMs .. p.startMs + BucketMs - 1}
             IN  /\ \A i \in DOMAIN points :
                       LET p == points[i]
                       IN  /\ p.success = Cardinality(within(p, TRUE))
                           /\ p.failure = Cardinality(within(p, FALSE))
                           /\ p.successRate = <<>> <=>
                                 within(p, TRUE) \union within(p, FALSE) = {}
                 /\ t \in Last(points).startMs .. Last(points).startMs + BucketMs - 1
                 /\ points[1].startMs <= t - WindowMs + BucketMs
  <2> DEFINE t == now - delay
             points == Series(c, t)
             n == bucketCount
             within(p, good) == {e \in ToSet(log) :
                     e.channel = c /\ e.success = good
                         /\ e.at \in p.startMs .. p.startMs + BucketMs - 1}
  <2>1. /\ LogInv /\ CountInv /\ t \in Int /\ t <= now /\ now - t <= MaxDelay
        /\ n \in Nat \ {0} /\ bucketIdAt(t) \in Int
    <3>1. LogInv /\ CountInv
      BY <1>1 DEF ExactInv
    <3>2. now \in Int /\ delay \in Int /\ 0 <= delay /\ delay <= MaxDelay
      BY <3>1, WindowAssumption DEF LogInv
    <3>3. t \in Int /\ t <= now /\ now - t <= MaxDelay
      BY <3>2, WindowAssumption
    <3>4. n \in Nat \ {0} /\ bucketIdAt(t) \in Int
      BY <3>3, WindowSize, WindowAssumption DEF bucketIdAt
    <3> QED
      BY <3>1, <3>3, <3>4
  <2> HIDE DEF t
  <2>2. DOMAIN points = 1 .. n /\ Len(points) = n
    BY <2>1, SeriesDomain
  <2>3. ASSUME NEW i \in 1 .. n
        PROVE  LET p == points[i]
               IN  /\ p.success = Cardinality(within(p, TRUE))
                   /\ p.failure = Cardinality(within(p, FALSE))
                   /\ p.successRate = <<>> <=> within(p, TRUE) \union within(p, FALSE) = {}
    <3> DEFINE p == points[i]
               b == bucketIdAt(t) - (n - i)
    <3>1. /\ p.startMs = b * BucketMs
          /\ p.success = Cardinality(Of(c, b, TRUE))
          /\ p.failure = Cardinality(Of(c, b, FALSE))
          /\ p.successRate = <<>> <=> p.success + p.failure = 0
      BY <2>1, PointIsBucket
    <3>2. b \in Int
      BY <2>1
    <3> HIDE DEF p, b
    <3>3. \A e \in ToSet(log) : e.at \in Int
      <4>1. \A k \in DOMAIN log : log[k] \in Entry
        BY <2>1 DEF LogInv
      <4> QED
        BY <4>1 DEF ToSet, Entry
    <3>4. ASSUME NEW good PROVE within(p, good) = Of(c, b, good)
      BY <3>1, <3>2, <3>3, TimesAreBuckets DEF Of
    <3> HIDE DEF within
    <3>5. /\ IsFiniteSet(Of(c, b, TRUE)) /\ Cardinality(Of(c, b, TRUE)) \in Nat
          /\ IsFiniteSet(Of(c, b, FALSE)) /\ Cardinality(Of(c, b, FALSE)) \in Nat
      BY <2>1, OfIsFinite, Zenon
    <3>6. \A x, y \in Nat : x + y = 0 <=> x = 0 /\ y = 0
      OBVIOUS
    <3>7. p.success + p.failure = 0 <=> Of(c, b, TRUE) = {} /\ Of(c, b, FALSE) = {}
      BY <3>1, <3>5, <3>6, FS_EmptySet, Zenon
    <3>8. /\ p.success = Cardinality(within(p, TRUE))
          /\ p.failure = Cardinality(within(p, FALSE))
          /\ p.successRate = <<>> <=> within(p, TRUE) \union within(p, FALSE) = {}
      BY <3>1, <3>4, <3>7, Zenon
    <3> QED
      BY <3>8 DEF p
  <2> HIDE DEF within
  <2>4. Last(points) = points[n] /\ n \in 1 .. n /\ 1 \in 1 .. n
    BY <2>1, <2>2 DEF Last
  <2>5. /\ points[n].startMs = (bucketIdAt(t) - (n - n)) * BucketMs
        /\ points[1].startMs = (bucketIdAt(t) - (n - 1)) * BucketMs
    BY <2>1, <2>4, PointIsBucket
  <2>6. t \in bucketIdAt(t) * BucketMs .. bucketIdAt(t) * BucketMs + BucketMs - 1
    BY <2>1, TimesAreBuckets
  <2>7. (bucketIdAt(t) - (n - 1)) * BucketMs <= t - WindowMs + BucketMs
    <3> DEFINE qB == bucketIdAt(t) * BucketMs
               nB == n * BucketMs
    <3>1. /\ BucketMs \in Nat /\ WindowMs \in Nat /\ qB \in Int /\ nB \in Int
          /\ nB >= WindowMs /\ qB <= t
      BY <2>1, <2>6, WindowSize, WindowAssumption
    <3>2. (bucketIdAt(t) - (n - 1)) * BucketMs = qB - nB + BucketMs
      BY <2>1, <3>1
    <3> HIDE DEF qB, nB
    <3> QED
      BY <2>1, <3>1, <3>2
  <2>8. t \in Last(points).startMs .. Last(points).startMs + BucketMs - 1
    <3>1. bucketIdAt(t) - (n - n) = bucketIdAt(t)
      BY <2>1
    <3> QED
      BY <2>4, <2>5, <2>6, <3>1
  <2>9. points[1].startMs <= t - WindowMs + BucketMs
    BY <2>5, <2>7
  <2> QED
    BY <2>2, <2>3, <2>8, <2>9 DEF t, within
<1>2. ExactInv => SeriesIsExact
  BY <1>1 DEF SeriesIsExact
<1> QED
  BY <1>2, Exactness, PTL

(***************************************************************************)
(* The latencies.                                                          *)
(***************************************************************************)
\* The list of bucket b of channel c, if there is one, is the newest outcomes.
SampleOf(c, b) ==
    b \in DOMAIN latency[c] =>
        LET values == latency[c][b].values
            places == Recorded(c, b)
        IN  /\ values \in Seq(Outcomes)
            /\ Len(values) = IF Cardinality(places) < MaxSamples
                               THEN Cardinality(places) ELSE MaxSamples
            /\ \A i \in places : Newness(places, i) <= MaxSamples =>
                  values[Newness(places, i)] = log[i].outcome

SampleInv == \A c \in Channels, b \in Int : SampleOf(c, b)

LEMMA RecordedIsFinite ==
    ASSUME LogInv, NEW c, NEW b
    PROVE  /\ Recorded(c, b) \subseteq 1 .. Len(log) /\ IsFiniteSet(Recorded(c, b))
           /\ Cardinality(Recorded(c, b)) \in Nat
<1>1. Recorded(c, b) \subseteq 1 .. Len(log) /\ Len(log) \in Nat
  BY DEF Recorded, LogInv
<1>2. IsFiniteSet(1 .. Len(log))
  BY <1>1, FS_Interval
<1> QED
  BY <1>1, <1>2, FS_Subset, FS_CardinalityType

\* A new place is the newest, and the others come after it.
LEMMA NewnessGrows ==
    ASSUME NEW n \in Nat, NEW S \in SUBSET (1 .. n)
    PROVE  /\ Newness(S \union {n + 1}, n + 1) = 1
           /\ Cardinality(S \union {n + 1}) = Cardinality(S) + 1
           /\ \A i \in S : /\ Newness(S, i) \in 1 .. Cardinality(S)
                           /\ Newness(S \union {n + 1}, i) = Newness(S, i) + 1
<1>1. \A T \in SUBSET S : IsFiniteSet(T) /\ Cardinality(T) \in Nat
                            /\ Cardinality(T) <= Cardinality(S)
  <2>1. IsFiniteSet(1 .. n)
    BY FS_Interval
  <2>2. IsFiniteSet(S)
    BY <2>1, FS_Subset
  <2> QED
    BY <2>2, FS_Subset, FS_CardinalityType
<1>2. ASSUME NEW T \in SUBSET S
      PROVE  Cardinality(T \union {n + 1}) = Cardinality(T) + 1
  <2>1. n + 1 \notin T
    OBVIOUS
  <2> QED
    BY <1>1, <2>1, FS_AddElement
<1>3. Newness(S \union {n + 1}, n + 1) = 1
  <2>1. {j \in S \union {n + 1} : j >= n + 1} = {} \union {n + 1}
    <3>1. \A j \in S : j \in Int /\ ~ (j >= n + 1)
      OBVIOUS
    <3>2. n + 1 >= n + 1
      OBVIOUS
    <3> QED
      BY <3>1, <3>2, Zenon
  <2>2. {} \in SUBSET S /\ Cardinality({}) = 0
    BY FS_EmptySet
  <2> QED
    BY <1>2, <2>1, <2>2 DEF Newness
<1>4. ASSUME NEW i \in S
      PROVE  /\ Newness(S, i) \in 1 .. Cardinality(S)
             /\ Newness(S \union {n + 1}, i) = Newness(S, i) + 1
  <2> DEFINE T == {j \in S : j >= i}
  <2>1. T \in SUBSET S /\ i \in T
    OBVIOUS
  <2>2. {j \in S \union {n + 1} : j >= i} = T \union {n + 1}
    BY <1>4
  <2>3. Newness(S, i) = Cardinality(T)
    BY DEF Newness
  <2>4. Newness(S \union {n + 1}, i) = Cardinality(T \union {n + 1})
    BY <2>2 DEF Newness
  <2> HIDE DEF T
  <2>5. Cardinality(T) # 0
    BY <1>1, <2>1, FS_EmptySet
  <2>6. Cardinality(T) \in Nat /\ Cardinality(T) <= Cardinality(S) /\ Cardinality(S) \in Nat
    BY <1>1, <2>1
  <2> QED
    BY <1>2, <2>1, <2>3, <2>4, <2>5, <2>6
<1> QED
  BY <1>2, <1>3, <1>4

\* What LPUSH and LTRIM make of a list.
LEMMA PushedValues ==
    ASSUME NEW key, key.values \in Seq(Outcomes), Len(key.values) <= MaxSamples,
           NEW o \in Outcomes
    PROVE  LET old == key.values
               new == Pushed(key, o).values
           IN  /\ new \in Seq(Outcomes)
               /\ Len(new) = IF Len(old) + 1 < MaxSamples THEN Len(old) + 1 ELSE MaxSamples
               /\ new[1] = o
               /\ \A i \in 1 .. Len(old) : i + 1 <= MaxSamples => new[i + 1] = old[i]
<1> DEFINE old == key.values
           new == Pushed(key, o).values
           size == IF Len(old) + 1 < MaxSamples THEN Len(old) + 1 ELSE MaxSamples
<1>1. new = SubSeq(<<o>> \o old, 1, size)
  BY DEF Pushed
<1>2. /\ <<o>> \o old \in Seq(Outcomes) /\ Len(<<o>> \o old) = Len(old) + 1
      /\ (<<o>> \o old)[1] = o /\ Len(old) \in Nat
      /\ \A i \in 1 .. Len(old) : (<<o>> \o old)[i + 1] = old[i]
  OBVIOUS
<1>3. size \in 1 .. Len(old) + 1
  BY <1>2, WindowAssumption
<1> HIDE DEF old, new, size
<1>4. new \in Seq(Outcomes) /\ Len(new) = size /\ \A i \in 1 .. size : new[i] = (<<o>> \o old)[i]
  BY <1>1, <1>2, <1>3
<1>5. \A i \in 1 .. Len(old) : i + 1 <= MaxSamples => i + 1 \in 1 .. size
  BY <1>2, WindowAssumption DEF size
<1> QED
  BY <1>2, <1>3, <1>4, <1>5 DEF old, new, size

LEMMA SampleStep ==
    ASSUME ExactInv, SampleInv, [Next]_vars
    PROVE  SampleInv'
<1>1. CASE UNCHANGED <<latency, log>>
  <2>1. ASSUME NEW c \in Channels, NEW k \in Int
        PROVE  SampleOf(c, k)'
    <3>1. Recorded(c, k)' = Recorded(c, k)
      BY <1>1 DEF Recorded
    <3> QED
      BY <1>1, <3>1 DEF SampleInv, SampleOf
  <2> QED
    BY <2>1 DEF SampleInv
<1>2. ASSUME NEW w \in Writers, Record(w), NEW c \in Channels, NEW k \in Int
      PROVE  SampleOf(c, k)'
  <2> DEFINE e == writing[w]
             b == bucketIdAt(e.at)
             key == ListAt(e.channel, b)
             list == Pushed(key, e.outcome)
  <2>1. /\ now' = now /\ log' = Append(log, e) /\ e # Idle
        /\ latency' = [latency EXCEPT ![e.channel] = Put(@, b, list)]
    BY <1>2 DEF Record
  <2>2. /\ e.channel \in Channels /\ e.at \in Nat /\ e.at <= now /\ e.outcome \in Outcomes
        /\ now \in Nat /\ now - e.at <= MaxDelay /\ log \in Seq(Entry)
    BY <2>1 DEF ExactInv, IInv, WriterInv, LogInv, Entry
  <2>3. DOMAIN latency = Channels /\ DOMAIN latency[c] = DOMAIN counters[c]
    BY DEF ExactInv, IInv, StoreInv, PairInv
  <2>4. /\ ~ (c = e.channel /\ k = b) => Recorded(c, k)' = Recorded(c, k)
        /\ c = e.channel /\ k = b => Recorded(c, k)' = Recorded(c, k) \union {Len(log) + 1}
    BY <1>2, PlacesGrow DEF ExactInv
  <2>5. /\ Len(log) \in Nat /\ log'[Len(log) + 1] = e
        /\ \A i \in 1 .. Len(log) : log'[i] = log[i]
    BY <2>1, <2>2
  <2>6. Recorded(c, k) \in SUBSET (1 .. Len(log)) /\ Cardinality(Recorded(c, k)) \in Nat
    BY RecordedIsFinite DEF ExactInv
  <2> HIDE DEF e
  <2>7. CASE ~ (c = e.channel /\ k = b)
    <3>1. /\ k \in DOMAIN latency'[c] <=> k \in DOMAIN latency[c]
          /\ k \in DOMAIN latency[c] => latency'[c][k] = latency[c][k]
      BY <2>1, <2>3, <2>7 DEF Put
    <3>2. SampleOf(c, k)
      BY DEF SampleInv
    <3> QED
      BY <2>4, <2>5, <2>6, <2>7, <3>1, <3>2 DEF SampleOf
  <2>8. CASE c = e.channel /\ k = b
    <3> DEFINE places == Recorded(c, k)
               old == key.values
               new == list.values
    <3>1. latency'[c][k] = list
      BY <2>1, <2>3, <2>8 DEF Put
    <3>2. /\ old \in Seq(Outcomes)
          /\ Len(old) = IF Cardinality(places) < MaxSamples
                          THEN Cardinality(places) ELSE MaxSamples
          /\ \A i \in places : Newness(places, i) <= MaxSamples =>
                old[Newness(places, i)] = log[i].outcome
      <4>1. CASE k \in DOMAIN latency[c]
        <5>1. key = latency[c][k]
          BY <2>8, <4>1 DEF ListAt
        <5>2. SampleOf(c, k)
          BY DEF SampleInv
        <5> QED
          BY <4>1, <5>1, <5>2 DEF SampleOf
      <4>2. CASE k \notin DOMAIN latency[c]
        <5>1. b \in Nat
          BY <2>2, TimeInBucket
        <5>2. now < k * BucketMs + bucketTtl
          <6>1. b > bucketIdAt(e.at) - bucketCount
            BY <5>1, WindowSize
          <6> QED
            BY <2>2, <2>8, <5>1, <6>1, WindowIsKept
        <5>3. places = {}
          BY <2>3, <4>2, <5>2 DEF ExactInv, CountInv
        <5>4. old = <<>>
          BY <2>8, <4>2 DEF ListAt, NoList
        <5> HIDE DEF places, old
        <5> QED
          BY <5>3, <5>4, FS_EmptySet, WindowAssumption
      <4> QED
        BY <4>1, <4>2
    <3>3. Len(old) <= MaxSamples /\ Len(old) \in Nat
      BY <2>6, <3>2, WindowAssumption
    <3>4. /\ new \in Seq(Outcomes)
          /\ Len(new) = IF Len(old) + 1 < MaxSamples THEN Len(old) + 1 ELSE MaxSamples
          /\ new[1] = e.outcome
          /\ \A i \in 1 .. Len(old) : i + 1 <= MaxSamples => new[i + 1] = old[i]
      BY <2>2, <3>2, <3>3, PushedValues
    <3> HIDE DEF places, old, new
    <3> DEFINE more == places \union {Len(log) + 1}
    <3>5. /\ Newness(more, Len(log) + 1) = 1
          /\ Cardinality(more) = Cardinality(places) + 1
          /\ \A i \in places : /\ Newness(places, i) \in 1 .. Cardinality(places)
                               /\ Newness(more, i) = Newness(places, i) + 1
      BY <2>5, <2>6, NewnessGrows DEF places
    <3> HIDE DEF more
    <3>6. Len(new) = IF Cardinality(more) < MaxSamples THEN Cardinality(more) ELSE MaxSamples
      BY <2>6, <3>2, <3>4, <3>5, WindowAssumption DEF places
    <3>7. ASSUME NEW i \in more, Newness(more, i) <= MaxSamples
          PROVE  new[Newness(more, i)] = log'[i].outcome
      <4>1. CASE i = Len(log) + 1
        BY <2>5, <3>4, <3>5, <4>1
      <4>2. CASE i \in places
        <5> DEFINE m == Newness(places, i)
        <5>1. /\ m \in 1 .. Cardinality(places) /\ Newness(more, i) = m + 1
              /\ m + 1 <= MaxSamples /\ i \in 1 .. Len(log)
          BY <2>6, <3>5, <3>7, <4>2 DEF places
        <5> HIDE DEF m
        <5>2. m \in 1 .. Len(old) /\ m <= MaxSamples
          BY <2>6, <3>2, <5>1, WindowAssumption DEF places
        <5>3. old[m] = log[i].outcome
          BY <3>2, <4>2, <5>2 DEF m
        <5>4. new[m + 1] = old[m]
          BY <3>4, <5>1, <5>2
        <5> QED
          BY <2>5, <5>1, <5>3, <5>4
      <4> QED
        BY <4>1, <4>2 DEF more
    <3>8. Recorded(c, k)' = more
      BY <2>4, <2>8 DEF more, places
    <3> QED
      BY <3>1, <3>4, <3>6, <3>7, <3>8 DEF SampleOf, new
  <2> QED
    BY <2>7, <2>8
<1>3. ASSUME Tick, NEW c \in Channels, NEW k \in Int
      PROVE  SampleOf(c, k)'
  <2>1. log' = log /\ latency'[c] = Alive(latency[c], now')
    BY <1>3 DEF Tick
  <2>2. k \in DOMAIN latency'[c] => k \in DOMAIN latency[c] /\ latency'[c][k] = latency[c][k]
    BY <2>1 DEF Alive, Restrict
  <2>3. Recorded(c, k)' = Recorded(c, k)
    BY <2>1 DEF Recorded
  <2> QED
    BY <2>1, <2>2, <2>3 DEF SampleInv, SampleOf
<1>4. ASSUME NEW r \in Readers, Ask(r) \/ Read(r)
      PROVE  SampleInv'
  BY <1>1, <1>4 DEF Ask, Read
<1>5. ASSUME NEW w \in Writers, Begin(w)
      PROVE  SampleInv'
  BY <1>1, <1>5 DEF Begin
<1>6. CASE UNCHANGED vars
  BY <1>1, <1>6 DEF vars
<1> QED
  BY <1>2, <1>3, <1>4, <1>5, <1>6 DEF Next, SampleInv

\* A bucket that a late reader may still ask for gives the newest outcomes, also
\* when it has no list.
LEMMA ListIsNewest ==
    ASSUME ExactInv, SampleInv, NEW c \in Channels, NEW b \in Int,
           now < b * BucketMs + bucketTtl
    PROVE  Newest(ListAt(c, b).values, c, b)
<1>1. CASE b \in DOMAIN latency[c]
  BY <1>1 DEF SampleInv, SampleOf, Newest, ListAt
<1>2. CASE b \notin DOMAIN latency[c]
  <2>1. b \notin DOMAIN counters[c]
    BY <1>2 DEF ExactInv, IInv, StoreInv, PairInv
  <2>2. Recorded(c, b) = {}
    BY <2>1 DEF ExactInv, CountInv
  <2>3. Cardinality(Recorded(c, b)) = 0 /\ 0 < MaxSamples
    BY <2>2, FS_EmptySet, WindowAssumption
  <2> QED
    BY <1>2, <2>2, <2>3 DEF Newest, ListAt, NoList
<1> QED
  BY <1>1, <1>2

\* What a read at most MaxDelay old collects.
LEMMA SamplesAreRead ==
    ASSUME ExactInv, SampleInv, NEW channels \in Seq(Channels),
           NEW i \in DOMAIN channels, NEW delay \in 0 .. MaxDelay,
           NEW k \in 1 .. bucketCount
    PROVE  Newest(latencySamples(channels, i, now - delay)[k], channels[i],
                  windowBucketIds(now - delay)[k])
<1> DEFINE t == now - delay
           b == bucketIdAt(t) - (bucketCount - k)
           c == channels[i]
<1>1. /\ now \in Int /\ t \in Int /\ t <= now /\ now - t <= MaxDelay
      /\ bucketCount \in Nat \ {0}
  <2>1. now \in Int /\ delay \in Int /\ 0 <= delay /\ delay <= MaxDelay
    BY WindowAssumption DEF ExactInv, LogInv
  <2> QED
    BY <2>1, WindowSize
<1> HIDE DEF t
<1>2. bucketIdAt(t) \in Int /\ b \in Int /\ b > bucketIdAt(t) - bucketCount
  <2>1. bucketIdAt(t) \in Int
    BY <1>1, WindowAssumption DEF bucketIdAt
  <2> QED
    BY <1>1, <2>1
<1>3. now < b * BucketMs + bucketTtl
  BY <1>1, <1>2, WindowIsKept
<1>4. windowBucketIds(t)[k] = b /\ c \in Channels /\ i \in 1 .. Len(channels)
  <2>1. windowBucketIds(t)[k] = b
    BY <1>1, WindowIds
  <2>2. c \in Channels /\ i \in 1 .. Len(channels)
    OBVIOUS
  <2> QED
    BY <2>1, <2>2
<1>5. k - 1 \in 0 .. bucketCount - 1 /\ bucketIdAt(t) - (bucketCount - 1 - (k - 1)) = b
  BY <1>1, <1>2
<1> DEFINE index == (i - 1) * bucketCount + (k - 1)
<1>6. Replies(channels, t)[index * 2 + 2] = ListAt(c, b)
  <2>1. LET j == k - 1
        IN  Replies(channels, t)[((i - 1) * bucketCount + j) * 2 + 2]
               = ListAt(channels[i], bucketIdAt(t) - (bucketCount - 1 - j))
    <3> HIDE DEF b
    <3> DEFINE j == k - 1
    <3>1. j \in 0 .. bucketCount - 1
      BY <1>5
    <3> HIDE DEF j
    <3>2. Replies(channels, t)[((i - 1) * bucketCount + j) * 2 + 2]
             = ListAt(channels[i], bucketIdAt(t) - (bucketCount - 1 - j))
      BY <1>1, <1>4, <3>1, RightKeys, Zenon
    <3> QED
      BY <3>2 DEF j
  <2> QED
    BY <1>5, <2>1, Zenon
<1>7. latencySamples(channels, i, t)[k] = ListAt(c, b).values
  <2>1. (i - 1) * bucketCount + k - 1 = index
    BY <1>1, <1>4
  <2> HIDE DEF index, b, c
  <2>2. latencySamples(channels, i, t)[k] = Replies(channels, t)[index * 2 + 2].values
    BY <2>1 DEF latencySamples, readBucketSamples
  <2> QED
    BY <1>6, <2>2
<1>8. Newest(ListAt(c, b).values, c, b)
  <2> HIDE DEF b, c
  <2> QED
    BY <1>2, <1>3, <1>4, ListIsNewest
<1> QED
  BY <1>4, <1>7, <1>8 DEF t

\* With any number of writers, the list of a bucket lives as long as its hash and
\* holds the newest of the outcomes that the hash counts, newest first; and every
\* read, up to MaxDelay late, collects exactly these for each of its channels.
THEOREM SamplesStayNewest == Spec => []SamplesAreNewest
<1>1. Init => SampleInv
  BY DEF Init, SampleInv, SampleOf
<1>2. ExactInv /\ SampleInv /\ [Next]_vars => SampleInv'
  BY SampleStep
<1>3. ExactInv /\ SampleInv => SamplesAreNewest
  <2> SUFFICES ASSUME ExactInv, SampleInv PROVE SamplesAreNewest
    OBVIOUS
  <2>1. ASSUME NEW c \in Channels
        PROVE  DOMAIN latency[c] = DOMAIN counters[c] /\ DOMAIN counters[c] \subseteq Nat
    BY DEF ExactInv, IInv, StoreInv, PairInv, KeysInv
  <2>2. ASSUME NEW c \in Channels, NEW b \in DOMAIN latency[c]
        PROVE  Newest(latency[c][b].values, c, b)
    <3>1. b \in Int
      BY <2>1, <2>2
    <3> QED
      BY <2>2, <3>1 DEF SampleInv, SampleOf, Newest
  <2>3. ASSUME NEW channels \in Pipelines, NEW delay \in 0 .. MaxDelay,
               NEW i \in DOMAIN channels, NEW b \in 1 .. bucketCount
        PROVE  Newest(latencySamples(channels, i, now - delay)[b], channels[i],
                      windowBucketIds(now - delay)[b])
    BY <2>3, SamplesAreRead, WindowAssumption
  <2> QED
    BY <2>1, <2>2, <2>3 DEF SamplesAreNewest
<1> QED
  BY <1>1, <1>2, <1>3, Exactness, PTL DEF Spec
=============================================================================
