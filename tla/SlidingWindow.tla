--------------------------- MODULE SlidingWindow ---------------------------
(***************************************************************************)
(* The window of the outcomes in Redis, from src/domain/window.ts and      *)
(* src/store/windowStore.ts: per channel and bucket a hash of counters and *)
(* a list of latencies, each with a TTL that every write renews.  record() *)
(* and readMany() take `now` from a caller that read the clock earlier, so *)
(* both run with a time that is a little old; the keys expire by the clock *)
(* of Redis.  A MULTI is one step.                                         *)
(***************************************************************************)
EXTENDS Integers, Sequences, FiniteSets, SequencesExt

CONSTANTS
    Channels, Outcomes,
    Writers,        \* outcomes being recorded at the same time
    Readers,        \* reads at the same time
    Pipelines,      \* the lists of channels that readMany is called with
    BucketMs,       \* config.bucketMs
    WindowMs,       \* config.windowMs
    SecondMs,       \* a TTL is a number of whole seconds
    MaxSamples,     \* config.maxSamplesPerBucket
    MaxDelay,       \* longest time from reading the clock to the Redis command
    StartTime, MaxTime,     \* bounds of the clock
    NoOutcome

\* loadConfig: positive numbers, and a bucket is no larger than the window.  A
\* read that takes longer than METRICS_TIMEOUT_MS is thrown away.
ASSUME WindowAssumption ==
    /\ BucketMs \in Nat \ {0} /\ WindowMs \in Nat /\ BucketMs <= WindowMs
    /\ SecondMs \in Nat \ {0}
    /\ MaxSamples \in Nat \ {0}
    /\ MaxDelay \in Nat /\ MaxDelay <= WindowMs - BucketMs
    /\ StartTime \in Nat /\ MaxTime \in Nat /\ StartTime <= MaxTime
    /\ Pipelines \subseteq Seq(Channels)
    /\ NoOutcome \notin Outcomes

VARIABLES
    now,        \* the clock, of the service and of Redis
    counters,   \* Redis: the hashes sw:<channel>:<bucket> that exist
    latency,    \* Redis: the lists sw:<channel>:<bucket>:lat that exist
    writing,    \* the outcome each writer is about to record
    asked,      \* the read each reader is about to send
    result,     \* the answer each reader has got
    log         \* history: the outcomes in the order they were recorded

vars == <<now, counters, latency, writing, asked, result, log>>

(***************************************************************************)
(* src/domain/window.ts                                                    *)
(***************************************************************************)
CeilDiv(a, b) == (a + b - 1) \div b

bucketIdAt(t) == t \div BucketMs

bucketCount ==
    IF CeilDiv(WindowMs, BucketMs) > 1 THEN CeilDiv(WindowMs, BucketMs) ELSE 1

\* Oldest first.
windowBucketIds(t) ==
    [i \in 1 .. bucketCount |-> bucketIdAt(t) - (bucketCount - i)]

\* Fault: a key lives for one window.
bucketTtl_oneWindow == CeilDiv(WindowMs, SecondMs) * SecondMs

\* Fault: the milliseconds of the window are taken for seconds.
bucketTtl_seconds == WindowMs * 2 * SecondMs

\* bucketTtlSeconds, in milliseconds.
bucketTtl == CeilDiv(WindowMs * 2, SecondMs) * SecondMs

(***************************************************************************)
(* src/store/windowStore.ts                                                *)
(***************************************************************************)
Put(f, key, value) ==
    [k \in DOMAIN f \union {key} |-> IF k = key THEN value ELSE f[k]]

NoCounters == [success |-> 0, failure |-> 0, expires |-> 0]
NoList     == [values |-> <<>>, expires |-> 0]

CountersAt(c, b) == IF b \in DOMAIN counters[c] THEN counters[c][b] ELSE NoCounters
ListAt(c, b)     == IF b \in DOMAIN latency[c] THEN latency[c][b] ELSE NoList

\* HINCRBY and EXPIRE.
Counted(key, success) ==
    [success |-> key.success + IF success THEN 1 ELSE 0,
     failure |-> key.failure + IF success THEN 0 ELSE 1,
     expires |-> now + bucketTtl]

\* Fault: the list has no TTL of its own.
Pushed_noExpire(key, outcome) ==
    [values |-> SubSeq(<<outcome>> \o key.values, 1,
                  IF Len(key.values) + 1 < MaxSamples THEN Len(key.values) + 1
                                                      ELSE MaxSamples),
     expires |-> MaxTime + 1]

\* LPUSH, LTRIM and EXPIRE.
Pushed(key, outcome) ==
    [values |-> SubSeq(<<outcome>> \o key.values, 1,
                  IF Len(key.values) + 1 < MaxSamples THEN Len(key.values) + 1
                                                      ELSE MaxSamples),
     expires |-> now + bucketTtl]

\* What exec() gives back for the pipeline of readMany(channels, t): for every
\* channel, for every bucket, the counters and then the list.
Replies(channels, t) ==
    LET ids == windowBucketIds(t)
        bucket(k) == ids[(((k - 1) \div 2) % Len(ids)) + 1]
        channel(k) == channels[(((k - 1) \div 2) \div Len(ids)) + 1]
    IN  [k \in 1 .. 2 * Len(ids) * Len(channels) |->
            IF k % 2 = 1 THEN CountersAt(channel(k), bucket(k))
                         ELSE ListAt(channel(k), bucket(k))]

\* Bucket number index takes the replies index * 2 and index * 2 + 1, from 0: the
\* counters of the first one and the samples of the second.
readBucketReply(replies, index) ==
    [success |-> replies[index * 2 + 1].success,
     failure |-> replies[index * 2 + 1].failure]

readBucketSamples(replies, index) == replies[index * 2 + 2].values

\* The sum of a sequence.
SumOf(seq) ==
    LET sum[k \in 0 .. Len(seq)] == IF k = 0 THEN 0 ELSE sum[k - 1] + seq[k]
    IN  sum[Len(seq)]

\* The samples that are put together for channel number i, bucket after bucket.
latencySamples(channels, i, t) ==
    LET replies == Replies(channels, t)
    IN  [b \in 1 .. bucketCount |->
            readBucketSamples(replies, (i - 1) * bucketCount + b - 1)]

\* The aggregate of channel number i.
Stats(channels, i, t) ==
    LET replies == Replies(channels, t)
        bucket(b) == readBucketReply(replies, (i - 1) * bucketCount + b)
    IN  [success |-> SumOf([j \in 1 .. bucketCount |-> bucket(j - 1).success]),
         failure |-> SumOf([j \in 1 .. bucketCount |-> bucket(j - 1).failure])]

readMany(channels, t) ==
    [c \in ToSet(channels) |->
        Stats(channels, CHOOSE i \in DOMAIN channels : channels[i] = c, t)]

\* Fault: the buckets come newest first, as LPUSH leaves a list.
startMs_newestFirst(ids, i) == ids[Len(ids) + 1 - i] * BucketMs

startMs(ids, i) == ids[i] * BucketMs

\* The pipeline of readBuckets(c, t) is that of one channel.
readBuckets(c, t) ==
    LET ids == windowBucketIds(t)
        replies == Replies(<<c>>, t)
    IN  [i \in DOMAIN ids |-> [startMs |-> startMs(ids, i),
                               success |-> readBucketReply(replies, i - 1).success,
                               failure |-> readBucketReply(replies, i - 1).failure]]

\* The points of series() for channel c: the rate as a fraction, or a gap.
Series(c, t) ==
    LET buckets == readBuckets(c, t)
    IN  [i \in DOMAIN buckets |->
            LET p == buckets[i]
                total == p.success + p.failure
            IN  [startMs |-> p.startMs, success |-> p.success, failure |-> p.failure,
                 successRate |-> IF total = 0 THEN <<>> ELSE <<p.success, total>>]]

Idle    == [outcome |-> NoOutcome, channel |-> NoOutcome, success |-> FALSE, at |-> 0]
Nothing == [channels |-> <<>>, at |-> 0]

\* OutcomeHandler.handle has claimed an outcome and takes its time.
Begin(w) ==
    /\ writing[w] = Idle
    /\ \E o \in Outcomes, c \in Channels, success \in BOOLEAN :
          /\ \A e \in ToSet(log) \union {writing[v] : v \in Writers} : e.outcome # o
          /\ writing' = [writing EXCEPT ![w] = [outcome |-> o, channel |-> c,
                                                success |-> success, at |-> now]]
    /\ UNCHANGED <<now, counters, latency, asked, result, log>>

\* WindowStore.record.
Record(w) ==
    LET e == writing[w]
        b == bucketIdAt(e.at)
    IN  /\ e # Idle
        /\ counters' = [counters EXCEPT ![e.channel] =
                           Put(@, b, Counted(CountersAt(e.channel, b), e.success))]
        /\ latency' = [latency EXCEPT ![e.channel] =
                          Put(@, b, Pushed(ListAt(e.channel, b), e.outcome))]
        /\ log' = Append(log, e)
        /\ writing' = [writing EXCEPT ![w] = Idle]
        /\ UNCHANGED <<now, asked, result>>

\* A request or a handler takes its time.
Ask(r) ==
    /\ asked[r] = Nothing
    /\ \E channels \in Pipelines :
          asked' = [asked EXCEPT ![r] = [channels |-> channels, at |-> now]]
    /\ result' = [result EXCEPT ![r] = <<>>]
    /\ UNCHANGED <<now, counters, latency, writing, log>>

\* WindowStore.readMany.
Read(r) ==
    /\ asked[r] # Nothing
    /\ result' = [result EXCEPT ![r] = readMany(asked[r].channels, asked[r].at)]
    /\ asked' = [asked EXCEPT ![r] = Nothing]
    /\ UNCHANGED <<now, counters, latency, writing, log>>

\* The keys of f that are left at time t.
Alive(f, t) == Restrict(f, {k \in DOMAIN f : f[k].expires > t})

Tick ==
    /\ now < MaxTime
    /\ \A w \in Writers : writing[w] # Idle => now - writing[w].at < MaxDelay
    /\ \A r \in Readers : asked[r] # Nothing => now - asked[r].at < MaxDelay
    /\ now' = now + 1
    /\ counters' = [c \in Channels |-> Alive(counters[c], now')]
    /\ latency' = [c \in Channels |-> Alive(latency[c], now')]
    /\ UNCHANGED <<writing, asked, result, log>>

Init ==
    /\ now = StartTime
    /\ counters = [c \in Channels |-> <<>>]
    /\ latency = [c \in Channels |-> <<>>]
    /\ writing = [w \in Writers |-> Idle]
    /\ asked = [r \in Readers |-> Nothing]
    /\ result = [r \in Readers |-> <<>>]
    /\ log = <<>>

Next ==
    \/ \E w \in Writers : Begin(w) \/ Record(w)
    \/ \E r \in Readers : Ask(r) \/ Read(r)
    \/ Tick

Spec == Init /\ [][Next]_vars

(***************************************************************************)
(* What must hold.                                                         *)
(***************************************************************************)
Ideal == INSTANCE IdealWindow WITH
    Reads <- {ToSet(channels) : channels \in Pipelines},
    Times <- 0 .. MaxTime,
    BucketCount <- CeilDiv(WindowMs, BucketMs),
    log <- ToSet(log),
    asked <- [r \in Readers |-> [channels |-> ToSet(asked[r].channels),
                                 at |-> asked[r].at]]

\* Every read gets the true numbers of its window: no bucket it needs has
\* expired, none is counted twice or for another channel, whatever the delays
\* of the writers and of the reader (window.ts, bucketTtlSeconds: one window
\* would remove a key that a reader still needs).
CountsAreExact == Ideal!Spec

\* The chart of a channel, drawn by a reader as late as MaxDelay, tells for every
\* stretch of the window exactly what was recorded with a time in it, has a gap
\* where nothing was and nowhere else, and ends with the stretch of the reader
\* (channelHealthService.ts: "a zero would draw a fall that never happened").
SeriesIsExact ==
    \A c \in Channels, delay \in 0 .. MaxDelay :
        LET t == now - delay
            points == Series(c, t)
            within(p, good) == {e \in ToSet(log) :
                e.channel = c /\ e.success = good
                    /\ e.at \in p.startMs .. p.startMs + BucketMs - 1}
        IN  /\ \A i \in DOMAIN points :
                  LET p == points[i]
                  IN  /\ p.success = Cardinality(within(p, TRUE))
                      /\ p.failure = Cardinality(within(p, FALSE))
                      /\ p.successRate = <<>> <=>
                            within(p, TRUE) \union within(p, FALSE) = {}
            /\ t \in Last(points).startMs .. Last(points).startMs + BucketMs - 1
            /\ points[1].startMs <= t - WindowMs + BucketMs

\* The places in the log of the outcomes of channel c and bucket b.
Recorded(c, b) ==
    {i \in DOMAIN log : log[i].channel = c /\ bucketIdAt(log[i].at) = b}

\* How many of the places S are i or later.
Newness(S, i) == Cardinality({j \in S : j >= i})

\* The list holds the newest MaxSamples outcomes of channel c and bucket b,
\* newest first.
Newest(values, c, b) ==
    LET places == Recorded(c, b)
    IN  /\ Len(values) = IF Cardinality(places) < MaxSamples
                           THEN Cardinality(places) ELSE MaxSamples
        /\ \A i \in places : Newness(places, i) <= MaxSamples =>
              values[Newness(places, i)] = log[i].outcome

\* The two keys of a bucket live and die together, the list holds the newest of
\* the outcomes that the hash counts, and a read as late as MaxDelay collects for
\* each of its channels these samples of every bucket of the window: none of
\* another channel, none lost to a TTL.
SamplesAreNewest ==
    /\ \A c \in Channels :
          /\ DOMAIN latency[c] = DOMAIN counters[c]
          /\ \A b \in DOMAIN latency[c] : Newest(latency[c][b].values, c, b)
    /\ \A channels \in Pipelines, delay \in 0 .. MaxDelay :
          \A i \in DOMAIN channels, b \in 1 .. bucketCount :
              Newest(latencySamples(channels, i, now - delay)[b], channels[i],
                     windowBucketIds(now - delay)[b])

\* No key is left behind: a bucket is gone two windows, rounded up to a second,
\* after the last outcome that could be recorded in it (WindowStore.record: a
\* key without a TTL fills Redis up).
OldBucketsGo ==
    \A c \in Channels : \A b \in DOMAIN counters[c] \union DOMAIN latency[c] :
        now < (b + 1) * BucketMs + MaxDelay + 2 * WindowMs + SecondMs
=============================================================================
