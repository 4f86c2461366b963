-------------------------- MODULE RoutingProtocol --------------------------
(***************************************************************************)
(* Concurrent POST /route requests and outcome handlers over the shared    *)
(* state in Redis: the breaker hash, the probe lock and the window of each *)
(* channel.  Nothing locks a breaker, so every await of RoutingService     *)
(* .route and of OutcomeHandler.handle is a point where the others run,    *)
(* and every action here is the code between two of them.                  *)
(*                                                                         *)
(* A payout asks once for a route, goes out on the channel it is given,    *)
(* and its outcome is put on the stream, from where it is delivered to the *)
(* handlers any number of times.  The window is kept as the set of         *)
(* recorded outcomes; module SlidingWindow shows that the Redis buckets    *)
(* count the same.  Scores are left out: any eligible channel may be       *)
(* selected, as the best one or by exploration.                            *)
(***************************************************************************)
EXTENDS BreakerRules, Sequences, FiniteSets

CONSTANTS
    ChannelSeq,     \* the channels in the order listChannels returns them
    Enabled,        \* the enabled ones
    Limits,         \* the sets of channels a caller may say it can reach
    Payouts,        \* one route request and one outcome event each
    Handlers,       \* outcomes being handled at the same time
    Window,         \* config.windowMs
    SlotTtl,        \* PROBE_SLOT_TTL_MS
    ProcessedTtl,   \* PROCESSED_TTL_SECONDS
    MaxTime,        \* bound on the clock
    NoChannel, NoPayout

Channels == {ChannelSeq[i] : i \in DOMAIN ChannelSeq}

ASSUME RoutingAssumption ==
    /\ ChannelSeq \in Seq(Channels)
    /\ Enabled \subseteq Channels
    /\ Limits \subseteq SUBSET Channels
    /\ IsFiniteSet(Payouts)
    /\ Window \in Nat \ {0}
    /\ SlotTtl \in Nat \ {0}
    /\ ProcessedTtl \in Nat \ {0}
    /\ MaxTime \in Nat
    /\ NoChannel \notin Channels /\ NoPayout \notin Payouts

VARIABLES
    now,        \* the clock
    breaker,    \* Redis: breaker:<channel>; a missing hash reads as closed
    slot,       \* Redis: when probe:<channel> expires, 0 when there is no key
    recorded,   \* Redis: the outcomes counted in sw:<channel>:<bucket>
    processed,  \* Redis: when processed:<event> expires, 0 when there is no key
    pc,         \* where the request of each payout stands
    at,         \* its `now`
    ids,        \* the channels it may use
    stats,      \* the windows it read
    view,       \* the snapshots it read, moved by evaluateBreaker
    todo,       \* the channels whose moved snapshot it still has to write
    chosen,     \* the HALF_OPEN channel it asks a slot for
    answer,     \* its decision
    outcome,    \* the outcome event of the payout, once published
    hpc,        \* where each handler stands
    event,      \* the payout whose outcome it handles
    hat,        \* its `now`
    hsnap,      \* the snapshot it is about to write
    standing,   \* history: channels OPEN and not due, ever since the request began
    probed      \* history: the good outcomes looked at while HALF_OPEN, each with
                \*   the opening time of that breaker

redis    == <<breaker, slot, recorded, processed>>
request  == <<pc, at, ids, stats, view, todo, chosen, answer>>
handling == <<hpc, event, hat, hsnap>>
vars     == <<now, redis, request, outcome, handling, standing, probed>>

Record == [payout : Payouts, channel : Channels, success : BOOLEAN, at : Nat]

Probe == [outcome : Record, opened : Nat]

\* A decision: the channel, and whether its probe slot was taken for it.
NoAnswer == [channel |-> NoChannel, slot |-> FALSE]

Answer == [channel : Channels \union {NoChannel}, slot : BOOLEAN]

Waiting == {"readStats", "readBreakers", "refresh", "takeSlot", "persist"}
Done    == {"answered", "rejected", "failed"}

NoStats == [c \in Channels |-> [success |-> 0, failure |-> 0]]
NoView  == [c \in Channels |-> closedBreaker]

TypeOK ==
    /\ now \in Nat
    /\ breaker \in [Channels -> Snapshot]
    /\ slot \in [Channels -> Nat]
    /\ recorded \subseteq Record /\ IsFiniteSet(recorded)
    /\ processed \in [Payouts -> Nat]
    /\ pc \in [Payouts -> {"idle"} \union Waiting \union Done]
    /\ at \in [Payouts -> Nat]
    /\ ids \in [Payouts -> SUBSET Channels]
    /\ stats \in [Payouts -> [Channels -> Stats]]
    /\ view \in [Payouts -> [Channels -> Snapshot]]
    /\ todo \in [Payouts -> SUBSET Channels]
    /\ chosen \in [Payouts -> Channels \union {NoChannel}]
    /\ answer \in [Payouts -> Answer]
    /\ outcome \in [Payouts -> {"none", "success", "failed"}]
    /\ hpc \in [Handlers -> {"idle", "record", "read", "evaluate", "write",
                             "writeProbe", "release"}]
    /\ event \in [Handlers -> Payouts \union {NoPayout}]
    /\ hat \in [Handlers -> Nat]
    /\ hsnap \in [Handlers -> Snapshot]
    /\ standing \in [Payouts -> SUBSET Channels]
    /\ probed \subseteq Probe /\ IsFiniteSet(probed)

(***************************************************************************)
(* The stores.                                                             *)
(***************************************************************************)
\* The outcomes in R of channel c in the window that ends at time t.
InWindow(R, c, t) ==
    {r \in R : r.channel = c /\ t - Window < r.at /\ r.at <= t}

\* Fault: the buckets of the channels are mixed up.
ReadWindow_anyChannel(c, t) ==
    LET R == UNION {InWindow(recorded, d, t) : d \in Channels}
    IN  [success |-> Cardinality({r \in R : r.success}),
         failure |-> Cardinality({r \in R : ~r.success})]

\* WindowStore.readMany for one channel.
ReadWindow(c, t) ==
    [success |-> Cardinality({r \in InWindow(recorded, c, t) : r.success}),
     failure |-> Cardinality({r \in InWindow(recorded, c, t) : ~r.success})]

\* SET NX succeeds.
SlotFree(c) == slot[c] = 0

\* The first channel of S in the order of the list.
First(S) ==
    CHOOSE c \in S : \E i \in DOMAIN ChannelSeq :
        /\ ChannelSeq[i] = c
        /\ \A j \in 1 .. i - 1 : ChannelSeq[j] \notin S

(***************************************************************************)
(* A route request.                                                        *)
(***************************************************************************)
\* Fault: only a disabled channel is left out.
Eligible_openToo(p) == {c \in ids[p] : c \in Enabled}

\* buildCandidates: HALF_OPEN is eligible, OPEN and disabled are not.
Eligible(p) ==
    {c \in ids[p] : c \in Enabled /\ view[p][c].state # "OPEN"}

\* The request has its decision a, or none, and goes on to end.
Finish(p, end, a) ==
    /\ pc' = [pc EXCEPT ![p] = end]
    /\ answer' = [answer EXCEPT ![p] = a]
    /\ at' = [at EXCEPT ![p] = 0]
    /\ stats' = [stats EXCEPT ![p] = NoStats]
    /\ view' = [view EXCEPT ![p] = NoView]
    /\ todo' = [todo EXCEPT ![p] = {}]
    /\ chosen' = [chosen EXCEPT ![p] = NoChannel]
    /\ ids' = [ids EXCEPT ![p] = {}]

\* The decision for channel c of the candidates of p, which has to be logged.
Decide(p, c, gotSlot) ==
    Finish(p, "persist", [channel |-> c, slot |-> gotSlot])

\* NoEligibleChannelError: the caller gets an error and no payout goes out.
Reject(p) == Finish(p, "rejected", NoAnswer)

\* route() takes its time and keeps what the caller can reach.
Start(p) ==
    /\ pc[p] = "idle"
    /\ \E limit \in Limits :
          /\ ids' = [ids EXCEPT ![p] = limit]
          /\ pc' = [pc EXCEPT ![p] = IF limit = {} THEN "rejected" ELSE "readStats"]
          /\ at' = [at EXCEPT ![p] = IF limit = {} THEN 0 ELSE now]
    /\ UNCHANGED <<now, redis, stats, view, todo, chosen, answer, outcome, handling>>

ReadStats(p) ==
    /\ pc[p] = "readStats"
    /\ pc' = [pc EXCEPT ![p] = "readBreakers"]
    /\ stats' = [stats EXCEPT ![p] = [c \in Channels |->
                    IF c \in ids[p] THEN ReadWindow(c, at[p]) ELSE NoStats[c]]]
    /\ UNCHANGED <<now, redis, at, ids, view, todo, chosen, answer, outcome, handling>>

\* The snapshots are read in one MULTI; refreshBreakers then moves each of them
\* with the numbers of the request and has to write the ones that moved.
ReadBreakers(p) ==
    LET moved == [c \in Channels |-> IF c \in ids[p]
                    THEN evaluateBreaker(breaker[c], stats[p][c], at[p])
                    ELSE closedBreaker]
    IN  /\ pc[p] = "readBreakers"
        /\ pc' = [pc EXCEPT ![p] = "refresh"]
        /\ view' = [view EXCEPT ![p] = moved]
        /\ todo' = [todo EXCEPT ![p] = {c \in ids[p] :
                        \/ moved[c].state # breaker[c].state
                        \/ moved[c].openedAt # breaker[c].openedAt}]
        /\ stats' = [stats EXCEPT ![p] = NoStats]
        /\ UNCHANGED <<now, redis, at, ids, chosen, answer, outcome, handling>>

\* The budget of the two reads ran out or one of them failed: the first
\* enabled channel is the answer, whatever its breaker.  The log of a degraded
\* decision is not waited for.
Degrade(p) ==
    /\ pc[p] \in {"readStats", "readBreakers"}
    /\ IF ids[p] \intersect Enabled = {}
         THEN Reject(p)
         ELSE Finish(p, "answered",
                     [channel |-> First(ids[p] \intersect Enabled), slot |-> FALSE])
    /\ UNCHANGED <<now, redis, outcome, handling>>

\* One write of refreshBreakers, in the order of the list.  It overwrites what
\* is there.
RefreshWrite(p) ==
    LET c == First(todo[p])
    IN  /\ pc[p] = "refresh" /\ todo[p] # {}
        /\ breaker' = [breaker EXCEPT ![c] = view[p][c]]
        /\ todo' = [todo EXCEPT ![p] = @ \ {c}]
        /\ UNCHANGED <<now, slot, recorded, processed, pc, at, ids, stats, view,
                       chosen, answer, outcome, handling>>

\* The write fails and the request goes on.
RefreshWriteFails(p) ==
    /\ pc[p] = "refresh" /\ todo[p] # {}
    /\ todo' = [todo EXCEPT ![p] = @ \ {First(todo[p])}]
    /\ UNCHANGED <<now, redis, pc, at, ids, stats, view, chosen, answer, outcome,
                   handling>>

\* The first selection.  A HALF_OPEN channel still needs its probe slot.
Select(p) ==
    /\ pc[p] = "refresh" /\ todo[p] = {}
    /\ \/ Eligible(p) = {} /\ Reject(p)
       \/ \E c \in Eligible(p) :
             IF view[p][c].state = "HALF_OPEN"
               THEN /\ pc' = [pc EXCEPT ![p] = "takeSlot"]
                    /\ chosen' = [chosen EXCEPT ![p] = c]
                    /\ UNCHANGED <<at, ids, stats, view, todo, answer>>
               ELSE Decide(p, c, FALSE)
    /\ UNCHANGED <<now, redis, outcome, handling>>

TakeSlot(p) ==
    /\ pc[p] = "takeSlot" /\ SlotFree(chosen[p])
    /\ slot' = [slot EXCEPT ![chosen[p]] = now + SlotTtl]
    /\ Decide(p, chosen[p], TRUE)
    /\ UNCHANGED <<now, breaker, recorded, processed, outcome, handling>>

\* Fault: with no second choice the request waits for the slot.
SlotRefused_waits(p) ==
    LET others == Eligible(p) \ {chosen[p]}
    IN  /\ pc[p] = "takeSlot" /\ ~SlotFree(chosen[p])
        /\ \E c \in others : Decide(p, c, FALSE)
        /\ UNCHANGED <<now, redis, outcome, handling>>

\* The slot is held: the channel is marked probe-in-flight and the selection
\* is made again among the others.  No slot is asked for the second choice.
SlotRefused(p) ==
    LET others == Eligible(p) \ {chosen[p]}
    IN  /\ pc[p] = "takeSlot" /\ ~SlotFree(chosen[p])
        /\ \/ others = {} /\ Reject(p)
           \/ \E c \in others : Decide(p, c, FALSE)
        /\ UNCHANGED <<now, redis, outcome, handling>>

\* Redis fails while the slot is asked for: nothing catches it, and route()
\* throws.  The SET may have been carried out all the same.
SlotFails(p) ==
    /\ pc[p] = "takeSlot"
    /\ \/ UNCHANGED slot
       \/ SlotFree(chosen[p]) /\ slot' = [slot EXCEPT ![chosen[p]] = now + SlotTtl]
    /\ Finish(p, "failed", NoAnswer)
    /\ UNCHANGED <<now, breaker, recorded, processed, outcome, handling>>

\* The decision is in the log, or could not be written, and the caller has it.
Persist(p) ==
    /\ pc[p] = "persist"
    /\ pc' = [pc EXCEPT ![p] = "answered"]
    /\ UNCHANGED <<now, redis, at, ids, stats, view, todo, chosen, answer, outcome,
                   handling>>

Route(p) ==
    \/ Start(p) \/ ReadStats(p) \/ ReadBreakers(p) \/ Degrade(p)
    \/ RefreshWrite(p) \/ RefreshWriteFails(p) \/ Select(p)
    \/ TakeSlot(p) \/ SlotRefused(p) \/ SlotFails(p) \/ Persist(p)

\* The payout ends on its channel and the orchestrator publishes the outcome.
Publish(p) ==
    /\ pc[p] = "answered" /\ outcome[p] = "none"
    /\ \E result \in {"success", "failed"} :
          outcome' = [outcome EXCEPT ![p] = result]
    /\ UNCHANGED <<now, redis, request, handling>>

(***************************************************************************)
(* An outcome handler.                                                     *)
(***************************************************************************)
\* The handler returns or throws; the message it leaves pending is delivered
\* again.
Leave(h) ==
    /\ hpc' = [hpc EXCEPT ![h] = "idle"]
    /\ event' = [event EXCEPT ![h] = NoPayout]
    /\ hat' = [hat EXCEPT ![h] = 0]
    /\ hsnap' = [hsnap EXCEPT ![h] = closedBreaker]

\* The channel of the outcome a handler works on.
Of(h) == answer[event[h]].channel

\* Fault: a plain SET, which a repeat passes too.
claim_always(p) == processed' = [processed EXCEPT ![p] = now + ProcessedTtl]

\* SET EX NX on processed:<event>.
claim(p) ==
    /\ processed[p] = 0
    /\ processed' = [processed EXCEPT ![p] = now + ProcessedTtl]

\* A delivered outcome is claimed; a repeat stops here and changes nothing while
\* the key lives.
Claim(h) ==
    /\ hpc[h] = "idle"
    /\ \E p \in Payouts :
          /\ outcome[p] # "none"
          /\ claim(p)
          /\ event' = [event EXCEPT ![h] = p]
    /\ hpc' = [hpc EXCEPT ![h] = "record"]
    /\ hat' = [hat EXCEPT ![h] = now]
    /\ UNCHANGED <<now, breaker, slot, recorded, request, outcome, hsnap>>

\* What a handler records.
OutcomeOf(h) ==
    [payout |-> event[h], channel |-> Of(h),
     success |-> outcome[event[h]] = "success", at |-> hat[h]]

RecordOutcome(h) ==
    /\ hpc[h] = "record"
    /\ recorded' = recorded \union {OutcomeOf(h)}
    /\ hpc' = [hpc EXCEPT ![h] = "read"]
    /\ UNCHANGED <<now, breaker, slot, processed, request, outcome, event, hat, hsnap>>

\* applyToBreaker reads the snapshot.  Whatever comes in while the channel is
\* HALF_OPEN counts as a probe; otherwise the window decides.
ReadBreaker(h) ==
    LET current == breaker[Of(h)]
        next == recordProbe(current, outcome[event[h]] = "success", hat[h])
    IN  /\ hpc[h] = "read"
        /\ IF current.state = "HALF_OPEN"
             THEN /\ hpc' = [hpc EXCEPT ![h] = "writeProbe"]
                  /\ hsnap' = [hsnap EXCEPT ![h] = next]
             ELSE /\ hpc' = [hpc EXCEPT ![h] = "evaluate"]
                  /\ hsnap' = [hsnap EXCEPT ![h] = current]
        /\ UNCHANGED <<now, redis, request, outcome, event, hat>>

\* windows.read, and the snapshot is written only when it moved.
Evaluate(h) ==
    LET next == evaluateBreaker(hsnap[h], ReadWindow(Of(h), hat[h]), hat[h])
    IN  /\ hpc[h] = "evaluate"
        /\ IF next = hsnap[h]
             THEN Leave(h)
             ELSE /\ hpc' = [hpc EXCEPT ![h] = "write"]
                  /\ hsnap' = [hsnap EXCEPT ![h] = next]
                  /\ UNCHANGED <<event, hat>>
        /\ UNCHANGED <<now, redis, request, outcome>>

Write(h) ==
    /\ hpc[h] = "write"
    /\ breaker' = [breaker EXCEPT ![Of(h)] = hsnap[h]]
    /\ Leave(h)
    /\ UNCHANGED <<now, slot, recorded, processed, request, outcome>>

WriteProbe(h) ==
    /\ hpc[h] = "writeProbe"
    /\ breaker' = [breaker EXCEPT ![Of(h)] = hsnap[h]]
    /\ hpc' = [hpc EXCEPT ![h] = "release"]
    /\ hsnap' = [hsnap EXCEPT ![h] = closedBreaker]
    /\ UNCHANGED <<now, slot, recorded, processed, request, outcome, event, hat>>

\* DEL probe:<channel>, whoever holds it.
ReleaseSlot(h) ==
    /\ hpc[h] = "release"
    /\ slot' = [slot EXCEPT ![Of(h)] = 0]
    /\ Leave(h)
    /\ UNCHANGED <<now, breaker, recorded, processed, request, outcome>>

\* A Redis call fails or the process dies.  The claim stays.
HandlerFails(h) ==
    /\ hpc[h] # "idle"
    /\ Leave(h)
    /\ UNCHANGED <<now, redis, request, outcome>>

Handle(h) ==
    \/ Claim(h) \/ RecordOutcome(h) \/ ReadBreaker(h) \/ Evaluate(h)
    \/ Write(h) \/ WriteProbe(h) \/ ReleaseSlot(h) \/ HandlerFails(h)

\* Time passes, and Redis drops the keys that expire.
Tick ==
    /\ now < MaxTime
    /\ now' = now + 1
    /\ slot' = [c \in Channels |-> IF slot[c] <= now' THEN 0 ELSE slot[c]]
    /\ processed' = [p \in Payouts |-> IF processed[p] <= now' THEN 0 ELSE processed[p]]
    /\ UNCHANGED <<breaker, recorded, request, outcome, handling>>

\* OPEN, and not due for a request that began at time t.
Blocked(snapshot, t) ==
    snapshot.state = "OPEN" /\ t - snapshot.openedAt < OpenMs

\* History: keep the channels that are still blocked after this step, and the
\* good outcomes that now count as probes.
Observe ==
    /\ standing' = [p \in Payouts |->
          IF pc'[p] \notin Waiting \ {"persist"} THEN {}
          ELSE {c \in IF pc[p] = "idle" THEN Channels ELSE standing[p] :
                   Blocked(breaker'[c], at'[p])}]
    /\ probed' = probed \union
          {[outcome |-> OutcomeOf(h), opened |-> breaker[Of(h)].openedAt] :
              h \in {g \in Handlers : /\ hpc[g] = "read" /\ hpc'[g] = "writeProbe"
                                     /\ outcome[event[g]] = "success"}}

Init ==
    /\ now = 0
    /\ breaker = [c \in Channels |-> closedBreaker]
    /\ slot = [c \in Channels |-> 0]
    /\ recorded = {} /\ processed = [p \in Payouts |-> 0]
    /\ pc = [p \in Payouts |-> "idle"]
    /\ at = [p \in Payouts |-> 0]
    /\ ids = [p \in Payouts |-> {}]
    /\ stats = [p \in Payouts |-> NoStats]
    /\ view = [p \in Payouts |-> NoView]
    /\ todo = [p \in Payouts |-> {}]
    /\ chosen = [p \in Payouts |-> NoChannel]
    /\ answer = [p \in Payouts |-> NoAnswer]
    /\ outcome = [p \in Payouts |-> "none"]
    /\ hpc = [h \in Handlers |-> "idle"]
    /\ event = [h \in Handlers |-> NoPayout]
    /\ hat = [h \in Handlers |-> 0]
    /\ hsnap = [h \in Handlers |-> closedBreaker]
    /\ standing = [p \in Payouts |-> {}]
    /\ probed = {}

Next ==
    /\ \/ \E p \in Payouts : Route(p) \/ Publish(p)
       \/ \E h \in Handlers : Handle(h)
       \/ Tick
    /\ Observe

Spec == Init /\ [][Next]_vars

\* A request whose Redis commands are answered makes its next step.
Served(p) ==
    \/ Start(p) \/ ReadStats(p) \/ ReadBreakers(p) \/ RefreshWrite(p)
    \/ Select(p) \/ TakeSlot(p) \/ SlotRefused(p) \/ Persist(p)

RedisAnswers == Spec /\ \A p \in Payouts : WF_vars(Served(p) /\ Observe)

(***************************************************************************)
(* What must hold.                                                         *)
(***************************************************************************)
\* The good outcomes of P looked at while channel c was HALF_OPEN after it was
\* opened at time o.
Probes(P, c, o) == {x \in P : x.outcome.channel = c /\ x.opened = o}

FailuresUpTo(R, c, t) ==
    {r \in R : r.channel = c /\ ~r.success /\ t - Window < r.at /\ r.at <= t}

\* The outcomes R recorded for channel c justify a breaker opened at time t:
\* one failed outcome at t itself (a failed probe), or so many failures in the
\* window that ends at t that MinSamples outcomes can be over the threshold.
Justified(R, c, t) ==
    \/ \E r \in FailuresUpTo(R, c, t) : r.at = t
    \/ Cardinality(FailuresUpTo(R, c, t)) * ThresholdDen
          > (ThresholdDen - ThresholdNum) * MinSamples

\* A channel is taken out of the payouts only for a reason: whatever writes
\* overwrite each other, the stored opening time of a breaker that is not
\* CLOSED is one at which the recorded outcomes justified it (breaker.ts: never
\* open with too few samples; one failed probe is enough).
BlockIsJustified ==
    \A c \in Channels :
        breaker[c].state # "CLOSED" => Justified(recorded, c, breaker[c].openedAt)

\* A breaker is never HALF_OPEN before OpenMs have passed since the opening
\* time it carries, even when it was written by a request that started long ago.
HalfOpenIsAged ==
    \A c \in Channels :
        breaker[c].state = "HALF_OPEN" => now - breaker[c].openedAt >= OpenMs

\* A breaker closes only on ProbesToClose different good outcomes, all of them
\* looked at while it was HALF_OPEN after one and the same opening: none from
\* before, none counted twice and none left over from an earlier trial, although
\* outcomes are delivered again and snapshots overwrite each other.  (The opening
\* need not be the stored one: a close may overwrite a newer OPEN.)
ClosesOnGoodProbes ==
    [][\A c \in Channels :
          breaker[c].state # "CLOSED" /\ breaker'[c].state = "CLOSED"
             => \E o \in 0 .. now :
                   Cardinality(Probes(probed, c, o)) >= ProbesToClose]_vars

\* The times of two claims that the key of the first did not stop.
Apart(t, u) == t + ProcessedTtl <= u \/ u + ProcessedTtl <= t

\* An outcome counts once for each lifetime of its processed key, however often
\* it is delivered: a repeat that counts again comes ProcessedTtl later
\* (processedStore.ts).
CountedOnce ==
    \A r1, r2 \in recorded :
        r1.payout = r2.payout => r1 = r2 \/ Apart(r1.at, r2.at)

\* A channel that was OPEN, and not due for a probe, from the start of a
\* request up to its decision is never that decision, unless it was made
\* without the snapshots (degraded).
StandingBlockHolds ==
    [][\A p \in Payouts :
          pc[p] \in {"refresh", "takeSlot"} /\ pc'[p] = "persist"
             => answer'[p].channel \notin standing[p]]_vars

\* Every request that was taken comes to an end when its Redis commands are
\* answered: no request waits for the probe slot of another.
RouteEnds == \A p \in Payouts : pc[p] \in Waiting ~> pc[p] \in Done

(***************************************************************************)
(* The inductive invariant behind the theorems.                            *)
(***************************************************************************)
\* Where a request or a handler stands says which of its variables are set.
Control ==
    /\ \A p \in Payouts :
          /\ pc[p] # "readBreakers" => stats[p] = NoStats
          /\ pc[p] = "takeSlot" => chosen[p] \in Eligible(p)
          /\ pc[p] \in {"persist", "answered"} => answer[p].channel \in Channels
          /\ outcome[p] # "none" => pc[p] = "answered"
    /\ \A h \in Handlers :
          /\ hpc[h] = "idle" => hsnap[h] = closedBreaker
          /\ hpc[h] # "idle" => event[h] \in Payouts /\ outcome[event[h]] # "none"

\* The claim of p at time t has lapsed, or the key in Redis is not older.
Spent(p, t) ==
    IF processed[p] = 0 THEN t + ProcessedTtl <= now
    ELSE t + ProcessedTtl <= processed[p]

\* A claimed outcome has one handler before it is recorded: whoever else works on
\* it, or has recorded it, claimed it in another lifetime of the key.
Claims ==
    /\ \A h \in Handlers : hpc[h] # "idle" => Spent(event[h], hat[h])
    /\ \A r \in recorded : Spent(r.payout, r.at)
    /\ \A h \in Handlers, r \in recorded :
          hpc[h] = "record" /\ r.payout = event[h] => Apart(r.at, hat[h])
    /\ \A h, g \in Handlers :
          h # g /\ hpc[h] # "idle" /\ hpc[g] # "idle" /\ event[h] = event[g]
             => Apart(hat[h], hat[g])

\* A snapshot that may be stored for channel c at time n, with R recorded.
Sound(R, n, c, s) ==
    /\ s.state # "CLOSED" => Justified(R, c, s.openedAt)
    /\ s.state = "HALF_OPEN" => n - s.openedAt >= OpenMs

\* Every snapshot in Redis is sound.
StoreSound == \A c \in Channels : Sound(recorded, now, c, breaker[c])

\* So is every snapshot a request is about to write, and the window it read
\* holds no failure that was not recorded.
RequestsSound ==
    \A p \in Payouts :
        /\ at[p] <= now
        /\ \A c \in Channels :
              /\ Sound(recorded, now, c, view[p][c])
              /\ stats[p][c].failure <= Cardinality(FailuresUpTo(recorded, c, at[p]))

\* So is every snapshot a handler is about to write, and it has recorded the
\* outcome before it looks at the breaker.
HandlersSound ==
    \A h \in Handlers :
        /\ hat[h] <= now
        /\ hpc[h] # "idle" => Sound(recorded, now, Of(h), hsnap[h])
        /\ hpc[h] \notin {"idle", "record"}
              => OutcomeOf(h) \in recorded

\* A channel that has been blocked since the request began is blocked in Redis
\* and, once the snapshots are read, OPEN in the view of the request.
Standing ==
    \A p \in Payouts : \A c \in standing[p] :
        /\ Blocked(breaker[c], at[p])
        /\ pc[p] \in {"refresh", "takeSlot"} /\ c \in ids[p]
              => view[p][c].state = "OPEN"

Evidence == StoreSound /\ RequestsSound /\ HandlersSound

\* No outcome has been probed that its handler still has to look at.
Fresh ==
    /\ \A x \in probed : x.outcome \in recorded
    /\ \A h \in Handlers, x \in probed :
          hpc[h] \in {"record", "read"} => x.outcome # OutcomeOf(h)

\* A snapshot of channel c counts no more probes than P holds for its opening.
Backed(P, c, snapshot) ==
    snapshot.state = "HALF_OPEN"
        => snapshot.probeSuccess <= Cardinality(Probes(P, c, snapshot.openedAt))

\* There are enough good probes in P to close channel c at time n.
Closable(P, n, c) ==
    \E o \in 0 .. n : Cardinality(Probes(P, c, o)) >= ProbesToClose

\* Every probe count, wherever it is, is backed by different good outcomes; so
\* is every breaker a handler is about to close, and no other writer closes one.
ProbesBacked ==
    /\ \A c \in Channels : Backed(probed, c, breaker[c])
    /\ \A p \in Payouts, c \in Channels :
          /\ Backed(probed, c, view[p][c])
          /\ c \in todo[p] => view[p][c].state # "CLOSED"
    /\ \A h \in Handlers :
          /\ hpc[h] # "idle" => Backed(probed, Of(h), hsnap[h])
          /\ hpc[h] = "write" => hsnap[h].state # "CLOSED"
          /\ hpc[h] = "writeProbe" /\ hsnap[h].state = "CLOSED"
                => Closable(probed, now, Of(h))

IInv ==
    TypeOK /\ Control /\ Claims /\ Evidence /\ Standing /\ Fresh /\ ProbesBacked

(***************************************************************************)
(* What the documents say and the code does not do.                        *)
(***************************************************************************)
\* README.md, "The circuit breaker": a half-open breaker has at most one payout
\* out whose outcome has not come back.
OneProbeAtATime ==
    LET out == {p \in Payouts : answer[p].slot /\ outcome[p] = "none"}
    IN  \A p, q \in out : p # q => answer[p].channel # answer[q].channel
=============================================================================
