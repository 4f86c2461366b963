------------------------------ MODULE Decision ------------------------------
(***************************************************************************)
(* How one request ranks and chooses, from src/domain/percentile.ts,       *)
(* src/domain/scoring.ts, src/domain/selection.ts and the second half of   *)
(* RoutingService.route.  RoutingProtocol leaves this open and lets a      *)
(* request take any eligible channel.  A score is an integer number of     *)
(* 1/Unit; the parts it is made of are exact fractions.                    *)
(***************************************************************************)
EXTENDS Integers, Sequences, FiniteSets, Functions

CONSTANTS
    Ids,            \* channel identifiers, numbers in the order of localeCompare
    Profiles,       \* what may be known of a channel
    WeightSuccess, WeightLatency, WeightCost, WeightTotal,  \* in parts of the total
    MinSamples,     \* config.minSamples
    MinForP95,      \* MIN_SAMPLES_FOR_PERCENTILE
    LatencyCeiling, \* config.latencyCeilingMs
    ColdRate, ColdLatency, ColdScale,   \* config.coldStart, in parts of ColdScale
    Unit            \* 10000: round4

\* loadConfig: the weights add to 1, and it asks no more of them.  An identifier
\* is not 0, which stands for no channel.
ASSUME DecisionAssumption ==
    /\ IsFiniteSet(Ids) /\ Ids \subseteq Nat \ {0}
    /\ Profiles \subseteq [enabled : BOOLEAN, state : {"CLOSED", "OPEN", "HALF_OPEN"},
                            cost : Int, success : Nat, failure : Nat,
                            latencies : Seq(Int)]
    /\ WeightSuccess \in Int /\ WeightLatency \in Int /\ WeightCost \in Int
    /\ WeightSuccess + WeightLatency + WeightCost = WeightTotal
    /\ WeightTotal \in Nat \ {0}
    /\ MinSamples \in Nat \ {0} /\ MinForP95 \in Nat \ {0}
    /\ LatencyCeiling \in Nat \ {0}
    /\ ColdScale \in Nat \ {0} /\ ColdRate \in Int /\ ColdLatency \in Int
    /\ Unit \in Nat \ {0}

VARIABLES
    channels,   \* what is known of each channel
    candidates, \* the candidates in rank order
    selection,  \* the channel and the strategy
    phase,      \* "score", "select", "slot", "reselect", "done" or "none"
    refused     \* the channel whose probe slot was held, 0 for none

vars == <<channels, candidates, selection, phase, refused>>

NoP95 == -1

Least(a, b) == IF a < b THEN a ELSE b
Most(a, b)  == IF a > b THEN a ELSE b

(***************************************************************************)
(* src/domain/percentile.ts and src/domain/scoring.ts                      *)
(***************************************************************************)
\* The places of the samples that can be a latency.
Valid(samples) == {i \in DOMAIN samples : samples[i] >= 0}

AtMost(samples, v) == Cardinality({i \in Valid(samples) : samples[i] <= v})
Below(samples, v)  == Cardinality({i \in Valid(samples) : samples[i] < v})

\* The valid samples in order: the k-th is the one with fewer than k below it
\* and k at most as large.
Sorted(samples) ==
    [k \in 1 .. Cardinality(Valid(samples)) |->
        CHOOSE v \in {samples[i] : i \in Valid(samples)} :
            Below(samples, v) < k /\ k <= AtMost(samples, v)]

\* Fault: the index is rounded down.
IndexOf95_floor(n) == Most(1, (95 * n) \div 100)

\* Math.ceil(0.95 * n): 0.95 is just below its decimal value, so the float
\* product never passes the next whole number.
IndexOf95(n) == Least(n, Most(1, (95 * n + 99) \div 100))

p95(samples) ==
    LET size == Cardinality(Valid(samples))
    IN  IF size < MinForP95 THEN NoP95 ELSE Sorted(samples)[IndexOf95(size)]

Costs == {channels[c].cost : c \in Ids}
costBounds == [min |-> CHOOSE x \in Costs : \A y \in Costs : x <= y,
               max |-> CHOOSE x \in Costs : \A y \in Costs : x >= y]

Fraction(n, d) == [num |-> n, den |-> d]
clamp01(n, d)  == Fraction(Least(d, Most(0, n)), d)

costScoreOf(cost) ==
    LET spread == costBounds.max - costBounds.min
    IN  IF spread = 0 THEN Fraction(1, 1) ELSE Fraction(costBounds.max - cost, spread)

\* Fault: a slow channel scores high.
latencyScoreOf_inverted(p) ==
    IF p = NoP95 THEN clamp01(ColdLatency, ColdScale)
                 ELSE Fraction(Least(p, LatencyCeiling), LatencyCeiling)

latencyScoreOf(p) ==
    IF p = NoP95 THEN clamp01(ColdLatency, ColdScale)
                 ELSE Fraction(LatencyCeiling - Least(p, LatencyCeiling), LatencyCeiling)

Samples(c)   == channels[c].success + channels[c].failure
coldStart(c) == Samples(c) < MinSamples

successRate(c) ==
    IF coldStart(c) THEN clamp01(ColdRate, ColdScale)
                    ELSE Fraction(channels[c].success, Samples(c))

\* Math.round(x * 10000) / 10000 of a fraction that is not negative.
round4(f) == (2 * f.num * Unit + f.den) \div (2 * f.den)

scoreChannel(c) ==
    LET s == successRate(c)
        l == latencyScoreOf(p95(channels[c].latencies))
        k == costScoreOf(channels[c].cost)
    IN  round4(clamp01(WeightSuccess * s.num * l.den * k.den
                         + WeightLatency * l.num * s.den * k.den
                         + WeightCost * k.num * s.den * l.den,
                       WeightTotal * s.den * l.den * k.den))

eligibilityOf(c) == channels[c].enabled /\ channels[c].state # "OPEN"

Candidate(c) == [channelId |-> c, score |-> scoreChannel(c),
                 state |-> channels[c].state, eligible |-> eligibilityOf(c)]

\* Eligible first, then the larger score, then the identifier.
Before(a, b) ==
    \/ a.eligible /\ ~b.eligible
    \/ /\ a.eligible = b.eligible
       /\ \/ a.score > b.score
          \/ a.score = b.score /\ a.channelId < b.channelId

\* Every channel on a place of its own, in that order.
buildCandidates ==
    CHOOSE list \in Bijection(1 .. Cardinality(Ids), {Candidate(c) : c \in Ids}) :
        \A i, j \in 1 .. Cardinality(Ids) : i < j => Before(list[i], list[j])

(***************************************************************************)
(* src/domain/selection.ts and RoutingService.route                        *)
(***************************************************************************)
\* The places of the eligible ones; the first of them is the best.
EligibleOf(list) == {i \in DOMAIN list : list[i].eligible}
BestOf(list)     == CHOOSE i \in EligibleOf(list) : \A j \in EligibleOf(list) : i <= j

Chosen(list, i, strategy) == [channelId |-> list[i].channelId, strategy |-> strategy]

\* Fault: exploration may take the best one.
Selections_all(list) ==
    IF EligibleOf(list) = {BestOf(list)}
      THEN {Chosen(list, BestOf(list), "only-candidate")}
      ELSE {Chosen(list, BestOf(list), "best")}
             \union {Chosen(list, i, "explore") : i \in EligibleOf(list)}

\* What selectChannel may answer, whatever the two random numbers.
Selections(list) ==
    IF EligibleOf(list) = {BestOf(list)}
      THEN {Chosen(list, BestOf(list), "only-candidate")}
      ELSE {Chosen(list, BestOf(list), "best")}
             \union {Chosen(list, i, "explore") : i \in EligibleOf(list) \ {BestOf(list)}}

NoSelection == [channelId |-> 0, strategy |-> "none"]

Score ==
    /\ phase = "score"
    /\ candidates' = buildCandidates
    /\ phase' = "select"
    /\ UNCHANGED <<channels, selection, refused>>

\* NoEligibleChannelError.
NoneEligible ==
    /\ phase \in {"select", "reselect"} /\ EligibleOf(candidates) = {}
    /\ phase' = "none"
    /\ selection' = NoSelection
    /\ UNCHANGED <<channels, candidates, refused>>

\* The choice.  A HALF_OPEN channel is asked for its slot the first time, the
\* second time it is taken as it is.
Select ==
    /\ phase \in {"select", "reselect"} /\ EligibleOf(candidates) # {}
    /\ selection' \in Selections(candidates)
    /\ phase' = IF phase = "select" /\ channels[selection'.channelId].state = "HALF_OPEN"
                  THEN "slot" ELSE "done"
    /\ UNCHANGED <<channels, candidates, refused>>

SlotTaken ==
    /\ phase = "slot" /\ phase' = "done"
    /\ UNCHANGED <<channels, candidates, selection, refused>>

\* The list is marked where it is, and not put in order again.
SlotHeld ==
    /\ phase = "slot" /\ phase' = "reselect"
    /\ refused' = selection.channelId
    /\ candidates' = [i \in DOMAIN candidates |->
          IF candidates[i].channelId = selection.channelId
            THEN [candidates[i] EXCEPT !.eligible = FALSE] ELSE candidates[i]]
    /\ UNCHANGED <<channels, selection>>

Init ==
    /\ channels \in [Ids -> Profiles]
    /\ candidates = <<>>
    /\ selection = NoSelection
    /\ phase = "score"
    /\ refused = 0

Next == Score \/ NoneEligible \/ Select \/ SlotTaken \/ SlotHeld

Spec == Init /\ [][Next]_vars

(***************************************************************************)
(* What must hold.                                                         *)
(***************************************************************************)
\* The p95 is a measured latency that at least 95 % of the valid samples do not
\* exceed, and no smaller one is; damaged samples do not move it, and with too few
\* valid ones there is none (percentile.ts).
PercentileIsRight ==
    \A c \in Ids :
        LET samples == channels[c].latencies
            valid   == {i \in DOMAIN samples : samples[i] >= 0}
            Within(v) == 100 * Cardinality({i \in valid : samples[i] <= v})
                           >= 95 * Cardinality(valid)
            value   == p95(samples)
        IN  IF Cardinality(valid) < MinForP95
              THEN value = NoP95
              ELSE /\ \E i \in valid : samples[i] = value
                   /\ Within(value)
                   /\ \A i \in valid : samples[i] < value => ~Within(samples[i])

\* No weight is negative.  A weight below 0 is not refused when the service
\* starts, and turns the order of its part round.
WeightsAreShares == WeightSuccess >= 0 /\ WeightLatency >= 0 /\ WeightCost >= 0

\* A measured channel that is at least as good as another in rate, in p95 and
\* in cost has at least its score when no weight is negative: the ceiling, the
\* clamp, the rounding and the bounds of the cost keep the order.
BetterScoresHigher ==
    \A i, j \in DOMAIN candidates :
        LET x == candidates[i].channelId
            y == candidates[j].channelId
            a == channels[x]
            b == channels[y]
            better == /\ ~coldStart(x) /\ ~coldStart(y)
                      /\ NoP95 < p95(a.latencies)
                      /\ p95(a.latencies) <= p95(b.latencies)
                      /\ a.success * Samples(y) >= b.success * Samples(x)
                      /\ a.cost <= b.cost
        IN  better => candidates[i].score >= candidates[j].score

\* What the decision says is so: exploration leaves the best eligible channel,
\* "best" takes it, "only-candidate" had no other, and a channel that is off,
\* OPEN or whose probe slot was held is never chosen, in the second selection
\* no more than in the first.
StrategyIsTrue ==
    phase = "done" =>
        LET chosen == selection.channelId
            usable == {c \in Ids : /\ c # refused
                                   /\ channels[c].enabled
                                   /\ channels[c].state # "OPEN"}
            beaten == {c \in usable \ {chosen} :
                         \/ scoreChannel(c) < scoreChannel(chosen)
                         \/ scoreChannel(c) = scoreChannel(chosen) /\ chosen < c}
        IN  /\ chosen \in usable
            /\ selection.strategy = "only-candidate" <=> usable = {chosen}
            /\ selection.strategy = "best" => beaten = usable \ {chosen}
            /\ selection.strategy = "explore" => beaten # usable \ {chosen}
=============================================================================
