---------------------------- MODULE BreakerRules ----------------------------
(***************************************************************************)
(* The circuit breaker of one payment channel as pure functions, from      *)
(* src/domain/breaker.ts.  A snapshot is the record stored in the Redis    *)
(* hash breaker:<channel>; a window is summed up as [success, failure].    *)
(* Times are natural numbers of one unit, the width of a window bucket.    *)
(***************************************************************************)
EXTENDS Integers

CONSTANTS
    MinSamples,     \* config.minSamples
    ThresholdNum,   \* config.breaker.failureRateThreshold is the fraction
    ThresholdDen,   \*   ThresholdNum / ThresholdDen
    OpenMs,         \* config.breaker.openMs
    ProbesToClose   \* config.breaker.probesToClose

\* loadConfig accepts only positive integers for the three integers.  It does
\* not check the threshold: a rate of at most 1 is what the name promises.
ASSUME BreakerAssumption ==
    /\ MinSamples \in Nat \ {0}
    /\ ThresholdNum \in Nat
    /\ ThresholdDen \in Nat \ {0}
    /\ ThresholdNum <= ThresholdDen
    /\ OpenMs \in Nat \ {0}
    /\ ProbesToClose \in Nat \ {0}

BreakerState == {"CLOSED", "OPEN", "HALF_OPEN"}

Snapshot == [state : BreakerState, openedAt : Nat, probeSuccess : Nat]

Stats == [success : Nat, failure : Nat]

closedBreaker == [state |-> "CLOSED", openedAt |-> 0, probeSuccess |-> 0]

\* Fault: opened as if the waiting time had already passed.
openBreaker_due(at) ==
    [state |-> "OPEN", openedAt |-> at - OpenMs, probeSuccess |-> 0]

openBreaker(at) == [state |-> "OPEN", openedAt |-> at, probeSuccess |-> 0]

halfOpenBreaker(at, probes) ==
    [state |-> "HALF_OPEN", openedAt |-> at, probeSuccess |-> probes]

\* success / samples < threshold, without the division; 0 samples count as a
\* rate of 1 and never are.
TooManyFailures(stats) ==
    LET samples == stats.success + stats.failure
    IN  /\ samples >= MinSamples
        /\ stats.success * ThresholdDen < ThresholdNum * samples

\* Fault: the next request half opens the breaker.
evaluateBreaker_early(current, stats, now) ==
    IF current.state = "CLOSED" /\ TooManyFailures(stats)
      THEN openBreaker(now)
    ELSE IF current.state = "OPEN"
      THEN halfOpenBreaker(current.openedAt, 0)
    ELSE current

\* The snapshot after the window numbers are looked at, at time now.
evaluateBreaker(current, stats, now) ==
    IF current.state = "CLOSED" /\ TooManyFailures(stats)
      THEN openBreaker(now)
    ELSE IF current.state = "OPEN" /\ now - current.openedAt >= OpenMs
      THEN halfOpenBreaker(current.openedAt, 0)
    ELSE current

\* Fault: the first good probe closes.
recordProbe_first(current, success, now) ==
    IF current.state # "HALF_OPEN" THEN current
    ELSE IF success THEN closedBreaker ELSE openBreaker(now)

\* The snapshot after the result of one probe.
recordProbe(current, success, now) ==
    IF current.state # "HALF_OPEN"
      THEN current
    ELSE IF ~success
      THEN openBreaker(now)
    ELSE IF current.probeSuccess + 1 >= ProbesToClose
      THEN closedBreaker
    ELSE halfOpenBreaker(current.openedAt, current.probeSuccess + 1)
=============================================================================
