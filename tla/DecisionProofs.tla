--------------------------- MODULE DecisionProofs ---------------------------
(***************************************************************************)
(* Proofs about Decision, for any channels, profiles, weights and limits   *)
(* that the assumption allows: the percentile is what it is by definition, *)
(* a better channel never scores lower, and a decision tells truly how it  *)
(* was made.                                                               *)
(***************************************************************************)
EXTENDS Decision, FiniteSetTheorems, WellFoundedInduction, TLAPS

\* A set of natural numbers has a least one.
LEMMA LeastNat ==
    ASSUME NEW S \in SUBSET Nat, S # {}
    PROVE  \E m \in S : \A k \in S : m <= k
<1> DEFINE R == OpToRel(<, Nat)
<1>1. IsWellFoundedOn(R, Nat)
  BY NatLessThanWellFounded, Zenon
<1>2. \A x, y \in Nat : x < y => <<x, y>> \in R
  BY DEF OpToRel
<1> HIDE DEF R
<1>3. PICK m \in S : \A k \in S : <<k, m>> \notin R
  BY <1>1, WFMin
<1>4. ASSUME NEW k \in S PROVE m <= k
  <2>1. k \in Nat /\ m \in Nat
    OBVIOUS
  <2>2. ~ (k < m)
    BY <1>2, <1>3, <2>1
  <2> QED BY <2>1, <2>2
<1> QED BY <1>4

(***************************************************************************)
(* The percentile.                                                         *)
(***************************************************************************)
\* The values of a function on 1 .. n have a bound.
LEMMA UpperBound ==
    ASSUME NEW n \in Nat, NEW f, \A i \in 1 .. n : f[i] \in Int
    PROVE  \E b \in Nat : \A i \in 1 .. n : f[i] <= b
<1> DEFINE Bounded(m) == \E b \in Nat : \A i \in 1 .. m : f[i] <= b
           Bad == {m \in 0 .. n : ~ Bounded(m)}
<1>1. Bounded(0)
  BY 0 \in Nat
<1>2. ASSUME NEW m \in 1 .. n, Bounded(m - 1) PROVE Bounded(m)
  <2>1. PICK b \in Nat : \A i \in 1 .. m - 1 : f[i] <= b
    BY <1>2
  <2>2. PICK d \in Nat : f[m] <= d /\ b <= d
    <3> DEFINE e == IF f[m] <= b THEN b ELSE f[m]
    <3>1. e \in Nat /\ f[m] <= e /\ b <= e
      OBVIOUS
    <3> QED
      BY <3>1
  <2>3. \A i \in 1 .. m : f[i] <= d
    <3> TAKE i \in 1 .. m
    <3>1. i = m \/ i \in 1 .. m - 1
      OBVIOUS
    <3> QED
      BY <2>1, <2>2, <3>1
  <2> QED
    BY <2>3
<1> HIDE DEF Bounded
<1>3. Bad = {}
  <2> SUFFICES ASSUME Bad # {} PROVE FALSE
    OBVIOUS
  <2>1. Bad \subseteq Nat
    OBVIOUS
  <2>2. PICK m \in Bad : \A k \in Bad : m <= k
    BY <2>1, LeastNat
  <2>3. m \in 1 .. n /\ ~ Bounded(m)
    BY <1>1, <2>2
  <2>4. m - 1 \in 0 .. n /\ m - 1 \notin Bad
    BY <2>2, <2>3
  <2> QED
    BY <1>2, <2>3, <2>4
<1> QED
  BY <1>3 DEF Bounded

\* What is counted is finite, and more values count more samples.
LEMMA CountsAreNumbers ==
    ASSUME NEW s \in Seq(Int)
    PROVE  /\ IsFiniteSet(Valid(s)) /\ Cardinality(Valid(s)) \in Nat
           /\ \A v \in Int : AtMost(s, v) \in Nat /\ Below(s, v) \in Nat
<1>1. IsFiniteSet(DOMAIN s)
  BY FS_Interval
<1>2. Valid(s) \subseteq DOMAIN s
  BY DEF Valid
<1>3. IsFiniteSet(Valid(s))
  BY <1>1, <1>2, FS_Subset
<1>4. ASSUME NEW v \in Int PROVE AtMost(s, v) \in Nat /\ Below(s, v) \in Nat
  <2>1. /\ {i \in Valid(s) : s[i] <= v} \subseteq Valid(s)
        /\ {i \in Valid(s) : s[i] < v} \subseteq Valid(s)
    OBVIOUS
  <2> QED
    BY <1>3, <2>1, FS_Subset, FS_CardinalityType DEF AtMost, Below
<1> QED
  BY <1>3, <1>4, FS_CardinalityType

\* Whatever the samples, the k-th of the valid ones exists.
LEMMA KthSmallest ==
    ASSUME NEW s \in Seq(Int), NEW k \in 1 .. Cardinality(Valid(s))
    PROVE  \E v \in {s[i] : i \in Valid(s)} : Below(s, v) < k /\ k <= AtMost(s, v)
<1> DEFINE Reach == {v \in Nat : k <= AtMost(s, v)}
<1>0. /\ Valid(s) \subseteq DOMAIN s
      /\ \A i \in Valid(s) : s[i] \in Nat
  BY DEF Valid
<1>1. Reach # {}
  <2>1. PICK b \in Nat : \A i \in 1 .. Len(s) : s[i] <= b
    <3>1. Len(s) \in Nat /\ \A i \in 1 .. Len(s) : s[i] \in Int
      OBVIOUS
    <3> QED
      BY <3>1, UpperBound
  <2>2. {i \in Valid(s) : s[i] <= b} = Valid(s)
    BY <1>0, <2>1
  <2>3. AtMost(s, b) = Cardinality(Valid(s))
    BY <2>2 DEF AtMost
  <2> QED
    BY <2>3
<1>2. PICK v \in Reach : \A w \in Reach : v <= w
  BY <1>1, LeastNat
<1>3. v # 0 => {i \in Valid(s) : s[i] < v} = {i \in Valid(s) : s[i] <= v - 1}
  BY <1>0
<1>4. Below(s, v) < k
  <2>1. CASE v = 0
    <3>1. {i \in Valid(s) : s[i] < v} = {}
      BY <1>0, <2>1
    <3>2. Below(s, v) = 0
      BY <3>1, FS_EmptySet DEF Below
    <3> QED
      BY <3>2
  <2>2. CASE v # 0
    <3>1. v - 1 \in Nat /\ v - 1 \notin Reach
      BY <1>2, <2>2
    <3>2. Below(s, v) = AtMost(s, v - 1)
      BY <1>3, <2>2 DEF Below, AtMost
    <3> QED
      BY <3>1, <3>2, CountsAreNumbers
  <2> QED
    BY <2>1, <2>2
<1>5. v \in {s[i] : i \in Valid(s)}
  <2> SUFFICES ASSUME v \notin {s[i] : i \in Valid(s)} PROVE FALSE
    OBVIOUS
  <2>1. {i \in Valid(s) : s[i] <= v} = {i \in Valid(s) : s[i] < v}
    BY <1>0
  <2>2. AtMost(s, v) = Below(s, v)
    BY <2>1 DEF AtMost, Below
  <2> QED
    BY <1>2, <1>4, <2>2, CountsAreNumbers
<1> QED
  BY <1>2, <1>4, <1>5

\* The index of the percentile is 95 % of the samples, rounded up.
LEMMA IndexIs ==
    ASSUME NEW n \in Nat \ {0}
    PROVE  /\ IndexOf95(n) \in 1 .. n
           /\ 100 * IndexOf95(n) >= 95 * n
           /\ 100 * (IndexOf95(n) - 1) < 95 * n
<1> DEFINE q == (95 * n + 99) \div 100
<1>1. q \in Int /\ 100 * q <= 95 * n + 99 /\ 95 * n + 99 < 100 * q + 100
  OBVIOUS
<1> HIDE DEF q
<1>2. q >= 1 /\ q <= n
  BY <1>1
<1>3. IndexOf95(n) = q
  BY <1>1, <1>2 DEF IndexOf95, Least, Most, q
<1> QED
  BY <1>1, <1>2, <1>3

\* With enough samples the p95 is one of them, on the place of its index.
LEMMA P95Is ==
    ASSUME NEW s \in Seq(Int), MinForP95 <= Cardinality(Valid(s))
    PROVE  LET k == IndexOf95(Cardinality(Valid(s)))
           IN  /\ p95(s) \in {s[i] : i \in Valid(s)}
               /\ Below(s, p95(s)) < k /\ k <= AtMost(s, p95(s))
<1> DEFINE n == Cardinality(Valid(s))
           k == IndexOf95(n)
<1>1. n \in Nat \ {0}
  BY CountsAreNumbers, DecisionAssumption
<1>2. k \in 1 .. n
  BY <1>1, IndexIs
<1>3. p95(s) = Sorted(s)[k]
  BY <1>1, DecisionAssumption DEF p95
<1>4. Sorted(s)[k] = CHOOSE v \in {s[i] : i \in Valid(s)} :
                          Below(s, v) < k /\ k <= AtMost(s, v)
  BY <1>2, Zenon DEF Sorted
<1> HIDE DEF k
<1>5. \E v \in {s[i] : i \in Valid(s)} : Below(s, v) < k /\ k <= AtMost(s, v)
  BY <1>2, KthSmallest
<1> QED
  BY <1>3, <1>4, <1>5, Zenon DEF k

LEMMA P95Type ==
    ASSUME NEW s \in Seq(Int)
    PROVE  p95(s) \in Nat \union {NoP95}
<1>1. CASE MinForP95 <= Cardinality(Valid(s))
  <2>1. \A i \in Valid(s) : s[i] \in Nat
    BY DEF Valid
  <2> QED
    BY <1>1, <2>1, P95Is
<1>2. CASE ~ (MinForP95 <= Cardinality(Valid(s)))
  BY <1>2, CountsAreNumbers, DecisionAssumption DEF p95
<1> QED
  BY <1>1, <1>2

\* The p95 of any samples is right.
LEMMA P95IsRight ==
    ASSUME NEW s \in Seq(Int)
    PROVE  LET Within(v) == 100 * AtMost(s, v) >= 95 * Cardinality(Valid(s))
           IN  IF Cardinality(Valid(s)) < MinForP95
                 THEN p95(s) = NoP95
                 ELSE /\ \E i \in Valid(s) : s[i] = p95(s)
                      /\ Within(p95(s))
                      /\ \A i \in Valid(s) : s[i] < p95(s) => ~ Within(s[i])
<1> DEFINE n == Cardinality(Valid(s))
           k == IndexOf95(n)
           v == p95(s)
<1>1. n \in Nat /\ MinForP95 \in Nat \ {0}
  BY CountsAreNumbers, DecisionAssumption
<1>2. CASE n < MinForP95
  BY <1>2 DEF p95
<1>3. CASE ~ (n < MinForP95)
  <2>1. n \in Nat \ {0} /\ MinForP95 <= n
    BY <1>1, <1>3
  <2>2. /\ k \in 1 .. n
        /\ 100 * k >= 95 * n
        /\ 100 * (k - 1) < 95 * n
    BY <2>1, IndexIs
  <2>3. /\ v \in {s[i] : i \in Valid(s)}
        /\ Below(s, v) < k /\ k <= AtMost(s, v)
    BY <2>1, P95Is
  <2>4. \A i \in Valid(s) : s[i] \in Int
    BY DEF Valid
  <2> HIDE DEF n, k, v
  <2>5. v \in Int /\ AtMost(s, v) \in Nat /\ Below(s, v) \in Nat
    BY <2>3, <2>4, CountsAreNumbers
  <2>6. 100 * AtMost(s, v) >= 95 * n
    BY <1>1, <2>2, <2>3, <2>5
  <2>7. ASSUME NEW i \in Valid(s), s[i] < v
        PROVE  ~ (100 * AtMost(s, s[i]) >= 95 * n)
    <3>1. {j \in Valid(s) : s[j] <= s[i]} \subseteq {j \in Valid(s) : s[j] < v}
      BY <2>4, <2>5, <2>7
    <3>2. IsFiniteSet({j \in Valid(s) : s[j] < v})
      <4>1. {j \in Valid(s) : s[j] < v} \subseteq Valid(s)
        OBVIOUS
      <4> QED
        BY <4>1, CountsAreNumbers, FS_Subset
    <3>3. AtMost(s, s[i]) <= Below(s, v)
      BY <3>1, <3>2, FS_Subset DEF AtMost, Below
    <3>4. AtMost(s, s[i]) \in Nat
      BY <2>4, CountsAreNumbers
    <3> QED
      BY <1>1, <2>2, <2>3, <2>5, <3>3, <3>4
  <2>8. \E i \in Valid(s) : s[i] = v
    BY <2>3
  <2> QED
    BY <1>3, <2>6, <2>7, <2>8 DEF n, v
<1> QED
  BY <1>2, <1>3

(***************************************************************************)
(* What is known of the channels does not change while a request is        *)
(* decided.                                                                *)
(***************************************************************************)
Known == channels \in [Ids -> Profiles]

LEMMA KnownStays == Spec => []Known
<1>1. Init => Known
  BY DEF Init, Known
<1>2. Known /\ [Next]_vars => Known'
  BY DEF Known, Next, vars, Score, NoneEligible, Select, SlotTaken, SlotHeld
<1> QED
  BY <1>1, <1>2, PTL DEF Spec

LEMMA ProfileTypes ==
    ASSUME Known, NEW c \in Ids
    PROVE  /\ channels[c].enabled \in BOOLEAN
           /\ channels[c].state \in {"CLOSED", "OPEN", "HALF_OPEN"}
           /\ channels[c].cost \in Int
           /\ channels[c].success \in Nat /\ channels[c].failure \in Nat
           /\ channels[c].latencies \in Seq(Int)
<1>1. channels[c] \in [enabled : BOOLEAN, state : {"CLOSED", "OPEN", "HALF_OPEN"},
                       cost : Int, success : Nat, failure : Nat, latencies : Seq(Int)]
  BY DecisionAssumption DEF Known
<1> QED
  BY <1>1

LEMMA SamplesType ==
    ASSUME Known
    PROVE  \A c \in Ids : channels[c].success \in Nat /\ Samples(c) \in Nat
BY ProfileTypes DEF Samples

\* Whatever the latencies of a channel are, damaged ones included, its p95 is the
\* smallest of the valid ones that at least 95 % do not exceed, and there is none
\* when there are too few (percentile: filter, sort, index).
THEOREM PercentileStaysRight == Spec => []PercentileIsRight
<1>1. ASSUME Known PROVE PercentileIsRight
  <2> SUFFICES ASSUME NEW c \in Ids
               PROVE  LET samples == channels[c].latencies
                          valid   == {i \in DOMAIN samples : samples[i] >= 0}
                          Within(v) == 100 * Cardinality({i \in valid : samples[i] <= v})
                                         >= 95 * Cardinality(valid)
                          value   == p95(samples)
                      IN  IF Cardinality(valid) < MinForP95
                            THEN value = NoP95
                            ELSE /\ \E i \in valid : samples[i] = value
                                 /\ Within(value)
                                 /\ \A i \in valid : samples[i] < value
                                                       => ~Within(samples[i])
    BY DEF PercentileIsRight
  <2>1. channels[c].latencies \in Seq(Int)
    BY <1>1, ProfileTypes
  <2> QED
    BY <2>1, P95IsRight DEF Valid, AtMost
<1> QED
  BY <1>1, KnownStays, PTL

(***************************************************************************)
(* The score.                                                              *)
(***************************************************************************)
LEMMA TimesKeepsOrder ==
    ASSUME NEW x \in Int, NEW y \in Int, NEW z \in Nat, x <= y
    PROVE  x * z <= y * z
<1>1. y - x \in Nat
  OBVIOUS
<1>2. (y - x) * z \in Nat
  BY <1>1
<1>3. (y - x) * z = y * z - x * z
  OBVIOUS
<1> QED
  BY <1>2, <1>3

LEMMA TimesCancels ==
    ASSUME NEW x \in Int, NEW y \in Int, NEW z \in Nat \ {0}, x * z <= y * z
    PROVE  x <= y
<1> SUFFICES ASSUME y + 1 <= x PROVE FALSE
  OBVIOUS
<1>1. (y + 1) * z <= x * z
  BY TimesKeepsOrder
<1>2. (y + 1) * z = y * z + z
  OBVIOUS
<1> QED
  BY <1>1, <1>2

LEMMA Quotient ==
    ASSUME NEW a \in Int, NEW b \in Nat \ {0}
    PROVE  /\ a \div b \in Int
           /\ (a \div b) * b <= a
           /\ a < (a \div b + 1) * b
OBVIOUS

\* A larger fraction has at least the rounded down quotient.
LEMMA QuotientKeepsOrder ==
    ASSUME NEW a1 \in Int, NEW a2 \in Int, NEW b1 \in Nat \ {0}, NEW b2 \in Nat \ {0},
           a2 * b1 <= a1 * b2
    PROVE  a2 \div b2 <= a1 \div b1
<1> DEFINE q1 == a1 \div b1
           q2 == a2 \div b2
<1>1. /\ q1 \in Int /\ a1 < (q1 + 1) * b1
      /\ q2 \in Int /\ q2 * b2 <= a2
  BY Quotient
<1> HIDE DEF q1, q2
<1> SUFFICES ASSUME q1 + 1 <= q2 PROVE FALSE
  BY <1>1 DEF q1, q2
<1>2. (q1 + 1) * b1 <= q2 * b1
  BY <1>1, TimesKeepsOrder
<1>3. a1 + 1 <= q2 * b1
  BY <1>1, <1>2
<1>4. (a1 + 1) * b2 <= (q2 * b1) * b2
  BY <1>1, <1>3, TimesKeepsOrder
<1>5. (q2 * b2) * b1 <= a2 * b1
  BY <1>1, TimesKeepsOrder
<1>6. (q2 * b1) * b2 = (q2 * b2) * b1 /\ (a1 + 1) * b2 = a1 * b2 + b2
  BY <1>1
<1> QED
  BY <1>4, <1>5, <1>6, <1>1

\* round4 keeps the order of two fractions.
LEMMA RoundKeepsOrder ==
    ASSUME NEW n1 \in Int, NEW n2 \in Int, NEW d1 \in Nat \ {0}, NEW d2 \in Nat \ {0},
           n2 * d1 <= n1 * d2
    PROVE  round4(Fraction(n2, d2)) <= round4(Fraction(n1, d1))
<1>0. Unit \in Nat \ {0}
  BY DecisionAssumption
<1> DEFINE a1 == 2 * n1 * Unit + d1
           a2 == 2 * n2 * Unit + d2
           b1 == 2 * d1
           b2 == 2 * d2
<1>1. a1 \in Int /\ a2 \in Int /\ b1 \in Nat \ {0} /\ b2 \in Nat \ {0}
  BY <1>0
<1>2. (n2 * d1) * (4 * Unit) <= (n1 * d2) * (4 * Unit)
  BY <1>0, TimesKeepsOrder
<1>3. /\ a2 * b1 = (n2 * d1) * (4 * Unit) + 2 * (d1 * d2)
      /\ a1 * b2 = (n1 * d2) * (4 * Unit) + 2 * (d1 * d2)
  BY <1>0
<1>4. a2 * b1 <= a1 * b2
  <2> HIDE DEF a1, a2, b1, b2
  <2> QED
    BY <1>0, <1>2, <1>3
<1>5. a2 \div b2 <= a1 \div b1
  <2> HIDE DEF a1, a2, b1, b2
  <2> QED
    BY <1>1, <1>4, QuotientKeepsOrder
<1> QED
  BY <1>5 DEF round4, Fraction

\* A product that is not below a positive one is positive.
LEMMA SignFollows ==
    ASSUME NEW n1 \in Int, NEW n2 \in Int, NEW d1 \in Nat \ {0}, NEW d2 \in Nat \ {0},
           n2 * d1 <= n1 * d2, n2 > 0
    PROVE  n1 > 0
<1>1. 1 * d1 <= n2 * d1
  BY TimesKeepsOrder
<1>2. ASSUME n1 <= 0 PROVE FALSE
  <2>1. n1 * d2 <= 0 * d2
    BY <1>2, TimesKeepsOrder
  <2>2. n1 * d2 \in Int /\ n2 * d1 \in Int
    OBVIOUS
  <2> QED
    BY <1>1, <2>1, <2>2
<1> QED
  BY <1>2

\* clamp01 keeps it too.
LEMMA ClampKeepsOrder ==
    ASSUME NEW n1 \in Int, NEW n2 \in Int, NEW d1 \in Nat \ {0}, NEW d2 \in Nat \ {0},
           n2 * d1 <= n1 * d2
    PROVE  Least(d2, Most(0, n2)) * d1 <= Least(d1, Most(0, n1)) * d2
<1> DEFINE m1 == Least(d1, Most(0, n1))
           m2 == Least(d2, Most(0, n2))
<1>1. m1 \in Nat /\ m1 <= d1 /\ m2 \in Nat /\ m2 <= d2
  BY DEF Least, Most
<1>2. CASE n2 <= 0
  <2>1. m2 = 0
    BY <1>2 DEF Least, Most
  <2>2. m1 * d2 \in Nat
    BY <1>1
  <2> QED
    BY <2>1, <2>2
<1>3. CASE n1 >= d1
  <2>1. m1 = d1
    BY <1>3 DEF Least, Most
  <2>2. m2 * d1 <= d2 * d1
    BY <1>1, TimesKeepsOrder
  <2> QED
    BY <2>1, <2>2
<1>4. CASE n2 > 0 /\ n1 < d1
  <2>1. n1 > 0
    BY <1>4, SignFollows
  <2>2. m1 = n1
    BY <1>4, <2>1 DEF Least, Most
  <2>3. m2 <= n2
    BY <1>4 DEF Least, Most
  <2>4. m2 * d1 <= n2 * d1
    BY <1>1, <2>3, TimesKeepsOrder
  <2> HIDE DEF m1, m2
  <2> DEFINE x == m2 * d1
             y == n2 * d1
             z == n1 * d2
  <2>5. x \in Int /\ y \in Int /\ z \in Int /\ x <= y /\ y <= z
    BY <1>1, <2>4
  <2>6. x <= z
    <3> HIDE DEF x, y, z
    <3> QED
      BY <2>5
  <2> QED
    BY <2>2, <2>6 DEF m1, m2
<1> QED
  BY <1>2, <1>3, <1>4

\* One part of the weighted sum, over the common denominator of two channels.
LEMMA PartKeepsOrder ==
    ASSUME NEW w \in Nat, NEW a1 \in Int, NEW a2 \in Int,
           NEW b1 \in Nat, NEW b2 \in Nat, NEW r \in Nat,
           a2 * b1 <= a1 * b2
    PROVE  (w * (a2 * b1)) * r <= (w * (a1 * b2)) * r
<1>1. (a2 * b1) * (w * r) <= (a1 * b2) * (w * r)
  BY TimesKeepsOrder
<1>2. \A x \in Int : (w * x) * r = x * (w * r)
  OBVIOUS
<1> QED
  BY <1>1, <1>2

\* The score of the parts a/b, c/d and e/f as one fraction.
ScoreNum(a, b, c, d, e, f) ==
    WeightSuccess * a * d * f + WeightLatency * c * b * f + WeightCost * e * b * d
ScoreDen(b, d, f) == WeightTotal * b * d * f

LEMMA ScoreFraction ==
    ASSUME NEW a \in Int, NEW c \in Int, NEW e \in Int,
           NEW b \in Nat \ {0}, NEW d \in Nat \ {0}, NEW f \in Nat \ {0}
    PROVE  ScoreNum(a, b, c, d, e, f) \in Int /\ ScoreDen(b, d, f) \in Nat \ {0}
<1>1. /\ WeightSuccess \in Int /\ WeightLatency \in Int /\ WeightCost \in Int
      /\ WeightTotal \in Nat \ {0}
  BY DecisionAssumption
<1> QED
  BY <1>1 DEF ScoreNum, ScoreDen

\* It keeps the order of its three parts when no weight is negative.
LEMMA SumKeepsOrder ==
    ASSUME WeightsAreShares,
           NEW a1 \in Int, NEW c1 \in Int, NEW e1 \in Int,
           NEW a2 \in Int, NEW c2 \in Int, NEW e2 \in Int,
           NEW b1 \in Nat \ {0}, NEW d1 \in Nat \ {0}, NEW f1 \in Nat \ {0},
           NEW b2 \in Nat \ {0}, NEW d2 \in Nat \ {0}, NEW f2 \in Nat \ {0},
           a2 * b1 <= a1 * b2, c2 * d1 <= c1 * d2, e2 * f1 <= e1 * f2
    PROVE  ScoreNum(a2, b2, c2, d2, e2, f2) * ScoreDen(b1, d1, f1)
             <= ScoreNum(a1, b1, c1, d1, e1, f1) * ScoreDen(b2, d2, f2)
<1> DEFINE u == WeightSuccess
           v == WeightLatency
           w == WeightCost
           t == WeightTotal
<1>0. u \in Nat /\ v \in Nat /\ w \in Nat /\ t \in Nat \ {0}
  BY DecisionAssumption DEF WeightsAreShares
<1> HIDE DEF u, v, w, t
<1> DEFINE p == t * (d1 * d2) * (f1 * f2)
           q == t * (b1 * b2) * (f1 * f2)
           r == t * (b1 * b2) * (d1 * d2)
<1>1. p \in Nat /\ q \in Nat /\ r \in Nat
  BY <1>0
<1>2. /\ (u * (a2 * b1)) * p <= (u * (a1 * b2)) * p
      /\ (v * (c2 * d1)) * q <= (v * (c1 * d2)) * q
      /\ (w * (e2 * f1)) * r <= (w * (e1 * f2)) * r
  BY <1>0, <1>1, PartKeepsOrder
<1>3. (u * a2 * d2 * f2 + v * c2 * b2 * f2 + w * e2 * b2 * d2) * (t * b1 * d1 * f1)
        = (u * (a2 * b1)) * p + (v * (c2 * d1)) * q + (w * (e2 * f1)) * r
  BY <1>0
<1>4. (u * a1 * d1 * f1 + v * c1 * b1 * f1 + w * e1 * b1 * d1) * (t * b2 * d2 * f2)
        = (u * (a1 * b2)) * p + (v * (c1 * d2)) * q + (w * (e1 * f2)) * r
  BY <1>0
<1> DEFINE x2 == (u * (a2 * b1)) * p
           y2 == (v * (c2 * d1)) * q
           z2 == (w * (e2 * f1)) * r
           x1 == (u * (a1 * b2)) * p
           y1 == (v * (c1 * d2)) * q
           z1 == (w * (e1 * f2)) * r
<1>5. /\ x2 \in Int /\ y2 \in Int /\ z2 \in Int
      /\ x1 \in Int /\ y1 \in Int /\ z1 \in Int
  <2> HIDE DEF p, q, r
  <2> QED
    BY <1>0, <1>1
<1>6. x2 + y2 + z2 <= x1 + y1 + z1
  <2>1. x2 <= x1 /\ y2 <= y1 /\ z2 <= z1
    BY <1>2
  <2> HIDE DEF x1, x2, y1, y2, z1, z2
  <2> QED
    BY <1>5, <2>1
<1> QED
  BY <1>3, <1>4, <1>6 DEF ScoreNum, ScoreDen, u, v, w, t

\* A finite set of numbers has a largest and a smallest one.
LEMMA HasMax ==
    ASSUME NEW S \in SUBSET Int, IsFiniteSet(S), S # {}
    PROVE  \E x \in S : \A y \in S : x >= y
<1> DEFINE n == Cardinality(S)
<1>1. n \in Nat
  BY FS_CardinalityType
<1>2. PICK f \in Bijection(1 .. n, S) : TRUE
  BY FS_CardinalityType DEF ExistsBijection
<1>3. /\ \A i \in 1 .. n : f[i] \in S
      /\ \A y \in S : \E i \in 1 .. n : f[i] = y
  BY <1>2 DEF Bijection, Injection, Surjection
<1> HIDE DEF n
<1>4. PICK b \in Nat : \A i \in 1 .. n : f[i] <= b
  BY <1>1, <1>3, UpperBound
<1>5. \A y \in S : y <= b
  BY <1>3, <1>4
<1> DEFINE Gaps == {b - y : y \in S}
<1>6. Gaps \subseteq Nat /\ Gaps # {}
  <2>1. \A y \in S : b - y \in Nat
    BY <1>5
  <2> QED
    BY <2>1
<1>7. PICK g \in Gaps : \A h \in Gaps : g <= h
  BY <1>6, LeastNat
<1>8. PICK x \in S : g = b - x
  BY <1>7
<1>9. \A y \in S : b - x <= b - y
  BY <1>7, <1>8
<1> QED
  BY <1>9

LEMMA HasMin ==
    ASSUME NEW S \in SUBSET Int, IsFiniteSet(S), S # {}
    PROVE  \E x \in S : \A y \in S : x <= y
<1> DEFINE T == {-y : y \in S}
           f == [y \in S |-> -y]
<1>1. IsFiniteSet(T)
  <2>1. f \in Surjection(S, T)
    BY DEF Surjection
  <2> QED
    BY <2>1, FS_Surjection
<1>2. T \subseteq Int /\ T # {}
  OBVIOUS
<1>3. PICK t \in T : \A s \in T : t >= s
  BY <1>1, <1>2, HasMax
<1>4. PICK x \in S : t = -x
  BY <1>3
<1>5. \A y \in S : -x >= -y
  BY <1>3, <1>4
<1> QED
  BY <1>5

\* The bounds of the costs are costs of channels.
LEMMA CostBounds ==
    ASSUME Known, Ids # {}
    PROVE  /\ costBounds.min \in Int /\ costBounds.max \in Int
           /\ \A c \in Ids : /\ costBounds.min <= channels[c].cost
                             /\ channels[c].cost <= costBounds.max
<1> DEFINE f == [c \in Ids |-> channels[c].cost]
<1>1. IsFiniteSet(Costs)
  <2>1. f \in Surjection(Ids, Costs)
    BY DEF Surjection, Costs
  <2> QED
    BY <2>1, FS_Surjection, DecisionAssumption
<1>2. Costs \subseteq Int /\ Costs # {} /\ \A c \in Ids : channels[c].cost \in Costs
  BY ProfileTypes DEF Costs
<1>3. \E x \in Costs : \A y \in Costs : x <= y
  BY <1>1, <1>2, HasMin
<1>4. \E x \in Costs : \A y \in Costs : x >= y
  BY <1>1, <1>2, HasMax
<1>5. /\ costBounds.min \in Costs /\ \A y \in Costs : costBounds.min <= y
      /\ costBounds.max \in Costs /\ \A y \in Costs : costBounds.max >= y
  BY <1>3, <1>4 DEF costBounds
<1> QED
  BY <1>2, <1>5

\* Every part of a score is a fraction.
LEMMA PartTypes ==
    ASSUME Known, NEW c \in Ids
    PROVE  LET s == successRate(c)
               l == latencyScoreOf(p95(channels[c].latencies))
               k == costScoreOf(channels[c].cost)
           IN  /\ s.num \in Int /\ s.den \in Nat \ {0}
               /\ l.num \in Int /\ l.den \in Nat \ {0}
               /\ k.num \in Int /\ k.den \in Nat \ {0}
<1>1. /\ ColdRate \in Int /\ ColdLatency \in Int /\ ColdScale \in Nat \ {0}
      /\ LatencyCeiling \in Nat \ {0} /\ MinSamples \in Nat \ {0}
  BY DecisionAssumption
<1>2. \A n \in Int : clamp01(n, ColdScale).num \in Int
                       /\ clamp01(n, ColdScale).den \in Nat \ {0}
  BY <1>1 DEF clamp01, Fraction, Least, Most
<1>3. /\ channels[c].success \in Nat /\ channels[c].failure \in Nat
      /\ channels[c].cost \in Int /\ channels[c].latencies \in Seq(Int)
  BY ProfileTypes
<1>4. successRate(c).num \in Int /\ successRate(c).den \in Nat \ {0}
  <2>1. CASE coldStart(c)
    BY <1>1, <1>2, <2>1 DEF successRate
  <2>2. CASE ~ coldStart(c)
    <3>1. Samples(c) \in Nat \ {0}
      BY <1>1, <1>3, <2>2 DEF coldStart, Samples
    <3> QED
      BY <1>3, <2>2, <3>1 DEF successRate, Fraction
  <2> QED
    BY <2>1, <2>2
<1>5. ASSUME NEW p \in Nat \union {NoP95}
      PROVE  latencyScoreOf(p).num \in Int /\ latencyScoreOf(p).den \in Nat \ {0}
  <2>1. CASE p = NoP95
    BY <1>1, <1>2, <2>1 DEF latencyScoreOf
  <2>2. CASE p # NoP95
    BY <1>1, <2>2 DEF latencyScoreOf, Fraction, Least
  <2> QED
    BY <2>1, <2>2
<1>6. p95(channels[c].latencies) \in Nat \union {NoP95}
  BY <1>3, P95Type
<1>7. /\ costScoreOf(channels[c].cost).num \in Int
      /\ costScoreOf(channels[c].cost).den \in Nat \ {0}
  BY <1>3, CostBounds DEF costScoreOf, Fraction
<1> QED
  BY <1>4, <1>5, <1>6, <1>7

\* The numerator and the denominator of a channel's score.
NumOf(c) ==
    LET s == successRate(c)
        l == latencyScoreOf(p95(channels[c].latencies))
        k == costScoreOf(channels[c].cost)
    IN  ScoreNum(s.num, s.den, l.num, l.den, k.num, k.den)
DenOf(c) ==
    LET s == successRate(c)
        l == latencyScoreOf(p95(channels[c].latencies))
        k == costScoreOf(channels[c].cost)
    IN  ScoreDen(s.den, l.den, k.den)

LEMMA ScoreIs ==
    ASSUME Known, NEW c \in Ids
    PROVE  /\ scoreChannel(c) = round4(clamp01(NumOf(c), DenOf(c)))
           /\ NumOf(c) \in Int /\ DenOf(c) \in Nat \ {0}
           /\ scoreChannel(c) \in Int
<1>1. scoreChannel(c) = round4(clamp01(NumOf(c), DenOf(c)))
  BY DEF scoreChannel, NumOf, DenOf, ScoreNum, ScoreDen
<1>2. NumOf(c) \in Int /\ DenOf(c) \in Nat \ {0}
  BY PartTypes, ScoreFraction DEF NumOf, DenOf
<1> DEFINE n == Least(DenOf(c), Most(0, NumOf(c)))
<1>3. n \in Int
  BY <1>2 DEF Least, Most
<1>4. round4(Fraction(n, DenOf(c))) \in Int
  <2> HIDE DEF n
  <2>1. /\ 2 * n * Unit + DenOf(c) \in Int
        /\ 2 * DenOf(c) \in Nat \ {0}
    BY <1>2, <1>3, DecisionAssumption
  <2> QED
    BY <2>1, Quotient DEF round4, Fraction
<1> QED
  BY <1>1, <1>2, <1>4 DEF clamp01

\* A channel with no part worse than those of another does not score less.
LEMMA ScoreKeepsOrder ==
    ASSUME Known, WeightsAreShares, NEW x \in Ids, NEW y \in Ids,
           LET s == successRate(x) o == successRate(y)
           IN  o.num * s.den <= s.num * o.den,
           LET s == latencyScoreOf(p95(channels[x].latencies))
               o == latencyScoreOf(p95(channels[y].latencies))
           IN  o.num * s.den <= s.num * o.den,
           LET s == costScoreOf(channels[x].cost) o == costScoreOf(channels[y].cost)
           IN  o.num * s.den <= s.num * o.den
    PROVE  scoreChannel(x) >= scoreChannel(y)
<1>1. NumOf(y) * DenOf(x) <= NumOf(x) * DenOf(y)
  BY PartTypes, SumKeepsOrder DEF NumOf, DenOf
<1> DEFINE n(c) == Least(DenOf(c), Most(0, NumOf(c)))
<1>2. /\ NumOf(x) \in Int /\ DenOf(x) \in Nat \ {0}
      /\ NumOf(y) \in Int /\ DenOf(y) \in Nat \ {0}
  BY ScoreIs
<1>3. n(y) * DenOf(x) <= n(x) * DenOf(y)
  BY <1>1, <1>2, ClampKeepsOrder
<1>4. n(x) \in Int /\ n(y) \in Int
  BY <1>2 DEF Least, Most
<1>5. round4(Fraction(n(y), DenOf(y))) <= round4(Fraction(n(x), DenOf(x)))
  BY <1>2, <1>3, <1>4, RoundKeepsOrder
<1>6. scoreChannel(x) \in Int /\ scoreChannel(y) \in Int
  BY ScoreIs
<1> QED
  BY <1>5, <1>6, ScoreIs DEF clamp01

\* A measured channel that is at least as good in rate, p95 and cost.
LEMMA BetterParts ==
    ASSUME Known, WeightsAreShares, NEW x \in Ids, NEW y \in Ids,
           ~ coldStart(x), ~ coldStart(y),
           NoP95 < p95(channels[x].latencies),
           p95(channels[x].latencies) <= p95(channels[y].latencies),
           channels[x].success * Samples(y) >= channels[y].success * Samples(x),
           channels[x].cost <= channels[y].cost
    PROVE  scoreChannel(x) >= scoreChannel(y)
<1>1. successRate(y).num * successRate(x).den <= successRate(x).num * successRate(y).den
  <2>1. /\ channels[y].success \in Nat /\ channels[x].success \in Nat
        /\ Samples(x) \in Nat /\ Samples(y) \in Nat
    BY SamplesType, Zenon
  <2>2. channels[y].success * Samples(x) <= channels[x].success * Samples(y)
    BY <2>1
  <2> QED
    BY <2>2 DEF successRate, Fraction
<1>2. LET s == latencyScoreOf(p95(channels[x].latencies))
          o == latencyScoreOf(p95(channels[y].latencies))
      IN  o.num * s.den <= s.num * o.den
  <2> DEFINE p == p95(channels[x].latencies)
             q == p95(channels[y].latencies)
  <2>1. p \in Nat \union {NoP95} /\ q \in Nat \union {NoP95}
    BY P95Type, ProfileTypes
  <2>2. NoP95 < p /\ p <= q
    OBVIOUS
  <2> HIDE DEF p, q
  <2>3. p \in Nat /\ q \in Nat /\ p # NoP95 /\ q # NoP95
    BY <2>1, <2>2 DEF NoP95
  <2>4. LatencyCeiling \in Nat
    BY DecisionAssumption
  <2>5. /\ Least(p, LatencyCeiling) \in Int /\ Least(q, LatencyCeiling) \in Int
        /\ LatencyCeiling - Least(q, LatencyCeiling)
             <= LatencyCeiling - Least(p, LatencyCeiling)
    BY <2>2, <2>3, <2>4 DEF Least
  <2>6. (LatencyCeiling - Least(q, LatencyCeiling)) * LatencyCeiling
          <= (LatencyCeiling - Least(p, LatencyCeiling)) * LatencyCeiling
    BY <2>4, <2>5, TimesKeepsOrder
  <2> QED
    BY <2>3, <2>6 DEF latencyScoreOf, Fraction, p, q
<1>3. LET s == costScoreOf(channels[x].cost)
          o == costScoreOf(channels[y].cost)
      IN  o.num * s.den <= s.num * o.den
  <2> DEFINE spread == costBounds.max - costBounds.min
  <2>1. /\ costBounds.max \in Int /\ spread \in Nat
        /\ channels[x].cost \in Int /\ channels[y].cost \in Int
    BY CostBounds, ProfileTypes
  <2>2. (costBounds.max - channels[y].cost) * spread
          <= (costBounds.max - channels[x].cost) * spread
    <3> HIDE DEF spread
    <3> QED
      BY <2>1, TimesKeepsOrder
  <2> QED
    BY <2>2 DEF costScoreOf, Fraction
<1> QED
  BY <1>1, <1>2, <1>3, ScoreKeepsOrder

(***************************************************************************)
(* The ranking.                                                            *)
(***************************************************************************)
\* Two channels of a request are never equal in the order.
LEMMA BeforeIsTotal ==
    ASSUME Known, NEW a \in Ids, NEW b \in Ids, NEW c \in Ids
    PROVE  /\ ~ Before(Candidate(a), Candidate(a))
           /\ Before(Candidate(a), Candidate(b)) /\ Before(Candidate(b), Candidate(c))
                => Before(Candidate(a), Candidate(c))
           /\ a # b => \/ Before(Candidate(a), Candidate(b))
                       \/ Before(Candidate(b), Candidate(a))
<1>1. \A x \in Ids : /\ scoreChannel(x) \in Int /\ x \in Nat
                     /\ eligibilityOf(x) \in BOOLEAN
  BY ScoreIs, ProfileTypes, DecisionAssumption DEF eligibilityOf
<1> QED
  BY <1>1 DEF Before, Candidate

Rank(c) == Cardinality({d \in Ids : Before(Candidate(d), Candidate(c))})

LEMMA RankIs ==
    ASSUME Known, NEW a \in Ids, NEW b \in Ids
    PROVE  /\ Rank(a) \in 0 .. Cardinality(Ids) - 1
           /\ Before(Candidate(a), Candidate(b)) => Rank(a) < Rank(b)
<1> DEFINE Ahead(c) == {d \in Ids : Before(Candidate(d), Candidate(c))}
<1>1. \A c \in Ids : IsFiniteSet(Ahead(c)) /\ Cardinality(Ahead(c)) \in Nat
  <2> TAKE c \in Ids
  <2>1. Ahead(c) \subseteq Ids
    OBVIOUS
  <2> QED
    BY <2>1, FS_Subset, FS_CardinalityType, DecisionAssumption
<1>2. a \notin Ahead(a) /\ Ahead(a) \union {a} \subseteq Ids
  BY BeforeIsTotal
<1>3. Cardinality(Ahead(a) \union {a}) = Cardinality(Ahead(a)) + 1
  BY <1>1, <1>2, FS_AddElement
<1>4. /\ Cardinality(Ahead(a) \union {a}) <= Cardinality(Ids)
      /\ Cardinality(Ids) \in Nat
  BY <1>2, FS_Subset, FS_CardinalityType, DecisionAssumption
<1>5. ASSUME Before(Candidate(a), Candidate(b)) PROVE Rank(a) < Rank(b)
  <2>1. Ahead(a) \union {a} \subseteq Ahead(b)
    BY <1>5, BeforeIsTotal
  <2>2. Cardinality(Ahead(a) \union {a}) <= Cardinality(Ahead(b))
    BY <1>1, <2>1, FS_Subset
  <2>3. /\ Rank(a) = Cardinality(Ahead(a)) /\ Cardinality(Ahead(a)) \in Nat
        /\ Rank(b) = Cardinality(Ahead(b)) /\ Cardinality(Ahead(b)) \in Nat
    BY <1>1, Zenon DEF Rank
  <2> HIDE DEF Ahead
  <2> QED
    BY <1>3, <2>2, <2>3
<1> QED
  BY <1>1, <1>3, <1>4, <1>5 DEF Rank

\* The list of candidates exists, with every channel once and in order, so that
\* a sort can only make this one of them.
LEMMA OneRanking ==
    ASSUME Known
    PROVE  /\ buildCandidates \in Bijection(1 .. Cardinality(Ids),
                                            {Candidate(c) : c \in Ids})
           /\ \A i, j \in 1 .. Cardinality(Ids) :
                 i < j => Before(buildCandidates[i], buildCandidates[j])
<1> DEFINE n == Cardinality(Ids)
           rank == [c \in Ids |-> Rank(c) + 1]
           at(k) == CHOOSE c \in Ids : rank[c] = k
           list == [k \in 1 .. n |-> Candidate(at(k))]
<1>1. n \in Nat /\ IsFiniteSet(Ids) /\ IsFiniteSet(1 .. n) /\ Cardinality(1 .. n) = n
  BY FS_CardinalityType, FS_Interval, DecisionAssumption
<1>2. rank \in [Ids -> 1 .. n]
  BY <1>1, RankIs
<1>3. \A c, d \in Ids : rank[c] = rank[d] => c = d
  <2> SUFFICES ASSUME NEW c \in Ids, NEW d \in Ids, c # d PROVE rank[c] # rank[d]
    OBVIOUS
  <2>1. Rank(c) \in Int /\ Rank(d) \in Int
    BY <1>1, RankIs
  <2>2. Rank(c) < Rank(d) \/ Rank(d) < Rank(c)
    BY BeforeIsTotal, RankIs
  <2> QED
    BY <2>1, <2>2
<1>4. rank \in Injection(Ids, 1 .. n)
  BY <1>2, <1>3 DEF Injection, IsInjective
<1>5. rank \in Surjection(Ids, 1 .. n)
  BY <1>1, <1>4, FS_Injection
<1>6. \A k \in 1 .. n : at(k) \in Ids /\ rank[at(k)] = k
  BY <1>5 DEF Surjection
<1>7. \A c \in Ids : rank[c] = Rank(c) + 1
  OBVIOUS
<1> HIDE DEF at, rank
<1>8. list \in Bijection(1 .. n, {Candidate(c) : c \in Ids})
  <2>1. list \in [1 .. n -> {Candidate(c) : c \in Ids}]
    BY <1>6
  <2>2. ASSUME NEW i \in 1 .. n, NEW j \in 1 .. n, list[i] = list[j] PROVE i = j
    <3>1. at(i) = at(j)
      BY <2>2 DEF Candidate
    <3> QED
      BY <1>6, <3>1
  <2>3. ASSUME NEW c \in Ids PROVE \E i \in 1 .. n : list[i] = Candidate(c)
    <3>1. rank[c] \in 1 .. n /\ at(rank[c]) = c
      BY <1>2, <1>3, <1>6
    <3> QED
      BY <3>1
  <2> QED
    BY <2>1, <2>2, <2>3 DEF Bijection, Injection, Surjection, IsInjective
<1>9. ASSUME NEW i \in 1 .. n, NEW j \in 1 .. n, i < j
      PROVE  Before(list[i], list[j])
  <2>1. /\ at(i) \in Ids /\ at(j) \in Ids /\ at(i) # at(j)
        /\ Rank(at(i)) + 1 = i /\ Rank(at(j)) + 1 = j
    BY <1>6, <1>7, <1>9
  <2>2. Rank(at(i)) \in Int /\ Rank(at(j)) \in Int
    BY <1>1, <2>1, RankIs
  <2>3. ~ Before(Candidate(at(j)), Candidate(at(i)))
    BY <1>9, <2>1, <2>2, RankIs
  <2> QED
    BY <2>1, <2>3, BeforeIsTotal
<1> HIDE DEF list, n
<1>10. \E l \in Bijection(1 .. n, {Candidate(c) : c \in Ids}) :
          \A i, j \in 1 .. n : i < j => Before(l[i], l[j])
  BY <1>8, <1>9
<1> QED
  BY <1>10, Zenon DEF buildCandidates, n

(***************************************************************************)
(* The invariant.                                                          *)
(***************************************************************************)
Phases == {"score", "select", "slot", "reselect", "done", "none"}

CandidateType ==
    [channelId : Ids, score : Int, state : {"CLOSED", "OPEN", "HALF_OPEN"},
     eligible : BOOLEAN]

Outranks(x, y) ==
    \/ scoreChannel(x) > scoreChannel(y)
    \/ scoreChannel(x) = scoreChannel(y) /\ x < y

\* The list has every channel, with its score, and is in order as far as it is
\* eligible; whose slot was held is not.
Listed ==
    /\ candidates \in [1 .. Cardinality(Ids) -> CandidateType]
    /\ \A i \in 1 .. Cardinality(Ids) :
          /\ candidates[i].score = scoreChannel(candidates[i].channelId)
          /\ candidates[i].eligible
               <=> /\ eligibilityOf(candidates[i].channelId)
                   /\ candidates[i].channelId # refused
    /\ \A c \in Ids : \E i \in 1 .. Cardinality(Ids) : candidates[i].channelId = c
    /\ \A i, j \in 1 .. Cardinality(Ids) :
          i < j /\ candidates[i].eligible /\ candidates[j].eligible
             => Outranks(candidates[i].channelId, candidates[j].channelId)

ListInv ==
    /\ phase \in Phases
    /\ phase = "score" => candidates = <<>>
    /\ phase \in {"score", "select", "slot"} => refused = 0
    /\ phase # "score" => Listed

\* A selection is one that selectChannel makes from the list as it is.
ChoiceInv ==
    phase \in {"slot", "done"}
        => EligibleOf(candidates) # {} /\ selection \in Selections(candidates)

IInv == Known /\ ListInv /\ ChoiceInv

\* Scores and eligibility only depend on what is known of the channels.
LEMMA SameScores ==
    ASSUME UNCHANGED channels
    PROVE  /\ \A c : scoreChannel(c)' = scoreChannel(c)
           /\ \A c : eligibilityOf(c)' = eligibilityOf(c)
           /\ \A x, y : Outranks(x, y)' = Outranks(x, y)
<1>1. Costs' = Costs
  BY DEF Costs
<1>2. costBounds' = costBounds
  BY <1>1 DEF costBounds
<1>3. \A c : costScoreOf(channels[c].cost)' = costScoreOf(channels[c].cost)
  BY <1>2 DEF costScoreOf
<1>4. \A c : successRate(c)' = successRate(c)
  BY DEF successRate, coldStart, Samples
<1>5. \A c : scoreChannel(c)' = scoreChannel(c)
  BY <1>3, <1>4 DEF scoreChannel
<1>6. \A c : eligibilityOf(c)' = eligibilityOf(c)
  BY DEF eligibilityOf
<1> QED
  BY <1>5, <1>6 DEF Outranks

LEMMA InitIInv == Init => IInv
BY DEF Init, IInv, Known, ListInv, ChoiceInv, Phases

LEMMA ScoreStep ==
    ASSUME IInv, Score
    PROVE  Listed'
<1> DEFINE n == Cardinality(Ids)
           list == buildCandidates
<1>1. /\ Known /\ refused = 0 /\ refused' = 0 /\ candidates' = list
      /\ UNCHANGED channels
  BY DEF IInv, ListInv, Score
<1>2. /\ list \in [1 .. n -> {Candidate(c) : c \in Ids}]
      /\ \A c \in Ids : \E i \in 1 .. n : list[i] = Candidate(c)
      /\ \A i, j \in 1 .. n : i < j => Before(list[i], list[j])
  BY <1>1, OneRanking DEF Bijection, Injection, Surjection
<1>3. \A c \in Ids : /\ Candidate(c) \in CandidateType
                     /\ Candidate(c).channelId = c
                     /\ Candidate(c).score = scoreChannel(c)
                     /\ Candidate(c).eligible = eligibilityOf(c)
  BY <1>1, ProfileTypes, ScoreIs DEF Candidate, CandidateType, eligibilityOf
<1> HIDE DEF list, n
<1>4. \A i \in 1 .. n : /\ list[i] \in CandidateType /\ list[i].channelId \in Ids
                        /\ list[i].score = scoreChannel(list[i].channelId)
                        /\ list[i].eligible = eligibilityOf(list[i].channelId)
  BY <1>2, <1>3
<1>5. list \in [1 .. n -> CandidateType]
  BY <1>2, <1>4
<1>6. \A c \in Ids : \E i \in 1 .. n : list[i].channelId = c
  BY <1>2, <1>3
<1>7. ASSUME NEW i \in 1 .. n, NEW j \in 1 .. n, i < j, list[i].eligible, list[j].eligible
      PROVE  Outranks(list[i].channelId, list[j].channelId)
  <2>1. Before(list[i], list[j])
    BY <1>2, <1>7
  <2> QED
    BY <1>4, <1>7, <2>1 DEF Before, Outranks
<1>8. \A c \in Ids : c # 0
  BY DecisionAssumption
<1> QED
  BY <1>1, <1>4, <1>5, <1>6, <1>7, <1>8, SameScores DEF Listed, n

LEMMA SlotHeldStep ==
    ASSUME IInv, SlotHeld
    PROVE  Listed'
<1> DEFINE n == Cardinality(Ids)
           id(i) == candidates[i].channelId
<1>1. /\ Listed /\ refused = 0 /\ refused' = selection.channelId
      /\ candidates' = [i \in DOMAIN candidates |->
             IF candidates[i].channelId = selection.channelId
               THEN [candidates[i] EXCEPT !.eligible = FALSE] ELSE candidates[i]]
      /\ UNCHANGED channels
  BY DEF IInv, ListInv, SlotHeld
<1>2. DOMAIN candidates = 1 .. n /\ \A i \in 1 .. n : candidates[i] \in CandidateType
  BY <1>1 DEF Listed
<1>3. \A i \in 1 .. n : /\ candidates'[i] \in CandidateType
                        /\ candidates'[i].channelId = candidates[i].channelId
                        /\ candidates'[i].score = candidates[i].score
                        /\ candidates'[i].eligible
                             <=> /\ candidates[i].eligible
                                 /\ candidates[i].channelId # selection.channelId
  BY <1>1, <1>2 DEF CandidateType
<1>4. candidates' \in [1 .. n -> CandidateType]
  BY <1>1, <1>2, <1>3
<1>5. \A c \in Ids : c # 0
  BY DecisionAssumption
<1>6. \A i \in 1 .. n : candidates[i].channelId \in Ids
  BY <1>2 DEF CandidateType
<1> QED
  BY <1>1, <1>3, <1>4, <1>5, <1>6, SameScores DEF Listed

LEMMA Inductive == Spec => []IInv
<1>1. IInv /\ [Next]_vars => IInv'
  <2> SUFFICES ASSUME IInv, [Next]_vars PROVE IInv'
    OBVIOUS
  <2>1. UNCHANGED channels /\ Known'
    BY DEF IInv, Known, Next, vars, Score, NoneEligible, Select, SlotTaken, SlotHeld
  <2>2. UNCHANGED <<candidates, refused>> => (Listed <=> Listed')
    BY <2>1, SameScores DEF Listed
  <2>3. CASE Score
    BY <2>1, <2>3, ScoreStep DEF IInv, ListInv, ChoiceInv, Score, Phases
  <2>4. CASE NoneEligible
    BY <2>1, <2>2, <2>4 DEF IInv, ListInv, ChoiceInv, NoneEligible, Phases
  <2>5. CASE Select
    <3>1. /\ EligibleOf(candidates) # {} /\ selection' \in Selections(candidates)
          /\ UNCHANGED <<candidates, refused>> /\ phase' \in {"slot", "done"}
          /\ phase \in {"select", "reselect"}
          /\ phase' = "slot" => phase = "select"
      BY <2>5 DEF Select
    <3>2. ListInv'
      BY <2>2, <3>1 DEF IInv, ListInv, Phases
    <3>3. ChoiceInv'
      BY <3>1 DEF ChoiceInv, Selections, BestOf, EligibleOf, Chosen
    <3> QED
      BY <2>1, <3>2, <3>3 DEF IInv
  <2>6. CASE SlotTaken
    BY <2>1, <2>2, <2>6 DEF IInv, ListInv, ChoiceInv, SlotTaken, Phases
  <2>7. CASE SlotHeld
    BY <2>1, <2>7, SlotHeldStep DEF IInv, ListInv, ChoiceInv, SlotHeld, Phases
  <2>8. CASE UNCHANGED vars
    BY <2>1, <2>2, <2>8 DEF IInv, ListInv, ChoiceInv, vars, Phases
  <2> QED
    BY <2>3, <2>4, <2>5, <2>6, <2>7, <2>8 DEF Next
<1> QED
  BY <1>1, InitIInv, PTL DEF Spec

\* In whatever list of candidates a decision is made, and for all weights that
\* are not negative, a measured channel that is at least as good as another in
\* rate, p95 and cost scores no less: ceiling, cost bounds, clamp01 and round4
\* keep the order (scoreChannel).  loadConfig also lets negative weights pass,
\* for which this fails.
THEOREM BetterStaysHigher ==
    ASSUME WeightsAreShares
    PROVE  Spec => []BetterScoresHigher
<1>1. ASSUME IInv PROVE BetterScoresHigher
  <2>1. CASE phase = "score"
    BY <1>1, <2>1 DEF IInv, ListInv, BetterScoresHigher
  <2>2. CASE phase # "score"
    <3>1. /\ DOMAIN candidates = 1 .. Cardinality(Ids)
          /\ \A i \in DOMAIN candidates :
                /\ candidates[i].channelId \in Ids
                /\ candidates[i].score = scoreChannel(candidates[i].channelId)
      BY <1>1, <2>2 DEF IInv, ListInv, Listed, CandidateType
    <3> QED
      BY <1>1, <3>1, BetterParts DEF IInv, BetterScoresHigher
  <2> QED
    BY <2>1, <2>2
<1> QED
  BY <1>1, Inductive, PTL

\* The best place is the first of the eligible ones.
LEMMA BestIs ==
    ASSUME Listed, EligibleOf(candidates) # {}
    PROVE  /\ BestOf(candidates) \in EligibleOf(candidates)
           /\ \A i \in EligibleOf(candidates) : BestOf(candidates) <= i
<1>1. EligibleOf(candidates) \subseteq Nat
  BY DEF Listed, EligibleOf
<1>2. \E i \in EligibleOf(candidates) : \A j \in EligibleOf(candidates) : i <= j
  BY <1>1, LeastNat
<1> QED
  BY <1>2 DEF BestOf

\* A decision never says of itself what is not so: nobody is chosen who is off,
\* OPEN or refused a slot, "best" has the best score of those that are left,
\* "explore" has not, and "only-candidate" was the only one (selectChannel, and
\* route where it selects again after a refused slot).
THEOREM StrategyStaysTrue == Spec => []StrategyIsTrue
<1>1. ASSUME IInv PROVE StrategyIsTrue
  <2> SUFFICES ASSUME phase = "done"
               PROVE  LET chosen == selection.channelId
                          usable == {c \in Ids : /\ c # refused
                                                 /\ channels[c].enabled
                                                 /\ channels[c].state # "OPEN"}
                          beaten == {c \in usable \ {chosen} :
                                       \/ scoreChannel(c) < scoreChannel(chosen)
                                       \/ /\ scoreChannel(c) = scoreChannel(chosen)
                                          /\ chosen < c}
                      IN  /\ chosen \in usable
                          /\ selection.strategy = "only-candidate" <=> usable = {chosen}
                          /\ selection.strategy = "best" => beaten = usable \ {chosen}
                          /\ selection.strategy = "explore" => beaten # usable \ {chosen}
    BY DEF StrategyIsTrue
  <2> DEFINE usable == {c \in Ids : /\ c # refused /\ channels[c].enabled
                                    /\ channels[c].state # "OPEN"}
             places == EligibleOf(candidates)
             best == BestOf(candidates)
             id(i) == candidates[i].channelId
  <2>1. /\ Listed /\ places # {} /\ selection \in Selections(candidates)
    BY <1>1 DEF IInv, ListInv, ChoiceInv
  <2>2. /\ best \in places /\ places \subseteq Nat
        /\ \A i \in places : best <= i
    BY <2>1, BestIs DEF Listed, EligibleOf
  <2>3. /\ \A i \in places : id(i) \in usable
        /\ \A c \in usable : \E i \in places : id(i) = c
    <3>1. /\ DOMAIN candidates = 1 .. Cardinality(Ids)
          /\ \A i \in DOMAIN candidates : id(i) \in Ids
          /\ \A i \in DOMAIN candidates : candidates[i].eligible <=> id(i) \in usable
      BY <2>1 DEF Listed, CandidateType, eligibilityOf
    <3>2. \A c \in Ids : \E i \in DOMAIN candidates : id(i) = c
      BY <2>1, <3>1 DEF Listed
    <3> QED
      BY <3>1, <3>2 DEF EligibleOf
  <2>4. \A i, j \in places : i < j => Outranks(id(i), id(j))
    BY <2>1 DEF Listed, EligibleOf
  <2>5. \A c \in usable : scoreChannel(c) \in Int /\ c \in Nat
    BY <1>1, ScoreIs, DecisionAssumption DEF IInv
  <2>6. \E i \in places :
          /\ selection.channelId = id(i)
          /\ \/ selection.strategy = "only-candidate" /\ i = best /\ places = {best}
             \/ selection.strategy = "best" /\ i = best /\ places # {best}
             \/ selection.strategy = "explore" /\ i # best /\ places # {best}
    BY <2>1, <2>2 DEF Selections, Chosen
  <2> HIDE DEF usable, places, best, id
  <2>7. PICK i \in places :
          /\ selection.channelId = id(i)
          /\ \/ selection.strategy = "only-candidate" /\ i = best /\ places = {best}
             \/ selection.strategy = "best" /\ i = best /\ places # {best}
             \/ selection.strategy = "explore" /\ i # best /\ places # {best}
    BY <2>6
  <2>8. \A j, k \in places : id(j) = id(k) => j = k
    BY <2>2, <2>3, <2>4, <2>5 DEF Outranks
  <2>9. usable = {id(i)} <=> places = {i}
    BY <2>3, <2>7, <2>8
  <2>10. ASSUME i = best, NEW c \in usable, c # id(i)
         PROVE  Outranks(id(i), c)
    <3>1. PICK j \in places : id(j) = c
      BY <2>3
    <3>2. i < j
      BY <2>2, <2>10, <3>1
    <3> QED
      BY <2>4, <3>1, <3>2
  <2>11. ASSUME i # best
         PROVE  Outranks(id(best), id(i)) /\ id(best) \in usable /\ id(best) # id(i)
    BY <2>2, <2>3, <2>4, <2>8, <2>11
  <2>12. id(i) \in usable
    BY <2>3
  <2> DEFINE beaten == {c \in usable \ {id(i)} :
                          \/ scoreChannel(c) < scoreChannel(id(i))
                          \/ scoreChannel(c) = scoreChannel(id(i)) /\ id(i) < c}
  <2>13. i = best => beaten = usable \ {id(i)}
    BY <2>5, <2>10, <2>12 DEF Outranks
  <2>14. i # best => beaten # usable \ {id(i)}
    BY <2>5, <2>11, <2>12 DEF Outranks
  <2> HIDE DEF beaten
  <2>15. selection.strategy = "only-candidate" <=> usable = {id(i)}
    BY <2>2, <2>7, <2>9
  <2> QED
    BY <2>7, <2>12, <2>13, <2>14, <2>15 DEF usable, beaten
<1> QED
  BY <1>1, Inductive, PTL
=============================================================================
