---------------------------- MODULE IdealWindow ----------------------------
(***************************************************************************)
(* What the routing code is promised by the window store: every recorded   *)
(* outcome is kept, and a read at time t is answered with the numbers of   *)
(* good and failed outcomes of each channel in the window that ends at t.  *)
(* Module SlidingWindow shows that the Redis buckets, their TTLs and the   *)
(* pipelined read keep this promise.                                       *)
(***************************************************************************)
EXTENDS Integers, FiniteSets

CONSTANTS
    Channels, Outcomes, Readers,
    Reads,          \* the sets of channels a read may ask for
    Times,          \* the values of the clock
    BucketMs,       \* config.bucketMs
    BucketCount     \* buckets in one window

VARIABLES
    log,        \* the outcomes recorded so far
    asked,      \* the read each reader has under way
    result      \* the answer each reader has got

vars == <<log, asked, result>>

Entry == [outcome : Outcomes, channel : Channels, success : BOOLEAN, at : Times]

\* No read is under way.
Nothing == [channels |-> {}, at |-> 0]

\* The outcomes of channel c in the window of BucketCount buckets whose last
\* one holds time t.
InWindow(c, t) ==
    {e \in log : /\ e.channel = c
                 /\ e.at \div BucketMs \in
                      (t \div BucketMs) - BucketCount + 1 .. t \div BucketMs}

Numbers(c, t) ==
    [success |-> Cardinality({e \in InWindow(c, t) : e.success}),
     failure |-> Cardinality({e \in InWindow(c, t) : ~e.success})]

Init ==
    /\ log = {}
    /\ asked = [r \in Readers |-> Nothing]
    /\ result = [r \in Readers |-> <<>>]

Record ==
    \E e \in Entry :
        /\ \A other \in log : other.outcome # e.outcome
        /\ log' = log \union {e}
        /\ UNCHANGED <<asked, result>>

Ask(r) ==
    /\ asked[r] = Nothing
    /\ \E C \in Reads, t \in Times :
          asked' = [asked EXCEPT ![r] = [channels |-> C, at |-> t]]
    /\ result' = [result EXCEPT ![r] = <<>>]
    /\ UNCHANGED log

Answer(r) ==
    /\ asked[r] # Nothing
    /\ result' = [result EXCEPT ![r] =
                     [c \in asked[r].channels |-> Numbers(c, asked[r].at)]]
    /\ asked' = [asked EXCEPT ![r] = Nothing]
    /\ UNCHANGED log

Next == Record \/ \E r \in Readers : Ask(r) \/ Answer(r)

Spec == Init /\ [][Next]_vars
=============================================================================
