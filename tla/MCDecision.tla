------------------------------ MODULE MCDecision ------------------------------
(***************************************************************************)
(* Three channels.  Each has one of the profiles: on or off, a breaker     *)
(* state, a cost, an empty, a short or a full window.  One window has      *)
(* twenty latencies, where the 95th percentile is not the largest.         *)
(***************************************************************************)
EXTENDS Decision

MCIds == 1 .. 3

Profile(enabled, state, cost, success, failure, latencies) ==
    [enabled |-> enabled, state |-> state, cost |-> cost,
     success |-> success, failure |-> failure, latencies |-> latencies]

\* One damaged value, and a slow payout among many fast ones.
Damaged    == <<3, -1, 1, 2, 2, 4>>
OneOutlier == [i \in 1 .. 20 |-> IF i = 7 THEN 12 ELSE (i % 4) + 1]
Slow       == <<9, 12, 9, 8, 12>>
Short      == <<1, 2, -1, 2, 1>>

MCProfiles ==
    {Profile(TRUE, "CLOSED", 1, 0, 0, <<>>),
     Profile(TRUE, "CLOSED", 3, 5, 0, Damaged),
     Profile(TRUE, "CLOSED", 3, 19, 1, OneOutlier),
     Profile(TRUE, "CLOSED", 3, 19, 1, Slow),
     Profile(TRUE, "CLOSED", 1, 2, 3, Slow),
     Profile(TRUE, "HALF_OPEN", 1, 5, 0, Damaged),
     Profile(TRUE, "HALF_OPEN", 1, 0, 1, Short),
     Profile(TRUE, "OPEN", 1, 5, 0, Damaged),
     Profile(TRUE, "OPEN", 3, 0, 5, Slow),
     Profile(FALSE, "CLOSED", 1, 5, 0, Damaged)}
=============================================================================
