-------------------------- MODULE MCOutcomeStream --------------------------
(***************************************************************************)
(* Small instances of OutcomeStream.  With two messages the producer sends *)
(* one event twice.                                                        *)
(***************************************************************************)
EXTENDS OutcomeStream, TLC

CONSTANTS e1

SameEvent == [m \in Messages |-> e1]

Symmetry == Permutations(Claimers)
=============================================================================
