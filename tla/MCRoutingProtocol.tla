------------------------- MODULE MCRoutingProtocol -------------------------
(***************************************************************************)
(* Small instances of RoutingProtocol.                                     *)
(***************************************************************************)
EXTENDS RoutingProtocol, TLC

CONSTANTS c1, c2

OneChannel  == <<c1>>
TwoChannels == <<c1, c2>>
JustOne     == {c1}
Both        == {c1, c2}
NoLimit1    == {{c1}}
AnyLimit2   == {{c1, c2}, {c2}, {}}

Symmetry == Permutations(Payouts) \union Permutations(Handlers)
=============================================================================
