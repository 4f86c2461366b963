-------------------------- MODULE MCSlidingWindow --------------------------
(***************************************************************************)
(* Small instances of SlidingWindow.                                       *)
(***************************************************************************)
EXTENDS SlidingWindow, TLC

CONSTANTS c1, c2

BothOrOne == {<<c1, c2>>, <<c2>>}

OnlyFirst == {<<c1>>}

Symmetry == Permutations(Outcomes)
=============================================================================
