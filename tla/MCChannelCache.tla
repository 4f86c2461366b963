--------------------------- MODULE MCChannelCache ---------------------------
(***************************************************************************)
(* Small instances of ChannelCache.  A request, a lookup and an operator   *)
(* share an instance of the service; a second operator works in another.   *)
(***************************************************************************)
EXTENDS ChannelCache

CONSTANTS i1, i2, q1, l1, o1, o2

TwoInstances == [x \in {q1, l1, o1, o2} |-> IF x = o2 THEN i2 ELSE i1]
=============================================================================
