---------------------------- MODULE MCAdminReset ----------------------------
(***************************************************************************)
(* A small instance of AdminReset: one channel, one event.                 *)
(***************************************************************************)
EXTENDS AdminReset

CONSTANTS e1, c1

SameEvent   == [m \in Messages |-> e1]
SameChannel == [e \in Events |-> c1]
=============================================================================
