---------------------------- MODULE MCLifecycle ----------------------------
(***************************************************************************)
(* Small instances of Lifecycle.                                           *)
(***************************************************************************)
EXTENDS Lifecycle, TLC

CONSTANTS s1, s2, m1

\* An old and a new build of the service, and the new command line.
OldAndNew == s1 :> 1 @@ s2 :> 2 @@ m1 :> 2
=============================================================================
