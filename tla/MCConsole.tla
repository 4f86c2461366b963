------------------------------ MODULE MCConsole ------------------------------
(***************************************************************************)
(* A small instance of Console: one half of the page, one other reader of  *)
(* status().                                                               *)
(***************************************************************************)
EXTENDS Console
=============================================================================
