---------------------------- MODULE MCDeployGate ----------------------------
(***************************************************************************)
(* A small instance of DeployGate.                                         *)
(***************************************************************************)
EXTENDS DeployGate

\* The second version breaks the first consumer, and the first version of the
\* event contract is not kept by the second producer.
TwoBreaks == {<<"http", 2, 1>>, <<"event", 1, 2>>}
=============================================================================
