------------------------- MODULE MCGatewaySessions -------------------------
(* Instances of GatewaySessions for TLC.                                   *)
EXTENDS GatewaySessions, TLC

Symmetry == Permutations(Nodes) \cup Permutations(Accounts) \cup Permutations(Sockets)
=============================================================================
