----------------------------- MODULE MCCsMatch -----------------------------
(* Instances of CsMatch for TLC.                                           *)
EXTENDS CsMatch, TLC

Symmetry == Permutations(Players)
=============================================================================
