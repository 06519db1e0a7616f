--------------------------- MODULE MCAccountStore ---------------------------
(* Instances of AccountStore for TLC.                                      *)
EXTENDS AccountStore, TLC

Symmetry == Permutations(Requests) \cup Permutations(Tokens)
=============================================================================
