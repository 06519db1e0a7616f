----------------------------- MODULE MCIdentity -----------------------------
(* Instances of Identity for TLC.                                          *)
EXTENDS Identity, TLC

Symmetry == Permutations(Users) \cup Permutations(Callbacks) \cup Permutations(Polls)
                \cup Permutations(Calls)
=============================================================================
