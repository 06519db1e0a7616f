---------------------------- MODULE MCMatchmaker ----------------------------
(* Instances of Matchmaker for TLC.                                        *)
EXTENDS Matchmaker, TLC

Symmetry == Permutations(Accounts) \cup Permutations(Replicas)
=============================================================================
