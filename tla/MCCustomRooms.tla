--------------------------- MODULE MCCustomRooms ---------------------------
(* Instances of CustomRooms for TLC.  Accounts are interchangeable.        *)
EXTENDS CustomRooms, TLC

Symmetry == Permutations(Accounts)
=============================================================================
