---------------------------- MODULE MCSettlement ----------------------------
(***************************************************************************)
(* Small instances, for TLC, of the two components whose steps are         *)
(* transactions of Postgres: the ledger and the friendships.  They share   *)
(* no row, so a behaviour steps one of them, chosen at its start.          *)
(***************************************************************************)
EXTENDS Settlement, Friends

VARIABLE focus

transactionVars == <<settlementVars, friendVars, focus>>

StepSettlement == focus = "settlement" /\ SettlementNext /\ UNCHANGED <<friendVars, focus>>
StepFriends == focus = "friends" /\ FriendsNext /\ UNCHANGED <<settlementVars, focus>>

Transactions == StepSettlement \/ StepFriends

TransactionsInit ==
    /\ focus \in {"settlement", "friends"}
    /\ SettlementInit /\ FriendsInit

TransactionsSpec ==
    /\ TransactionsInit
    /\ [][Transactions]_transactionVars
    /\ Fairness /\ FriendsFairness
=============================================================================
