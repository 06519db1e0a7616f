---------------------------- MODULE MatchLedger ----------------------------
(***************************************************************************)
(* What settlement promises: each player of a match that ended has at most *)
(* one row of it, and the row and the coins it is worth are one change.    *)
(* Every win is worth one coin.                                            *)
(***************************************************************************)
EXTENDS Integers

CONSTANTS Matches, Accounts

Result == [match : Matches, players : SUBSET Accounts, winners : SUBSET Accounts]

VARIABLES
    reported,    \* the results of the matches that ended
    ledger,      \* the <<match, account>> rows of match_results
    coins        \* account -> coins credited to it

LedgerInit == reported = {} /\ ledger = {} /\ coins = [a \in Accounts |-> 0]

\* A match ends once.
EndMatch(result) ==
    /\ \A r \in reported : r.match # result.match
    /\ reported' = reported \cup {result}
    /\ UNCHANGED <<ledger, coins>>

\* INSERT ... ON CONFLICT DO NOTHING and the credit of a fresh row.
Settle(result, a) ==
    /\ <<result.match, a>> \notin ledger
    /\ ledger' = ledger \cup {<<result.match, a>>}
    /\ coins' = IF a \in result.winners THEN [coins EXCEPT ![a] = @ + 1] ELSE coins
    /\ UNCHANGED reported

LedgerNext ==
    \/ \E result \in Result : EndMatch(result)
    \/ \E result \in reported : \E a \in result.players : Settle(result, a)

LedgerSpec == LedgerInit /\ [][LedgerNext]_<<reported, ledger, coins>>
=============================================================================
