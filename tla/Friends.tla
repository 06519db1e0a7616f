------------------------------ MODULE Friends ------------------------------
(***************************************************************************)
(* Friendships in Postgres (src/db/repo/postgres.js and the handlers       *)
(* RequestAddingFriend, ConfirmFriendRequest, DeclineFriendRequest,        *)
(* RemoveFriend).                                                          *)
(*                                                                         *)
(* A friendship is two rows, (a, b) and (b, a).  A confirmation is a       *)
(* transaction under READ COMMITTED that inserts them one after the other: *)
(* ON CONFLICT DO NOTHING skips a committed row and waits for a            *)
(* transaction that has inserted it and not ended.  Two confirmations of   *)
(* one pair from both sides insert in opposite orders, and Postgres ends   *)
(* one of two that wait for each other.  A removal is one DELETE of what   *)
(* is committed.                                                           *)
(***************************************************************************)
EXTENDS Integers, FiniteSets

CONSTANTS People, Confirms, MaxFriendFaults

ASSUME FriendsAssumption == MaxFriendFaults \in Nat /\ "nobody" \notin People

VARIABLES
    friends,      \* committed rows of friendships
    requested,    \* rows of friend_requests: <<target, from>>
    confirm,      \* transaction -> what it does and the rows it has inserted
    agreed,       \* both rows of each pair that confirmed and did not remove since
    torn,         \* both rows of each pair that removed in the middle of a confirmation
    friendFaults

friendVars == <<friends, requested, confirm, agreed, torn, friendFaults>>

Rows == People \X People

NoConfirm == [pc |-> "idle", me |-> "nobody", other |-> "nobody", rows |-> {}]

FriendsInit ==
    /\ friends = {} /\ requested = {} /\ agreed = {} /\ torn = {}
    /\ confirm = [c \in Confirms |-> NoConfirm]
    /\ friendFaults = 0

Both(a, b) == {<<a, b>>, <<b, a>>}

FirstRow(c) == <<confirm[c].me, confirm[c].other>>
SecondRow(c) == <<confirm[c].other, confirm[c].me>>

-----------------------------------------------------------------------------
\* RequestAddingFriend: addRequest.
AddRequest(adder, addee) ==
    /\ adder # addee
    /\ requested' = requested \cup {<<addee, adder>>}
    /\ UNCHANGED <<friends, confirm, agreed, torn, friendFaults>>

\* DeclineFriendRequest: removeRequest.
DeclineRequest(me, adder) ==
    /\ requested' = requested \ {<<me, adder>>}
    /\ UNCHANGED <<friends, confirm, agreed, torn, friendFaults>>

\* ConfirmFriendRequest: BEGIN.  Nobody looks for the request it confirms.
ConfirmBegin(c, me, adder) ==
    /\ confirm[c].pc = "idle" /\ me # adder
    /\ confirm' = [confirm EXCEPT ![c] = [pc |-> "first", me |-> me, other |-> adder, rows |-> {}]]
    /\ UNCHANGED <<friends, requested, agreed, torn, friendFaults>>

\* Transactions that have inserted the row and not ended.
HeldByOther(c, row) == \E d \in Confirms \ {c} : row \in confirm[d].rows

\* Mutant: a row that another transaction is inserting counts as there.
InsertUnlessHeld(c, row, pc) ==
    /\ confirm' = [confirm EXCEPT ![c].pc = pc,
                       ![c].rows = IF row \in friends \/ HeldByOther(c, row) THEN @ ELSE @ \cup {row}]
    /\ UNCHANGED <<friends, requested, agreed, torn, friendFaults>>

\* One row of INSERT ... ON CONFLICT DO NOTHING.
Insert(c, row, pc) ==
    /\ ~HeldByOther(c, row)
    /\ confirm' = [confirm EXCEPT ![c].pc = pc,
                       ![c].rows = IF row \in friends THEN @ ELSE @ \cup {row}]
    /\ UNCHANGED <<friends, requested, agreed, torn, friendFaults>>

InsertFirst(c) == confirm[c].pc = "first" /\ Insert(c, FirstRow(c), "second")
InsertSecond(c) == confirm[c].pc = "second" /\ Insert(c, SecondRow(c), "clear")

\* The DELETE of the requests between the two, and COMMIT.
ConfirmCommit(c) ==
    /\ confirm[c].pc = "clear"
    /\ friends' = friends \cup confirm[c].rows
    /\ requested' = requested \ Both(confirm[c].me, confirm[c].other)
    /\ agreed' = IF confirm[c].rows = {} THEN agreed
                 ELSE agreed \cup Both(confirm[c].me, confirm[c].other)
    /\ confirm' = [confirm EXCEPT ![c] = NoConfirm]
    /\ UNCHANGED <<torn, friendFaults>>

\* ROLLBACK: nothing it inserted was ever there.
Rollback(c) ==
    /\ confirm' = [confirm EXCEPT ![c] = NoConfirm]
    /\ UNCHANGED <<friends, requested, agreed, torn>>

\* The row the transaction is to insert next.
NextRow(c) == IF confirm[c].pc = "first" THEN FirstRow(c) ELSE SecondRow(c)

Waits(c, d) ==
    /\ c # d /\ confirm[c].pc \in {"first", "second"}
    /\ NextRow(c) \in confirm[d].rows

\* The deadlock detector of Postgres ends one of two that wait for each other.
DeadlockAbort(c) ==
    /\ \E d \in Confirms : Waits(c, d) /\ Waits(d, c)
    /\ Rollback(c) /\ UNCHANGED friendFaults

\* Mutant: the client is released without ROLLBACK: its transaction is never ended.
ConfirmFailsOpen(c) ==
    /\ friendFaults < MaxFriendFaults /\ friendFaults' = friendFaults + 1
    /\ confirm[c].pc # "idle"
    /\ confirm' = [confirm EXCEPT ![c].pc = "failed"]
    /\ UNCHANGED <<friends, requested, agreed, torn>>

\* A command of the transaction fails: ROLLBACK.
ConfirmFails(c) ==
    /\ friendFaults < MaxFriendFaults /\ friendFaults' = friendFaults + 1
    /\ confirm[c].pc # "idle" /\ Rollback(c)

\* A confirmation that has skipped a row of the pair as there, and may still insert the
\* other one or has done so.
Skipped(c) ==
    \/ confirm[c].pc = "second" /\ FirstRow(c) \notin confirm[c].rows
    \/ /\ confirm[c].pc = "clear" /\ confirm[c].rows # {}
       /\ confirm[c].rows # Both(confirm[c].me, confirm[c].other)

Cuts(a, b) == \E c \in Confirms : Skipped(c) /\ <<a, b>> \in Both(confirm[c].me, confirm[c].other)

\* RemoveFriend: removeFriendship, one DELETE.
RemoveFriend(a, b) ==
    /\ a # b
    /\ friends' = friends \ Both(a, b)
    /\ agreed' = agreed \ Both(a, b)
    /\ torn' = IF Cuts(a, b) THEN torn \cup Both(a, b) ELSE torn \ Both(a, b)
    /\ UNCHANGED <<requested, confirm, friendFaults>>

Advance(c) == InsertFirst(c) \/ InsertSecond(c) \/ ConfirmCommit(c) \/ DeadlockAbort(c)

FriendsNext ==
    \/ \E a, b \in People :
           \/ AddRequest(a, b) \/ DeclineRequest(a, b) \/ RemoveFriend(a, b)
           \/ \E c \in Confirms : ConfirmBegin(c, a, b)
    \/ \E c \in Confirms :
           \/ InsertFirst(c) \/ InsertSecond(c) \/ ConfirmCommit(c) \/ DeadlockAbort(c)
           \/ ConfirmFails(c)

\* Postgres runs a transaction it can run.  Strong: others of the pair may hold its row again and again.
FriendsFairness == \A c \in Confirms : SF_friendVars(Advance(c))

FriendsSpec == FriendsInit /\ [][FriendsNext]_friendVars

-----------------------------------------------------------------------------
\* The type invariant.
FriendsTypeOK ==
    /\ friends \subseteq Rows /\ requested \subseteq Rows
    /\ agreed \subseteq Rows /\ torn \subseteq Rows
    /\ \A c \in Confirms :
           \/ confirm[c] = NoConfirm
           \/ confirm[c] \in [pc : {"first", "second", "clear"}, me : People, other : People,
                              rows : SUBSET Rows]
    /\ friendFaults \in 0 .. MaxFriendFaults

\* The two sides of a friendship never differ, and they are friends exactly when the last
\* of confirmations and removals was a confirmation (postgres.js: "adding/removing is
\* atomic, the two sides can never desync"), whatever transactions of the pair overlap,
\* unless a removal came between the rows of a confirmation.
FriendsMutual ==
    \A a, b \in People : <<a, b>> \notin torn =>
        /\ <<a, b>> \in friends <=> <<b, a>> \in friends
        /\ <<a, b>> \in friends <=> <<a, b>> \in agreed

\* Every confirmation that has begun ends, by its commit or as the victim of a deadlock
\* (addFriendship releases its client on every path), however many wait for each other's
\* rows.
ConfirmsEnd == \A c \in Confirms : confirm[c].pc # "idle" ~> confirm[c].pc = "idle"
=============================================================================
