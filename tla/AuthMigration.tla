--------------------------- MODULE AuthMigration ---------------------------
(***************************************************************************)
(* The move of the identity service's guests from MongoDB to Postgres      *)
(* (src/auth/scripts/migrate-mongo-to-pg.js): each document is upserted by *)
(* its open_id in a statement of its own, and one that fails is counted    *)
(* and passed over.  Mongo's guests may share a uid, Postgres's may not.    *)
(* (Its accounts go the same way; their uid is unique in Mongo only.)       *)
(*                                                                         *)
(* Bounds: MaxEdits documents that change while it runs or between runs,   *)
(* MaxStops statements that fail by themselves or runs that die.           *)
(***************************************************************************)
EXTENDS Integers, FiniteSets

CONSTANTS OpenIds, MaxChanged, MaxStops

ASSUME MigrationAssumption == MaxChanged \in Nat /\ MaxStops \in Nat

VARIABLES
    guests,    \* Mongo: open_id -> uid, and whether the document changed (1)
    guestRows, \* Postgres: open_id -> uid and the state of the document
    carrying,  \* the run: the documents it read, those it has still to upsert, those that failed
    carried,   \* the failures of the last run that ended, or "none"
    stops

authMigrationVars == <<guests, guestRows, carrying, carried, stops>>

NoUid == 0
Resting == [runs |-> FALSE, docs |-> {}, todo |-> {}, failed |-> {}]

\* Mongo's index on the uid of a guest is not unique, and a document may lack one.
MigrationInit ==
    /\ guests \in [OpenIds -> [uid : {NoUid, 1, 2}, changes : {0}]]
    /\ guestRows = [g \in {} |-> <<>>]
    /\ carrying = Resting /\ carried = {"none"} /\ stops = 0

\* The identity service is still on Mongo.
GuestChanges(g) ==
    /\ Cardinality({h \in OpenIds : guests[h].changes > 0}) < MaxChanged
    /\ guests[g].changes = 0 /\ guests' = [guests EXCEPT ![g].changes = @ + 1]
    /\ carried' = {"none"}
    /\ UNCHANGED <<guestRows, carrying, stops>>

\* find: the documents, all at once; those without a uid are skipped.
CarryBegins ==
    /\ ~ carrying.runs
    /\ LET valid == {g \in OpenIds : guests[g].uid # NoUid} IN
       carrying' = [runs |-> TRUE, todo |-> valid, failed |-> {},
                    docs |-> [g \in OpenIds |->
                                 [uid |-> guests[g].uid, changes |-> guests[g].changes]]]
    /\ UNCHANGED <<guests, guestRows, carried, stops>>

\* Mutant: a row that is there is left as it is.
KeepRow(g) ==
    IF g \in DOMAIN guestRows THEN guestRows
    ELSE [h \in DOMAIN guestRows \cup {g} |-> IF h = g THEN carrying.docs[g] ELSE guestRows[h]]

Upsert(g) ==
    [h \in DOMAIN guestRows \cup {g} |-> IF h = g THEN carrying.docs[g] ELSE guestRows[h]]

UidTaken(g) == \E h \in DOMAIN guestRows \ {g} : guestRows[h].uid = carrying.docs[g].uid

CarryUpserts(g) ==
    /\ g \in carrying.todo /\ ~ UidTaken(g)
    /\ guestRows' = Upsert(g) /\ carrying' = [carrying EXCEPT !.todo = @ \ {g}]
    /\ UNCHANGED <<guests, carried, stops>>

\* Mutant: the first failure is the last statement.
FailsAll(g) ==
    /\ g \in carrying.todo /\ UidTaken(g)
    /\ carrying' = [carrying EXCEPT !.todo = {}, !.failed = @ \cup {g}]
    /\ UNCHANGED <<guests, guestRows, carried, stops>>

\* The uid is another row's, or the statement fails.
CarryFails(g) ==
    /\ g \in carrying.todo
    /\ \/ UidTaken(g) /\ UNCHANGED stops
       \/ stops < MaxStops /\ stops' = stops + 1
    /\ carrying' = [carrying EXCEPT !.todo = @ \ {g}, !.failed = @ \cup {g}]
    /\ UNCHANGED <<guests, guestRows, carried>>

CarryDies ==
    /\ carrying.runs /\ stops < MaxStops /\ stops' = stops + 1
    /\ carrying' = Resting /\ UNCHANGED <<guests, guestRows, carried>>

\* The exit code says whether anything failed.
CarryEnds ==
    /\ carrying.runs /\ carrying.todo = {}
    /\ carried' = IF \A g \in OpenIds : carrying.docs[g].changes = guests[g].changes
                  THEN carrying.failed ELSE {"none"}
    /\ carrying' = Resting /\ UNCHANGED <<guests, guestRows, stops>>

MigrationNext ==
    \/ \E g \in OpenIds : GuestChanges(g) \/ CarryUpserts(g) \/ CarryFails(g)
    \/ CarryBegins \/ CarryDies \/ CarryEnds

-----------------------------------------------------------------------------
\* The type invariant.
MigrationTypeOK ==
    /\ DOMAIN guestRows \subseteq OpenIds /\ carrying.todo \cup carrying.failed \subseteq OpenIds
    /\ stops \in 0 .. MaxStops

\* Two guests that are carried over never have one uid.
UidsApart ==
    \A g, h \in DOMAIN guestRows : g # h => guestRows[g].uid # guestRows[h].uid

\* "a single malformed doc ... can't abort the whole run": when a run has ended, and until a
\* document changes, every one with a uid that did not fail has its row, as the document is;
\* one fails only by itself or for the row of a document with the same uid.
GuestsCarried ==
    carried # {"none"} => \A g \in OpenIds : guests[g].uid # NoUid =>
        \/ /\ g \in DOMAIN guestRows
           /\ guestRows[g] = [uid |-> guests[g].uid, changes |-> guests[g].changes]
        \/ /\ g \in carried
           /\ stops > 0 \/ \E h \in DOMAIN guestRows \ {g} : guestRows[h].uid = guests[g].uid
=============================================================================
