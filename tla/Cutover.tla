------------------------------ MODULE Cutover ------------------------------
(***************************************************************************)
(* The move of the accounts from SQLite to Postgres.  The server writes    *)
(* the SQLite store (src/src/db/player.js, repo/sqlite.js) until it is     *)
(* restarted on Postgres (repo/index.js); meanwhile an operator runs the   *)
(* schema migrations (migrate.js), the copy (migrate-data.js) and the      *)
(* backfill of the friend tables (scripts/backfill-friends.js), each of    *)
(* which may die and be run again.  AccountStore and Friends have what     *)
(* Postgres then does.                                                     *)
(*                                                                         *)
(* A document is its edition (any change but of its friends) and its       *)
(* friends; its friend requests are moved as they are, one way.  Bounds:   *)
(* the ids Ids, MaxWrites changes of SQLite and MaxLive of Postgres,       *)
(* MaxBreaks scripts that fail or die.  The schema is migrated first and   *)
(* alone (docs/infra-phase1.md): it shares no state with SQLite.           *)
(***************************************************************************)
EXTENDS Integers, Sequences, FiniteSets, FiniteSetsExt, SequencesExt

CONSTANTS Ids, Runners, MaxWrites, MaxLive, MaxBreaks

ASSUME CutoverAssumption ==
    /\ Ids \subseteq Nat \ {0} /\ {1, 2} \subseteq Ids /\ \E last \in Ids : \A a \in Ids : a <= last
    /\ {MaxWrites, MaxLive, MaxBreaks} \subseteq Nat

VARIABLES
    backend,      \* of the server: sqlite or postgres
    lite,         \* SQLite: id -> row, of the accounts there are
    copy,         \* a document a request has read and will save, <<>> if none
    runner,       \* a run of migrate.js: whether it runs, and the files it read as applied
    migrations,     \* _migrations, in order
    tables,       \* files whose tables are in Postgres
    copying,      \* migrate-data: the rows it read, <<>> if it does not run
    pg,           \* Postgres: id -> row
    nextId,       \* the identity sequence
    moved,        \* the last copy was committed, and SQLite not written since it read it
    filling,      \* backfill: the pairs it has still to insert, those it is to have inserted,
                  \* and the pair it is at, with the row it has inserted
    filled,       \* the pairs of the last backfill that ended, but for those removed since
    friendships,  \* rows (a, b)
    torn,         \* both rows of each pair removed between the two rows of a statement
    writes, changed, breaks

cutoverVars == <<backend, lite, copy, runner, migrations, tables, copying, pg, nextId, moved,
                 filling, filled, friendships, torn, writes, changed, breaks>>
liteVars == <<lite, copy, writes>>
schemaVars == <<runner, migrations, tables>>
copyVars == <<copying, nextId, moved>>
fillVars == <<filling, filled>>
liveVars == <<friendships, torn, changed>>

Files == <<"001_accounts", "002_promoted">>

\* state: a document, the empty object of a placeholder, or NULL (a row the dashboard made).
Stored(state) == [state |-> state, edition |-> 0, friends |-> {}]
DefaultPlayer == Stored("doc")
Filler == Stored("empty")
NullState == Stored("null")

NotFilling == [runs |-> FALSE, todo |-> {}, all |-> {}, at |-> {}, row |-> {}]

CutoverInit ==
    /\ backend = "sqlite"
    /\ lite = [a \in {1, 2} |-> DefaultPlayer] /\ copy = <<>>
    /\ runner = [r \in Runners |-> [runs |-> FALSE, applied |-> {}]]
    /\ migrations = <<>> /\ tables = {}
    /\ copying = <<>> /\ nextId = 1 /\ moved = FALSE
    /\ pg = [a \in {} |-> DefaultPlayer]
    /\ filling = NotFilling /\ filled = {}
    /\ friendships = {} /\ torn = {}
    /\ writes = 0 /\ changed = 0 /\ breaks = 0

Set(rows, a, row) == [b \in DOMAIN rows \cup {a} |-> IF b = a THEN row ELSE rows[b]]

-----------------------------------------------------------------------------
(* The SQLite store.  A call runs to its end, or dies between two writes.  *)

\* rowToAccount: an empty object is a document of its own, without the defaults.
Loaded(row) == IF row.state = "null" THEN DefaultPlayer ELSE [row EXCEPT !.state = "doc"]

Migrated == tables = ToSet(Files) /\ \A r \in Runners : ~ runner[r].runs

LiteWrite(new) ==
    /\ backend = "sqlite" /\ Migrated /\ writes < MaxWrites /\ writes' = writes + 1
    /\ lite' = new /\ moved' = FALSE
    /\ UNCHANGED <<backend, schemaVars, copying, pg, nextId, fillVars, liveVars, breaks>>

\* createFromLogin: a placeholder, then its document; or the dashboard's row, without a state.
LiteCreate(a) ==
    /\ a \notin DOMAIN lite /\ \A b \in Ids : b < a => b \in DOMAIN lite
    /\ \E row \in {DefaultPlayer, Filler, NullState} : LiteWrite(Set(lite, a, row))
    /\ UNCHANGED copy

\* The router reads the account by its token, and saves it after the handler.
LiteRead(a) ==
    /\ backend = "sqlite" /\ Migrated /\ copy = <<>> /\ a \in DOMAIN lite
    /\ copy' = <<a, Loaded(lite[a])>>
    /\ UNCHANGED <<backend, lite, schemaVars, copyVars, pg, fillVars, liveVars, writes, breaks>>

LiteSave ==
    /\ copy # <<>> /\ copy' = <<>>
    /\ LiteWrite(Set(lite, copy[1], [copy[2] EXCEPT !.edition = writes + 1]))

\* addRequest, removeRequest: the document is read and saved in one.
LiteRequest(a) ==
    /\ a \in DOMAIN lite
    /\ LiteWrite(Set(lite, a, [Loaded(lite[a]) EXCEPT !.edition = writes + 1]))
    /\ UNCHANGED copy

Befriended(rows, a, b) ==
    IF a \notin DOMAIN rows THEN rows
    ELSE Set(rows, a, [Loaded(rows[a]) EXCEPT !.friends = @ \cup {b}])

\* A placeholder has no friends to filter, and is not saved.
Parted(rows, a, b) ==
    IF a \notin DOMAIN rows \/ (a \in DOMAIN rows /\ rows[a].state = "empty") THEN rows
    ELSE Set(rows, a, [Loaded(rows[a]) EXCEPT !.friends = @ \ {b}])

\* Both documents, or the first one and the process dies.
LiteFriendship(a, b) ==
    /\ a \in DOMAIN lite /\ a # b
    /\ \E new \in {Befriended(Befriended(lite, a, b), b, a), Befriended(lite, a, b),
                   Parted(Parted(lite, a, b), b, a), Parted(lite, a, b)} : LiteWrite(new)
    /\ UNCHANGED copy

\* "flipping DATABASE_URL is the cutover lever": a restart.
Restart ==
    /\ backend = "sqlite" /\ Migrated /\ backend' = "postgres" /\ copy' = <<>>
    /\ UNCHANGED <<lite, schemaVars, copyVars, pg, fillVars, liveVars, writes, breaks>>

-----------------------------------------------------------------------------
(* migrate.js.                                                             *)

RunnerStep(r, state) ==
    /\ runner' = [runner EXCEPT ![r] = state]
    /\ UNCHANGED <<backend, liteVars, copyVars, pg, fillVars, liveVars>>

RunnerBegins(r) ==
    /\ ~ runner[r].runs /\ tables # ToSet(Files)
    /\ RunnerStep(r, [runs |-> TRUE, applied |-> ToSet(migrations)])
    /\ UNCHANGED <<migrations, tables, breaks>>

\* The first file that it did not read as applied.
Todo(r) == {i \in DOMAIN Files : Files[i] \notin runner[r].applied}
Due(r) == Files[Min(Todo(r))]

\* Mutant: a file recorded meanwhile is recorded again.
ApplyAgain(r) ==
    /\ runner[r].runs /\ Todo(r) # {}
    /\ tables' = tables \cup {Due(r)} /\ migrations' = Append(migrations, Due(r))
    /\ RunnerStep(r, [runner[r] EXCEPT !.applied = @ \cup {Due(r)}])
    /\ UNCHANGED breaks

\* Tables and record in one transaction; the name is the key of _migrations.
ApplyFile(r) ==
    /\ runner[r].runs /\ Todo(r) # {} /\ Due(r) \notin ToSet(migrations)
    /\ tables' = tables \cup {Due(r)} /\ migrations' = Append(migrations, Due(r))
    /\ RunnerStep(r, [runner[r] EXCEPT !.applied = @ \cup {Due(r)}])
    /\ UNCHANGED breaks

NoRun == [runs |-> FALSE, applied |-> {}]

\* The key is taken, by another runner: rolled back, and the run ends.
ApplyConflicts(r) ==
    /\ runner[r].runs /\ Todo(r) # {} /\ Due(r) \in ToSet(migrations)
    /\ RunnerStep(r, NoRun) /\ UNCHANGED <<migrations, tables, breaks>>

RunnerDies(r) ==
    /\ runner[r].runs /\ breaks < MaxBreaks /\ breaks' = breaks + 1
    /\ RunnerStep(r, NoRun) /\ UNCHANGED <<migrations, tables>>

RunnerEnds(r) ==
    /\ runner[r].runs /\ Todo(r) = {}
    /\ RunnerStep(r, NoRun) /\ UNCHANGED <<migrations, tables, breaks>>

-----------------------------------------------------------------------------
(* migrate-data.js: one transaction.  "Run pre-cutover".                   *)

CopyStep == UNCHANGED <<backend, liteVars, schemaVars, fillVars, liveVars>>

CopyBegins ==
    /\ backend = "sqlite" /\ copying = <<>> /\ Migrated
    /\ copying' = <<lite>> /\ CopyStep /\ UNCHANGED <<pg, nextId, moved, breaks>>

\* jsonText: NULL becomes the empty object.
Converted(row) == IF row.state = "null" THEN Filler ELSE row

\* Mutant: the sequence is left where it is.
SameSequence(rows) == nextId

\* setval: the next id is past the largest.
Sequence(rows) == Max({0} \cup DOMAIN rows) + 1

Upserted(rows) ==
    [a \in DOMAIN pg \cup DOMAIN rows |-> IF a \in DOMAIN rows THEN Converted(rows[a]) ELSE pg[a]]

CopyCommits ==
    /\ copying # <<>> /\ copying' = <<>>
    /\ pg' = Upserted(copying[1]) /\ nextId' = Sequence(Upserted(copying[1]))
    /\ moved' = (lite = copying[1])
    /\ CopyStep /\ UNCHANGED breaks

\* An upsert fails, the process dies, or setval fails: that is logged and the COMMIT reported,
\* but the transaction is aborted.  What setval did is not undone.
CopyAborts ==
    /\ copying # <<>> /\ copying' = <<>>
    /\ breaks < MaxBreaks /\ breaks' = breaks + 1
    /\ nextId' \in {nextId, Sequence(Upserted(copying[1]))}
    /\ CopyStep /\ UNCHANGED <<pg, moved>>

-----------------------------------------------------------------------------
(* backfill-friends.js: a statement for each friend of each document.      *)

FillStep == UNCHANGED <<backend, liteVars, schemaVars, copyVars, pg, torn, changed>>

Blobs == UNION {{<<a, b>> : b \in pg[a].friends \ {a}} : a \in DOMAIN pg}

FillBegins ==
    /\ ~ filling.runs /\ Migrated
    /\ filling' = [NotFilling EXCEPT !.runs = TRUE, !.todo = Blobs, !.all = Blobs]
    /\ FillStep /\ UNCHANGED <<filled, friendships, breaks>>

\* The statement's first row, in the direction the document names; ON CONFLICT skips one that
\* is there.
FillFirst ==
    /\ filling.at = {}
    /\ \E p \in filling.todo : filling' = [filling EXCEPT !.at = {p}, !.row = {p} \ friendships]
    /\ FillStep /\ UNCHANGED <<filled, friendships, breaks>>

\* Mutant: the direction the document names alone.
OneWay(p) == {p}

\* The other direction.
Opposite(p) == {<<p[2], p[1]>>}

\* Its second row, and its end; none is inserted if one of the accounts does not exist.
FillSecond ==
    \E p \in filling.at :
        /\ filling' = [filling EXCEPT !.todo = @ \ {p}, !.at = {}, !.row = {},
                                        !.all = IF p[2] \in DOMAIN pg THEN @ ELSE @ \ {p}]
        /\ friendships' = IF p[2] \in DOMAIN pg THEN friendships \cup filling.row \cup Opposite(p)
                          ELSE friendships
        /\ FillStep /\ UNCHANGED <<filled, breaks>>

\* What a statement that did not end has inserted was never there.
FillDies ==
    /\ filling.runs /\ breaks < MaxBreaks /\ breaks' = breaks + 1
    /\ filling' = NotFilling
    /\ FillStep /\ UNCHANGED <<filled, friendships>>

FillEnds ==
    /\ filling.runs /\ filling.todo = {}
    /\ filled' = filling.all /\ filling' = NotFilling
    /\ FillStep /\ UNCHANGED <<friendships, breaks>>

-----------------------------------------------------------------------------
(* The server on Postgres: what it changes of what was moved.              *)

LiveStep ==
    /\ backend = "postgres" /\ changed < MaxLive /\ changed' = changed + 1
    /\ UNCHANGED <<backend, liteVars, schemaVars, copying, breaks>>

\* The row is keyed by the sequence; an id that is taken is an error.
LiveCreate ==
    /\ nextId \in Ids /\ nextId' = nextId + 1
    /\ pg' = IF nextId \in DOMAIN pg THEN pg ELSE Set(pg, nextId, DefaultPlayer)
    /\ LiveStep /\ UNCHANGED <<moved, fillVars, friendships, torn>>

\* A request that changes the document; from now on it is Postgres' own.
LiveSave(a) ==
    /\ a \in DOMAIN pg
    /\ pg' = [pg EXCEPT ![a].state = "doc", ![a].edition = MaxWrites + changed + 1]
    /\ moved' = FALSE
    /\ LiveStep /\ UNCHANGED <<nextId, fillVars, friendships, torn>>

Both(a, b) == {<<a, b>>, <<b, a>>}

\* A confirmation; it waits for the backfill where that has inserted a row of it.
LiveBefriend(a, b) ==
    /\ {a, b} \subseteq DOMAIN pg /\ a # b
    /\ Both(a, b) \cap filling.row = {}
    /\ friendships' = friendships \cup Both(a, b)
    /\ LiveStep /\ UNCHANGED <<pg, nextId, moved, fillVars, torn>>

\* The backfill has skipped a row of the pair as there, and may still insert the other.
FillSkipped(a, b) == filling.row = {} /\ filling.at \cap Both(a, b) # {}

\* The document goes on naming the friend.  A row is left that a confirmation inserts after the
\* removal, having skipped the other before it (Friends).
LivePart(a, b) ==
    /\ <<a, b>> \in friendships
    /\ \E left \in {{}, {<<a, b>>}, {<<b, a>>}} :
           /\ friendships' = (friendships \ Both(a, b)) \cup left
           /\ torn' = IF left # {} \/ FillSkipped(a, b) THEN torn \cup Both(a, b) ELSE torn
    /\ filled' = filled \ Both(a, b) /\ filling' = [filling EXCEPT !.all = @ \ Both(a, b)]
    /\ LiveStep /\ UNCHANGED <<pg, nextId, moved>>

CutoverNext ==
    \/ \E a \in Ids : LiteCreate(a) \/ LiteRead(a) \/ LiteRequest(a) \/ LiveSave(a)
    \/ \E a, b \in Ids : LiteFriendship(a, b) \/ LiveBefriend(a, b) \/ LivePart(a, b)
    \/ LiteSave \/ Restart \/ LiveCreate
    \/ \E r \in Runners : \/ RunnerBegins(r) \/ ApplyFile(r) \/ ApplyConflicts(r)
                          \/ RunnerDies(r) \/ RunnerEnds(r)
    \/ CopyBegins \/ CopyCommits \/ CopyAborts
    \/ FillBegins \/ FillFirst \/ FillSecond \/ FillDies \/ FillEnds

-----------------------------------------------------------------------------
\* Postgres' rowToAccount: the empty object is the default document.
LoadedOnPostgres(row) == IF row.state = "empty" THEN DefaultPlayer ELSE row

\* The type invariant.
CutoverTypeOK ==
    /\ DOMAIN lite \cup DOMAIN pg \subseteq Ids
    /\ \A a \in DOMAIN lite : lite[a].friends \subseteq Ids
    /\ \A a \in DOMAIN pg : pg[a].state \in {"empty", "doc"}
    /\ friendships \cup torn \subseteq Ids \X Ids /\ nextId \in 1 .. Max(Ids) + 1
    /\ writes \in 0 .. MaxWrites /\ changed \in 0 .. MaxLive /\ breaks \in 0 .. MaxBreaks

\* "each in a transaction, tracking applied files": however many runs there are and wherever
\* they die, the recorded files are the first ones, each once, and theirs are the tables.
MigratedInOrder == IsPrefix(migrations, Files) /\ tables = ToSet(migrations)

\* An account that was moved loads as SQLite loaded it (a placeholder that was never filled
\* gets the default document), unless SQLite was written since, or Postgres.
MovedUnchanged ==
    moved => \A a \in DOMAIN lite : /\ a \in DOMAIN pg
                                    /\ LoadedOnPostgres(pg[a]) = Loaded(lite[a])

\* "so new accounts don't collide": the next id is no account's.
NextIdFree == \A a \in DOMAIN pg : a < nextId

\* "historically one-sided blob becomes consistent": friendships are mutual however the
\* backfill ends, but for those a removal tore between the two rows of a statement, and when
\* it has run to its end all those of the documents are there, but for those removed meanwhile
\* and those with accounts that do not exist.
FriendshipsFilled ==
    /\ \A p \in friendships \ torn : <<p[2], p[1]>> \in friendships
    /\ filled \subseteq friendships
=============================================================================
