# Free Fire server: TLA+ specifications

Models of the server's own logic: custom rooms, the shared matchmaker, the TCP gateways,
the settlement of match results, the account row and everything around it (sign-in,
registration, login gates, friends, shop, ranking, clans and wardrobe, the router), the
event bus, the fleet of match servers, the cutover from SQLite to Postgres, and a Contra
Squad match on the Go match server. TLC checks each on a small instance; TLAPS proves
the safety properties they are checked for, for every value of the constants.

Paths below are in the repository (`src/tcp/rooms.js`, `match-server/match.go`).

- [The system](#the-system)
- [Modules](#modules)
- [Runs](#runs)
- [Bounds and fairness](#bounds-and-fairness)
- [Proofs](#proofs)
- [Where code and comments disagree](#where-code-and-comments-disagree)
- [Plan](#plan)
- [Not modelled](#not-modelled)

## The system

    client --HTTP--> login / main / live servers --+-- Postgres (account row, friends, ledger,
       |             (src/apps, src/handlers)      |             login server's tables)
       +--TCP-----> gateways (src/tcp) ------------+-- Redis: rooms, mmqueue, presence, fleet,
       |                 ^   |                     |          leases, streams, PubSub
       |         pushes  |   | START, CANCEL       |
       |              matchmaker replicas ---------+
       |                                           |
       +--UDP-----> match servers (match-server) --+-- stream:match.result
                                                   |
                    settlement workers ------------+--> Postgres

Every process may run several times, and none shares memory with another. What they
share is Redis and Postgres, one command or one transaction at a time. A Node process
runs one callback at a time, so every `await` is a point where everything else may run.
The match server is Go: a goroutine owns each match and takes handlers from a mailbox.

| Component | State it keeps | Operations | Correct when |
|---|---|---|---|
| Custom rooms (`src/tcp/rooms.js`, `handlers/Room*.js`) | `rooms`, `room:members`, `room:seq`, a 3 s lease a room | create, join, leave, kick, change, ready, switch seat, start, re-enter, disconnect | no update is lost; record and reverse index agree; the owner is in the room; nothing changes a room in a match; every lease ends |
| What members are told, START (`rooms.js`, `gateway.js`, `handlers/Room*.js`) | pushes in flight on PubSub, settings of a started room, sessions | notices of each operation, the relay of a gateway, handoffs | what a member shows becomes the room again; a match is played as the START of its first player was, or by the defaults when its settings cannot be read |
| Matchmaker (`src/tcp/matchmaker.js`) | `mmqueue`, `mm:leader`, match sequence | START, CANCEL, disconnect, tick (elect, read, claim, push), shutdown | one START gives one match; no two matches share an id; every queued player is served |
| Gateway (`src/tcp/gateway.js`, `tcp/framing.js`) | sessions of a node, `presence:<id>`, a connection's buffer and queue | frames, AUTH, close, heartbeat, kick and revoke | no byte is lost; no session without a socket; one connection an account; presence follows sessions |
| Settlement (`match-server/results.go`, `bus/`; `src/bus/index.js`, `src/servers/settlement.js`) | channel, stream, consumer group, `match_results` | publish, drain, read, settle a player, acknowledge | a result is credited once; nothing is acknowledged before it is settled |
| Account (`src/db/repo/postgres.js`, `src/protocol/router.js`, `_authGate.js`) | the row, the auth store's ban flag | login, logout, purchase, other saves, ban, credit | no coin from nowhere; a ban holds |
| Sign-in (`auth/login-server`, `auth/connect-server`, `auth/shared`) | pairings, guests, accounts, tokens; Postgres or Mongo | pair, callback, poll, connect, refresh, clear | an outcome reaches one poll (Postgres); a guest has its account unless its provisioning failed; no two guests of Postgres share a uid; tokens are of one login |
| Registration and login gates (`handlers/MajorRegister.js`, `MajorLogin.js`, `_authGate.js`, `db/authStore.js`) | the row, tables of the login server, lists of builds | register, log in, look up, refuse | an account is created once and not lost; who is let in passed every gate |
| Friends (`postgres.js`, four handlers) | friendships, requests | request, confirm, decline, remove | mutual, whatever overlaps |
| Shop and gacha (`shopService.js`, `shopCatalog.js`) | catalogue files, their copies in processes, wallets | edit, reload, buy, draw | a store id names one entry and a chest one wheel; a prize is drawn for its weight; what is paid is what is got |
| Ranking (`rankingService.js`) | a profile a player, boards | record a match, show a board | everybody once, in order |
| Clans, wardrobe, pass, mails (`handlers/`, `_shared.js`) | the caller's document | some forty endpoints | the look follows the selected profile |
| HTTP router (`protocol/router.js`, `replayGuard.js`) | seen signatures, gateway's account snapshot | guard, dispatch, save, `player.updated` | a body passes once a window; the snapshot follows the row |
| Event bus (`bus/index.js`, `inMemoryBus.js`) | leases, keys, hashes, counters, streams | the one interface over Redis and memory | both answer alike where a caller looks at the answer; a group is handed a message once |
| Match fleet (`tcp/fleet.js`, `fleet.go`, `manager.go`) | heartbeats, cached list, reservations and mailboxes | beat, refresh, pick, route, admit, reap | a fresh server is picked; a roster is never overfull |
| Settings codecs (`tcp/roomsettings.js`, `tcp/csadvanced.js`, `matchsettings.go`) | bit fields, a blob | write in JS, read in Go | a match has the rules its owner chose |
| Contra Squad match (`match.go`, `deathmatch.go`, `knockdown.go`, `economy.go`, `loot.go`, `medkit.go`, ...) | roster, phase, lives, knocks, score, items, coins, heals | join, quit, hit, rescue, buy, drop, heal, the 100 ms tick | down means bleeding; one death a round; phases end; the result is published; an item is in one place |
| Cutover (`db/player.js`, `migrate.js`, `migrate-data.js`, `backfill-friends.js`, `auth/scripts/migrate-mongo-to-pg.js`) | two stores, `schema_migrations` | save, copy, migrate, back-fill, migrate guests | no account is lost or doubled, however often it is stopped and run again; friendships are filled both ways |

`PROJECT.json` lists every component with its files and every hazard at its line.

What is hard, by component:

- *Rooms.* Check and write are apart by awaits. A lease protects the record and not the
  reverse index, LEAVE reads the index before it has the lease, a packet does not wait
  for the one before it, the lease may lapse under its holder, a command may fail and a
  gateway may die between two writes. Notices are pushed after the lease is released.
- *Matchmaker.* A replica goes on with a plan made from an old read of the queue after
  another has become leader; cancels and disconnects arrive in between.
- *Gateway.* AUTH awaits two stores while the socket closes, the account is banned or it
  reconnects elsewhere; presence commands are neither awaited nor repeated; frames are cut
  anywhere.
- *Settlement.* At-least-once delivery, several workers, a transaction a player, crashes
  after COMMIT and before the acknowledgement.
- *Account and document.* Every endpoint saves the whole document it loaded. Nothing locks.
- *Sign-in.* Two callbacks of one user, two polls of one page, answers that are lost after
  the row they report was deleted, uids taken by somebody else.
- *Friends.* Two rows a friendship, inserted in opposite orders by opposite confirmations:
  they wait for each other until the deadlock detector ends one.
- *Match.* Bleed, rescue, zone, quit, disconnect and round end touch the same player in
  the same tick, and joiners were let in by a check made outside the match's goroutine.
- *Stores.* Scripts that were stopped half way are run again beside a live server, whose
  removals may come in between the two rows of a statement.

## Modules

| Module | What it is | Of |
|---|---|---|
| `RoomRecord` | a room's record, when each operation is allowed and what it saves (no state) | `rooms.js` |
| `RoomRules` | abstract rooms: whole operations, one at a time | what `rooms.js` promises |
| `CustomRooms` | the store with its awaits, leases, failures, crashes | `rooms.js`, `handlers/Room*.js` |
| `RoomNotices` | what the members of a room are told, through PubSub and gateways | `handlers/Room*.js`, `broadcast`, `gw.push` |
| `RoomStart` | START: id, settings, handoffs, and the match server that reads the settings | `RoomStart.js`, `matchsettings.go` |
| `MatchSettings` | a room's rules from the owner's bits and blob to the match server | `roomsettings.js`, `csadvanced.js`, `matchsettings.go` |
| `Matchmaker` | queue, leader lease, ticks of N replicas | `matchmaker.js` |
| `GatewaySessions` | sockets, sessions of each node, presence, bans and revokes | `gateway.js`, `admin/core.js` |
| `Connection` | one connection: frames cut anywhere, the promise chain, AUTH's awaits | `framing.js`, `gateway.js` |
| `HttpRouter` | replay guard, endpoint dispatch, save, the gateway's snapshot | `router.js`, `replayGuard.js`, `gateway.js` |
| `LoginGate` | the gates before the login endpoints and the store they ask | `_authGate.js`, `authStore.js` |
| `Identity` | sign-in: pairings, callbacks, polls, tokens, on both stores | `auth/login-server`, `auth/connect-server`, `auth/shared` |
| `Registration` | first logins of one identity | `MajorRegister.js`, `postgres.js` |
| `Account` | abstract account, one request at a time | what the player expects |
| `AccountStore` | the row and everybody who loads and saves it | `postgres.js`, `router.js`, `handlers/`, `admin/core.js` |
| `PlayerDocument` | wardrobe, clan, pass and mails of one document | `handlers/`, `_shared.js` |
| `Friends` | friendships as pairs of rows, confirmations as transactions | `postgres.js`, four handlers |
| `ShopService` | store items, wheels, their files and copies, purchases and draws | `shopService.js`, `shopCatalog.js` |
| `RankingService` | matches recorded, tiers, boards | `rankingService.js` |
| `MatchLedger` | abstract ledger: matches end once; a player's row and its coins are one change | `results.go`, `postgres.js` |
| `Settlement` | channel, stream, group, workers and their transactions; implements `MatchLedger` | `bus/bus.go`, `bus/index.js`, `settlement.js`, `postgres.js` |
| `EventBus` | the same calls made to Redis and to `InMemoryBus` | `bus/index.js`, `inMemoryBus.js` |
| `MatchFleet` | heartbeats, the cached list, the pick; then a server's matches | `fleet.js`, `fleet.go`, `manager.go` |
| `CsMatch` | one match: roster, phases, lives, rounds, result | `match.go`, `deathmatch.go`, `knockdown.go` |
| `MatchItems` | what players hold, boxes on the ground, walls | `purchase.go`, `loot.go`, `equip.go`, `gloo.go`, ... |
| `MatchCoins` | the income of three rounds | `economy.go`, `match.go` |
| `MatchVitals` | medkits and energy against hits, knocks and resets | `medkit.go`, `ep.go` |
| `Cutover` | SQLite, the scripts that move it, Postgres | `player.js`, `migrate*.js`, `backfill-friends.js` |
| `AuthMigration` | guests moved from Mongo to Postgres | `migrate-mongo-to-pg.js` |
| `MC*` | instances for TLC: symmetry sets, and compositions that step one part a behaviour | |
| `*Proofs` | theorems: `CustomRoomsProofs` (of `RoomRecord`, `RoomRules`, `CustomRooms`), `EntryProofs` (`Identity`, `Matchmaker`), `AccountProofs` (`AccountStore`, `GatewaySessions`), `MatchProofs` (`CsMatch`, `Settlement`, `Friends`), `RulesProofs` (`MatchItems`, `MatchCoins`, `MatchVitals`), `TrafficProofs` (`MatchFleet`, `HttpRouter`, `Connection`, `RoomNotices`, `MatchSettings`), `ServiceProofs` (`Registration`, `ShopService`, `RankingService`, `RoomStart`), `LobbyProofs` (the rest of what `MCLobby` composes, and all of it together) | |

How they correspond to the code:

- **RoomRecord / RoomRules.** Each operation of `rooms.js` is a guard (`CanJoin`, `CanKick`,
  ...) and a record (`Joined`, `Without`, ...). `PickTeam` and `FreeSeat` keep the code's
  order: the smaller team, the lower number on a tie, the lowest free seat. Names,
  cosmetics, setting bitfields and the join code are not kept.
- **CustomRooms.** A request is an account and a lane: a packet slot, or `"close"` for the
  socket's close handler, which runs beside the packets. `pc` names the await a request is
  in, `loaded` the record it parsed, `draft` the one it will save. `Acquire` is
  `SET NX PX`, `Release` the compare-and-delete; `Lapse` is the TTL running out under a live
  holder, `OrphanExpires` under a dead one; `RedisError` and `Crash` may strike at any
  await. `playing` records who was handed to a match.
- **Matchmaker.** A tick is `Read` (HGETALL and the plan), then for each batch `Mint`
  (INCR), `Claim` (HDEL) and a `Push` a player. `isLeader` is what a replica believes,
  `lease` what Redis says. `overdue` stands for `TIMEOUT_MS`.
- **GatewaySessions.** `conn` separates a socket that is destroyed or hung up (`"dead"`)
  from one whose close handler has run. Presence commands wait in a queue for each node,
  since ioredis sends them in order; `CommandFails` loses one.
- **Connection.** A `data` event appends to the buffer and queues a job on the promise
  chain; `Parse` cuts the frames out as `framing.js` does. AUTH is two awaits in the middle
  of a job, between which chunks and the close event come in.
- **HttpRouter.** With the guard on, a request runs to its end in one step and the clock
  moves between requests (the guard's Map, its sweep and its limit). With it off, requests
  overlap: load, handler, save, `player.updated`, refresh.
- **Settlement.** Stream ids are positions. `DrainTwice` is an XADD whose reply was lost,
  `CommitReplyLost` a COMMIT whose reply was lost, `WorkerCrash` forgets a worker's batch
  but not the group's pending list. `tx` is what a transaction has done and not committed: the
  insert, then the credit, each waiting for the row another one holds. `grouped` is false when
  XGROUP CREATE failed, which nothing tries again until a restart. Coins are one a win.
- **AccountStore.** `doc[q]` is the copy in a request's memory and `Save` writes the whole of
  it. The ban gate reads the auth store between the two; `LoadAlias` is the endpoint without a
  gate, and `session` the door that was last taken. `LoadOther` needs no token: admin finds the
  row by id and MajorRegister a known one by open_id.
- **Identity.** A callback's `pc` names the command it has sent; a user is one Discord
  account. `Unique` is the unique keys of the guests: on Mongo the uid is none of them, and a
  second guest with a uid is refused only as an account (`AccountUnique`). A page is told that its pairing expired when the row is gone. On Mongo the
  take of a pairing is a find and a delete, on Postgres one statement.
- **RoomStart.** `stored` is what `match:<id>:settings` holds. Who is the first in its match has
  them read (`Join`), or not: GET failed, no bus, expired, no JSON (`unread`). Nobody else's id is
  looked at. A match server that has a place seats a player beside strangers (`MatchFleet`).
- **ShopService.** The admin's numbers are kept as the code checks them: the item of an edited
  entry is any number, and a pool that comes with a wheel is stored as it was sent, with any
  weights and an item twice (`SentPools`); `DefaultPool` may repeat the voucher. `RandInts` is what
  `randInt` returns of a total, a negative one too. What is no number (`NaN`) is left out.
- **Friends.** A transaction keeps the rows it has inserted and not committed; another that
  inserts the same row waits. `Rollback` is the deadlock detector, a failed command or a
  process that died.
- **MatchFleet.** Two machines without shared state. `FleetNext`: servers beat, the list is
  refreshed, somebody picks. `ManagerNext`: `joinable` reads a match, the reservation and
  the admission are apart, and `first` is the player whose join made the match.
- **CsMatch.** `step` says which part of the current tick was the last to do something:
  the order is advancePhase, stepZone, sweepDisconnects, stepKnock, stepRescue, and no
  handler runs in between. A part with nothing to do is no step. `life = "absent"` is an
  entity without HP entry, which the code treats as alive; `rescues` keeps a reviver who
  has quit, as the code does.
- **MatchItems / MatchCoins / MatchVitals.** One handler or tick is a step, since `run()`
  executes one at a time. An item is its class and its number, which a session counts from 1.
- **EventBus.** Every call is made to both back ends in one step, and the two answers are
  compared where some caller looks at them (`heeded`): `hset`, `clearPresence` and `releaseLock`
  answer differently, and nobody does. Redis drops what expires; `InMemoryBus` keeps it and looks at
  the time. `PublishEvent` may trim the stream down to `MaxLen` (`MAXLEN ~`); an `XGROUP CREATE`
  that fails is not tried again, and without the group nothing is delivered. A call is one that
  Redis answers: with `enableOfflineQueue` off a command before the connection is ready throws,
  which no call to memory does.
- **Cutover.** `lite` is SQLite, `copying` what a run of the copy has read, `pg` the rows of
  Postgres. A document is an edition and a set of friends; `"empty"` is the placeholder
  `'{}'`, `"null"` a row whose state is NULL. The backfill inserts the two rows of a friendship one
  after the other (`FillFirst`, `FillSecond`): a confirmation waits for the one it has inserted, a
  removal does not see it, and a pair torn so is in `torn`, as in `Friends`.

*History* variables are read by properties and by nothing that models code: `overlapped`
(accounts), `loose` and `used` (gateway), `handed`, `exhausted`, `orphaned` and `raced`
(identity), `agreed` and `torn` (friends), `torn` (cutover), `crossed` and
`unread` (`RoomStart`), `heeded` and `again` (bus), `asked` and `matched` (matchmaker), `clashed`
(items).

## Runs

A passing run holds in every reachable state of its instance. A violation run has one
property, quoted from a comment, that the code does not keep.

| Run | Question | Shows |
|---|---|---|
| `rules` | What do whole steps of one process keep? | Seats are distinct, JOIN respects capacity, a room in a match is frozen, over every sequence of four accounts' operations; what two players hold, three earn and one heals |
| `rooms_store` | Does the interleaved store implement the rules? | All nine operations and the close handler of two accounts, without lapses: it refines `RoomRules`, index and record agree when idle |
| `rooms_faults` | What survives a fault? | One lapse and one failed command or crash anywhere: every request is answered, an orphaned lease is freed, the owner is in every saved room |
| `rooms_double_leave` | violation of `DismissedByOwnerOrLast` | LEAVE and the close handler of one account dismiss somebody else's room |
| `matchmaker` | Is a player matched once, and at all? | With a lapse, a shutdown and a crash: one match a START while the lease holds, no shared match id, everybody served |
| `gateway` | Do sessions and presence follow sockets? | No session outlives its socket but one an overtaken AUTH left, one connection an account, presence heals after a failed command and settles after a crash |
| `settlement` | What do transactions keep? | A row and its coins are one change and happen at most once and, without a fault, always; settled before acknowledged. Friendships stay mutual and every confirmation ends |
| `settlement_pending` | violation of `RedeliveredIsSettled` | The only fault is a failing handler (`FaultKinds`): a failed transaction leaves its message pending for ever |
| `accounts` | What do overlapping saves break? | No order of them creates a coin; a complete ban holds at the gate (not at the alias `Login`); without overlap the row is the abstract account |
| `match` | Does a match stay consistent and end? | Two players and the bot, matchmade or custom, `MATCH_BOT` set or not |
| `identity` | Does a sign-in end with one player at one page? | Two users, overlapping callbacks and polls, lost answers, both stores |
| `lobby` | What do the services around it keep? | Fifteen parts, one stepped a behaviour |

Properties that combine several say so above their definition; the parts are:

- `MatchHolds` (`rules`): `ItemsSound` (every gun with a row in
  `weaponAmmo` is held, lies in a box or was consumed; the tables of a loadout name the same items; walls stay capped), `BalanceFollowsStory` (a
  balance is what the rounds earned, each kill, win, streak and first blood paid once, less
  the purchases), `HealsStop`, `EnergyBounded`.
- `MatchesSound` (`matchmaker`): no shared id, no overfull match, one match a START.
- `SessionsFollowSockets` (`gateway`), `SignInsSound`, `GuestRowsSound` (`identity`),
  `AccountsSound` (`accounts`: `NoCoinMinted`, `BannedStaysOut`).
- `MatchGoesOn` (`match`): nobody stays down, no phase but the fight lasts for ever (a fight
  between players who do nothing may), an abandoned match stops.
- `LobbyHolds` (`lobby`): `RegistrationKept`; `CatalogueSound`, `WalletInSync`; `RecordsAgree`,
  `BoardsSound`; `AdmittedIsEligible`, `RefusedForCause`.
- `TrafficHolds` (`lobby`): `RosterShown`; `PlayedAsStarted`, `ToldOneMatch`, `TogetherInLast`;
  `RulesAsChosen`, `CutBlobIgnored`, `WonByHalf`; `NoByteLost`, `RoutedForItsAccount`,
  `ClosedHasNoSession`; `SeenInOrder`, `ReplaysDropped`, `SnapshotFollowsSaves`;
  `PickedIsFresh`, `SteadyIsOffered`; `RosterWithinCap`, `OneGathering`.
- `StoresHold` (`lobby`): `AnswersAlike`, `EachMessageOnce`; `MigratedInOrder`,
  `MovedUnchanged`, `NextIdFree`, `FriendshipsFilled`; `UidsApart`, `GuestsCarried`.

Every property of a passing run has a mutant: a definition changed as a plausible bug
would change it, written just before the one it replaces and commented `Mutant:`. The
property fails on it under the run's own configuration. Mutants are no part of `Next`.

## Bounds and fairness

*Bounds.* Every bound is a constant (`MaxLapses`, `MaxFaults`, `MaxRound`, ...).

- Rooms: two accounts, one room, one packet in flight beside the close handler. Every hazard
  of the room store is a race of two requests for one record or of two of one account. Leases
  and records of different rooms meet only in the index: a second room adds one race, an
  account in two rooms, listed under the disagreements below. Seats and capacity, which need
  more accounts, are in `rules` with four.
- One fault, one lapse: a second one needs a first that is survived. Wherever the code
  recovers, it recovers to a state of the fault-free instance.
- Matchmaker: `MinPlayers = MatchSize = 2`, so that a batch forms, is split and times out.
- Gateway: two sockets of one account on two nodes; `MaxAuths` is one AUTH a
  socket; a node that crashes loses its sessions, and presence outlives them.
- Settlement: a channel of three holds the two results with their `match.ended`, minus one,
  so it can be full. The `Lineups` are both players and one of them. `Count = 2` makes a read bring more than one entry. Two confirmations
  and two people are a deadlock.
- Match: two players and a bot give a team of two (down, rescue, wipe), a team of one (dies
  at once) and an empty one. Three rounds are the fewest with a decision before the last.
- Match parts of `rules`: six handlers (`MaxMoves`) let an item be bought, dropped, picked up
  by another, displaced and dropped again; two of three rivals are one team, three rounds are
  a streak; five steps of a heal outlast two hits.
- Identity: two users with one pairing between them, two callbacks, two polls, two logins.
- Lobby: at most three requests, calls or players a part, three commands on the bus, two
  frames, three ids, two migration runners. `Trim = 1` makes a stream lose an entry at its
  second; `Window = 2`, `MaxTime = 4` let a signature expire and come again, `MaxSeen = 2`
  fills the guard's Map. `GatesOfInstance` keeps the configurations whose gates differ.
  The fleet's periods are 1, 1 and 2 for the code's 5 s, 10 s and 30 s, so one missed
  heartbeat is survived where the code survives two; a roster of two stands for its cap, and
  all tickets name match 1, since routing never looks at the number. One shop server, since
  edits of a second are overwritten (see below). `MaxLen = 1` lets a stream be trimmed at its
  second message, before or after the group has read the first; `SentItems` and `SentPools` have an
  item twice, a weight of 0 and a negative one.
- `CHECK_DEADLOCK FALSE` everywhere: clients may stop, budgets run out, matches end.

The largest instances: `accounts` 4.4 million distinct states, `identity` 1.5 million,
`rooms_store` 1.1 million, `lobby` 1.0 million; each takes one to three minutes.

*Fairness* is on what the code's own loops and timers do, never on clients.

- Rooms: each request goes on (`WF(Work(q))`: an event loop runs its callbacks), an orphaned
  lease expires.
- Matchmaker: ticks, elections and expiries happen; entries get old. Not fair: START, CANCEL,
  disconnect, lapse, crash.
- Gateway: event loops, heartbeats, command queues and TTLs go on, and a revocation that is
  not lost arrives.
- Settlement: the drainer and each worker go on (`WF`). Friends: a transaction goes on whenever
  it can (`SF`), as a wait of Postgres ends when the other transaction does.
- Match: the loop ticks (`WF`). A deadline, the grace period of a silent player and a bleed
  pool are timers that each tick compares with the clock, so an action that is possible in
  tick after tick is taken, though other parts of a tick interrupt it: `SF`. The zone, hits
  and rescues by players have none; `StepRescue` has, as a rescue's timer runs out too.

## Proofs

The theorems hold for all values of the constants, from the `ASSUME`s of the modules only
(finite sets where the code has finite sets, sentinels outside the sets they complete,
bounds in `Nat`), unless an assumption is named below. Each rests on an inductive invariant;
what it adds to the property, and why it has to:

Where a definition is recursive over data (the bytes of a stream, the weights of a wheel, the
purchases of a player), it is a recursive function, and what it returns is proved by induction
all the same: a set of numbers that has 0 and with each number the next has them all (`AllNat`,
from the least counterexample), so no theorem with an operator as parameter is needed.

**RoomRules** (`CustomRoomsProofs`). `RoomRulesInvariant`: records keep their type and list
their owner; `LegalKeepsRoom` does the work, with a case for LEAVE, where the owner going
dismisses. `RoomRulesFreeze`: a room in a match admits nobody and moves nobody.
`RecordsStaySound`: seats are distinct and inside the grid. A new member gets a seat that is
free only if his team has one, and `PickTeam` returns the smallest team, so a room below its
capacity has one: a pigeonhole argument over the teams. It assumes that capacities are at
most 48; with 49 the code seats the 49th member at seat 0 of a full team (see below).
`RoomsGrowWithinCapacity`: a room grows by one and not beyond its capacity.

**CustomRooms, whatever fails.** `CustomRoomsInvariant`: types, and the owner is in every saved
room, with any number of lapses, failures and crashes. The second is not inductive, since a
save writes a record computed long ago: `Shape` adds that each draft lists its owner, and
which operations reach which await.

**CustomRooms implements RoomRules**, as long as no lease lapses (`MaxLapses = 0`, failures and
crashes allowed): `NoUpdateIsLost`, `RoomsImplementRules`, and through it
`StoreKeepsRecordsSound`. The invariant `Safe` adds *Held* (a request between load and release
holds the lease), *Fresh* (at its save the stored record is still the one it loaded, and its
draft a legal change of it; needed because the check is made at load and the write two awaits
later), *Reserved, Apart, Beyond* (a CREATE's id was given to it alone).

**Index and records** (`MaxLapses = 0`, `MaxFaults = 0`). `EntriesLeadToMembers`: an entry of
the index names a room that lists the account. `IndexAndRecordsAgree` adds the converse, with
one room id, because JOIN never reads the index and an account may be in two rooms. The
invariant `Ix` says for each request which entries it is about to write or clear; an entry is
written a step after or before the record, and CREATE takes no lease, so it also compares
requests pairwise (`PairOK`).

**Matchmaker** (`EntryProofs`). `MatchesAreSound`, also where two replicas believe they lead.
`Ids`: an id that is being formed was minted and nobody else forms it. `Plans`: the batches a
replica has planned are apart from each other and from what it has claimed. `Sizes`: what was
pushed for an id and what is still to be pushed are one batch. For one match a START, while no
lease lapses and no leader stops: `OneLeader`, and `Counted`, a player's matches and the one on
its way were each asked for.

**Gateway** (`AccountProofs`). `SessionsAreSound`. That no session outlives its socket was
found not to be inductive, and false, for a socket that sends a second AUTH or goes away
while one is served: `loose` names those sockets and the property excepts them. *Used*: what a
node tells Redis concerns accounts that used the node. *Follows*: the last of its commands about
an account that used no other node says whether it has a session.

**Settlement** (`MatchProofs`), with any number of faults, matches, players and workers.
`OneResult`: what is on its way is the one result of a match that ended. `Transacting`: an open
transaction found no row exactly when there is none, and it pays only what that row owes;
`OneInserts`: no two open ones have inserted the same row. `SettledInLedger`: what a worker
counts as settled is in the ledger; an acknowledgement looks at the count, not at the ledger.
Theorems: `Types`, `NeverCreditedTwice`, `AcknowledgedAfterTheLast`, `OneWorkerAMessage`,
`Implements` (refinement of `MatchLedger`: insert and credit are stutters, the commit is `Settle`).

**Accounts** (`AccountProofs`). `AccountsAreSound`: *Docs*, every copy in memory is funded by
what the account was given; *Gate*, while a ban is complete the auth store has it and
who came to the gate since is still before it. Nothing is claimed of the alias `Login`, which asks
nobody. `ImplementsAccountUntilOverlap` (refinement of
`Account`): until two requests overlap, the one in flight has the document that is *due*.

**Identity** (`EntryProofs`). `SignInsAreSound`, `GuestRowsAreSound`. *Shown*: what a page knows of
its row is true or the row is gone. *Once*: the row goes with its payload. *Uids*, *Tries*: a uid
a callback tries is at most one more than there are guests, and every attempt it lost was
to a guest with a uid as high, so it loses no more than there are users. *Rotating*: a refresh
holds the token of the row unless another login overtook it. *Apart*: on Postgres the guests have
uids apart, on MongoDB the accounts do, so of two guests with one uid one has no account. That no
callback gives up in vain (`RetriedEnough`) is claimed for no more users than there are attempts.

**CsMatch** (`MatchProofs`), for any players, rounds and losses of contact. A first layer
reduces the actions to what they do to the bodies (`StepEffect`) and to the course of the match
(`CourseEffect`). `IInv` then adds *Fresh* (who was never admitted has no body; needed because
a joiner is admitted at any time, and `reviveAll` touches the roster only), *Counted* (who is up,
down or has a knock record has not died in this round; a death is credited on four paths),
*BotLater*, *Rescuers* (a reviver was admitted to its target's team), *Course*. Theorems:
`TypeCorrect`, `DownBleeds`, `DeathsCounted`, `ResultPublished`, `TeamRevives`.

**Friends** (`MatchProofs`). `FriendsStayMutual`: a friendship that is committed has both rows.
*Confirming*: a confirmation between its two inserts has the first row to itself; pairs a
removal cut in the middle of a confirmation (`torn`) are excepted.

**What a player holds, earns and heals** (`RulesProofs`). `RulesHold` is `MatchHolds` of every
behaviour of `MCRules`, from three parts that share no state:

- `ItemsHold`. The invariant has two halves. *Sound* is what the three tables of a loadout say
  of each other whatever numbers have met: a gun of a slot is what the slot shows and a slot shows
  what belongs there, a kind is one stack. *Faithful* holds until two items meet under one number:
  what is shown is held and in no other slot, what is mounted is on a gun that is held, and a
  hand holds what is there. That no gun is lost or doubled is a sum over
  players and boxes; it is counted as a set of pairs (holder, number), so that a gun that
  changes hands is one pair out and one pair in, whichever handler moves it.
  It assumes that a session can count to 3 (a loadout is a medkit, a pistol and its rounds).
- `CoinsHold`. A balance is told from the story of the rounds: *FirstIs* and the kills relate
  the counters of `creditDeath` to the deaths in their order, `LostInARow` the streak to the
  rounds won. The order in which a wiped team's knocked players die is any order.
- `VitalsHold`. What energy gave and what is left is at most what was bought.

**Between clients, gateways and match servers** (`TrafficProofs`):

- `FleetHolds`: *Timely*, no timer is overdue, so who was heard last is one interval old for each
  failure and one more.
- `ManagerHolds`: *Reserving*, players let in, in the mailbox or admitted never exceed the
  reservations, which never exceed the roster.
- `RouterHolds`: the guard's Map is a part of what it recorded, in order of time (*Traced*), so
  its sweep may stop at the first that has not expired, and what its limit evicts is the oldest.
  The snapshot: once every save is announced and heard, either it is the document or one
  refresh is on its way that has not read an older one.
- `ConnectionHolds`: what was handled, the frames that wait and what the parser will make of the
  bytes to come are the script, at every moment. It needs that parsing a prefix leaves a rest
  from which parsing goes on (`Parse` is a recursive function of the bytes), for any cut.
- `NoticesHold`: for operations of one gateway. For each client, what is pending about it, in
  the order in which it will be heard, ends in something that shows it the room as it is or
  takes it out of it (*HearsOf*): a notice that carries the room, the answer of its own call,
  or a notice that sends it out and no later one that lets it in.
- `SettingsHold`: the bits of the settings are read back field by field, and the blob part by
  part, since its parts are laid end to end; a blob that is cut anywhere is shorter than what
  its own counts announce, and so is ignored as a whole.

**Services** (`ServiceProofs`):

- `RegistrationHolds`: what a request is about to save. A registration saves the player's name
  and a login the name it has read.
- `ShopStaysSound`: every catalogue is a sequence of rows with store ids apart, and of wheels with
  chests apart and a prize each. Where no weight of a pool is negative, a draw falls into one interval
  of the running sums (`WeightTo`), so each place has as many of the numbers as its weight, 0
  counting as 10; with a negative one nothing is claimed but that something is drawn. New ids are
  larger than all (`MaxIs`).
- `RankingHolds`: a stored tier is the one of its points, the best is at least the last; the
  pages of a board are consecutive pieces of its rows in order.
- `StartHolds`: *Numbered* (ids of STARTs are apart), *SettingsKept*, *Handed* (a handoff is of a
  START that will not make it again), *PlayedFrom* (only a match whose settings were not
  written or not read is played by the defaults), *InTurn* (while nobody's return crosses a START, one ends
  before the next begins), which the claim about the last START needs.

**Around the lobby** (`LobbyProofs`):

- `LookStaysSound`: every copy a request holds is sound by itself, so whichever is written last
  leaves a sound document.
- `GatesHold`: *AtItsGates* says for each await of the gate what was asked and found so far,
  *StoreKnown* when the process knows that there are no tables.
- `StoresAgree`. The bus: Redis has an entry as
  long as `InMemoryBus` believes it, and a stream is the numbers of its messages; leases only
  until a holder acquires what it holds (see below). The group has been given all up to its cursor
  that is past what was trimmed. The cutover: a run has read no file as
  applied that is not; only a placeholder is ever kept as `"empty"`; ids are bounded, so the
  sequence has a largest one to start from; what the backfill has still to insert is all that
  the friendships lack; a row it has inserted and not committed keeps confirmations of the pair
  away, and a pair of which it has skipped one row is torn by a removal. The guests: a row has the uid of its document, so a uid that was taken
  stays taken, and a document of a run is still to come, in its row, or failed for a reason.
- `LobbyTypes`, `ServicesHold`, `TrafficHeld`, `StoresAgree` are what the `lobby` run checks, of
  every behaviour of `MCLobby`: its part keeps its invariant and the others rest (*PartsInv*).

The proofs corrected the models in four places: who has been sent out of a room is told apart
from who was let in again (`SendsOut`), guns in boxes are counted whatever the length of a box,
a session needs three numbers for the loadout it is given, and a round's income is defined
from the first round on.

*Model-checked only*:

- Liveness: `RequestsEnd`, `QueuedIsServed`, `PresenceSettles`, `StreamedIsSettled`, `ConfirmsEnd`
  and `MatchGoesOn` need fairness and ENABLED, which the prover does not handle.
- The two claims that the code does not keep (the violation runs), and definitions that no run
  checks (claims of comments that the code does not keep).

Every invariant, every action property and every refinement that a passing run checks is a
theorem.

No module uses a RECURSIVE operator: recursion is written as a recursive function or a fold, so
that every module can be proved about.

## Where code and comments disagree

Witnessed by a run (quoted in `PROJECT.json`): `rooms_double_leave`, `settlement_pending`.

Met while modelling. The models contain the behaviour, and some state the claim as a
definition that no run checks:

- *Rooms.* After a lapse, an older save overwrites a newer record (`rooms.js:61`, against lines
  11-12). Between the two writes of JOIN the close handler finds no index entry (279, against
  511; `DisconnectedAreGone`). JOIN never reads the index, so an account may be in two rooms
  (257, against 9; `OneRoomPerAccount`). RE-ENTER reopens a room for the first member back,
  others still playing (447, against 427; `InGameWhilePlaying`). After CHANGE shrinks a room,
  members outside the grid are not drawn (135, against 131; `EveryMemberShown`). With
  `max_member_num` above 48 the 49th member gets seat 0 of a full team (107-111, 182-205).
  `SETREADY_NTF` always says ready (90). The header of `startMatch` says that the room "stays
  WAITING" and is kept "joinable for now" while its match runs (415-417); line 427 sets it in game
  and 259 refuses who joins then, which is what `FrozenInGame` states.
- *Notices and START.* A direct answer may overtake a notice, and notices of two gateways each
  other; a JOIN notice may be lost. The comments "empty ack" of `RoomKick` and `RoomLeave` are
  not what is sent. If `nextMatchId` fails, a room stays in game (`RoomStart.js`). Two STARTs
  that overlap after a re-entry split the members over two matches. A match is played by the
  defaults when the GET of its settings fails, there is no bus, an hour has passed (`RoomStart.js:72`)
  or the JSON is bad (`matchsettings.go:113-127`); a match server reads them for the first player's
  id only (`match.go:298-299`), and whoever it seats beside him plays by them.
- *Settings.* Events that are not named become 0, against `matchsettings.go:14`; 255 rounds
  overflow; an even number of rounds is won by half; a store of rows that cannot be placed
  falls back to the default one.
- *Matchmaker.* After a lapse between HGETALL and HDEL a player gets two matches
  (`matchmaker.js:206`, against 16-18; `NeverMatchedTwice`). A replica that stops in the middle
  of a tick goes on while another leads (146; `OneFormsMatches`). A CANCEL after the read is
  still matched (213, against `MatchmakingCancel.js:6-8`; `CancelledIsNotMatched`).
- *Gateway.* A peer that hangs up while AUTH is awaited is registered after its close
  (`gateway.js:159`, against 32-36); so is a socket that authenticates a second time as another
  account (65-71, 107-110). The close on one node clears the presence another node set (114).
  A ban between the check and the registration is not noticed (152; `BannedIsOut`). `handleApp`
  is not awaited, and what follows a refused AUTH still runs. `player.updated` refreshes may
  finish out of order (359), and a snapshot is stale until the first of them.
- *Replay guard.* A request that fails is recorded as seen; the token is not signed; the guard
  is off by default, one Map a process, and trusts the client's clock.
- *Accounts.* A reward credited while a request has the document in memory is lost
  (`postgres.js:191` and 100, against `settlement.js:5`). An older request saves the token back
  after a LOGOUT (100, against `Logout.js:5-6`; `LogoutHolds`). Settlement credits `coins` and
  not `wallet.coins` (`player.js:84`). Without an auth row, a ban is undone by an older save.
- *Login gates.* A ban lookup that fails lets the player in (`_authGate.js:94`). The alias
  `Login.js` has no gates (26-40, against "behaves like MajorLogin", 4): who is banned gets a token
  that authenticates. `AccountStore` has it as an action of its own. A forged build is refused and never kicked (51,
  `MajorLogin.js:28`; `ForgedIsKicked`). The request that discovers that the auth tables are
  missing is refused, later ones pass, and the gates stay off until a restart
  (`authStore.js:48-61`). The dashboard's ban, name, role and level write a column that only
  SQLite has (`routes/index.js:145-200`; `DashboardBanHolds`).
- *Identity.* On Mongo a pairing may be taken by two polls (`pairings.mongo.js:63-68`). A guest row
  is left without an account when provisioning fails in between (`login-flow.js:95-105`). `guests.uid`
  is unique on Postgres only: the comment of `withUidRetry` speaks of two registrations that race for
  one uid (`ids.js:28-29`), and `migrate-mongo-to-pg.js:86-88` of the unique index Mongo had on it,
  but the index is a plain one (`mongo.js:36`, against 40), so a
  second guest is inserted with the uid, its account refused, the retry refused by `dc_id`, and it
  stays without an account.
- *Friends.* A removal in the middle of a confirmation leaves one row (`postgres.js:208-211`).
- *Shop, ranking, document.* Edits of another process are overwritten by the next save.
  `addWheel` stores the pool it is sent unread (`shopService.js:231`): an item may be in it twice, a
  weight negative; so may be `item_id` and `store_id` (123, 159). The default pool holds the voucher
  801000001 beside a grand prize that may be the same (233, 239). A board
  shows `score` where its metric is 0 (`rankingService.js:923, 958`), and a region board shows
  its first line as the caller's (987). `SelectProfile`
  does not rebuild the slots (`_shared.js:265`), two profiles may be flagged
  (`GetProfiles.js:28`), the pass shows 999 badges while the
  count is 0 (`GetEPInfo.js:18`).
- *Fleet.* Who joins is routed whatever match the ticket names (`manager.go:29`,
  `results.go:63-74`; `ResultIsOfItsMatch`). The match a reconnect makes gathers strangers
  (`handlers.go:83-96`). `reserved` is never given back. An admit in the mailbox of a match
  that ends is never run.
- *Match.* A rescue completes for a reviver who has quit (`deathmatch.go:437`, "drop any ...
  whose reviver is no longer alive"). A bleed-out during the banner draws the next round's first
  blood (`deathmatch.go:205`, `match.go:948`). A joiner let in before the match locked is
  admitted after (`match.go:792`, "LOCKED"). `canAdmit` reads `started` and `ended` outside the
  goroutine that writes them. A custom room whose lone host is on team 2 gets a bot on team 2:
  every round ends at once. When the last player leaves during the pause after the deciding
  round, the result is never published. When the last member standing quits, knocked mates
  bleed on.
- *Items, coins, vitals.* Each session numbers its items from 1, so an item picked up may take
  the number of another (`loot.go:24, 393`). A purchase is placed by the `SlotKind` of the sale and a
  pickup by `weaponAmmo` (`purchase.go:66`, `loot.go:165-171`, against "so purchase and loot agree",
  163-164): a gun of the advanced shop that `weaponAmmo` does not list (M4, GROZA, M249) is picked up
  as a stackable item, folded into the one that is held, whose slot loses its gun (430-443). A late joiner's loadout clears the ground of the
  match. Ammunition is never merged (`loot.go:183-188`). A vest that is dropped keeps its wear. Two mushrooms are
  charged and one counts. The purchase cap of `shop.go:12` is not
  enforced for grenades and walls, and the active walls of a player are capped at 3, not at
  the number he holds (`gloo.go:21`, 38). A heal is armed at a count of 0. A bought melee weapon
  replaces the fist's placeholder, and buying is not limited to the buy phase. Coins are
  `uint16` on the wire (`cssync.go:25`).
- *Bus.* `acquireLock` with the token that holds the lock succeeds in memory
  (`inMemoryBus.js:233`) and fails in Redis; `releaseLock` of a lease
  that expired is true in memory; streams in memory redeliver nothing. `hset` and `clearPresence`
  always answer 1 in memory (`inMemoryBus.js:122, 177`), Redis 0 or 1; nobody looks. A stream drops
  its oldest entries over 100000, read or not (`bus/index.js:48`). A group whose creation fails is
  reported and never made (64-66).
- *Cutover.* The copied columns leave out `banned` and `role` (`migrate-data.js:13`, "1:1"). A
  `setval` that fails inside the transaction still prints "committed". `docs/infra-phase1.md:31-33`
  and `repo/index.js:3-5` say that `DATABASE_URL` switches the store; the code also asks for
  `USE_POSTGRES=true` (23). A backfill run again
  re-creates friendships removed since, and a removal beside it may leave one row of a pair
  (`backfill-friends.js:40`, against 4). A `'{}'` row loads differently on Postgres
  (`postgres.js:5`). What SQLite is written after the copy is lost.

## Plan

In the order of what they would say about the system:

1. A proof of `RosterShown` for two gateways whose notices are numbered, once the code numbers
   them; today they may cross (see above).
2. The match server's replication, whose state is what each client has been told.
3. A fairness argument for `QueuedIsServed` on paper, beside the run that checks it.

## Not modelled

- Wording, layout and codecs: protobuf bodies, AES, TEA, JWT; numbers on the wire have their
  width only where it matters (rounds, seats, coins).
- HTTP servers, middleware, start-up; endpoints whose answer does not depend on state.
- The admin dashboard's page; its operations that change an account are in `AccountStore`,
  `GatewaySessions` and `LoginGate`.
- The match server's transport (sequence numbers, resends, flood guard, tickets) and the
  replication of positions and events to the clients; what a match shows.
- Smoke tests, deployment, templates.
- Postgres and Redis themselves: a statement, a transaction and a command are atomic, and each
  may fail; their replication is not modelled.
- Time is not a number, except where a module counts ticks (`HttpRouter`, `EventBus`,
  `MatchFleet`, `MatchVitals`): a timeout may happen at any moment it could.
