---------------------------- MODULE CustomRooms ----------------------------
(***************************************************************************)
(* The custom-room store of src/src/tcp/rooms.js as the gateways run it.   *)
(* Every await is a step: a request looks up the caller's room, takes the  *)
(* room's lease, loads the record, saves it, updates the reverse index and *)
(* releases the lease, and the other requests run between any two of them. *)
(*                                                                         *)
(* Redis keys: rooms (hash `rooms`), memberOf (hash `room:members`),       *)
(* roomSeq (`room:seq`), lease (`room:lock:<id>`, TTL 3000 ms).  A request *)
(* is an account and a lane: the gateway dispatches each packet without    *)
(* waiting for the one before it, and the socket's close handler runs      *)
(* beside them.  The arguments of an operation are chosen when the code    *)
(* first reads them.                                                       *)
(*                                                                         *)
(* Bounds: MaxRooms room ids; Slots packets of an account in flight at     *)
(* once; MaxLapses leases that run out under a live holder; MaxFaults      *)
(* failed Redis commands and crashed requests; one close handler in flight *)
(* per account.  INCR and the index check of create are one step, since    *)
(* INCR commutes with every other command.                                 *)
(***************************************************************************)
EXTENDS RoomRules

CONSTANTS Slots,       \* packets an account may have in flight
          Ops,         \* the operations clients send in this instance
          MaxLapses, MaxFaults

Lanes == Slots \cup {"close"}
Requests == Accounts \X Lanes

CONSTANTS Free,        \* nobody holds the lease
          Orphan       \* the holder is gone and the TTL still runs

ASSUME RoomsAssumption ==
    /\ MaxLapses \in Nat /\ MaxFaults \in Nat
    /\ Free \notin Requests /\ Orphan \notin Requests /\ Free # Orphan

VARIABLES         \* with rooms, room id -> saved record, NoRoom when absent
    memberOf,     \* account -> room id, 0 when absent
    roomSeq,      \* the last id given
    lease,        \* room id -> the request that holds the lease
    pc,           \* request -> where it is
    op,           \* request -> the operation it runs
    target,       \* request -> the room it runs on
    loaded,       \* request -> the record it parsed
    draft,        \* request -> the record it will save
    todo,         \* request -> accounts whose index entry or hand-off is left
    connected,    \* account -> has a socket
    playing,      \* room id -> accounts inside the match it started
    lapses, faults

store == <<rooms, memberOf, roomSeq>>
local == <<op, target, loaded, draft, todo>>
clients == <<connected, playing>>
budget == <<lapses, faults>>
vars == <<store, lease, pc, local, clients, budget>>

Caller(q) == q[1]

Init ==
    /\ rooms = [r \in RoomIds |-> NoRoom]
    /\ memberOf = [a \in Accounts |-> 0]
    /\ roomSeq = 0
    /\ lease = [r \in RoomIds |-> Free]
    /\ pc = [q \in Requests |-> "idle"]
    /\ op = [q \in Requests |-> "none"]
    /\ target = [q \in Requests |-> 0]
    /\ loaded = [q \in Requests |-> NoRoom]
    /\ draft = [q \in Requests |-> NoRoom]
    /\ todo = [q \in Requests |-> {}]
    /\ connected = [a \in Accounts |-> TRUE]
    /\ playing = [r \in RoomIds |-> {}]
    /\ lapses = 0 /\ faults = 0

Goto(q, label) == pc' = [pc EXCEPT ![q] = label]

\* The request ends: its locals are gone.
Finish(q) ==
    /\ pc' = [pc EXCEPT ![q] = "idle"]
    /\ op' = [op EXCEPT ![q] = "none"]
    /\ target' = [target EXCEPT ![q] = 0]
    /\ loaded' = [loaded EXCEPT ![q] = NoRoom]
    /\ draft' = [draft EXCEPT ![q] = NoRoom]
    /\ todo' = [todo EXCEPT ![q] = {}]

-----------------------------------------------------------------------------
(* A packet arrives and the handler starts.                                *)

Begin(q, o, r) ==
    /\ pc[q] = "idle"
    /\ pc' = [pc EXCEPT ![q] = "lock"]
    /\ op' = [op EXCEPT ![q] = o]
    /\ target' = [target EXCEPT ![q] = r]
    /\ UNCHANGED <<store, lease, loaded, draft, todo, budget>>

Packet(q, o) == q[2] \in Slots /\ connected[Caller(q)] /\ o \in Ops

\* JOIN, KICK, CHANGE, SWITCHSEAT and START name the room.
RequestById(q, o, r) ==
    /\ o \in {"join", "kick", "change", "switch", "start"}
    /\ Packet(q, o)
    /\ r \in 1..roomSeq
    /\ Begin(q, o, r)
    /\ UNCHANGED clients

\* LEAVE and SETREADY look the room up in the index before any lock; so does
\* SWITCHSEAT without a room id.
RequestByIndex(q, o) ==
    /\ o \in {"leave", "ready", "switch"}
    /\ Packet(q, o)
    /\ memberOf[Caller(q)] # 0
    /\ Begin(q, o, memberOf[Caller(q)])
    /\ UNCHANGED clients

\* ROOM/12 names a room and nothing is checked, neither that the caller was in its match
\* nor that he is a member.  A client polls it from the lobby, so it has left that match.
RequestReenter(q, r) ==
    /\ Packet(q, "reenter")
    /\ r \in 1..roomSeq
    /\ playing' = [playing EXCEPT ![r] = @ \ {Caller(q)}]
    /\ Begin(q, "reenter", r)
    /\ UNCHANGED connected

\* The socket closes: handleDisconnect leaves the room the index names.
Disconnect(a) ==
    LET q == <<a, "close">>
    IN  /\ connected[a]
        /\ pc[q] = "idle"
        /\ connected' = [connected EXCEPT ![a] = FALSE]
        /\ playing' = [r \in RoomIds |-> playing[r] \ {a}]
        /\ \/ /\ memberOf[a] = 0
              /\ UNCHANGED <<store, lease, pc, local, budget>>
           \/ /\ memberOf[a] # 0
              /\ Begin(q, "leave", memberOf[a])

Reconnect(a) ==
    /\ ~connected[a]
    /\ connected' = [connected EXCEPT ![a] = TRUE]
    /\ UNCHANGED <<store, lease, pc, local, playing, budget>>

-----------------------------------------------------------------------------
(* create: no lease.                                                       *)

CreateRequest(q) ==
    /\ Packet(q, "create")
    /\ pc[q] = "idle"
    /\ memberOf[Caller(q)] = 0
    /\ roomSeq < MaxRooms
    /\ roomSeq' = roomSeq + 1
    /\ target' = [target EXCEPT ![q] = roomSeq + 1]
    /\ op' = [op EXCEPT ![q] = "create"]
    /\ Goto(q, "save")
    /\ UNCHANGED <<rooms, memberOf, lease, loaded, draft, todo, clients, budget>>

CreateSave(q) ==
    /\ pc[q] = "save" /\ op[q] = "create"
    /\ \E max \in Capacities, game \in GameModes, group \in GroupModes :
          rooms' = [rooms EXCEPT ![target[q]] = NewRoom(Caller(q), max, game, group)]
    /\ Goto(q, "index")
    /\ UNCHANGED <<memberOf, roomSeq, lease, local, clients, budget>>

-----------------------------------------------------------------------------
(* The lease around every other operation.                                 *)

\* Mutant: the lease is not asked for.
AcquireHeld(q) ==
    /\ pc[q] = "lock"
    /\ Goto(q, "load")
    /\ UNCHANGED <<store, lease, local, clients, budget>>

Acquire(q) ==
    /\ pc[q] = "lock"
    /\ lease[target[q]] = Free
    /\ lease' = [lease EXCEPT ![target[q]] = q]
    /\ Goto(q, "load")
    /\ UNCHANGED <<store, local, clients, budget>>

\* Mutant: tries for ever.
GiveUpNever(q) == pc[q] = "lost"

\* Fifty tries, then "lock timeout".
GiveUp(q) ==
    /\ pc[q] = "lock"
    /\ lease[target[q]] # Free
    /\ Finish(q)
    /\ UNCHANGED <<store, lease, clients, budget>>

\* Compare and delete; the reply, and START's hand-off, follow.  The code does not
\* wait for the release, but one node's commands reach Redis in order.
Release(q) ==
    /\ pc[q] = "release"
    /\ lease' = [lease EXCEPT ![target[q]] = IF @ = q THEN Free ELSE @]
    /\ IF op[q] = "start" /\ todo[q] # {}
       THEN Goto(q, "handoff") /\ UNCHANGED local
       ELSE Finish(q)
    /\ UNCHANGED <<store, clients, budget>>

-----------------------------------------------------------------------------
(* The record is loaded, checked and changed in memory.                    *)

Loads(q, o) == pc[q] = "load" /\ op[q] = o

\* The checks passed: the record to save, and who is left for later steps.
Accept(q, record, left) ==
    /\ loaded' = [loaded EXCEPT ![q] = rooms[target[q]]]
    /\ draft' = [draft EXCEPT ![q] = record]
    /\ todo' = [todo EXCEPT ![q] = left]
    /\ Goto(q, "save")
    /\ UNCHANGED <<store, lease, op, target, clients, budget>>

\* The room is gone or a check failed: nothing is written.
Refuse(q) ==
    /\ Goto(q, "release")
    /\ UNCHANGED <<store, lease, local, clients, budget>>

Present(q) == rooms[target[q]] # NoRoom

JoinLoad(q) ==
    LET room == rooms[target[q]]  a == Caller(q)
    IN  /\ Loads(q, "join")
        /\ \/ Present(q) /\ CanJoin(room, a) /\ Accept(q, Joined(room, a), {})
           \/ ~(Present(q) /\ CanJoin(room, a)) /\ Refuse(q)

KickLoad(q) ==
    LET room == rooms[target[q]]  a == Caller(q)
    IN  /\ Loads(q, "kick")
        /\ \E t \in Accounts :
              \/ Present(q) /\ CanKick(room, a, t) /\ Accept(q, Without(room, t), {t})
              \/ ~(Present(q) /\ CanKick(room, a, t)) /\ Refuse(q)

ChangeLoad(q) ==
    LET room == rooms[target[q]]  a == Caller(q)
    IN  /\ Loads(q, "change")
        /\ \/ /\ Present(q) /\ CanChange(room, a)
              /\ \E max \in Capacities, game \in GameModes : Accept(q, Changed(room, max, game), {})
           \/ ~(Present(q) /\ CanChange(room, a)) /\ Refuse(q)

SetReadyLoad(q) ==
    LET room == rooms[target[q]]  a == Caller(q)
    IN  /\ Loads(q, "ready")
        /\ \/ /\ Present(q) /\ CanSetReady(room, a)
              /\ \E ready \in BOOLEAN : Accept(q, WithReady(room, a, ready), {})
           \/ ~(Present(q) /\ CanSetReady(room, a)) /\ Refuse(q)

\* Mutant: no check of the seat asked for.
SwitchSeatLoadAnyway(q) ==
    LET room == rooms[target[q]]  a == Caller(q)
    IN  /\ Loads(q, "switch")
        /\ \/ /\ Present(q) /\ a \in Members(room)
              /\ \E team \in 1..NUM_TEAMS, seat \in 0..PerTeamCap(room) - 1 :
                    Accept(q, Switched(room, a, team, seat), {})
           \/ Refuse(q)

SwitchSeatLoad(q) ==
    LET room == rooms[target[q]]  a == Caller(q)
    IN  /\ Loads(q, "switch")
        /\ \/ /\ Present(q)
              /\ \E team \in 1..NUM_TEAMS, seat \in 0..PerTeamCap(room) - 1 :
                    CanSwitchSeat(room, a, team, seat) /\ Accept(q, Switched(room, a, team, seat), {})
           \/ Refuse(q)      \* the seat asked for is taken, out of range, or the room is gone

StartLoad(q) ==
    LET room == rooms[target[q]]  a == Caller(q)
    IN  /\ Loads(q, "start")
        /\ \/ Present(q) /\ CanStart(room, a) /\ Accept(q, Started(room), Members(room))
           \/ ~(Present(q) /\ CanStart(room, a)) /\ Refuse(q)

ReenterLoad(q) ==
    LET room == rooms[target[q]]
    IN  /\ Loads(q, "reenter")
        /\ \/ Present(q) /\ CanReopen(room) /\ Accept(q, Reopened(room), {})
           \/ ~(Present(q) /\ CanReopen(room)) /\ Refuse(q)

LeaveLoad(q) ==
    /\ Loads(q, "leave")
    /\ loaded' = [loaded EXCEPT ![q] = rooms[target[q]]]
    /\ Goto(q, "unindex")
    /\ UNCHANGED <<store, lease, op, target, draft, todo, clients, budget>>

\* Mutant: the index entry is set to null instead of deleted.
LeaveUnindexNull(q) ==
    /\ pc[q] = "unindex"
    /\ memberOf' = [memberOf EXCEPT ![Caller(q)] = NoRoom]
    /\ Goto(q, "release")
    /\ UNCHANGED <<rooms, roomSeq, lease, local, clients, budget>>

\* leave drops its own index entry before it looks at the record.
LeaveUnindex(q) ==
    LET room == loaded[q]  a == Caller(q)
    IN  /\ pc[q] = "unindex"
        /\ memberOf' = [memberOf EXCEPT ![a] = 0]
        /\ \/ /\ room = NoRoom
              /\ Goto(q, "release")
              /\ UNCHANGED draft
           \/ /\ room # NoRoom /\ Dismisses(room, a)
              /\ Goto(q, "delete")
              /\ UNCHANGED draft
           \/ /\ room # NoRoom /\ ~Dismisses(room, a)
              /\ draft' = [draft EXCEPT ![q] = Without(room, a)]
              /\ Goto(q, "save")
        /\ UNCHANGED <<rooms, roomSeq, lease, op, target, loaded, todo, clients, budget>>

-----------------------------------------------------------------------------
(* The writes.                                                             *)

Save(q) ==
    /\ pc[q] = "save" /\ op[q] # "create"
    /\ rooms' = [rooms EXCEPT ![target[q]] = draft[q]]
    /\ Goto(q, IF op[q] \in {"join", "kick"} THEN "index" ELSE "release")
    /\ UNCHANGED <<memberOf, roomSeq, lease, local, clients, budget>>

DismissDelete(q) ==
    LET others == Members(loaded[q]) \ {Caller(q)}
    IN  /\ pc[q] = "delete"
        /\ rooms' = [rooms EXCEPT ![target[q]] = NoRoom]
        /\ todo' = [todo EXCEPT ![q] = others]
        /\ Goto(q, IF others = {} THEN "release" ELSE "sweep")
        /\ UNCHANGED <<memberOf, roomSeq, lease, op, target, loaded, draft, clients, budget>>

DismissSweep(q) ==
    /\ pc[q] = "sweep"
    /\ \E m \in todo[q] :
          /\ memberOf' = [memberOf EXCEPT ![m] = 0]
          /\ todo' = [todo EXCEPT ![q] = @ \ {m}]
          /\ Goto(q, IF todo[q] = {m} THEN "release" ELSE "sweep")
    /\ UNCHANGED <<rooms, roomSeq, lease, op, target, loaded, draft, clients, budget>>

\* Mutant: join forgets the reverse index.
JoinIndexNot(q) ==
    /\ pc[q] = "index" /\ op[q] = "join"
    /\ Goto(q, "release")
    /\ UNCHANGED <<store, lease, local, clients, budget>>

JoinIndex(q) ==
    /\ pc[q] = "index" /\ op[q] = "join"
    /\ memberOf' = [memberOf EXCEPT ![Caller(q)] = target[q]]
    /\ Goto(q, "release")
    /\ UNCHANGED <<rooms, roomSeq, lease, local, clients, budget>>

CreateIndex(q) ==
    /\ pc[q] = "index" /\ op[q] = "create"
    /\ memberOf' = [memberOf EXCEPT ![Caller(q)] = target[q]]
    /\ Finish(q)
    /\ UNCHANGED <<rooms, roomSeq, lease, clients, budget>>

\* Mutant: kick leaves the target's index entry.
KickUnindexNot(q) ==
    /\ pc[q] = "index" /\ op[q] = "kick"
    /\ Goto(q, "release")
    /\ UNCHANGED <<store, lease, local, clients, budget>>

KickUnindex(q) ==
    /\ pc[q] = "index" /\ op[q] = "kick"
    /\ memberOf' = [a \in Accounts |-> IF a \in todo[q] THEN 0 ELSE memberOf[a]]
    /\ todo' = [todo EXCEPT ![q] = {}]
    /\ Goto(q, "release")
    /\ UNCHANGED <<rooms, roomSeq, lease, op, target, loaded, draft, clients, budget>>

\* START pushes the match to each member of the record it saved, one account
\* lookup at a time; a member that is offline or unknown gets nothing.
Handoff(q) ==
    /\ pc[q] = "handoff"
    /\ \E m \in todo[q] :
          /\ \/ connected[m] /\ playing' = [playing EXCEPT ![target[q]] = @ \cup {m}]
             \/ UNCHANGED playing
          /\ IF todo[q] = {m} THEN Finish(q)
             ELSE /\ todo' = [todo EXCEPT ![q] = @ \ {m}]
                  /\ UNCHANGED <<pc, op, target, loaded, draft>>
    /\ UNCHANGED <<store, lease, connected, budget>>

-----------------------------------------------------------------------------
(* What can go wrong around a request.                                     *)

InLock(q) == pc[q] \in {"load", "unindex", "delete", "sweep", "save", "index", "release"} /\ op[q] # "create"

\* A Redis command rejects: the op unwinds, withRoomLock releases, runOp answers.  One that
\* ran and whose reply is lost is its own step and this one at the next await; a SET NX or a
\* release whose reply is lost is a Crash, since nobody will free the lease.
RedisError(q) ==
    /\ faults < MaxFaults
    /\ faults' = faults + 1
    /\ \/ /\ InLock(q) /\ pc[q] # "release"
          /\ todo' = [todo EXCEPT ![q] = {}]
          /\ Goto(q, "release")
          /\ UNCHANGED <<op, target, loaded, draft>>
       \/ /\ pc[q] \in {"lock", "handoff"} \/ op[q] = "create"
          /\ Finish(q)
    /\ UNCHANGED <<store, lease, clients, lapses>>

\* The gateway dies, or its release is lost: the lease stays until its TTL.
Crash(q) ==
    /\ faults < MaxFaults
    /\ faults' = faults + 1
    /\ pc[q] # "idle"
    /\ lease' = [r \in RoomIds |-> IF lease[r] = q THEN Orphan ELSE lease[r]]
    /\ Finish(q)
    /\ UNCHANGED <<store, clients, lapses>>

\* Mutant: a lease without a TTL.
OrphanStays(r) == lease[r] = Free /\ lease[r] = Orphan

OrphanExpires(r) ==
    /\ lease[r] = Orphan
    /\ lease' = [lease EXCEPT ![r] = Free]
    /\ UNCHANGED <<store, pc, local, clients, budget>>

\* Three seconds pass while the holder is still at work: nothing renews it.
Lapse(r) ==
    /\ lapses < MaxLapses
    /\ lapses' = lapses + 1
    /\ lease[r] \in Requests
    /\ lease' = [lease EXCEPT ![r] = Free]
    /\ UNCHANGED <<store, pc, local, clients, faults>>

-----------------------------------------------------------------------------

Work(q) ==
    \/ Acquire(q) \/ GiveUp(q) \/ Release(q)
    \/ JoinLoad(q) \/ KickLoad(q) \/ ChangeLoad(q) \/ SetReadyLoad(q)
    \/ SwitchSeatLoad(q) \/ StartLoad(q) \/ ReenterLoad(q)
    \/ LeaveLoad(q) \/ LeaveUnindex(q)
    \/ CreateSave(q) \/ CreateIndex(q)
    \/ Save(q) \/ DismissDelete(q) \/ DismissSweep(q)
    \/ JoinIndex(q) \/ KickUnindex(q) \/ Handoff(q)

Arrive(q) ==
    \/ CreateRequest(q)
    \/ \E r \in RoomIds : \/ \E o \in Ops : RequestById(q, o, r)
                          \/ RequestReenter(q, r)
    \/ \E o \in Ops : RequestByIndex(q, o)

Next ==
    \/ \E q \in Requests : Arrive(q) \/ Work(q) \/ RedisError(q) \/ Crash(q)
    \/ \E a \in Accounts : Disconnect(a) \/ Reconnect(a)
    \/ \E r \in RoomIds : OrphanExpires(r) \/ Lapse(r)

Spec == Init /\ [][Next]_vars

\* Node runs every ready continuation, and Redis expires keys.
FairSpec ==
    /\ Spec
    /\ \A q \in Requests : WF_vars(Work(q))
    /\ \A r \in RoomIds : WF_vars(OrphanExpires(r))

-----------------------------------------------------------------------------
(* Properties.                                                             *)

Labels == {"idle", "lock", "load", "unindex", "delete", "sweep", "save", "index",
           "release", "handoff"}
Operations == {"none", "create", "join", "leave", "kick", "change", "ready", "switch",
               "start", "reenter"}

\* Type invariant of the Redis keys and of every request's locals.
TypeOK ==
    /\ rooms \in [RoomIds -> Room \cup {NoRoom}]
    /\ memberOf \in [Accounts -> 0..MaxRooms]
    /\ roomSeq \in 0..MaxRooms
    /\ lease \in [RoomIds -> Requests \cup {Free, Orphan}]
    /\ pc \in [Requests -> Labels]
    /\ op \in [Requests -> Operations]
    /\ target \in [Requests -> 0..MaxRooms]
    /\ loaded \in [Requests -> Room \cup {NoRoom}]
    /\ draft \in [Requests -> Room \cup {NoRoom}]
    /\ todo \in [Requests -> SUBSET Accounts]
    /\ connected \in [Accounts -> BOOLEAN]
    /\ playing \in [RoomIds -> SUBSET Accounts]
    /\ lapses \in 0..MaxLapses
    /\ faults \in 0..MaxFaults

Idle == \A q \in Requests : pc[q] = "idle"

\* At rest, whoever the index sends to a room that exists is listed there:
\* kick and dismiss clear the entry of everyone they remove, even while the
\* removed account's own requests are under way.
IndexedAreListed ==
    Idle => \A a \in Accounts :
                memberOf[a] # 0 /\ Exists(memberOf[a]) => a \in Members(rooms[memberOf[a]])

\* At rest, every listed member has its index entry, so its disconnect finds
\* the room.  (For one room; see OneRoomPerAccount.)
ListedAreIndexed ==
    Idle => \A r \in RoomIds : Exists(r) => \A a \in Members(rooms[r]) : memberOf[a] = r

\* At rest the reverse index and the records agree, in both directions.
IndexMatchesRecords == IndexedAreListed /\ ListedAreIndexed

\* No account is in two rooms.  create refuses an account that the index puts
\* in a room; join only looks for it in the room it joins.
OneRoomPerAccount ==
    \A r, s \in RoomIds : Exists(r) /\ Exists(s) /\ r # s =>
        Members(rooms[r]) \cap Members(rooms[s]) = {}

\* At rest, an account without a connection is in no room (handleDisconnect).
DisconnectedAreGone ==
    Idle => \A a \in Accounts : ~connected[a] =>
                \A r \in RoomIds : Exists(r) => a \notin Members(rooms[r])

\* A room whose members are in the match it started is not WAITING, so it is
\* not listed and join rejects.
InGameWhilePlaying ==
    \A r \in RoomIds : Exists(r) /\ playing[r] # {} => rooms[r].state = "INGAME"

\* A save replaces the very record its request loaded.
NoLostUpdate ==
    [][\A q \in Requests : Save(q) => rooms[target[q]] = loaded[q]]_vars

\* A room disappears only when its owner leaves it or its last member does.
DismissedByOwnerOrLast ==
    [][\A q \in Requests : DismissDelete(q) =>
          LET room == rooms[target[q]]
          IN  Exists(target[q]) => room.owner = Caller(q) \/ Members(room) = {Caller(q)}]_vars

\* Every request that arrives is answered, also when the holder of the lease
\* it waits for has died.
EveryRequestAnswered == \A q \in Requests : pc[q] # "idle" ~> pc[q] = "idle"

\* A room whose lease holder died is not blocked for ever.
OrphanLeaseFreed == \A r \in RoomIds : lease[r] = Orphan ~> lease[r] # Orphan

\* Nobody waits for ever: neither a request nor a room.
RequestsEnd == EveryRequestAnswered /\ OrphanLeaseFreed

\* The store behaves as rooms changed by one whole operation at a time.
ImplementsRules == RulesSpec
=============================================================================
