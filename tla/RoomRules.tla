------------------------------ MODULE RoomRules ------------------------------
(***************************************************************************)
(* What the room store promises: rooms as the members see them, changed by *)
(* whole operations one at a time.  Every operation reads the record as it *)
(* is at that moment and none ever loses the effect of another.            *)
(* CustomRooms, the code with its awaits and its leases, implements it as  *)
(* long as no lease lapses under a running operation.                      *)
(***************************************************************************)
EXTENDS RoomRecord

CONSTANTS MaxRooms,     \* room ids are 1..MaxRooms
          NoRoom        \* the record of a room that does not exist

ASSUME RulesAssumption == MaxRooms \in Nat /\ NoRoom \notin Room

RoomIds == 1..MaxRooms

VARIABLE rooms

RulesInit == rooms = [r \in RoomIds |-> NoRoom]

Create(r) ==
    /\ rooms[r] = NoRoom
    /\ \E a \in Accounts, max \in Capacities, game \in GameModes, group \in GroupModes :
          rooms' = [rooms EXCEPT ![r] = NewRoom(a, max, game, group)]

Becomes(r, record) == rooms' = [rooms EXCEPT ![r] = record]

Join(r, a) == CanJoin(rooms[r], a) /\ Becomes(r, Joined(rooms[r], a))

Leave(r, a) == ~Dismisses(rooms[r], a) /\ Becomes(r, Without(rooms[r], a))

Dismiss(r, a) == Dismisses(rooms[r], a) /\ Becomes(r, NoRoom)

Kick(r, a, target) == CanKick(rooms[r], a, target) /\ Becomes(r, Without(rooms[r], target))

Change(r, a, max, game) == CanChange(rooms[r], a) /\ Becomes(r, Changed(rooms[r], max, game))

SetReady(r, a, ready) == CanSetReady(rooms[r], a) /\ Becomes(r, WithReady(rooms[r], a, ready))

SwitchSeat(r, a, team, seat) ==
    CanSwitchSeat(rooms[r], a, team, seat) /\ Becomes(r, Switched(rooms[r], a, team, seat))

StartMatch(r, a) == CanStart(rooms[r], a) /\ Becomes(r, Started(rooms[r]))

Reenter(r) == CanReopen(rooms[r]) /\ Becomes(r, Reopened(rooms[r]))

Operate(r) ==
    /\ rooms[r] # NoRoom
    /\ \E a \in Accounts :
          \/ Join(r, a)
          \/ Leave(r, a)
          \/ Dismiss(r, a)
          \/ \E target \in Accounts : Kick(r, a, target)
          \/ \E max \in Capacities, game \in GameModes : Change(r, a, max, game)
          \/ \E ready \in BOOLEAN : SetReady(r, a, ready)
          \/ \E team \in 1..NUM_TEAMS, seat \in 0..PerTeamCap(rooms[r]) - 1 : SwitchSeat(r, a, team, seat)
          \/ StartMatch(r, a)
          \/ Reenter(r)

RulesNext == \E r \in RoomIds : Create(r) \/ Operate(r)

RulesSpec == RulesInit /\ [][RulesNext]_rooms

-----------------------------------------------------------------------------
(* Properties.                                                             *)

Exists(r) == rooms[r] # NoRoom

\* Type invariant.
RecordsOK == rooms \in [RoomIds -> Room \cup {NoRoom}]

\* No two members of a room sit on the same seat of the same team, however
\* joins, seat switches and setting changes follow each other (join's pickTeam and
\* freeSeat, switchSeat's occupied check).
SeatsDistinct ==
    \A r \in RoomIds : Exists(r) =>
        \A a, b \in Members(rooms[r]) :
            a # b => \/ rooms[r].members[a].team # rooms[r].members[b].team
                     \/ rooms[r].members[a].seat # rooms[r].members[b].seat

\* What a saved record is, whatever whole operations made it: both of the above.
RecordsSound == RecordsOK /\ SeatsDistinct

\* A saved room lists its owner (in CustomRooms even when a stale copy is saved
\* over a newer one or a request dies half-way): nobody else can kick, change
\* or start, so a room without its owner could never be started or dismissed.
OwnerInRoom == \A r \in RoomIds : Exists(r) => rooms[r].owner \in Members(rooms[r])

\* toRoomInfo draws every member of a waiting room on a seat.
EveryMemberShown == \A r \in RoomIds : Exists(r) => EverySeatShown(rooms[r])

\* A room never grows past the capacity it has at that moment.
JoinWithinCapacity ==
    [][\A r \in RoomIds : Exists(r) /\ rooms'[r] # NoRoom =>
          \/ Members(rooms'[r]) \subseteq Members(rooms[r])
          \/ Cardinality(Members(rooms'[r])) <= rooms[r].max_member_num]_rooms

\* Once START has taken its snapshot of the teams, nobody joins, moves or
\* changes the settings until the room is reopened; members may only go (rooms.js:427).
\* The header of startMatch says the opposite ("The room stays WAITING ... we keep it
\* joinable for now", rooms.js:415-417): it is older than the flip to INGAME below it.
FrozenInGame ==
    [][\A r \in RoomIds : Exists(r) /\ rooms'[r] # NoRoom /\ rooms[r].state = "INGAME" =>
          /\ Members(rooms'[r]) \subseteq Members(rooms[r])
          /\ \A a \in Members(rooms'[r]) :
                /\ rooms'[r].members[a].team = rooms[r].members[a].team
                /\ rooms'[r].members[a].seat = rooms[r].members[a].seat
          /\ rooms'[r].max_member_num = rooms[r].max_member_num
          /\ rooms'[r].game_mode = rooms[r].game_mode]_rooms
=============================================================================
