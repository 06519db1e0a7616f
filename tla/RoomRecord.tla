----------------------------- MODULE RoomRecord -----------------------------
(***************************************************************************)
(* The room record of src/src/tcp/rooms.js and the rules every operation   *)
(* applies to it: when the operation is allowed, and the record it saves.  *)
(* No state here: RoomRules and CustomRooms say when the rules are run.    *)
(*                                                                         *)
(* A record keeps what the rules read.  members maps each account to its   *)
(* place, Away when it has none (the array is searched by account_id);     *)
(* game_mode is "cs" for 15 and "br" otherwise, group_mode is "solo" (0),  *)
(* "duo" (1), "squad" (3) or "other".  Names, cosmetics, the opaque        *)
(* setting bitfields and the join code are not kept.                       *)
(***************************************************************************)
EXTENDS Integers, FiniteSets

CONSTANTS Accounts,     \* the accounts that use rooms
          Capacities,   \* the values of max_member_num a host may choose
          GameModes,    \* the game modes a host may choose, and
          GroupModes,   \* the group modes
          Away          \* the place of an account that is not in the room

Place == [team : Nat, seat : Nat, ready : BOOLEAN]

ASSUME RecordAssumption ==
    /\ IsFiniteSet(Accounts)
    /\ Capacities \subseteq Nat \ {0}
    /\ GameModes \subseteq {"cs", "br"}
    /\ GroupModes \subseteq {"solo", "duo", "squad", "other"}
    /\ Away \notin Place

NUM_TEAMS == 2

Room == [owner : Accounts,
         members : [Accounts -> Place \cup {Away}],
         max_member_num : Capacities,
         game_mode : GameModes,
         group_mode : GroupModes,
         state : {"WAITING", "INGAME"}]

Members(room) == {a \in Accounts : room.members[a] # Away}

CeilDiv(n, d) == (n + d - 1) \div d
Lesser(m, n) == IF m <= n THEN m ELSE n

GetNumTeams(room) ==
    CASE room.game_mode = "cs" -> NUM_TEAMS
      [] room.game_mode # "cs" /\ room.group_mode = "solo" -> Lesser(room.max_member_num, 48)
      [] room.game_mode # "cs" /\ room.group_mode = "duo" -> Lesser(CeilDiv(room.max_member_num, 2), 24)
      [] room.game_mode # "cs" /\ room.group_mode = "squad" -> Lesser(CeilDiv(room.max_member_num, 4), 12)
      [] OTHER -> NUM_TEAMS

PerTeamCap(room) ==
    CASE room.game_mode # "cs" /\ room.group_mode = "solo" -> 1
      [] room.game_mode # "cs" /\ room.group_mode = "duo" -> 2
      [] room.game_mode # "cs" /\ room.group_mode = "squad" -> 4
      [] OTHER -> CeilDiv(room.max_member_num, NUM_TEAMS)

TeamMembers(room, team) == {a \in Members(room) : room.members[a].team = team}

\* The team with the fewest members, the first one on a tie.
PickTeam(room) ==
    LET size(t) == Cardinality(TeamMembers(room, t))
    IN  CHOOSE t \in 1..GetNumTeams(room) :
            \A u \in 1..GetNumTeams(room) : size(t) < size(u) \/ (size(t) = size(u) /\ t <= u)

TakenSeats(room, team) == {room.members[a].seat : a \in TeamMembers(room, team)}
FreeSeats(room, team) == (0..PerTeamCap(room) - 1) \ TakenSeats(room, team)

\* The lowest free seat.  A full team answers -1, which join turns into seat 0.
FreeSeat(room, team) ==
    LET free == FreeSeats(room, team)
    IN  IF free = {} THEN 0 ELSE CHOOSE s \in free : \A u \in free : s <= u

-----------------------------------------------------------------------------
(* One pair of operators per operation: its checks, and the saved record.  *)

NewRoom(host, max, game, group) ==
    [owner |-> host,
     members |-> [a \in Accounts |->
                    IF a = host THEN [team |-> 1, seat |-> 0, ready |-> FALSE] ELSE Away],
     max_member_num |-> max, game_mode |-> game, group_mode |-> group,
     state |-> "WAITING"]

\* Mutant: counts the members with an off-by-one.
CanJoinOneMore(room, a) ==
    /\ room.state = "WAITING"
    /\ a \notin Members(room)
    /\ Cardinality(Members(room)) <= room.max_member_num

CanJoin(room, a) ==
    /\ room.state = "WAITING"
    /\ a \notin Members(room)
    /\ Cardinality(Members(room)) < room.max_member_num

Joined(room, a) ==
    LET team == PickTeam(room)
    IN  [room EXCEPT !.members[a] = [team |-> team, seat |-> FreeSeat(room, team), ready |-> FALSE]]

Without(room, a) == [room EXCEPT !.members[a] = Away]

\* Mutant: an owner who leaves hands nothing over.
DismissesWhenLast(room, a) == Cardinality(Members(room)) <= 1

\* leave dismisses the room when its owner leaves, or its last member.
Dismisses(room, a) == room.owner = a \/ Cardinality(Members(room)) <= 1

CanKick(room, a, target) ==
    room.owner = a /\ target # a /\ target \in Members(room)

CanChange(room, a) == room.owner = a /\ room.state = "WAITING"

\* Mutant: an unset max_member_num is taken as it is.
ChangedToUnset(room, max, game) == [room EXCEPT !.max_member_num = 0, !.game_mode = game]

\* Members stay where they are, whatever the new size and mode.
Changed(room, max, game) == [room EXCEPT !.max_member_num = max, !.game_mode = game]

CanSetReady(room, a) == a \in Members(room)

WithReady(room, a, ready) == [room EXCEPT !.members[a].ready = ready]

\* Mutant: the occupied check is missing.
CanSwitchToTaken(room, a, team, seat) ==
    room.state = "WAITING" /\ a \in Members(room)

\* Mutant: the state check is missing.
CanSwitchInGame(room, a, team, seat) ==
    /\ a \in Members(room)
    /\ \A m \in Members(room) \ {a} : ~(room.members[m].team = team /\ room.members[m].seat = seat)

CanSwitchSeat(room, a, team, seat) ==
    /\ room.state = "WAITING"
    /\ a \in Members(room)
    /\ team \in 1..NUM_TEAMS
    /\ seat \in 0..PerTeamCap(room) - 1
    /\ \A m \in Members(room) \ {a} : ~(room.members[m].team = team /\ room.members[m].seat = seat)

Switched(room, a, team, seat) ==
    [room EXCEPT !.members[a].team = team, !.members[a].seat = seat]

CanStart(room, a) == room.owner = a /\ room.state = "WAITING"
Started(room) == [room EXCEPT !.state = "INGAME"]

CanReopen(room) == room.state = "INGAME"
Reopened(room) == [room EXCEPT !.state = "WAITING"]

\* The members toRoomInfo gives a seat of their own: a team above getNumTeams
\* is not emitted, and in a team larger than perTeamCap the overflow
\* overwrites seat 0.
EverySeatShown(room) ==
    \A a \in Members(room) :
        /\ room.members[a].team \in 1..GetNumTeams(room)
        /\ Cardinality(TeamMembers(room, room.members[a].team)) <= PerTeamCap(room)
=============================================================================
