-------------------------- MODULE CustomRoomsProofs --------------------------
(***************************************************************************)
(* The custom rooms, for any accounts, connections, rooms, faults and      *)
(* capacities: what the rules do to a record, what the rooms of RoomRules  *)
(* are, what the store is as the gateways run it, and that the store       *)
(* implements the rules as long as no lease lapses.                        *)
(***************************************************************************)
EXTENDS CustomRooms, FiniteSetTheorems, FunctionTheorems, WellFoundedInduction, TLAPS

-----------------------------------------------------------------------------
(* What the rules of RoomRecord do to a record, for all records.           *)

\* A non-empty set of naturals has a least element.
LEMMA LeastNat ==
    ASSUME NEW S, S \subseteq Nat, S # {}
    PROVE  \E x \in S : \A y \in S : x <= y
<1> DEFINE R == OpToRel(<, Nat)
<1>1. IsWellFoundedOn(R, Nat)
  BY NatLessThanWellFounded
<1>2. PICK x \in S : \A y \in S : <<y, x>> \notin R
  <2> HIDE DEF R
  <2> QED BY <1>1, WFMin
<1>3. \A y \in S : ~(y < x)
  BY <1>2 DEF OpToRel
<1> HIDE DEF R
<1>4. \A y \in S : x <= y
  BY <1>3
<1>5. QED
  BY <1>4

\* The teams of a record are finite, and every mode has at least one team and
\* one seat per team.
LEMMA TeamsFinite ==
    ASSUME NEW room \in Room, NEW t
    PROVE  /\ IsFiniteSet(TeamMembers(room, t))
           /\ Cardinality(TeamMembers(room, t)) \in Nat
<1>1. TeamMembers(room, t) \subseteq Accounts
  BY DEF TeamMembers, Members
<1>2. QED
  BY <1>1, RecordAssumption, FS_Subset, FS_CardinalityType

\* A room has a team at least, and a seat in each.
LEMMA SizesPositive ==
    ASSUME NEW room \in Room
    PROVE  GetNumTeams(room) \in Nat \ {0} /\ PerTeamCap(room) \in Nat \ {0}
<1>1. room.max_member_num \in Nat \ {0}
  BY RecordAssumption DEF Room
<1>2. \A n \in Nat \ {0} : CeilDiv(n, 2) \in Nat \ {0} /\ CeilDiv(n, 4) \in Nat \ {0}
  BY DEF CeilDiv
<1>3. \A m, n \in Nat \ {0} : Lesser(m, n) \in Nat \ {0}
  BY DEF Lesser
<1>4. CASE room.game_mode = "cs"
  BY <1>1, <1>2, <1>4 DEF GetNumTeams, PerTeamCap, NUM_TEAMS
<1>5. CASE room.game_mode # "cs" /\ room.group_mode = "solo"
  BY <1>1, <1>3, <1>5 DEF GetNumTeams, PerTeamCap
<1>6. CASE room.game_mode # "cs" /\ room.group_mode = "duo"
  BY <1>1, <1>2, <1>3, <1>6 DEF GetNumTeams, PerTeamCap
<1>7. CASE room.game_mode # "cs" /\ room.group_mode = "squad"
  BY <1>1, <1>2, <1>3, <1>7 DEF GetNumTeams, PerTeamCap
<1>8. CASE room.game_mode # "cs" /\ room.group_mode \notin {"solo", "duo", "squad"}
  BY <1>1, <1>2, <1>8 DEF GetNumTeams, PerTeamCap, NUM_TEAMS
<1>9. QED
  BY <1>4, <1>5, <1>6, <1>7, <1>8

\* pickTeam answers one of the room's teams, and none is smaller.
LEMMA PickTeamIsSmallest ==
    ASSUME NEW room \in Room
    PROVE  /\ PickTeam(room) \in 1..GetNumTeams(room)
           /\ \A u \in 1..GetNumTeams(room) :
                 Cardinality(TeamMembers(room, PickTeam(room))) <= Cardinality(TeamMembers(room, u))
<1> DEFINE N == GetNumTeams(room)
           size(t) == Cardinality(TeamMembers(room, t))
           Sizes == {size(t) : t \in 1..N}
           Smallest == {t \in 1..N : \A u \in 1..N : size(t) <= size(u)}
           First(t) == \A u \in 1..N : size(t) < size(u) \/ (size(t) = size(u) /\ t <= u)
<1>1. \A t : size(t) \in Nat
  BY TeamsFinite
<1>2. N \in Nat \ {0}
  BY SizesPositive
<1>3. PickTeam(room) = CHOOSE t \in 1..N : First(t)
  BY DEF PickTeam
<1> HIDE DEF N, size
<1>4. Smallest # {}
  <2>1. Sizes \subseteq Nat /\ Sizes # {}
    BY <1>1, <1>2
  <2>2. PICK least \in Sizes : \A n \in Sizes : least <= n
    <3> HIDE DEF Sizes
    <3> QED BY <2>1, LeastNat
  <2>3. QED
    BY <2>2
<1>5. \E t \in 1..N : First(t)
  <2>1. Smallest \subseteq Nat
    BY <1>2
  <2>2. PICK t \in Smallest : \A u \in Smallest : t <= u
    <3> HIDE DEF Smallest
    <3> QED BY <1>4, <2>1, LeastNat
  <2>3. \A u \in 1..N : size(t) = size(u) => u \in Smallest
    BY <2>2
  <2>4. \A u \in 1..N : size(t) <= size(u)
    BY <2>2
  <2>5. First(t)
    BY <1>1, <2>2, <2>3, <2>4
  <2>6. QED
    BY <2>2, <2>5
<1>6. PickTeam(room) \in 1..N /\ First(PickTeam(room))
  <2> HIDE DEF First
  <2> QED BY <1>3, <1>5
<1>7. \A u \in 1..N : size(PickTeam(room)) <= size(u)
  BY <1>1, <1>6
<1>8. QED
  BY <1>6, <1>7 DEF N, size

\* A seat is a number.
LEMMA FreeSeatType ==
    ASSUME NEW room \in Room, NEW t
    PROVE  FreeSeat(room, t) \in Nat
<1> DEFINE free == FreeSeats(room, t)
<1>1. free \subseteq Nat
  BY SizesPositive DEF FreeSeats
<1>2. CASE free = {}
  BY <1>2 DEF FreeSeat
<1>3. CASE free # {}
  <2>1. \E s \in free : \A u \in free : s <= u
    <3> HIDE DEF free
    <3> QED BY <1>1, <1>3, LeastNat
  <2>2. FreeSeat(room, t) = CHOOSE s \in free : \A u \in free : s <= u
    BY <1>3 DEF FreeSeat
  <2>3. FreeSeat(room, t) \in free
    <3> HIDE DEF free
    <3> QED BY <2>1, <2>2
  <2>4. QED
    BY <1>1, <2>3
<1>4. QED
  BY <1>2, <1>3

-----------------------------------------------------------------------------
(* One operation on a record that stays saved, as RoomRules.Operate runs it. *)

Legal(old, new) ==
    \E a \in Accounts :
        \/ CanJoin(old, a) /\ new = Joined(old, a)
        \/ ~Dismisses(old, a) /\ new = Without(old, a)
        \/ \E t \in Accounts : CanKick(old, a, t) /\ new = Without(old, t)
        \/ \E max \in Capacities, game \in GameModes :
              CanChange(old, a) /\ new = Changed(old, max, game)
        \/ \E ready \in BOOLEAN : CanSetReady(old, a) /\ new = WithReady(old, a, ready)
        \/ \E team \in 1..NUM_TEAMS, seat \in 0..PerTeamCap(old) - 1 :
              CanSwitchSeat(old, a, team, seat) /\ new = Switched(old, a, team, seat)
        \/ CanStart(old, a) /\ new = Started(old)
        \/ CanReopen(old) /\ new = Reopened(old)

\* A new room is a record that lists its owner.
LEMMA NewRoomType ==
    ASSUME NEW a \in Accounts, NEW max \in Capacities, NEW game \in GameModes,
           NEW group \in GroupModes
    PROVE  LET room == NewRoom(a, max, game, group)
           IN  room \in Room /\ room.owner \in Members(room)
<1> DEFINE seated == [team |-> 1, seat |-> 0, ready |-> FALSE]
           places == [m \in Accounts |-> IF m = a THEN seated ELSE Away]
<1>1. seated \in Place
  BY DEF Place
<1>2. seated # Away
  BY <1>1, RecordAssumption
<1>3. places \in [Accounts -> Place \cup {Away}] /\ places[a] # Away
  BY <1>1, <1>2
<1>4. NewRoom(a, max, game, group) =
        [owner |-> a, members |-> places, max_member_num |-> max, game_mode |-> game,
         group_mode |-> group, state |-> "WAITING"]
  BY DEF NewRoom
<1> HIDE DEF places
<1>5. QED
  BY <1>3, <1>4 DEF Room, Members

\* Every operation keeps the record a record and its owner a member.
LEMMA LegalKeepsRoom ==
    ASSUME NEW old \in Room, NEW new, Legal(old, new), old.owner \in Members(old)
    PROVE  new \in Room /\ new.owner \in Members(new)
<1> USE RecordAssumption
<1>1. PICK a \in Accounts :
        \/ CanJoin(old, a) /\ new = Joined(old, a)
        \/ ~Dismisses(old, a) /\ new = Without(old, a)
        \/ \E t \in Accounts : CanKick(old, a, t) /\ new = Without(old, t)
        \/ \E max \in Capacities, game \in GameModes :
              CanChange(old, a) /\ new = Changed(old, max, game)
        \/ \E ready \in BOOLEAN : CanSetReady(old, a) /\ new = WithReady(old, a, ready)
        \/ \E team \in 1..NUM_TEAMS, seat \in 0..PerTeamCap(old) - 1 :
              CanSwitchSeat(old, a, team, seat) /\ new = Switched(old, a, team, seat)
        \/ CanStart(old, a) /\ new = Started(old)
        \/ CanReopen(old) /\ new = Reopened(old)
  BY DEF Legal
<1>2. CASE CanJoin(old, a) /\ new = Joined(old, a)
  <2>1. PickTeam(old) \in Nat /\ FreeSeat(old, PickTeam(old)) \in Nat
    BY PickTeamIsSmallest, FreeSeatType, SizesPositive
  <2>2. [team |-> PickTeam(old), seat |-> FreeSeat(old, PickTeam(old)), ready |-> FALSE] \in Place
    BY <2>1 DEF Place
  <2>3. QED
    BY <1>2, <2>2 DEF Joined, Room, Members
<1>3. CASE ~Dismisses(old, a) /\ new = Without(old, a)
  BY <1>3 DEF Dismisses, Without, Room, Members
<1>4. ASSUME NEW t \in Accounts, CanKick(old, a, t), new = Without(old, t)
      PROVE  new \in Room /\ new.owner \in Members(new)
  BY <1>4 DEF CanKick, Without, Room, Members
<1>5. ASSUME NEW max \in Capacities, NEW game \in GameModes, new = Changed(old, max, game)
      PROVE  new \in Room /\ new.owner \in Members(new)
  BY <1>5 DEF Changed, Room, Members
<1>6. ASSUME NEW ready \in BOOLEAN, CanSetReady(old, a), new = WithReady(old, a, ready)
      PROVE  new \in Room /\ new.owner \in Members(new)
  <2>1. old.members[a] \in Place
    BY <1>6 DEF CanSetReady, Members, Room
  <2>2. [old.members[a] EXCEPT !.ready = ready] \in Place
    BY <2>1 DEF Place
  <2>3. new = [old EXCEPT !.members = [old.members EXCEPT ![a] = [old.members[a] EXCEPT !.ready = ready]]]
    BY <1>6 DEF WithReady
  <2>4. QED
    BY <2>2, <2>3 DEF Room, Members
<1>7. ASSUME NEW team \in 1..NUM_TEAMS, NEW seat \in 0..PerTeamCap(old) - 1,
             CanSwitchSeat(old, a, team, seat), new = Switched(old, a, team, seat)
      PROVE  new \in Room /\ new.owner \in Members(new)
  <2> DEFINE place == [[old.members[a] EXCEPT !.team = team] EXCEPT !.seat = seat]
  <2>1. old.members[a] \in Place
    BY <1>7 DEF CanSwitchSeat, Members, Room
  <2>2. team \in Nat /\ seat \in Nat
    BY SizesPositive DEF NUM_TEAMS
  <2>3. place \in Place
    BY <2>1, <2>2 DEF Place
  <2>4. new = [old EXCEPT !.members = [old.members EXCEPT ![a] = place]]
    BY <1>7 DEF Switched, Room
  <2> HIDE DEF place
  <2>5. QED
    BY <2>3, <2>4 DEF Room, Members
<1>8. CASE new = Started(old) \/ new = Reopened(old)
  BY <1>8 DEF Started, Reopened, Room, Members
<1>9. QED
  BY <1>1, <1>2, <1>3, <1>4, <1>5, <1>6, <1>7, <1>8

-----------------------------------------------------------------------------
(* The rooms of RoomRules, changed by whole operations.                    *)

Inv == RecordsOK /\ OwnerInRoom

\* An operation on an existing room is a legal change of its record or its end.
LEMMA OperateCases ==
    ASSUME NEW r \in RoomIds, Operate(r)
    PROVE  \E new : /\ rooms' = [rooms EXCEPT ![r] = new]
                    /\ new = NoRoom \/ Legal(rooms[r], new)
BY DEF Operate, Legal, Becomes, Join, Leave, Dismiss, Kick, Change, SetReady, SwitchSeat,
       StartMatch, Reenter

\* Records stay records, and every room lists its owner.
THEOREM RoomRulesInvariant == RulesSpec => [](RecordsOK /\ OwnerInRoom)
<1>1. RulesInit => Inv
  BY RulesAssumption DEF RulesInit, Inv, RecordsOK, OwnerInRoom, Exists
<1>2. Inv /\ [RulesNext]_rooms => Inv'
  <2> SUFFICES ASSUME Inv, [RulesNext]_rooms PROVE Inv'
    OBVIOUS
  <2> USE DEF Inv, RecordsOK, OwnerInRoom, Exists
  <2>1. CASE UNCHANGED rooms
    BY <2>1
  <2>2. ASSUME NEW r \in RoomIds, Create(r) PROVE Inv'
    <3>1. PICK a \in Accounts, max \in Capacities, game \in GameModes, group \in GroupModes :
            rooms' = [rooms EXCEPT ![r] = NewRoom(a, max, game, group)]
      BY <2>2 DEF Create
    <3> DEFINE new == NewRoom(a, max, game, group)
    <3>2. new \in Room /\ new.owner \in Members(new)
      BY NewRoomType
    <3>3. rooms' = [rooms EXCEPT ![r] = new]
      BY <3>1
    <3> HIDE DEF new
    <3>4. QED
      BY <3>2, <3>3
  <2>3. ASSUME NEW r \in RoomIds, Operate(r) PROVE Inv'
    <3>1. PICK new : /\ rooms' = [rooms EXCEPT ![r] = new]
                     /\ new = NoRoom \/ Legal(rooms[r], new)
      BY <2>3, OperateCases
    <3>2. rooms[r] \in Room /\ rooms[r].owner \in Members(rooms[r])
      BY <2>3 DEF Operate
    <3>3. new = NoRoom \/ (new \in Room /\ new.owner \in Members(new))
      BY <3>1, <3>2, LegalKeepsRoom
    <3>4. QED
      BY <3>1, <3>3
  <2>4. QED
    BY <2>1, <2>2, <2>3 DEF RulesNext
<1>3. Inv => RecordsOK /\ OwnerInRoom
  BY DEF Inv
<1>4. QED
  BY <1>1, <1>2, <1>3, PTL DEF RulesSpec

\* A room in a match is frozen: FrozenInGame, a property of every step.
THEOREM RoomRulesFreeze == RulesSpec => FrozenInGame
<1>1. Inv /\ [RulesNext]_rooms => [\A r \in RoomIds : Exists(r) /\ rooms'[r] # NoRoom /\ rooms[r].state = "INGAME" =>
          /\ Members(rooms'[r]) \subseteq Members(rooms[r])
          /\ \A a \in Members(rooms'[r]) :
                /\ rooms'[r].members[a].team = rooms[r].members[a].team
                /\ rooms'[r].members[a].seat = rooms[r].members[a].seat
          /\ rooms'[r].max_member_num = rooms[r].max_member_num
          /\ rooms'[r].game_mode = rooms[r].game_mode]_rooms
  <2> SUFFICES ASSUME Inv, RulesNext, NEW r \in RoomIds, rooms[r] # NoRoom, rooms'[r] # NoRoom,
                      rooms[r].state = "INGAME"
               PROVE  /\ Members(rooms'[r]) \subseteq Members(rooms[r])
                      /\ \A a \in Members(rooms'[r]) :
                            /\ rooms'[r].members[a].team = rooms[r].members[a].team
                            /\ rooms'[r].members[a].seat = rooms[r].members[a].seat
                      /\ rooms'[r].max_member_num = rooms[r].max_member_num
                      /\ rooms'[r].game_mode = rooms[r].game_mode
    BY DEF Exists
  <2>1. rooms[r] \in Room
    BY DEF Inv, RecordsOK
  <2>2. PICK s \in RoomIds : Create(s) \/ Operate(s)
    BY DEF RulesNext
  <2>3. CASE s # r \/ Create(s)
    <3>1. rooms'[r] = rooms[r]
      BY <2>3, <2>2, OperateCases DEF Create, Inv, RecordsOK
    <3>2. QED
      BY <3>1
  <2>4. CASE s = r /\ Operate(r)
    <3>1. PICK new : /\ rooms' = [rooms EXCEPT ![r] = new]
                     /\ new = NoRoom \/ Legal(rooms[r], new)
      BY <2>4, OperateCases
    <3>2. rooms'[r] = new /\ Legal(rooms[r], new)
      BY <3>1 DEF Inv, RecordsOK
    <3>3. PICK a \in Accounts :
            \/ new = Without(rooms[r], a)
            \/ \E ready \in BOOLEAN : CanSetReady(rooms[r], a) /\ new = WithReady(rooms[r], a, ready)
            \/ new = Reopened(rooms[r])
      BY <3>2 DEF Legal, CanJoin, CanChange, CanSwitchSeat, CanStart
    <3>4. CASE new = Without(rooms[r], a)
      BY <2>1, <3>2, <3>4 DEF Without, Room, Members
    <3>5. ASSUME NEW ready \in BOOLEAN, CanSetReady(rooms[r], a), new = WithReady(rooms[r], a, ready)
          PROVE  /\ Members(new) = Members(rooms[r])
                 /\ \A m \in Members(new) : /\ new.members[m].team = rooms[r].members[m].team
                                            /\ new.members[m].seat = rooms[r].members[m].seat
                 /\ new.max_member_num = rooms[r].max_member_num
                 /\ new.game_mode = rooms[r].game_mode
      <4> DEFINE place == [rooms[r].members[a] EXCEPT !.ready = ready]
      <4>1. rooms[r].members[a] \in Place
        BY <2>1, <3>5 DEF CanSetReady, Members, Room
      <4>2. place \in Place /\ place.team = rooms[r].members[a].team /\ place.seat = rooms[r].members[a].seat
        BY <4>1 DEF Place
      <4>3. place # Away
        BY <4>2, RecordAssumption
      <4>4. new = [rooms[r] EXCEPT !.members = [rooms[r].members EXCEPT ![a] = place]]
        BY <3>5 DEF WithReady
      <4> HIDE DEF place
      <4>5. rooms[r].members[a] # Away
        BY <3>5 DEF CanSetReady, Members
      <4>6. QED
        BY <2>1, <4>2, <4>3, <4>4, <4>5 DEF Room, Members
    <3>6. CASE new = Reopened(rooms[r])
      BY <2>1, <3>2, <3>6 DEF Reopened, Room, Members
    <3>7. QED
      BY <3>2, <3>3, <3>4, <3>5, <3>6
  <2>5. QED
    BY <2>2, <2>3, <2>4
<1>2. QED
  BY <1>1, RoomRulesInvariant, PTL DEF RulesSpec, FrozenInGame, Inv

-----------------------------------------------------------------------------
(* Who sits where.  pickTeam answers a team with the fewest members, so a  *)
(* room with fewer members than its capacity has a free seat in that team: *)
(* the pigeonhole below.                                                   *)

\* No two members of a record share a seat.
SeatsApart(room) ==
    \A a, b \in Members(room) :
        a # b => \/ room.members[a].team # room.members[b].team
                 \/ room.members[a].seat # room.members[b].seat

\* The teams of a record are disjoint, so teams of at least n members each need n
\* members for every team.
LEMMA TeamsAddUp ==
    ASSUME NEW room \in Room, NEW T \in Nat, NEW n \in Nat,
           \A t \in 1..T : n <= Cardinality(TeamMembers(room, t))
    PROVE  T * n <= Cardinality(Members(room))
<1> DEFINE size(t) == Cardinality(TeamMembers(room, t))
           list == [t \in 1..T |-> CHOOSE b \in Bijection(1..size(t), TeamMembers(room, t)) : TRUE]
           Slotted == (1..T) \X (1..n)
           who == [x \in Slotted |-> list[x[1]][x[2]]]
<1>1. IsFiniteSet(Members(room))
  BY RecordAssumption, FS_Subset DEF Members
<1>2. \A t \in 1..T : list[t] \in Bijection(1..size(t), TeamMembers(room, t))
  <2> SUFFICES ASSUME NEW t \in 1..T PROVE list[t] \in Bijection(1..size(t), TeamMembers(room, t))
    OBVIOUS
  <2>1. Bijection(1..size(t), TeamMembers(room, t)) # {}
    BY TeamsFinite, FS_CardinalityType, Fun_ExistsBij
  <2> QED
    BY <2>1
<1>3. \A t \in 1..T : \A i, j \in 1..n :
         /\ list[t][i] \in TeamMembers(room, t)
         /\ i # j => list[t][i] # list[t][j]
  <2> SUFFICES ASSUME NEW t \in 1..T, NEW i \in 1..n, NEW j \in 1..n
               PROVE  /\ list[t][i] \in TeamMembers(room, t)
                      /\ i # j => list[t][i] # list[t][j]
    OBVIOUS
  <2>1. size(t) \in Nat
    BY TeamsFinite
  <2>2. i \in 1..size(t) /\ j \in 1..size(t)
    BY <2>1
  <2> HIDE DEF list
  <2>3. list[t] \in Bijection(1..size(t), TeamMembers(room, t))
    BY <1>2
  <2>4. list[t] \in [1..size(t) -> TeamMembers(room, t)]
        /\ \A x, y \in 1..size(t) : list[t][x] = list[t][y] => x = y
    BY <2>3 DEF Bijection, Injection, IsInjective
  <2> HIDE DEF size
  <2> QED
    BY <2>2, <2>4
<1>4. who \in Injection(Slotted, Members(room))
  <2> HIDE DEF list
  <2>1. \A x \in Slotted : who[x] \in Members(room) /\ room.members[who[x]].team = x[1]
    BY <1>3 DEF TeamMembers
  <2>2. \A x, y \in Slotted : who[x] = who[y] => x = y
    <3> SUFFICES ASSUME NEW x \in Slotted, NEW y \in Slotted, who[x] = who[y] PROVE x = y
      OBVIOUS
    <3>1. x[1] = y[1]
      BY <2>1
    <3>2. x[2] = y[2]
      BY <1>3, <3>1
    <3> QED
      BY <3>1, <3>2
  <2>3. who \in [Slotted -> Members(room)]
    BY <2>1
  <2> HIDE DEF who, Slotted
  <2> QED
    BY <2>2, <2>3 DEF Injection, IsInjective
<1>5. Cardinality(Slotted) <= Cardinality(Members(room))
  <2> HIDE DEF who, Slotted
  <2> QED
    BY <1>1, <1>4, FS_Injection
<1>6. Cardinality(Slotted) = T * n
  <2>1. IsFiniteSet(1..T) /\ IsFiniteSet(1..n) /\ Cardinality(1..T) = T /\ Cardinality(1..n) = n
    BY FS_Interval
  <2>2. Cardinality((1..T) \X (1..n)) = Cardinality(1..T) * Cardinality(1..n)
    BY <2>1, FS_Product
  <2> QED
    BY <2>1, <2>2
<1> QED
  BY <1>5, <1>6

\* The teams of a record have a seat for everybody the room takes, up to the 48 players
\* the clamps of getNumTeams stop at.
LEMMA SeatsForAll ==
    ASSUME NEW room \in Room, room.max_member_num <= 48
    PROVE  room.max_member_num <= GetNumTeams(room) * PerTeamCap(room)
<1> DEFINE max == room.max_member_num
<1>1. max \in 1..48 /\ room.group_mode \in {"solo", "duo", "squad", "other"}
  <2>1. max \in Nat \ {0} /\ room.group_mode \in GroupModes
    BY RecordAssumption DEF Room
  <2>2. room.group_mode \in {"solo", "duo", "squad", "other"}
    BY <2>1, RecordAssumption
  <2>3. max \in 1..48
    BY <2>1
  <2> QED
    BY <2>2, <2>3
<1> HIDE DEF max
<1>2. CeilDiv(max, 2) \in Nat /\ CeilDiv(max, 4) \in Nat
      /\ max <= CeilDiv(max, 2) * 2 /\ max <= CeilDiv(max, 4) * 4
      /\ CeilDiv(max, 2) <= 24 /\ CeilDiv(max, 4) <= 12
  BY <1>1 DEF CeilDiv
<1>3. Lesser(max, 48) = max /\ Lesser(CeilDiv(max, 2), 24) = CeilDiv(max, 2)
      /\ Lesser(CeilDiv(max, 4), 12) = CeilDiv(max, 4)
  BY <1>1, <1>2 DEF Lesser
<1>4. CASE room.game_mode = "cs" \/ room.group_mode = "other"
  <2>1. GetNumTeams(room) = 2 /\ PerTeamCap(room) = CeilDiv(max, 2)
    BY <1>4 DEF GetNumTeams, PerTeamCap, NUM_TEAMS, max
  <2> QED
    BY <1>1, <1>2, <2>1 DEF max
<1>5. CASE room.game_mode # "cs" /\ room.group_mode = "solo"
  <2>1. GetNumTeams(room) = max /\ PerTeamCap(room) = 1
    BY <1>3, <1>5 DEF GetNumTeams, PerTeamCap, max
  <2> QED
    BY <1>1, <2>1 DEF max
<1>6. CASE room.game_mode # "cs" /\ room.group_mode = "duo"
  <2>1. GetNumTeams(room) = CeilDiv(max, 2) /\ PerTeamCap(room) = 2
    BY <1>3, <1>6 DEF GetNumTeams, PerTeamCap, max
  <2> QED
    BY <1>1, <1>2, <2>1 DEF max
<1>7. CASE room.game_mode # "cs" /\ room.group_mode = "squad"
  <2>1. GetNumTeams(room) = CeilDiv(max, 4) /\ PerTeamCap(room) = 4
    BY <1>3, <1>7 DEF GetNumTeams, PerTeamCap, max
  <2> QED
    BY <1>1, <1>2, <2>1 DEF max
<1> QED
  BY <1>1, <1>4, <1>5, <1>6, <1>7

\* A seat freeSeat answers is free, when the team has a free one.
LEMMA FreeSeatIsFree ==
    ASSUME NEW room \in Room, NEW t, FreeSeats(room, t) # {}
    PROVE  FreeSeat(room, t) \in FreeSeats(room, t)
<1> DEFINE free == FreeSeats(room, t)
<1>1. free \subseteq Nat
  BY SizesPositive DEF FreeSeats
<1>2. FreeSeat(room, t) = CHOOSE s \in free : \A u \in free : s <= u
  BY DEF FreeSeat
<1> HIDE DEF free
<1>3. \E s \in free : \A u \in free : s <= u
  BY <1>1, LeastNat DEF free
<1> QED
  BY <1>2, <1>3 DEF free

\* The team pickTeam chooses has a free seat as long as the room takes another member.
LEMMA PickedTeamHasASeat ==
    ASSUME NEW room \in Room, room.max_member_num <= 48,
           Cardinality(Members(room)) < room.max_member_num
    PROVE  FreeSeats(room, PickTeam(room)) # {}
<1> DEFINE p == PickTeam(room)
           team == TeamMembers(room, p)
           N == GetNumTeams(room)
           cap == PerTeamCap(room)
           seat == [a \in team |-> room.members[a].seat]
<1> SUFFICES ASSUME FreeSeats(room, p) = {} PROVE FALSE
  OBVIOUS
<1>1. N \in Nat \ {0} /\ cap \in Nat \ {0}
  BY SizesPositive
<1>2. 0..cap - 1 \subseteq TakenSeats(room, p)
  BY DEF FreeSeats
<1>3. cap <= Cardinality(team)
  <2>1. seat \in Surjection(team, TakenSeats(room, p))
    BY DEF Surjection, TakenSeats
  <2>2. IsFiniteSet(team) /\ Cardinality(team) \in Nat
    BY TeamsFinite
  <2> HIDE DEF seat, team
  <2>3. IsFiniteSet(TakenSeats(room, p)) /\ Cardinality(TakenSeats(room, p)) <= Cardinality(team)
    BY <2>1, <2>2, FS_Surjection
  <2>4. Cardinality(0..cap - 1) <= Cardinality(TakenSeats(room, p))
    BY <1>2, <2>3, FS_Subset
  <2>5. Cardinality(0..cap - 1) = cap
    <3> HIDE DEF cap
    <3>1. cap - 1 \in Int /\ ~(0 > cap - 1)
      BY <1>1
    <3> QED
      BY <1>1, <3>1, FS_Interval
  <2>6. Cardinality(TakenSeats(room, p)) \in Nat
    BY <2>3, FS_CardinalityType
  <2> QED
    BY <1>1, <2>2, <2>4, <2>5, <2>3, <2>6
<1>4. \A t \in 1..N : cap <= Cardinality(TeamMembers(room, t))
  <2> SUFFICES ASSUME NEW t \in 1..N PROVE cap <= Cardinality(TeamMembers(room, t))
    OBVIOUS
  <2>1. Cardinality(team) <= Cardinality(TeamMembers(room, t))
    BY PickTeamIsSmallest
  <2>2. Cardinality(team) \in Nat /\ Cardinality(TeamMembers(room, t)) \in Nat
    BY TeamsFinite
  <2> HIDE DEF team, cap
  <2> QED
    BY <1>1, <1>3, <2>1, <2>2
<1>5. N * cap <= Cardinality(Members(room))
  <2> HIDE DEF cap, N
  <2> QED
    BY <1>1, <1>4, TeamsAddUp
<1>6. room.max_member_num <= N * cap
  BY SeatsForAll
<1>7. Cardinality(Members(room)) \in Nat /\ room.max_member_num \in Nat
  BY RecordAssumption, FS_Subset, FS_CardinalityType DEF Members, Room
<1>8. N * cap \in Nat
  BY <1>1
<1> HIDE DEF N, cap
<1> QED
  BY <1>5, <1>6, <1>7, <1>8

\* Every operation keeps the members of a record on seats of their own.
LEMMA LegalKeepsSeats ==
    ASSUME NEW old \in Room, NEW new, Legal(old, new), SeatsApart(old), old.max_member_num <= 48
    PROVE  SeatsApart(new)
<1>1. PICK a \in Accounts :
        \/ CanJoin(old, a) /\ new = Joined(old, a)
        \/ \E t \in Accounts : new = Without(old, t)
        \/ \E max \in Capacities, game \in GameModes : new = Changed(old, max, game)
        \/ \E ready \in BOOLEAN : CanSetReady(old, a) /\ new = WithReady(old, a, ready)
        \/ \E team \in 1..NUM_TEAMS, seat \in 0..PerTeamCap(old) - 1 :
              CanSwitchSeat(old, a, team, seat) /\ new = Switched(old, a, team, seat)
        \/ new = Started(old)
        \/ new = Reopened(old)
  BY DEF Legal
<1>2. CASE CanJoin(old, a) /\ new = Joined(old, a)
  <2> DEFINE p == PickTeam(old)
             place == [team |-> p, seat |-> FreeSeat(old, p), ready |-> FALSE]
  <2>1. FreeSeat(old, p) \in FreeSeats(old, p)
    BY <1>2, PickedTeamHasASeat, FreeSeatIsFree DEF CanJoin
  <2>2. \A m \in Members(old) : old.members[m].team = p => old.members[m].seat # FreeSeat(old, p)
    BY <2>1 DEF FreeSeats, TakenSeats, TeamMembers
  <2>3. new = [old EXCEPT !.members = [old.members EXCEPT ![a] = place]]
    BY <1>2 DEF Joined
  <2>4. place.team = p /\ place.seat = FreeSeat(old, p)
    OBVIOUS
  <2> HIDE DEF p, place
  <2>5. \A m \in Members(new) : m \in Members(old) \/ m = a
    BY <2>3 DEF Members, Room
  <2>6. \A m \in Accounts \ {a} : new.members[m] = old.members[m]
    BY <2>3 DEF Room
  <2>7. new.members[a] = place
    BY <2>3 DEF Room
  <2>8. Members(new) \subseteq Accounts
    BY DEF Members
  <2> QED
    BY <2>2, <2>4, <2>5, <2>6, <2>7, <2>8 DEF SeatsApart
<1>3. ASSUME NEW t \in Accounts, new = Without(old, t) PROVE SeatsApart(new)
  <2>1. \A m \in Members(new) : m \in Members(old) /\ new.members[m] = old.members[m]
    BY <1>3 DEF Without, Members, Room
  <2> QED
    BY <2>1 DEF SeatsApart
<1>4. CASE new.members = old.members
  BY <1>4 DEF SeatsApart, Members
<1>5. ASSUME NEW max \in Capacities, NEW game \in GameModes,
             new = Changed(old, max, game) \/ new = Started(old) \/ new = Reopened(old)
      PROVE  new.members = old.members
  BY <1>5 DEF Changed, Started, Reopened, Room
<1>6. ASSUME NEW ready \in BOOLEAN, CanSetReady(old, a), new = WithReady(old, a, ready)
      PROVE  SeatsApart(new)
  <2>1. old.members[a] \in Place
    BY <1>6 DEF CanSetReady, Members, Room
  <2>2. new = [old EXCEPT !.members = [old.members EXCEPT ![a] = [old.members[a] EXCEPT !.ready = ready]]]
    BY <1>6 DEF WithReady
  <2>3. \A m \in Members(new) : /\ m \in Members(old)
                                /\ new.members[m].team = old.members[m].team
                                /\ new.members[m].seat = old.members[m].seat
    BY <1>6, <2>1, <2>2 DEF Members, Room, Place, CanSetReady
  <2> QED
    BY <2>3 DEF SeatsApart
<1>7. ASSUME NEW team \in 1..NUM_TEAMS, NEW seat \in 0..PerTeamCap(old) - 1,
             CanSwitchSeat(old, a, team, seat), new = Switched(old, a, team, seat)
      PROVE  SeatsApart(new)
  <2> DEFINE place == [[old.members[a] EXCEPT !.team = team] EXCEPT !.seat = seat]
  <2>1. old.members[a] \in Place
    BY <1>7 DEF CanSwitchSeat, Members, Room
  <2>2. place.team = team /\ place.seat = seat
    BY <2>1 DEF Place
  <2>3. new = [old EXCEPT !.members = [old.members EXCEPT ![a] = place]]
    BY <1>7 DEF Switched, Room
  <2> HIDE DEF place
  <2>4. \A m \in Members(new) \ {a} : m \in Members(old) /\ new.members[m] = old.members[m]
    BY <2>3 DEF Members, Room
  <2>5. new.members[a] = place
    BY <2>3 DEF Room
  <2>6. \A m \in Members(old) \ {a} : ~(old.members[m].team = team /\ old.members[m].seat = seat)
    BY <1>7 DEF CanSwitchSeat
  <2> QED
    BY <2>2, <2>4, <2>5, <2>6 DEF SeatsApart
<1>8. CASE new = Started(old) \/ new = Reopened(old)
  BY <1>4, <1>8 DEF Started, Reopened, Room
<1> QED
  BY <1>1, <1>2, <1>3, <1>4, <1>5, <1>6, <1>7, <1>8

\* In rooms of at most 48 players no two members share a seat, and the records stay
\* records, whatever operations follow each other (join, switchSeat, change).  A host may
\* ask for more than 48: then the clamps of getNumTeams leave members without a seat.
THEOREM RecordsStaySound ==
    ASSUME \A max \in Capacities : max <= 48
    PROVE  RulesSpec => []RecordsSound
<1>0. \A room \in Room : room.max_member_num <= 48
  BY DEF Room
<1>1. RulesInit => SeatsDistinct
  BY DEF RulesInit, SeatsDistinct, Exists
<1>2. RecordsOK /\ OwnerInRoom /\ SeatsDistinct /\ [RulesNext]_rooms => SeatsDistinct'
  <2> SUFFICES ASSUME RecordsOK, SeatsDistinct, [RulesNext]_rooms PROVE SeatsDistinct'
    OBVIOUS
  <2>1. SeatsDistinct <=> \A r \in RoomIds : rooms[r] # NoRoom => SeatsApart(rooms[r])
    BY DEF SeatsDistinct, SeatsApart, Exists
  <2>2. SeatsDistinct' <=> \A r \in RoomIds : rooms'[r] # NoRoom => SeatsApart(rooms'[r])
    BY DEF SeatsDistinct, SeatsApart, Exists
  <2>3. CASE UNCHANGED rooms
    BY <2>1, <2>2, <2>3
  <2>4. ASSUME NEW r \in RoomIds, NEW new, rooms' = [rooms EXCEPT ![r] = new],
               new # NoRoom => SeatsApart(new)
        PROVE  SeatsDistinct'
    BY <2>1, <2>2, <2>4 DEF RecordsOK
  <2>5. ASSUME NEW r \in RoomIds, Create(r) PROVE SeatsDistinct'
    <3>1. PICK a \in Accounts, max \in Capacities, game \in GameModes, group \in GroupModes :
            rooms' = [rooms EXCEPT ![r] = NewRoom(a, max, game, group)]
      BY <2>5 DEF Create
    <3>2. Members(NewRoom(a, max, game, group)) \subseteq {a}
      BY DEF Members, NewRoom
    <3>3. SeatsApart(NewRoom(a, max, game, group))
      BY <3>2 DEF SeatsApart
    <3> QED
      BY <2>4, <3>1, <3>3
  <2>6. ASSUME NEW r \in RoomIds, Operate(r) PROVE SeatsDistinct'
    <3>1. PICK new : /\ rooms' = [rooms EXCEPT ![r] = new]
                     /\ new = NoRoom \/ Legal(rooms[r], new)
      BY <2>6, OperateCases
    <3>2. rooms[r] \in Room /\ SeatsApart(rooms[r])
      BY <2>1, <2>6 DEF Operate, RecordsOK
    <3>3. new # NoRoom => SeatsApart(new)
      BY <1>0, <3>1, <3>2, LegalKeepsSeats
    <3> QED
      BY <2>4, <3>1, <3>3
  <2> QED
    BY <2>3, <2>5, <2>6 DEF RulesNext
<1> QED
  BY <1>1, <1>2, RoomRulesInvariant, PTL DEF RulesSpec, RecordsSound

\* JOIN is the only operation that grows a room, and it looks at the capacity the room
\* has then: no room grows past it.
THEOREM RoomsGrowWithinCapacity == RulesSpec => JoinWithinCapacity
<1>1. RecordsOK /\ OwnerInRoom /\ [RulesNext]_rooms =>
        [\A r \in RoomIds : Exists(r) /\ rooms'[r] # NoRoom =>
          \/ Members(rooms'[r]) \subseteq Members(rooms[r])
          \/ Cardinality(Members(rooms'[r])) <= rooms[r].max_member_num]_rooms
  <2> SUFFICES ASSUME RecordsOK, RulesNext, NEW r \in RoomIds, rooms[r] # NoRoom, rooms'[r] # NoRoom
               PROVE  \/ Members(rooms'[r]) \subseteq Members(rooms[r])
                      \/ Cardinality(Members(rooms'[r])) <= rooms[r].max_member_num
    BY DEF Exists
  <2>1. rooms[r] \in Room
    BY DEF RecordsOK
  <2>2. PICK s \in RoomIds : Create(s) \/ Operate(s)
    BY DEF RulesNext
  <2>3. CASE s # r \/ Create(s)
    <3>1. rooms'[r] = rooms[r]
      BY <2>3, <2>2, OperateCases DEF Create, RecordsOK
    <3> QED
      BY <3>1
  <2>4. CASE s = r /\ Operate(r)
    <3>1. PICK new : /\ rooms' = [rooms EXCEPT ![r] = new]
                     /\ new = NoRoom \/ Legal(rooms[r], new)
      BY <2>4, OperateCases
    <3>2. rooms'[r] = new /\ Legal(rooms[r], new)
      BY <3>1 DEF RecordsOK
    <3>3. PICK a \in Accounts :
            \/ CanJoin(rooms[r], a) /\ new = Joined(rooms[r], a)
            \/ \E t \in Accounts : new = Without(rooms[r], t)
            \/ new.members = rooms[r].members
            \/ \E ready \in BOOLEAN : CanSetReady(rooms[r], a) /\ new = WithReady(rooms[r], a, ready)
            \/ \E team \in 1..NUM_TEAMS, seat \in 0..PerTeamCap(rooms[r]) - 1 :
                  CanSwitchSeat(rooms[r], a, team, seat) /\ new = Switched(rooms[r], a, team, seat)
      BY <2>1, <3>2 DEF Legal, Changed, Started, Reopened, Room
    <3>4. CASE CanJoin(rooms[r], a) /\ new = Joined(rooms[r], a)
      <4>1. Members(new) \subseteq Members(rooms[r]) \cup {a}
        BY <2>1, <3>4 DEF Joined, Members, Room
      <4>2. IsFiniteSet(Members(rooms[r]))
        BY RecordAssumption, FS_Subset DEF Members
      <4>3. /\ IsFiniteSet(Members(rooms[r]) \cup {a})
            /\ Cardinality(Members(rooms[r]) \cup {a}) = Cardinality(Members(rooms[r])) + 1
        BY <3>4, <4>2, FS_AddElement DEF CanJoin
      <4>4. Cardinality(Members(new)) <= Cardinality(Members(rooms[r]) \cup {a})
            /\ Cardinality(Members(new)) \in Nat
        BY <4>1, <4>3, FS_Subset, FS_CardinalityType
      <4>5. Cardinality(Members(rooms[r])) \in Nat /\ rooms[r].max_member_num \in Nat
        BY <2>1, <4>2, FS_CardinalityType, RecordAssumption DEF Room
      <4> QED
        BY <3>2, <3>4, <4>3, <4>4, <4>5 DEF CanJoin
    <3>5. ASSUME NEW t \in Accounts, new = Without(rooms[r], t) PROVE Members(new) \subseteq Members(rooms[r])
      BY <2>1, <3>5 DEF Without, Members, Room
    <3>6. CASE new.members = rooms[r].members
      BY <3>2, <3>6 DEF Members
    <3>7. ASSUME NEW ready \in BOOLEAN, CanSetReady(rooms[r], a), new = WithReady(rooms[r], a, ready)
          PROVE  Members(new) \subseteq Members(rooms[r])
      BY <2>1, <3>7 DEF WithReady, CanSetReady, Members, Room
    <3>8. ASSUME NEW team \in 1..NUM_TEAMS, NEW seat \in 0..PerTeamCap(rooms[r]) - 1,
                 CanSwitchSeat(rooms[r], a, team, seat), new = Switched(rooms[r], a, team, seat)
          PROVE  Members(new) \subseteq Members(rooms[r])
      BY <2>1, <3>8 DEF Switched, CanSwitchSeat, Members, Room
    <3> QED
      BY <3>2, <3>3, <3>4, <3>5, <3>6, <3>7, <3>8
  <2> QED
    BY <2>2, <2>3, <2>4
<1> QED
  BY <1>1, RoomRulesInvariant, PTL DEF RulesSpec, JoinWithinCapacity

-----------------------------------------------------------------------------
(* The store as the gateways run it, whatever lapses, fails or crashes.    *)

Listed(record) == record # NoRoom => record.owner \in Members(record)

\* Every record in Redis or in the memory of a request lists its owner, and a
\* request knows its room from the moment it starts.
Shape ==
    /\ TypeOK
    /\ \A r \in RoomIds : Listed(rooms[r])
    /\ \A q \in Requests :
          /\ Listed(loaded[q]) /\ Listed(draft[q])
          /\ pc[q] # "idle" => target[q] \in RoomIds
          /\ pc[q] = "idle" => op[q] = "none"
          /\ op[q] = "create" => pc[q] \in {"idle", "save", "index"}

Loading(q) ==
    \/ JoinLoad(q) \/ KickLoad(q) \/ ChangeLoad(q) \/ SetReadyLoad(q)
    \/ SwitchSeatLoad(q) \/ StartLoad(q) \/ ReenterLoad(q)

\* Every operation either refuses or prepares a legal change of what it loaded.
LEMMA LoadCases ==
    ASSUME Shape, NEW q \in Requests, Loading(q)
    PROVE  /\ pc[q] = "load" /\ op[q] \notin {"create", "leave"}
           /\ \/ Refuse(q)
              \/ /\ Present(q)
                 /\ \E record, left : /\ left \subseteq Accounts
                                      /\ Legal(rooms[target[q]], record)
                                      /\ Accept(q, record, left)
<1>1. Caller(q) \in Accounts
  BY DEF Requests, Caller
<1>2. \A room : Members(room) \subseteq Accounts
  BY DEF Members
<1>3. CASE JoinLoad(q)
  BY <1>1, <1>3 DEF JoinLoad, Loads, Legal
<1>4. CASE KickLoad(q)
  BY <1>1, <1>4 DEF KickLoad, Loads, Legal
<1>5. CASE ChangeLoad(q)
  BY <1>1, <1>5 DEF ChangeLoad, Loads, Legal
<1>6. CASE SetReadyLoad(q)
  BY <1>1, <1>6 DEF SetReadyLoad, Loads, Legal
<1>7. CASE SwitchSeatLoad(q)
  BY <1>1, <1>7 DEF SwitchSeatLoad, Loads, Legal
<1>8. CASE StartLoad(q)
  BY <1>1, <1>2, <1>8 DEF StartLoad, Loads, Legal
<1>9. CASE ReenterLoad(q)
  BY <1>1, <1>9 DEF ReenterLoad, Loads, Legal
<1>10. QED
  BY <1>3, <1>4, <1>5, <1>6, <1>7, <1>8, <1>9 DEF Loading

\* Every request has an account for a caller.
LEMMA CallerType == \A q \in Requests : Caller(q) \in Accounts
BY DEF Requests, Caller

\* What Finish and Begin leave is well shaped.
LEMMA ShapeOfFinish ==
    ASSUME Shape, NEW q \in Requests, Finish(q),
           rooms' \in [RoomIds -> Room \cup {NoRoom}], \A r \in RoomIds : Listed(rooms'[r]),
           memberOf' \in [Accounts -> 0..MaxRooms], roomSeq' = roomSeq,
           lease' \in [RoomIds -> Requests \cup {Free, Orphan}],
           connected' = connected, playing' \in [RoomIds -> SUBSET Accounts],
           lapses' = lapses, faults' \in 0..MaxFaults
    PROVE  Shape'
BY RoomsAssumption, RulesAssumption DEF Shape, TypeOK, Finish, Labels, Operations, Listed, RoomIds

\* Beginning a request keeps the types.
LEMMA ShapeOfBegin ==
    ASSUME Shape, NEW q \in Requests, NEW o \in Operations \ {"none", "create"}, NEW r \in RoomIds,
           Begin(q, o, r), connected' \in [Accounts -> BOOLEAN],
           playing' \in [RoomIds -> SUBSET Accounts]
    PROVE  Shape'
BY DEF Shape, TypeOK, Begin, Labels, Operations, Listed, RoomIds, store, budget, clients

\* Records, index and locals are well typed and every room lists its owner.
LEMMA ShapeStep == Shape /\ [Next]_vars => Shape'
<1> SUFFICES ASSUME Shape, [Next]_vars PROVE Shape'
  OBVIOUS
<1> USE RoomsAssumption, RulesAssumption
<1>1. CASE UNCHANGED vars
  BY <1>1 DEF Shape, TypeOK, vars, store, local, clients, budget
<1>2. ASSUME NEW q \in Requests, Arrive(q) PROVE Shape'
  <2>1. CASE CreateRequest(q)
    BY <2>1 DEF CreateRequest, Shape, TypeOK, Goto, Labels, Operations, RoomIds, clients, budget
  <2>2. ASSUME NEW r \in RoomIds, NEW o \in Ops, RequestById(q, o, r) PROVE Shape'
    BY <2>2, ShapeOfBegin DEF RequestById, Operations, clients, Shape, TypeOK
  <2>3. ASSUME NEW o \in Ops, RequestByIndex(q, o) PROVE Shape'
    <3>1. memberOf[Caller(q)] \in RoomIds
      BY <2>3, CallerType DEF RequestByIndex, Shape, TypeOK, RoomIds
    <3>2. QED
      BY <2>3, <3>1, ShapeOfBegin DEF RequestByIndex, Operations, clients, Shape, TypeOK
  <2>4. ASSUME NEW r \in RoomIds, RequestReenter(q, r) PROVE Shape'
    BY <2>4, ShapeOfBegin DEF RequestReenter, Operations, Shape, TypeOK
  <2>5. QED
    BY <1>2, <2>1, <2>2, <2>3, <2>4 DEF Arrive
<1>3. ASSUME NEW q \in Requests, Work(q) PROVE Shape'
  <2>1. CASE Acquire(q)
    BY <2>1 DEF Acquire, Shape, TypeOK, Goto, Labels, store, local, clients, budget
  <2>2. CASE GiveUp(q)
    BY <2>2, ShapeOfFinish DEF GiveUp, Shape, TypeOK, store, clients, budget
  <2>3. CASE Release(q)
    <3>1. lease' \in [RoomIds -> Requests \cup {Free, Orphan}]
      BY <2>3 DEF Release, Shape, TypeOK
    <3>2. CASE op[q] = "start" /\ todo[q] # {}
      BY <2>3, <3>1, <3>2 DEF Release, Shape, TypeOK, Goto, Labels, store, local, clients, budget
    <3>3. CASE ~(op[q] = "start" /\ todo[q] # {})
      BY <2>3, <3>1, <3>3, ShapeOfFinish DEF Release, Shape, TypeOK, store, clients, budget
    <3>4. QED
      BY <3>2, <3>3
  <2>4. CASE Loading(q)
    <3>1. CASE Refuse(q)
      BY <2>4, <3>1, LoadCases DEF Refuse, Shape, TypeOK, Goto, Labels, store, local, clients, budget
    <3>2. ASSUME NEW record, NEW left, left \subseteq Accounts, Present(q),
                 Legal(rooms[target[q]], record), Accept(q, record, left),
                 pc[q] = "load", op[q] \notin {"create", "leave"}
          PROVE  Shape'
      <4>1. target[q] \in RoomIds
        BY <3>2 DEF Shape
      <4>2. rooms[target[q]] \in Room /\ rooms[target[q]].owner \in Members(rooms[target[q]])
        BY <3>2, <4>1 DEF Shape, TypeOK, Present, Listed
      <4>3. record \in Room /\ record.owner \in Members(record)
        BY <3>2, <4>2, LegalKeepsRoom
      <4>4. QED
        BY <3>2, <4>1, <4>2, <4>3 DEF Accept, Shape, TypeOK, Listed, Goto, Labels, store, clients, budget
    <3>3. QED
      BY <2>4, <3>1, <3>2, LoadCases
  <2>5. CASE LeaveLoad(q)
    BY <2>5 DEF LeaveLoad, Loads, Shape, TypeOK, Listed, Goto, Labels, store, clients, budget
  <2>6. CASE LeaveUnindex(q)
    <3>0. memberOf' = [memberOf EXCEPT ![Caller(q)] = 0]
      BY <2>6 DEF LeaveUnindex
    <3>1. memberOf' \in [Accounts -> 0..MaxRooms]
      <4>1. memberOf \in [Accounts -> 0..MaxRooms] /\ 0 \in 0..MaxRooms
        BY DEF Shape, TypeOK
      <4>2. QED
        BY <3>0, <4>1
    <3>2. draft' \in [Requests -> Room \cup {NoRoom}] /\ \A p \in Requests : Listed(draft'[p])
      <4>1. CASE draft' = draft
        BY <4>1 DEF Shape, TypeOK
      <4>2. CASE /\ loaded[q] # NoRoom /\ ~Dismisses(loaded[q], Caller(q))
                 /\ draft' = [draft EXCEPT ![q] = Without(loaded[q], Caller(q))]
        <5>1. Legal(loaded[q], Without(loaded[q], Caller(q)))
          BY <4>2, CallerType DEF Legal
        <5>2. /\ Without(loaded[q], Caller(q)) \in Room
              /\ Listed(Without(loaded[q], Caller(q)))
          BY <4>2, <5>1, LegalKeepsRoom DEF Shape, TypeOK, Listed
        <5>3. QED
          BY <4>2, <5>2 DEF Shape, TypeOK
      <4>3. QED
        BY <2>6, <4>1, <4>2 DEF LeaveUnindex
    <3>3. \E label \in {"release", "delete", "save"} : pc' = [pc EXCEPT ![q] = label]
      BY <2>6 DEF LeaveUnindex, Goto
    <3>4. pc[q] = "unindex"
      BY <2>6 DEF LeaveUnindex
    <3>5. UNCHANGED <<rooms, roomSeq, lease, op, target, loaded, todo, connected, playing, lapses, faults>>
      BY <2>6 DEF LeaveUnindex, clients, budget
    <3>6. QED
      BY <3>1, <3>2, <3>3, <3>4, <3>5 DEF Shape, TypeOK, Labels
  <2>7. CASE CreateSave(q)
    <3>1. PICK max \in Capacities, game \in GameModes, group \in GroupModes :
             rooms' = [rooms EXCEPT ![target[q]] = NewRoom(Caller(q), max, game, group)]
      BY <2>7 DEF CreateSave
    <3> DEFINE new == NewRoom(Caller(q), max, game, group)
    <3>2. new \in Room /\ new.owner \in Members(new)
      BY NewRoomType, CallerType
    <3> HIDE DEF new
    <3>3. rooms' \in [RoomIds -> Room \cup {NoRoom}] /\ \A r \in RoomIds : Listed(rooms'[r])
      BY <3>1, <3>2 DEF Shape, TypeOK, Listed, new
    <3>4. QED
      BY <2>7, <3>3 DEF CreateSave, Shape, TypeOK, Goto, Labels, local, clients, budget
  <2>8. CASE CreateIndex(q)
    <3>1. memberOf' \in [Accounts -> 0..MaxRooms]
      BY <2>8 DEF CreateIndex, Shape, TypeOK, RoomIds
    <3>2. QED
      BY <2>8, <3>1, ShapeOfFinish DEF CreateIndex, Shape, TypeOK, clients, budget
  <2>9. CASE Save(q)
    <3>1. rooms' \in [RoomIds -> Room \cup {NoRoom}] /\ \A r \in RoomIds : Listed(rooms'[r])
      BY <2>9 DEF Save, Shape, TypeOK, Listed
    <3>2. QED
      BY <2>9, <3>1 DEF Save, Shape, TypeOK, Goto, Labels, local, clients, budget
  <2>10. CASE DismissDelete(q)
    <3>1. rooms' \in [RoomIds -> Room \cup {NoRoom}] /\ \A r \in RoomIds : Listed(rooms'[r])
      BY <2>10 DEF DismissDelete, Shape, TypeOK, Listed
    <3>2. todo' \in [Requests -> SUBSET Accounts]
      BY <2>10 DEF DismissDelete, Shape, TypeOK, Members
    <3>3. QED
      BY <2>10, <3>1, <3>2 DEF DismissDelete, Shape, TypeOK, Goto, Labels, clients, budget
  <2>11. CASE DismissSweep(q)
    BY <2>11 DEF DismissSweep, Shape, TypeOK, Goto, Labels, clients, budget
  <2>12. CASE JoinIndex(q)
    BY <2>12 DEF JoinIndex, Shape, TypeOK, Goto, Labels, RoomIds, local, clients, budget
  <2>13. CASE KickUnindex(q)
    BY <2>13 DEF KickUnindex, Shape, TypeOK, Goto, Labels, clients, budget
  <2>14. CASE Handoff(q)
    <3>1. playing' \in [RoomIds -> SUBSET Accounts]
      BY <2>14 DEF Handoff, Shape, TypeOK
    <3>2. CASE Finish(q)
      BY <2>14, <3>1, <3>2, ShapeOfFinish DEF Handoff, Shape, TypeOK, store, budget
    <3>3. CASE UNCHANGED <<pc, op, target, loaded, draft>>
      BY <2>14, <3>1, <3>3 DEF Handoff, Finish, Shape, TypeOK, store, budget
    <3>4. QED
      BY <2>14, <3>2, <3>3 DEF Handoff
  <2>15. QED
    BY <1>3, <2>1, <2>2, <2>3, <2>4, <2>5, <2>6, <2>7, <2>8, <2>9, <2>10, <2>11, <2>12, <2>13,
       <2>14 DEF Work, Loading
<1>4. ASSUME NEW q \in Requests, RedisError(q) PROVE Shape'
  <2>1. CASE Finish(q)
    BY <1>4, <2>1, ShapeOfFinish DEF RedisError, Shape, TypeOK, store, clients, budget
  <2>2. CASE InLock(q) /\ Goto(q, "release") /\ todo' = [todo EXCEPT ![q] = {}]
              /\ UNCHANGED <<op, target, loaded, draft>>
    BY <1>4, <2>2 DEF RedisError, InLock, Shape, TypeOK, Goto, Labels, store, clients
  <2>3. QED
    BY <1>4, <2>1, <2>2 DEF RedisError
<1>5. ASSUME NEW q \in Requests, Crash(q) PROVE Shape'
  <2>1. lease' \in [RoomIds -> Requests \cup {Free, Orphan}]
    BY <1>5 DEF Crash, Shape, TypeOK
  <2>2. QED
    BY <1>5, <2>1, ShapeOfFinish DEF Crash, Shape, TypeOK, store, clients
<1>6. ASSUME NEW a \in Accounts, Disconnect(a) PROVE Shape'
  <2> DEFINE q == <<a, "close">>
  <2>1. q \in Requests /\ Caller(q) = a
    BY DEF Requests, Lanes, Caller
  <2>2. playing' \in [RoomIds -> SUBSET Accounts] /\ connected' \in [Accounts -> BOOLEAN]
    BY <1>6 DEF Disconnect, Shape, TypeOK
  <2>3. CASE memberOf[a] = 0 /\ UNCHANGED <<store, lease, pc, local, budget>>
    BY <2>2, <2>3 DEF Shape, TypeOK, store, local, budget
  <2>4. CASE memberOf[a] # 0 /\ Begin(q, "leave", memberOf[a])
    <3>1. memberOf[a] \in RoomIds
      BY <2>4 DEF Shape, TypeOK, RoomIds
    <3>2. QED
      BY <2>1, <2>2, <2>4, <3>1, ShapeOfBegin DEF Operations
  <2>5. QED
    BY <1>6, <2>3, <2>4 DEF Disconnect
<1>7. ASSUME NEW a \in Accounts, Reconnect(a) PROVE Shape'
  BY <1>7 DEF Reconnect, Shape, TypeOK, store, local, budget
<1>8. ASSUME NEW r \in RoomIds, OrphanExpires(r) \/ Lapse(r) PROVE Shape'
  BY <1>8 DEF OrphanExpires, Lapse, Shape, TypeOK, store, local, clients, budget
<1>9. QED
  BY <1>1, <1>2, <1>3, <1>4, <1>5, <1>6, <1>7, <1>8 DEF Next

\* The type invariant, and every room lists its owner, whatever expires,
\* fails or crashes.
THEOREM CustomRoomsInvariant == Spec => [](TypeOK /\ OwnerInRoom)
<1>1. Init => Shape
  BY RoomsAssumption, RulesAssumption DEF Init, Shape, TypeOK, Listed, Labels, Operations, RoomIds
<1>2. Shape => TypeOK /\ OwnerInRoom
  BY DEF Shape, OwnerInRoom, Exists, Listed
<1>3. QED
  BY <1>1, <1>2, ShapeStep, PTL DEF Spec

-----------------------------------------------------------------------------
(* If no lease runs out under a live holder (MaxLapses = 0), no save loses *)
(* an update and the room store implements RoomRules, whatever commands    *)
(* fail and whichever requests crash.  The invariant: whoever is past the  *)
(* lock holds its room's lease, what a lease holder loaded is still what   *)
(* the room is, and an id given to a creator is nobody else's.             *)

Creating(q) == op[q] = "create" /\ pc[q] = "save"

HeldAt(q) == InLock(q) => lease[target[q]] = q

FreshAt(q) ==
    op[q] # "create" =>
        /\ pc[q] = "save" => /\ loaded[q] # NoRoom
                             /\ rooms[target[q]] = loaded[q]
                             /\ Legal(loaded[q], draft[q])
        /\ pc[q] = "unindex" /\ loaded[q] # NoRoom => rooms[target[q]] = loaded[q]
        /\ pc[q] = "delete" => /\ loaded[q] # NoRoom
                               /\ rooms[target[q]] = loaded[q]
                               /\ Dismisses(loaded[q], Caller(q))

ReservedAt(q) == Creating(q) => rooms[target[q]] = NoRoom /\ target[q] <= roomSeq

Apart == \A p, q \in Requests : Creating(p) /\ Creating(q) /\ p # q => target[p] # target[q]

Beyond == \A r \in RoomIds : r > roomSeq => rooms[r] = NoRoom

RequestOK(q) == HeldAt(q) /\ FreshAt(q) /\ ReservedAt(q)

Safe == (\A q \in Requests : RequestOK(q)) /\ Apart /\ Beyond

\* Only q's own locals changed.
OthersKeep(q) ==
    \A p \in Requests \ {q} :
        /\ pc'[p] = pc[p] /\ op'[p] = op[p] /\ target'[p] = target[p]
        /\ loaded'[p] = loaded[p] /\ draft'[p] = draft[p]

\* A step of q that leaves the rooms and the leases alone.
LEMMA Quiet ==
    ASSUME Shape, Safe, NEW q \in Requests, UNCHANGED <<rooms, roomSeq, lease>>, OthersKeep(q),
           RequestOK(q)', ~Creating(q)'
    PROVE  Safe'
<1>1. \A p \in Requests \ {q} : RequestOK(p)'
  BY DEF Safe, OthersKeep, RequestOK, HeldAt, InLock, FreshAt, ReservedAt, Creating
<1>2. Apart'
  BY DEF Safe, Apart, OthersKeep, Creating
<1>3. Beyond'
  BY DEF Safe, Beyond
<1>4. QED
  BY <1>1, <1>2, <1>3 DEF Safe

\* A request that ends without a write keeps the records safe.
LEMMA QuietFinish ==
    ASSUME Shape, Safe, NEW q \in Requests, Finish(q), UNCHANGED <<rooms, roomSeq, lease>>
    PROVE  Safe'
<1>1. OthersKeep(q)
  BY DEF Finish, OthersKeep, Shape, TypeOK
<1>2. pc'[q] = "idle" /\ op'[q] = "none"
  BY DEF Finish, Shape, TypeOK
<1>3. RequestOK(q)' /\ ~Creating(q)'
  BY <1>2 DEF RequestOK, HeldAt, InLock, FreshAt, ReservedAt, Creating
<1>4. QED
  BY <1>1, <1>3, Quiet

\* A request that begins keeps the records safe.
LEMMA QuietBegin ==
    ASSUME Shape, Safe, NEW q \in Requests, NEW o, o # "create", NEW r, Begin(q, o, r)
    PROVE  Safe'
<1>1. OthersKeep(q)
  BY DEF Begin, OthersKeep, Shape, TypeOK
<1>2. pc'[q] = "lock" /\ op'[q] = o
  BY DEF Begin, Shape, TypeOK
<1>3. RequestOK(q)' /\ ~Creating(q)'
  BY <1>2 DEF RequestOK, HeldAt, InLock, FreshAt, ReservedAt, Creating
<1>4. UNCHANGED <<rooms, roomSeq, lease>>
  BY DEF Begin, store
<1>5. QED
  BY <1>1, <1>3, <1>4, Quiet

\* Steps that only move q on inside or after its lock, to a label that asks
\* nothing of what it loaded.
LEMMA QuietGoto ==
    ASSUME Shape, Safe, NEW q \in Requests, UNCHANGED <<rooms, roomSeq, lease, op, target, loaded, draft>>,
           InLock(q), NEW label \in {"index", "sweep", "release"}, Goto(q, label)
    PROVE  Safe'
<1>1. OthersKeep(q)
  BY DEF Goto, OthersKeep, Shape, TypeOK
<1>2. pc'[q] = label
  BY DEF Goto, Shape, TypeOK
<1>3. RequestOK(q)' /\ ~Creating(q)'
  BY <1>2 DEF RequestOK, HeldAt, InLock, FreshAt, ReservedAt, Creating, Safe
<1>4. QED
  BY <1>1, <1>3, Quiet

\* Safe is preserved by every step, as long as no lease lapses.
LEMMA SafeStep ==
    ASSUME MaxLapses = 0
    PROVE  Shape /\ Safe /\ [Next]_vars => Safe'
<1> SUFFICES ASSUME Shape, Safe, [Next]_vars PROVE Safe'
  OBVIOUS
<1> USE RoomsAssumption, RulesAssumption
<1>1. CASE UNCHANGED vars
  <2>1. UNCHANGED <<rooms, roomSeq, lease, pc, op, target, loaded, draft>>
    BY <1>1 DEF vars, store, local
  <2>2. QED
    BY <2>1 DEF Safe, RequestOK, HeldAt, InLock, FreshAt, ReservedAt, Creating, Apart, Beyond
<1>2. ASSUME NEW q \in Requests, Arrive(q) PROVE Safe'
  <2>1. CASE CreateRequest(q)
    <3>1. OthersKeep(q)
      BY <2>1 DEF CreateRequest, Goto, OthersKeep, Shape, TypeOK
    <3>2. /\ pc'[q] = "save" /\ op'[q] = "create" /\ target'[q] = roomSeq + 1
          /\ roomSeq' = roomSeq + 1 /\ UNCHANGED <<rooms, lease>>
          /\ roomSeq + 1 \in RoomIds /\ roomSeq \in Nat
      BY <2>1 DEF CreateRequest, Goto, Shape, TypeOK, RoomIds
    <3>3. RequestOK(q)'
      BY <3>2 DEF RequestOK, HeldAt, InLock, FreshAt, ReservedAt, Creating, Safe, Beyond
    <3>4. \A p \in Requests \ {q} : target[p] \in Int
      BY DEF Shape, TypeOK
    <3>5. \A p \in Requests \ {q} : RequestOK(p)'
      BY <3>1, <3>2, <3>4 DEF RequestOK, OthersKeep, HeldAt, InLock, FreshAt, ReservedAt, Creating, Safe
    <3>6. \A p \in Requests \ {q} : Creating(p)' => Creating(p) /\ target'[p] <= roomSeq
      BY <3>1 DEF OthersKeep, Creating, Safe, RequestOK, ReservedAt
    <3>7. Apart'
      BY <3>1, <3>2, <3>4, <3>6 DEF Apart, OthersKeep, Creating, Safe
    <3>8. Beyond'
      BY <3>2 DEF Beyond, Safe, RoomIds
    <3>9. QED
      BY <3>3, <3>5, <3>7, <3>8 DEF Safe
  <2>2. ASSUME NEW r \in RoomIds, NEW o \in Ops, RequestById(q, o, r) PROVE Safe'
    BY <2>2, QuietBegin DEF RequestById
  <2>3. ASSUME NEW o \in Ops, RequestByIndex(q, o) PROVE Safe'
    BY <2>3, QuietBegin DEF RequestByIndex
  <2>4. ASSUME NEW r \in RoomIds, RequestReenter(q, r) PROVE Safe'
    BY <2>4, QuietBegin DEF RequestReenter
  <2>5. QED
    BY <1>2, <2>1, <2>2, <2>3, <2>4 DEF Arrive
<1>3. ASSUME NEW q \in Requests, Work(q) PROVE Safe'
  <2>1. CASE Acquire(q)
    <3>1. OthersKeep(q) /\ pc'[q] = "load" /\ pc[q] = "lock"
      BY <2>1 DEF Acquire, Goto, OthersKeep, Shape, TypeOK, local
    <3>2. target[q] \in RoomIds /\ lease[target[q]] \notin Requests
      BY <2>1, <3>1 DEF Acquire, Shape
    <3>3. lease' = [lease EXCEPT ![target[q]] = q] /\ UNCHANGED <<rooms, roomSeq, op, target, loaded, draft>>
      BY <2>1 DEF Acquire, store, local
    <3>4. op[q] # "create"
      BY <3>1 DEF Shape
    <3>5. RequestOK(q)'
      BY <3>1, <3>2, <3>3, <3>4 DEF RequestOK, HeldAt, InLock, FreshAt, ReservedAt, Creating, Shape, TypeOK
    <3>6. \A p \in Requests \ {q} : InLock(p) => target[p] # target[q]
      BY <3>2 DEF Safe, RequestOK, HeldAt
    <3>7. \A p \in Requests \ {q} : RequestOK(p)'
      BY <3>1, <3>3, <3>6 DEF RequestOK, OthersKeep, HeldAt, InLock, FreshAt, ReservedAt, Creating, Safe, Shape, TypeOK
    <3>8. Apart' /\ Beyond'
      BY <3>1, <3>3 DEF Apart, Beyond, Creating, OthersKeep, Safe
    <3>9. QED
      BY <3>5, <3>7, <3>8 DEF Safe
  <2>2. CASE GiveUp(q)
    BY <2>2, QuietFinish DEF GiveUp, store
  <2>3. CASE Release(q)
    <3>1. /\ OthersKeep(q) /\ pc'[q] \in {"handoff", "idle"} /\ pc[q] = "release"
      BY <2>3 DEF Release, Goto, Finish, OthersKeep, Shape, TypeOK, local
    <3>2. /\ lease' = [lease EXCEPT ![target[q]] = IF @ = q THEN Free ELSE @]
          /\ UNCHANGED <<rooms, roomSeq>>
      BY <2>3 DEF Release, store
    <3>3. RequestOK(q)' /\ ~Creating(q)'
      BY <3>1 DEF RequestOK, HeldAt, InLock, FreshAt, ReservedAt, Creating
    <3>4. \A p \in Requests \ {q} : InLock(p) => lease'[target[p]] = p
      BY <3>2 DEF Safe, RequestOK, HeldAt, Shape, TypeOK
    <3>5. \A p \in Requests \ {q} : RequestOK(p)'
      BY <3>1, <3>2, <3>4 DEF RequestOK, OthersKeep, HeldAt, InLock, FreshAt, ReservedAt, Creating, Safe
    <3>6. Apart' /\ Beyond'
      BY <3>1, <3>2, <3>3 DEF Apart, Beyond, Creating, OthersKeep, Safe
    <3>7. QED
      BY <3>3, <3>5, <3>6 DEF Safe
  <2>4. CASE Loading(q)
    <3>1. CASE Refuse(q)
      BY <2>4, <3>1, LoadCases, QuietGoto DEF Refuse, InLock, store, local
    <3>2. ASSUME NEW record, NEW left, Present(q), pc[q] = "load", op[q] \notin {"create", "leave"},
                 Legal(rooms[target[q]], record), Accept(q, record, left)
          PROVE  Safe'
      <4>1. OthersKeep(q)
        BY <3>2 DEF Accept, Goto, OthersKeep, Shape, TypeOK
      <4>2. /\ pc'[q] = "save" /\ loaded'[q] = rooms[target[q]] /\ draft'[q] = record
            /\ UNCHANGED <<rooms, roomSeq, lease, op, target>>
        BY <3>2 DEF Accept, Goto, Shape, TypeOK, store
      <4>3. RequestOK(q)' /\ ~Creating(q)'
        BY <3>2, <4>2 DEF RequestOK, HeldAt, InLock, FreshAt, ReservedAt, Creating, Safe, Present
      <4>4. QED
        BY <4>1, <4>2, <4>3, Quiet
    <3>3. QED
      BY <2>4, <3>1, <3>2, LoadCases
  <2>5. CASE LeaveLoad(q)
    <3>1. /\ OthersKeep(q) /\ pc'[q] = "unindex" /\ loaded'[q] = rooms[target[q]]
          /\ pc[q] = "load" /\ op[q] = "leave" /\ UNCHANGED <<rooms, roomSeq, lease, op, target>>
      BY <2>5 DEF LeaveLoad, Loads, Goto, OthersKeep, Shape, TypeOK, store
    <3>2. RequestOK(q)' /\ ~Creating(q)'
      BY <3>1 DEF RequestOK, HeldAt, InLock, FreshAt, ReservedAt, Creating, Safe
    <3>3. QED
      BY <3>1, <3>2, Quiet
  <2>6. CASE LeaveUnindex(q)
    <3>1. /\ pc[q] = "unindex" /\ op[q] # "create"
          /\ UNCHANGED <<rooms, roomSeq, lease, op, target, loaded>>
      BY <2>6 DEF LeaveUnindex, Shape
    <3>2. InLock(q)
      BY <3>1 DEF InLock
    <3>3. loaded[q] # NoRoom => rooms[target[q]] = loaded[q]
      BY <3>1 DEF Safe, RequestOK, FreshAt
    <3>4. CASE Goto(q, "release") /\ UNCHANGED draft
      BY <3>1, <3>2, <3>4, QuietGoto
    <3>5. CASE loaded[q] # NoRoom /\ Dismisses(loaded[q], Caller(q)) /\ Goto(q, "delete") /\ UNCHANGED draft
      <4>1. OthersKeep(q) /\ pc'[q] = "delete"
        BY <3>1, <3>5 DEF Goto, OthersKeep, Shape, TypeOK
      <4>2. RequestOK(q)' /\ ~Creating(q)'
        BY <3>1, <3>2, <3>3, <3>5, <4>1 DEF RequestOK, HeldAt, InLock, FreshAt, ReservedAt, Creating, Safe
      <4>3. QED
        BY <3>1, <4>1, <4>2, Quiet
    <3>6. CASE /\ loaded[q] # NoRoom /\ ~Dismisses(loaded[q], Caller(q)) /\ Goto(q, "save")
               /\ draft' = [draft EXCEPT ![q] = Without(loaded[q], Caller(q))]
      <4>1. /\ OthersKeep(q) /\ pc'[q] = "save"
            /\ draft'[q] = Without(loaded[q], Caller(q))
        BY <3>1, <3>6 DEF Goto, OthersKeep, Shape, TypeOK
      <4>2. Legal(loaded[q], Without(loaded[q], Caller(q)))
        BY <3>6, CallerType DEF Legal
      <4>3. RequestOK(q)' /\ ~Creating(q)'
        BY <3>1, <3>2, <3>3, <3>6, <4>1, <4>2
           DEF RequestOK, HeldAt, InLock, FreshAt, ReservedAt, Creating, Safe
      <4>4. QED
        BY <3>1, <4>1, <4>3, Quiet
    <3>7. QED
      BY <2>6, <3>4, <3>5, <3>6 DEF LeaveUnindex
  <2>7. CASE CreateSave(q)
    <3>1. PICK new : rooms' = [rooms EXCEPT ![target[q]] = new]
      BY <2>7 DEF CreateSave
    <3>2. /\ OthersKeep(q) /\ pc'[q] = "index" /\ Creating(q)
          /\ UNCHANGED <<roomSeq, lease, op, target, loaded, draft>>
      BY <2>7 DEF CreateSave, Goto, OthersKeep, Creating, Shape, TypeOK, local
    <3>3. rooms[target[q]] = NoRoom /\ target[q] <= roomSeq /\ target[q] \in RoomIds /\ roomSeq \in Int
      BY <3>2 DEF Safe, RequestOK, ReservedAt, Creating, Shape, TypeOK
    <3>4. RequestOK(q)' /\ ~Creating(q)'
      BY <3>2 DEF RequestOK, HeldAt, InLock, FreshAt, ReservedAt, Creating
    <3>5. \A r : r # target[q] /\ r \in RoomIds => rooms'[r] = rooms[r]
      BY <3>1 DEF Shape, TypeOK
    <3>6. \A p \in Requests \ {q} : pc[p] # "idle" => target[p] \in RoomIds
      BY DEF Shape
    <3>7. \A p \in Requests \ {q} : RequestOK(p)'
      <4> SUFFICES ASSUME NEW p \in Requests \ {q} PROVE RequestOK(p)'
        OBVIOUS
      <4>1. HeldAt(p)'
        BY <3>2 DEF OthersKeep, HeldAt, InLock, Safe, RequestOK
      <4>2. FreshAt(p)'
        BY <3>2, <3>3, <3>5, <3>6 DEF OthersKeep, FreshAt, Safe, RequestOK
      <4>3. ReservedAt(p)'
        BY <3>2, <3>5, <3>6 DEF OthersKeep, ReservedAt, Creating, Safe, RequestOK, Apart
      <4>4. QED
        BY <4>1, <4>2, <4>3 DEF RequestOK
    <3>8. Apart'
      BY <3>2, <3>4 DEF Apart, Creating, OthersKeep, Safe
    <3>9. Beyond'
      BY <3>2, <3>3, <3>5 DEF Beyond, Safe, RoomIds
    <3>10. QED
      BY <3>4, <3>7, <3>8, <3>9 DEF Safe
  <2>8. CASE CreateIndex(q)
    BY <2>8, QuietFinish DEF CreateIndex
  <2>9. CASE Save(q) \/ DismissDelete(q)
    <3>1. PICK new : rooms' = [rooms EXCEPT ![target[q]] = new]
      BY <2>9 DEF Save, DismissDelete
    <3>2. /\ OthersKeep(q) /\ pc'[q] \in {"index", "release", "sweep"} /\ InLock(q)
          /\ pc[q] \in {"save", "delete"} /\ op[q] # "create"
          /\ UNCHANGED <<roomSeq, lease, op, target, loaded, draft>>
      BY <2>9 DEF Save, DismissDelete, Goto, OthersKeep, InLock, Shape, TypeOK, local
    <3>3. rooms[target[q]] # NoRoom /\ lease[target[q]] = q /\ target[q] \in RoomIds
      BY <3>2 DEF Safe, RequestOK, FreshAt, HeldAt, Shape
    <3>4. RequestOK(q)' /\ ~Creating(q)'
      BY <3>2, <3>3 DEF RequestOK, HeldAt, InLock, FreshAt, ReservedAt, Creating
    <3>5. \A r : r # target[q] /\ r \in RoomIds => rooms'[r] = rooms[r]
      BY <3>1 DEF Shape, TypeOK
    <3>6. \A p \in Requests \ {q} : pc[p] # "idle" => target[p] \in RoomIds
      BY DEF Shape
    <3>7. \A p \in Requests \ {q} : InLock(p) \/ Creating(p) => target[p] # target[q]
      BY <3>3 DEF Safe, RequestOK, HeldAt, ReservedAt
    <3>8. \A p \in Requests \ {q} : RequestOK(p)'
      <4> SUFFICES ASSUME NEW p \in Requests \ {q} PROVE RequestOK(p)'
        OBVIOUS
      <4>1. HeldAt(p)'
        BY <3>2 DEF OthersKeep, HeldAt, InLock, Safe, RequestOK
      <4>2. FreshAt(p)'
        BY <3>2, <3>5, <3>6, <3>7 DEF OthersKeep, FreshAt, InLock, Safe, RequestOK
      <4>3. ReservedAt(p)'
        BY <3>2, <3>5, <3>6, <3>7 DEF OthersKeep, ReservedAt, Creating, Safe, RequestOK
      <4>4. QED
        BY <4>1, <4>2, <4>3 DEF RequestOK
    <3>9. Apart'
      BY <3>2, <3>4 DEF Apart, Creating, OthersKeep, Safe
    <3>10. Beyond'
      BY <3>2, <3>3, <3>5 DEF Beyond, Safe, RoomIds
    <3>11. QED
      BY <3>4, <3>8, <3>9, <3>10 DEF Safe
  <2>10. CASE DismissSweep(q)
    <3>1. InLock(q)
      BY <2>10 DEF DismissSweep, InLock, Shape
    <3>2. QED
      BY <2>10, <3>1, QuietGoto DEF DismissSweep
  <2>11. CASE JoinIndex(q)
    BY <2>11, QuietGoto DEF JoinIndex, InLock, local
  <2>12. CASE KickUnindex(q)
    BY <2>12, QuietGoto DEF KickUnindex, InLock
  <2>13. CASE Handoff(q)
    <3>1. CASE Finish(q)
      BY <2>13, <3>1, QuietFinish DEF Handoff, store
    <3>2. CASE UNCHANGED <<pc, op, target, loaded, draft>>
      BY <2>13, <3>2 DEF Handoff, store, Safe, RequestOK, HeldAt, InLock, FreshAt, ReservedAt, Creating,
                         Apart, Beyond
    <3>3. QED
      BY <2>13, <3>1, <3>2 DEF Handoff
  <2>14. QED
    BY <1>3, <2>1, <2>2, <2>3, <2>4, <2>5, <2>6, <2>7, <2>8, <2>9, <2>10, <2>11, <2>12, <2>13
       DEF Work, Loading
<1>4. ASSUME NEW q \in Requests, RedisError(q) PROVE Safe'
  <2>1. CASE Finish(q)
    BY <1>4, <2>1, QuietFinish DEF RedisError, store
  <2>2. CASE InLock(q) /\ Goto(q, "release") /\ UNCHANGED <<op, target, loaded, draft>>
    BY <1>4, <2>2, QuietGoto DEF RedisError, store
  <2>3. QED
    BY <1>4, <2>1, <2>2 DEF RedisError
<1>5. ASSUME NEW q \in Requests, Crash(q) PROVE Safe'
  <2>1. OthersKeep(q) /\ pc'[q] = "idle" /\ op'[q] = "none"
    BY <1>5 DEF Crash, Finish, OthersKeep, Shape, TypeOK
  <2>2. /\ lease' = [r \in RoomIds |-> IF lease[r] = q THEN Orphan ELSE lease[r]]
        /\ UNCHANGED <<rooms, roomSeq>>
    BY <1>5 DEF Crash, store
  <2>3. RequestOK(q)' /\ ~Creating(q)'
    BY <2>1 DEF RequestOK, HeldAt, InLock, FreshAt, ReservedAt, Creating
  <2>4. \A p \in Requests \ {q} : InLock(p) => lease'[target[p]] = p
    BY <2>2 DEF Safe, RequestOK, HeldAt, InLock, Shape, TypeOK
  <2>5. \A p \in Requests \ {q} : RequestOK(p)'
    BY <2>1, <2>2, <2>4 DEF RequestOK, OthersKeep, HeldAt, InLock, FreshAt, ReservedAt, Creating, Safe
  <2>6. Apart' /\ Beyond'
    BY <2>1, <2>2, <2>3 DEF Apart, Beyond, Creating, OthersKeep, Safe
  <2>7. QED
    BY <2>3, <2>5, <2>6 DEF Safe
<1>6. ASSUME NEW a \in Accounts, Disconnect(a) PROVE Safe'
  <2>1. <<a, "close">> \in Requests
    BY DEF Requests, Lanes
  <2>2. CASE Begin(<<a, "close">>, "leave", memberOf[a])
    BY <2>1, <2>2, QuietBegin
  <2>3. CASE UNCHANGED <<store, lease, pc, local, budget>>
    BY <2>3 DEF store, local, Safe, RequestOK, HeldAt, InLock, FreshAt, ReservedAt, Creating, Apart, Beyond
  <2>4. QED
    BY <1>6, <2>2, <2>3 DEF Disconnect
<1>7. ASSUME NEW a \in Accounts, Reconnect(a) PROVE Safe'
  BY <1>7 DEF Reconnect, store, local, Safe, RequestOK, HeldAt, InLock, FreshAt, ReservedAt, Creating,
              Apart, Beyond
<1>8. ASSUME NEW r \in RoomIds, OrphanExpires(r) PROVE Safe'
  <2>1. UNCHANGED <<rooms, roomSeq, pc, op, target, loaded, draft>>
    BY <1>8 DEF OrphanExpires, store, local
  <2>2. \A p \in Requests : HeldAt(p)'
    BY <1>8, <2>1 DEF OrphanExpires, HeldAt, InLock, Safe, RequestOK, Shape, TypeOK
  <2>3. QED
    BY <2>1, <2>2 DEF Safe, RequestOK, FreshAt, ReservedAt, Creating, Apart, Beyond
<1>9. ASSUME MaxLapses = 0, NEW r \in RoomIds, Lapse(r) PROVE FALSE
  BY <1>9 DEF Lapse, Shape, TypeOK
<1>10. QED
  BY <1>1, <1>2, <1>3, <1>4, <1>5, <1>6, <1>7, <1>8, <1>9 DEF Next

\* The inductive invariant of the store.
IInv == Shape /\ Safe

\* The invariant of the records holds throughout.
LEMMA IInvAlways ==
    ASSUME MaxLapses = 0
    PROVE  Spec => []IInv
<1>1. Init => IInv
  <2> USE RoomsAssumption, RulesAssumption
  <2>1. Init => Shape
    BY DEF Init, Shape, TypeOK, Listed, Labels, Operations, RoomIds
  <2>2. Init => Safe
    BY DEF Init, Safe, RequestOK, HeldAt, InLock, FreshAt, ReservedAt, Creating, Apart, Beyond
  <2>3. QED
    BY <2>1, <2>2 DEF IInv
<1>2. IInv /\ [Next]_vars => IInv'
  BY ShapeStep, SafeStep DEF IInv
<1>3. QED
  BY <1>1, <1>2, PTL DEF Spec

\* Joins, leaves, kicks and changes to one room never lose each other's
\* effect: the record a save replaces is the record it was computed from.
THEOREM NoUpdateIsLost ==
    ASSUME MaxLapses = 0
    PROVE  Spec => NoLostUpdate
<1>1. IInv => \A q \in Requests : Save(q) => rooms[target[q]] = loaded[q]
  BY DEF IInv, Safe, RequestOK, FreshAt, Save
<1>2. QED
  BY <1>1, IInvAlways, PTL DEF NoLostUpdate

\* A step of the store is a whole operation of RoomRules or changes no room.
LEMMA StepImplements == IInv /\ [Next]_vars => [RulesNext]_rooms
<1> SUFFICES ASSUME IInv, [Next]_vars, rooms' # rooms PROVE RulesNext
  OBVIOUS
<1>1. PICK q \in Requests : CreateSave(q) \/ Save(q) \/ DismissDelete(q)
  <2>1. ASSUME NEW p \in Requests, Work(p), ~CreateSave(p), ~Save(p), ~DismissDelete(p)
        PROVE  FALSE
    <3>1. ~(JoinLoad(p) \/ KickLoad(p) \/ ChangeLoad(p) \/ SetReadyLoad(p) \/ SwitchSeatLoad(p)
            \/ StartLoad(p) \/ ReenterLoad(p))
      BY DEF JoinLoad, KickLoad, ChangeLoad, SetReadyLoad, SwitchSeatLoad, StartLoad, ReenterLoad,
             Accept, Refuse, store
    <3>2. QED
      BY <2>1, <3>1 DEF Work, Acquire, GiveUp, Release, LeaveLoad, LeaveUnindex, CreateIndex,
             DismissSweep, JoinIndex, KickUnindex, Handoff, store
  <2>2. ASSUME NEW p \in Requests, Arrive(p) PROVE FALSE
    BY <2>2 DEF Arrive, CreateRequest, RequestById, RequestByIndex, RequestReenter, Begin, store
  <2>3. ASSUME NEW p \in Requests, RedisError(p) \/ Crash(p) PROVE FALSE
    BY <2>3 DEF RedisError, Crash, store
  <2>4. ASSUME NEW a \in Accounts, Disconnect(a) \/ Reconnect(a) PROVE FALSE
    BY <2>4 DEF Disconnect, Reconnect, Begin, store
  <2>5. ASSUME NEW r \in RoomIds, OrphanExpires(r) \/ Lapse(r) PROVE FALSE
    BY <2>5 DEF OrphanExpires, Lapse, store
  <2>6. QED
    BY <2>1, <2>2, <2>3, <2>4, <2>5 DEF Next, vars, store
<1>2. target[q] \in RoomIds
  BY <1>1 DEF IInv, Shape, CreateSave, Save, DismissDelete
<1>3. RequestOK(q)
  BY DEF IInv, Safe
<1>4. CASE CreateSave(q)
  <2>1. rooms[target[q]] = NoRoom
    BY <1>3, <1>4 DEF CreateSave, RequestOK, ReservedAt, Creating
  <2>2. Create(target[q])
    BY <1>4, <2>1, CallerType DEF CreateSave, Create
  <2>3. QED
    BY <1>2, <2>2 DEF RulesNext
<1>5. CASE Save(q)
  <2>1. /\ rooms[target[q]] # NoRoom /\ Legal(rooms[target[q]], draft[q])
        /\ rooms' = [rooms EXCEPT ![target[q]] = draft[q]]
    BY <1>3, <1>5 DEF Save, RequestOK, FreshAt
  <2>2. Operate(target[q])
    BY <2>1 DEF Legal, Operate, Becomes, Join, Leave, Kick,
                Change, SetReady, SwitchSeat, StartMatch, Reenter
  <2>3. QED
    BY <1>2, <2>2 DEF RulesNext
<1>6. CASE DismissDelete(q)
  <2>1. op[q] # "create" /\ pc[q] = "delete"
    BY <1>6 DEF DismissDelete, IInv, Shape
  <2>2. /\ rooms[target[q]] # NoRoom /\ Dismisses(rooms[target[q]], Caller(q))
        /\ rooms' = [rooms EXCEPT ![target[q]] = NoRoom]
    BY <1>3, <1>6, <2>1 DEF DismissDelete, RequestOK, FreshAt
  <2>3. Operate(target[q])
    BY <2>2, CallerType DEF Operate, Dismiss, Becomes
  <2>4. QED
    BY <1>2, <2>3 DEF RulesNext
<1>7. QED
  BY <1>1, <1>4, <1>5, <1>6

\* The code with its awaits and its leases implements the rooms changed by
\* whole operations, as long as no lease lapses.
THEOREM RoomsImplementRules ==
    ASSUME MaxLapses = 0
    PROVE  Spec => ImplementsRules
<1>1. Init => RulesInit
  BY DEF Init, RulesInit
<1>2. QED
  BY <1>1, IInvAlways, StepImplements, PTL DEF Spec, ImplementsRules, RulesSpec

\* So a capacity of at most 48 keeps every two members of a room on seats of their own, and
\* a room in a match frozen, under every interleaving of the gateways' requests.
THEOREM StoreKeepsRecordsSound ==
    ASSUME MaxLapses = 0, \A max \in Capacities : max <= 48
    PROVE  Spec => []RecordsSound /\ FrozenInGame /\ JoinWithinCapacity
BY RoomsImplementRules, RecordsStaySound, RoomRulesFreeze, RoomsGrowWithinCapacity, PTL DEF ImplementsRules

-----------------------------------------------------------------------------
(* The reverse index.  If no lease lapses and no command or gateway fails, *)
(* an index entry leads to a room that lists the account, or a KICK is     *)
(* about to drop it.  An entry is written or dropped a step after the      *)
(* record, or before it, so the invariant says of each request under way   *)
(* what its record says of the accounts whose entries it still has to      *)
(* change, and which requests never meet: a CREATE takes no lease.         *)

Doing(q, o, labels) == op[q] = o /\ pc[q] \in labels

WhereAt(q) ==
    /\ pc[q] \in {"unindex", "delete", "sweep"} => op[q] = "leave"
    /\ pc[q] = "index" => op[q] \in {"create", "join", "kick"}
    /\ op[q] \in {"create", "leave"} => target[q] <= roomSeq

\* Whom a draft adds to the record it was made from, and whom it drops.
DraftAt(q) ==
    pc[q] = "save" =>
        /\ op[q] = "join" => Members(draft[q]) = Members(loaded[q]) \cup {Caller(q)}
        /\ op[q] = "leave" => Members(draft[q]) = Members(loaded[q]) \ {Caller(q)}
        /\ op[q] = "kick" => Members(draft[q]) = Members(loaded[q]) \ todo[q]
        /\ op[q] \notin {"create", "join", "leave", "kick"} => Members(draft[q]) = Members(loaded[q])

\* What the keys say at each label.
IndexAt(q) ==
    LET r == target[q]  a == Caller(q)
    IN  /\ Doing(q, "create", {"save"}) => \A b \in Accounts : memberOf[b] # r
        /\ Doing(q, "create", {"index"}) =>
              memberOf[a] # r /\ (rooms[r] # NoRoom => rooms[r].owner = a)
        /\ Doing(q, "join", {"index"}) => rooms[r] # NoRoom /\ a \in Members(rooms[r])
        /\ Doing(q, "kick", {"index"}) => rooms[r] # NoRoom /\ todo[q] \cap Members(rooms[r]) = {}
        /\ Doing(q, "leave", {"save", "delete"}) => memberOf[a] # r
        /\ Doing(q, "leave", {"unindex"}) => (loaded[q] = NoRoom => rooms[r] = NoRoom)
        /\ Doing(q, "leave", {"sweep"}) => rooms[r] = NoRoom

\* A CREATE has its id to itself; nobody leaves the room before it is saved, and its
\* creator neither leaves nor joins it before the entry is written.
PairOK(p, q) ==
    op[p] = "create" /\ target[p] = target[q] =>
        /\ op[q] = "create" => p = q
        /\ op[q] = "leave" => pc[p] = "index" /\ Caller(p) # Caller(q)
        /\ Doing(q, "join", {"save", "index"}) => pc[p] = "index" /\ Caller(p) # Caller(q)

Bounded == \A b \in Accounts : memberOf[b] <= roomSeq

Dropping(r, a) == \E q \in Requests : Doing(q, "kick", {"index"}) /\ target[q] = r /\ a \in todo[q]

Entries ==
    \A r \in RoomIds : rooms[r] # NoRoom =>
        \A a \in Accounts : memberOf[a] = r => a \in Members(rooms[r]) \/ Dropping(r, a)

RequestIx(q) == WhereAt(q) /\ DraftAt(q) /\ IndexAt(q)

Ix ==
    /\ \A q \in Requests : RequestIx(q)
    /\ \A p, q \in Requests : PairOK(p, q)
    /\ Bounded
    /\ Entries

OthersWait(q) == OthersKeep(q) /\ \A p \in Requests \ {q} : todo'[p] = todo[p]

\* An operation never hands the room over.
LEMMA LegalKeepsOwner ==
    ASSUME NEW old \in Room, NEW new, Legal(old, new)
    PROVE  new.owner = old.owner
BY DEF Legal, Joined, Without, Changed, WithReady, Switched, Started, Reopened, Room

\* Whom each draft adds and drops.
LEMMA LoadMembers ==
    ASSUME Shape, NEW q \in Requests, Loading(q)
    PROVE  \/ Refuse(q)
           \/ /\ Present(q) /\ pc[q] = "load"
              /\ \E record, left :
                    /\ Accept(q, record, left)
                    /\ \/ /\ op[q] = "join" /\ Caller(q) \notin Members(rooms[target[q]])
                          /\ Members(record) = Members(rooms[target[q]]) \cup {Caller(q)}
                       \/ op[q] = "kick" /\ Members(record) = Members(rooms[target[q]]) \ left
                       \/ /\ op[q] \notin {"create", "join", "leave", "kick"}
                          /\ Members(record) = Members(rooms[target[q]])
<1> DEFINE room == rooms[target[q]]
           a == Caller(q)
<1>0. a \in Accounts
  BY CallerType
<1>1. rooms[target[q]] \in Room \cup {NoRoom}
  BY LoadCases DEF Shape, TypeOK
<1>2. CASE JoinLoad(q)
  <2>1. ASSUME Present(q), CanJoin(room, a) PROVE Members(Joined(room, a)) = Members(room) \cup {a}
    <3> DEFINE place == [team |-> PickTeam(room), seat |-> FreeSeat(room, PickTeam(room)), ready |-> FALSE]
    <3>1. place \in Place
      <4>1. room \in Room
        BY <1>1, <2>1 DEF Present
      <4>2. PickTeam(room) \in Nat /\ FreeSeat(room, PickTeam(room)) \in Nat
        BY <4>1, PickTeamIsSmallest, FreeSeatType, SizesPositive
      <4> QED
        BY <4>2 DEF Place
    <3>2. place # Away
      BY <3>1, RecordAssumption
    <3>3. Joined(room, a) = [room EXCEPT !.members[a] = place]
      BY DEF Joined
    <3> HIDE DEF place
    <3> QED
      BY <1>0, <1>1, <2>1, <3>2, <3>3 DEF Present, Members, Room
  <2> QED
    BY <1>2, <2>1 DEF JoinLoad, Loads, CanJoin
<1>3. CASE KickLoad(q)
  <2>1. \A t \in Accounts : Present(q) => Members(Without(room, t)) = Members(room) \ {t}
    BY <1>1 DEF Present, Without, Members, Room
  <2> QED
    BY <1>3, <2>1 DEF KickLoad, Loads
<1>4. CASE ChangeLoad(q)
  <2>1. \A max \in Capacities, game \in GameModes :
           Present(q) => Members(Changed(room, max, game)) = Members(room)
    BY <1>1 DEF Present, Changed, Members, Room
  <2> QED
    BY <1>4, <2>1 DEF ChangeLoad, Loads
<1>5. CASE SetReadyLoad(q)
  <2>1. ASSUME NEW ready \in BOOLEAN, Present(q), CanSetReady(room, a)
        PROVE  Members(WithReady(room, a, ready)) = Members(room)
    <3>1. room \in Room /\ room.members[a] \in Place
      BY <1>0, <1>1, <2>1 DEF Present, CanSetReady, Members, Room
    <3>2. [room.members[a] EXCEPT !.ready = ready] \in Place
      BY <3>1 DEF Place
    <3>3. [room.members[a] EXCEPT !.ready = ready] # Away
      BY <3>2, RecordAssumption
    <3>4. WithReady(room, a, ready) =
            [room EXCEPT !.members = [room.members EXCEPT ![a] = [room.members[a] EXCEPT !.ready = ready]]]
      BY DEF WithReady
    <3> QED
      BY <1>0, <2>1, <3>1, <3>3, <3>4 DEF Members, Room, CanSetReady
  <2> QED
    BY <1>5, <2>1 DEF SetReadyLoad, Loads
<1>6. CASE SwitchSeatLoad(q)
  <2>1. ASSUME NEW team \in 1..NUM_TEAMS, NEW seat \in 0..PerTeamCap(room) - 1, Present(q),
               CanSwitchSeat(room, a, team, seat)
        PROVE  Members(Switched(room, a, team, seat)) = Members(room)
    <3> DEFINE place == [[room.members[a] EXCEPT !.team = team] EXCEPT !.seat = seat]
    <3>1. room \in Room /\ room.members[a] \in Place
      BY <1>0, <1>1, <2>1 DEF Present, CanSwitchSeat, Members, Room
    <3>2. team \in Nat /\ seat \in Nat
      BY <3>1, SizesPositive DEF NUM_TEAMS
    <3>3. place \in Place
      BY <3>1, <3>2 DEF Place
    <3>4. place # Away
      BY <3>3, RecordAssumption
    <3>5. Switched(room, a, team, seat) = [room EXCEPT !.members = [room.members EXCEPT ![a] = place]]
      BY <3>1 DEF Switched, Room
    <3> HIDE DEF place
    <3> QED
      BY <1>0, <2>1, <3>1, <3>4, <3>5 DEF Members, Room, CanSwitchSeat
  <2> QED
    BY <1>6, <2>1 DEF SwitchSeatLoad, Loads
<1>7. CASE StartLoad(q)
  <2>1. Present(q) => Members(Started(room)) = Members(room)
    BY <1>1 DEF Present, Started, Members, Room
  <2> QED
    BY <1>7, <2>1 DEF StartLoad, Loads
<1>8. CASE ReenterLoad(q)
  <2>1. Present(q) => Members(Reopened(room)) = Members(room)
    BY <1>1 DEF Present, Reopened, Members, Room
  <2> QED
    BY <1>8, <2>1 DEF ReenterLoad, Loads
<1> QED
  BY <1>2, <1>3, <1>4, <1>5, <1>6, <1>7, <1>8 DEF Loading

-----------------------------------------------------------------------------

\* A step of q, from what it changes for q, for the others and in the keys.
LEMMA IxOf ==
    ASSUME Ix, NEW q \in Requests, OthersWait(q), roomSeq \in Nat, roomSeq' \in Nat, roomSeq <= roomSeq',
           target \in [Requests -> Nat],
           RequestIx(q)', \A p \in Requests \ {q} : IndexAt(p)',
           \A p \in Requests : PairOK(p, q)' /\ PairOK(q, p)',
           Bounded', Entries'
    PROVE  Ix'
<1>1. \A p \in Requests \ {q} : WhereAt(p)' /\ DraftAt(p)'
  BY DEF Ix, RequestIx, WhereAt, DraftAt, OthersWait, OthersKeep
<1>2. \A p, s \in Requests \ {q} : PairOK(p, s)'
  BY DEF Ix, PairOK, OthersWait, OthersKeep, Doing
<1> QED
  BY <1>1, <1>2 DEF Ix, RequestIx

\* The pairs of q stay as they are while it keeps its operation and its room, and is no
\* CREATE and no JOIN that has just been let in, or has ended.
LEMMA PairsKeep ==
    ASSUME Ix, NEW q \in Requests, OthersWait(q),
           \/ op'[q] = "none"
           \/ /\ op'[q] = op[q] /\ target'[q] = target[q]
              /\ op[q] = "create" => pc'[q] = "index"
              /\ op[q] = "join" /\ pc'[q] \in {"save", "index"} => pc[q] \in {"save", "index"}
    PROVE  \A p \in Requests : PairOK(p, q)' /\ PairOK(q, p)'
<1>1. \A p \in Requests : PairOK(p, q) /\ PairOK(q, p)
  BY DEF Ix
<1>2. \A p \in Requests \ {q} : PairOK(p, q)'
  BY <1>1 DEF PairOK, Doing, OthersWait, OthersKeep
<1>3. \A p \in Requests \ {q} : PairOK(q, p)'
  BY <1>1 DEF PairOK, Doing, OthersWait, OthersKeep
<1>4. PairOK(q, q)'
  BY <1>1 DEF PairOK, Doing
<1> QED
  BY <1>2, <1>3, <1>4

\* Steps that leave records and entries alone.
LEMMA IxQuiet ==
    ASSUME Ix, Shape, NEW q \in Requests, OthersWait(q), UNCHANGED <<rooms, memberOf>>,
           roomSeq' \in Nat, roomSeq <= roomSeq', ~Doing(q, "kick", {"index"}), RequestIx(q)',
           \A p \in Requests : PairOK(p, q)' /\ PairOK(q, p)'
    PROVE  Ix'
<1>1. \A p \in Requests \ {q} : IndexAt(p)'
  BY DEF Ix, RequestIx, IndexAt, Doing, OthersWait, OthersKeep
<1>2. roomSeq \in Nat /\ target \in [Requests -> Nat] /\ memberOf \in [Accounts -> Nat]
  BY RulesAssumption DEF Shape, TypeOK
<1>3. Bounded'
  BY <1>2 DEF Ix, Bounded
<1>4. Entries'
  <2>1. \A r \in RoomIds, a \in Accounts : Dropping(r, a) => Dropping(r, a)'
    BY DEF Dropping, Doing, OthersWait, OthersKeep
  <2> QED
    BY <2>1 DEF Ix, Entries
<1> QED
  BY <1>1, <1>2, <1>3, <1>4, IxOf

\* The same for a request that ends.
LEMMA IxFinish ==
    ASSUME Ix, Shape, NEW q \in Requests, Finish(q), UNCHANGED <<rooms, memberOf, roomSeq>>,
           ~Doing(q, "kick", {"index"})
    PROVE  Ix'
<1>1. OthersWait(q) /\ pc'[q] = "idle" /\ op'[q] = "none"
  BY DEF Finish, OthersWait, OthersKeep, Shape, TypeOK
<1>2. RequestIx(q)'
  BY <1>1 DEF RequestIx, WhereAt, DraftAt, IndexAt, Doing
<1>3. roomSeq \in Nat
  BY RulesAssumption DEF Shape, TypeOK
<1> QED
  BY <1>1, <1>2, <1>3, PairsKeep, IxQuiet

\* The same for a request that arrives: one that leaves has looked its room up.
LEMMA IxBegin ==
    ASSUME Ix, Shape, NEW q \in Requests, NEW o \in Operations \ {"none", "create"}, NEW r \in RoomIds,
           Begin(q, o, r), o = "leave" => memberOf[Caller(q)] = r
    PROVE  Ix'
<1>1. /\ OthersWait(q) /\ pc'[q] = "lock" /\ op'[q] = o /\ target'[q] = r /\ pc[q] = "idle"
      /\ UNCHANGED <<rooms, memberOf, roomSeq>>
  BY DEF Begin, OthersWait, OthersKeep, Shape, TypeOK, store
<1>2. RequestIx(q)'
  BY <1>1, CallerType DEF RequestIx, WhereAt, DraftAt, IndexAt, Doing, Ix, Bounded
<1>3. \A p \in Requests : PairOK(q, p)'
  BY <1>1 DEF PairOK
<1>4. ASSUME NEW p \in Requests \ {q}, op[p] = "create", target[p] = r, o = "leave"
      PROVE  pc[p] = "index" /\ Caller(p) # Caller(q)
  <2>1. pc[p] \in {"save", "index"}
    BY <1>4 DEF Shape
  <2>2. IndexAt(p)
    BY DEF Ix, RequestIx
  <2> QED
    BY <1>4, <2>1, <2>2, CallerType DEF IndexAt, Doing
<1>5. \A p \in Requests : PairOK(p, q)'
  BY <1>1, <1>3, <1>4 DEF PairOK, Doing, OthersWait, OthersKeep
<1>6. roomSeq \in Nat /\ ~Doing(q, "kick", {"index"})
  BY <1>1, RulesAssumption DEF Shape, TypeOK, Doing
<1> QED
  BY <1>1, <1>2, <1>3, <1>5, <1>6, IxQuiet

\* The same for a step of q inside its lock, to a label that asks nothing.
LEMMA IxGoto ==
    ASSUME Ix, Shape, NEW q \in Requests, UNCHANGED <<rooms, memberOf, roomSeq, op, target, loaded, draft, todo>>,
           NEW label \in {"load", "release", "handoff"}, Goto(q, label), ~Doing(q, "kick", {"index"}),
           op[q] # "create"
    PROVE  Ix'
<1>1. OthersWait(q) /\ pc'[q] = label
  BY DEF Goto, OthersWait, OthersKeep, Shape, TypeOK
<1>2. RequestIx(q)'
  BY <1>1 DEF RequestIx, WhereAt, DraftAt, IndexAt, Doing, Ix
<1>3. roomSeq \in Nat
  BY RulesAssumption DEF Shape, TypeOK
<1> QED
  BY <1>1, <1>2, <1>3, PairsKeep, IxQuiet

\* A request that arrives, from a CREATE to a socket that closes.
LEMMA IxArrives ==
    ASSUME IInv, Ix, NEW q \in Requests, Arrive(q)
    PROVE  Ix'
<1> USE RoomsAssumption, RulesAssumption DEF IInv
<1>1. CASE CreateRequest(q)
  <2>1. /\ OthersWait(q) /\ pc'[q] = "save" /\ op'[q] = "create" /\ target'[q] = roomSeq + 1
        /\ roomSeq' = roomSeq + 1 /\ UNCHANGED <<rooms, memberOf>> /\ pc[q] = "idle"
    BY <1>1 DEF CreateRequest, Goto, OthersWait, OthersKeep, Shape, TypeOK
  <2>2. roomSeq \in Nat /\ roomSeq + 1 \in RoomIds /\ memberOf \in [Accounts -> Nat]
    BY <1>1 DEF CreateRequest, Shape, TypeOK, RoomIds
  <2>3. RequestIx(q)'
    BY <2>1, <2>2, CallerType DEF RequestIx, WhereAt, DraftAt, IndexAt, Doing, Ix, Bounded
  <2>4. rooms[roomSeq + 1] = NoRoom
    BY <2>2 DEF Safe, Beyond
  <2>5. \A p \in Requests : target[p] = roomSeq + 1 => op[p] \notin {"create", "leave"}
    BY <2>2 DEF Ix, RequestIx, WhereAt
  <2>6. \A p \in Requests : target[p] = roomSeq + 1 => ~Doing(p, "join", {"save", "index"})
    <3>1. \A p \in Requests : FreshAt(p) /\ IndexAt(p)
      BY DEF Safe, RequestOK, Ix, RequestIx
    <3> QED
      BY <2>4, <3>1 DEF FreshAt, IndexAt, Doing
  <2>7. \A p \in Requests \ {q} : target'[p] = target[p] /\ op'[p] = op[p] /\ pc'[p] = pc[p]
    BY <2>1 DEF OthersWait, OthersKeep
  <2>8. \A p \in Requests \ {q} : PairOK(q, p)' /\ PairOK(p, q)'
    BY <2>1, <2>5, <2>6, <2>7 DEF PairOK, Doing
  <2>9. PairOK(q, q)'
    BY <2>1 DEF PairOK, Doing
  <2>10. ~Doing(q, "kick", {"index"})
    BY <2>1 DEF Doing
  <2> QED
    BY <2>1, <2>2, <2>3, <2>8, <2>9, <2>10, IxQuiet
<1>2. ASSUME NEW r \in RoomIds, NEW o \in Ops, RequestById(q, o, r) PROVE Ix'
  BY <1>2, IxBegin DEF RequestById, Operations
<1>3. ASSUME NEW o \in Ops, RequestByIndex(q, o) PROVE Ix'
  <2>1. memberOf[Caller(q)] \in RoomIds
    BY <1>3, CallerType DEF RequestByIndex, Shape, TypeOK, RoomIds
  <2> QED
    BY <1>3, <2>1, IxBegin DEF RequestByIndex, Operations
<1>4. ASSUME NEW r \in RoomIds, RequestReenter(q, r) PROVE Ix'
  BY <1>4, IxBegin DEF RequestReenter, Operations
<1> QED
  BY <1>1, <1>2, <1>3, <1>4 DEF Arrive

\* A request takes or gives back the lease, or loads the record.
LEMMA IxLoads ==
    ASSUME IInv, Ix, NEW q \in Requests,
           Acquire(q) \/ GiveUp(q) \/ Release(q) \/ Loading(q) \/ LeaveLoad(q) \/ Handoff(q)
    PROVE  Ix'
<1> USE RoomsAssumption, RulesAssumption DEF IInv
<1>1. CASE Acquire(q)
  <2>1. pc[q] = "lock" /\ Goto(q, "load") /\ UNCHANGED <<rooms, memberOf, roomSeq, op, target, loaded, draft, todo>>
    BY <1>1 DEF Acquire, store, local
  <2>2. op[q] # "create" /\ ~Doing(q, "kick", {"index"})
    BY <2>1 DEF Shape, Doing
  <2> QED
    BY <2>1, <2>2, IxGoto
<1>2. CASE GiveUp(q)
  BY <1>2, IxFinish DEF GiveUp, store, Doing
<1>3. CASE Release(q)
  <2>1. pc[q] = "release" /\ UNCHANGED <<rooms, memberOf, roomSeq>>
    BY <1>3 DEF Release, store
  <2>2. op[q] # "create" /\ ~Doing(q, "kick", {"index"})
    BY <2>1 DEF Shape, Doing
  <2>3. CASE Finish(q)
    BY <2>1, <2>2, <2>3, IxFinish
  <2>4. CASE Goto(q, "handoff") /\ UNCHANGED local
    BY <2>1, <2>2, <2>4, IxGoto DEF local
  <2> QED
    BY <1>3, <2>3, <2>4 DEF Release
<1>4. CASE Loading(q)
  <2>1. CASE Refuse(q)
    <3>1. pc[q] = "load" /\ op[q] # "create" /\ ~Doing(q, "kick", {"index"})
      BY <1>4, LoadCases DEF Doing
    <3> QED
      BY <2>1, <3>1, IxGoto DEF Refuse, store, local
  <2>2. ASSUME NEW record, NEW left, Present(q), pc[q] = "load", Accept(q, record, left),
               \/ /\ op[q] = "join" /\ Caller(q) \notin Members(rooms[target[q]])
                  /\ Members(record) = Members(rooms[target[q]]) \cup {Caller(q)}
               \/ op[q] = "kick" /\ Members(record) = Members(rooms[target[q]]) \ left
               \/ /\ op[q] \notin {"create", "join", "leave", "kick"}
                  /\ Members(record) = Members(rooms[target[q]])
        PROVE  Ix'
    <3>1. /\ OthersWait(q) /\ pc'[q] = "save" /\ loaded'[q] = rooms[target[q]] /\ draft'[q] = record
          /\ todo'[q] = left /\ UNCHANGED <<rooms, memberOf, roomSeq, op, target>>
      BY <2>2 DEF Accept, Goto, OthersWait, OthersKeep, Shape, TypeOK, store
    <3>2. op[q] \notin {"create", "leave"} /\ ~Doing(q, "kick", {"index"})
      BY <2>2 DEF Doing
    <3>3. DraftAt(q)'
      BY <2>2, <3>1 DEF DraftAt, Caller
    <3>4. RequestIx(q)'
      BY <3>1, <3>2, <3>3 DEF RequestIx, WhereAt, IndexAt, Doing
    <3>5. ASSUME NEW p \in Requests, op[p] = "create", target[p] = target[q], op[q] = "join"
          PROVE  pc[p] = "index" /\ Caller(p) # Caller(q)
      <4>1. pc[p] \in {"save", "index"}
        BY <3>5 DEF Shape
      <4>2. pc[p] # "save"
        BY <2>2, <3>5 DEF Safe, RequestOK, ReservedAt, Creating, Present
      <4>3. rooms[target[q]].owner = Caller(p)
        BY <2>2, <3>5, <4>1, <4>2 DEF Ix, RequestIx, IndexAt, Doing, Present
      <4>4. rooms[target[q]].owner \in Members(rooms[target[q]])
        BY <2>2 DEF Shape, Listed, Present
      <4>5. Caller(q) \notin Members(rooms[target[q]])
        BY <2>2, <3>5
      <4> QED
        BY <4>1, <4>2, <4>3, <4>4, <4>5
    <3>6. \A p \in Requests : PairOK(p, q)' /\ PairOK(q, p)'
      <4>1. \A p \in Requests : PairOK(q, p)'
        BY <3>1, <3>2 DEF PairOK
      <4>2. ASSUME NEW p \in Requests \ {q} PROVE PairOK(p, q)'
        BY <3>1, <3>2, <3>5 DEF PairOK, Doing, OthersWait, OthersKeep
      <4> QED
        BY <4>1, <4>2
    <3>7. roomSeq \in Nat
      BY DEF Shape, TypeOK
    <3> QED
      BY <3>1, <3>2, <3>4, <3>6, <3>7, IxQuiet
  <2> QED
    BY <1>4, <2>1, <2>2, LoadMembers
<1>5. CASE LeaveLoad(q)
  <2>1. /\ OthersWait(q) /\ pc'[q] = "unindex" /\ loaded'[q] = rooms[target[q]] /\ op[q] = "leave"
        /\ pc[q] = "load" /\ UNCHANGED <<rooms, memberOf, roomSeq, op, target>>
    BY <1>5 DEF LeaveLoad, Loads, Goto, OthersWait, OthersKeep, Shape, TypeOK, store
  <2>2. WhereAt(q)
    BY DEF Ix, RequestIx
  <2>3. RequestIx(q)'
    BY <2>1, <2>2 DEF RequestIx, WhereAt, DraftAt, IndexAt, Doing
  <2>4. \A p \in Requests : PairOK(p, q)' /\ PairOK(q, p)'
    BY <2>1, PairsKeep
  <2>5. roomSeq \in Nat /\ ~Doing(q, "kick", {"index"})
    BY <2>1 DEF Shape, TypeOK, Doing
  <2> QED
    BY <2>1, <2>3, <2>4, <2>5, IxQuiet
<1>6. CASE Handoff(q)
  <2>1. pc[q] = "handoff" /\ ~Doing(q, "kick", {"index"}) /\ UNCHANGED <<rooms, memberOf, roomSeq>>
    BY <1>6 DEF Handoff, store, Doing
  <2>2. CASE Finish(q)
    BY <2>1, <2>2, IxFinish
  <2>3. ASSUME NEW m, todo' = [todo EXCEPT ![q] = @ \ {m}], UNCHANGED <<pc, op, target, loaded, draft>>
        PROVE  Ix'
    <3>1. OthersWait(q) /\ pc'[q] = "handoff"
      BY <2>1, <2>3 DEF OthersWait, OthersKeep, Shape, TypeOK
    <3>2. op[q] # "create" /\ roomSeq \in Nat /\ WhereAt(q)
      BY <2>1 DEF Shape, TypeOK, Ix, RequestIx
    <3>3. RequestIx(q)'
      BY <2>3, <3>1, <3>2, <2>1 DEF RequestIx, WhereAt, DraftAt, IndexAt, Doing
    <3>4. \A p \in Requests : PairOK(p, q)' /\ PairOK(q, p)'
      BY <2>1, <2>3, <3>1, <3>2, PairsKeep
    <3> QED
      BY <2>1, <3>1, <3>2, <3>3, <3>4, IxQuiet
  <2> QED
    BY <1>6, <2>2, <2>3 DEF Handoff
<1> QED
  BY <1>1, <1>2, <1>3, <1>4, <1>5, <1>6

\* No other request is inside the lock of q's room.
LEMMA LockApart ==
    ASSUME Safe, NEW q \in Requests, InLock(q), NEW p \in Requests \ {q}, InLock(p)
    PROVE  target[p] # target[q]
BY DEF Safe, RequestOK, HeldAt

\* A step of q that only clears index entries.
LEMMA IxClears ==
    ASSUME Shape, Ix, NEW q \in Requests, OthersWait(q), UNCHANGED <<rooms, roomSeq, op, target>>,
           op[q] # "create", pc'[q] \notin {"index", "unindex"}, pc'[q] = "save" => pc[q] = "save" \/ op[q] = "leave",
           memberOf' \in [Accounts -> Nat],
           \A a \in Accounts : memberOf'[a] \in {memberOf[a], 0},
           Doing(q, "kick", {"index"}) => \A a \in todo[q] : memberOf'[a] = 0,
           RequestIx(q)'
    PROVE  Ix'
<1> USE RoomsAssumption, RulesAssumption
<1>1. roomSeq \in Nat /\ target \in [Requests -> Nat] /\ memberOf \in [Accounts -> Nat]
  BY DEF Shape, TypeOK
<1>2. ASSUME NEW p \in Requests \ {q} PROVE IndexAt(p)'
  <2>1. IndexAt(p) /\ (pc[p] # "idle" => target[p] # 0) /\ Caller(p) \in Accounts
    BY <1>2, CallerType DEF Ix, RequestIx, Shape, RoomIds
  <2> QED
    BY <2>1 DEF IndexAt, Doing, OthersWait, OthersKeep
<1>3. \A p \in Requests : PairOK(p, q)' /\ PairOK(q, p)'
  BY PairsKeep
<1>4. Bounded'
  BY <1>1 DEF Ix, Bounded
<1>5. Entries'
  <2> SUFFICES ASSUME NEW r \in RoomIds, rooms[r] # NoRoom, NEW a \in Accounts, memberOf'[a] = r
               PROVE  a \in Members(rooms[r]) \/ Dropping(r, a)'
    BY DEF Entries
  <2>1. memberOf[a] = r /\ r # 0
    BY DEF RoomIds
  <2>2. a \in Members(rooms[r]) \/ Dropping(r, a)
    BY <2>1 DEF Ix, Entries
  <2>3. ~(Doing(q, "kick", {"index"}) /\ a \in todo[q])
    BY <2>1
  <2> QED
    BY <2>2, <2>3 DEF Dropping, Doing, OthersWait, OthersKeep
<1> QED
  BY <1>1, <1>2, <1>3, <1>4, <1>5, IxOf

\* LEAVE, the sweep of a dismissed room and KICK drop entries.
LEMMA IxDrops ==
    ASSUME IInv, Ix, NEW q \in Requests, LeaveUnindex(q) \/ DismissSweep(q) \/ KickUnindex(q)
    PROVE  Ix'
<1> USE RoomsAssumption, RulesAssumption DEF IInv
<1>0. /\ memberOf \in [Accounts -> Nat] /\ Caller(q) \in Accounts /\ WhereAt(q) /\ IndexAt(q)
      /\ pc[q] # "idle" => target[q] # 0
  BY CallerType DEF Shape, TypeOK, Ix, RequestIx, RoomIds
<1>1. CASE LeaveUnindex(q)
  <2>1. /\ pc[q] = "unindex" /\ memberOf' = [memberOf EXCEPT ![Caller(q)] = 0]
        /\ UNCHANGED <<rooms, roomSeq, op, target, loaded, todo>>
    BY <1>1 DEF LeaveUnindex
  <2>2. op[q] = "leave" /\ ~Doing(q, "kick", {"index"})
    BY <1>0, <2>1 DEF WhereAt, Doing
  <2>3. memberOf' \in [Accounts -> Nat] /\ \A a \in Accounts : memberOf'[a] \in {memberOf[a], 0}
    BY <1>0, <2>1
  <2>4. memberOf'[Caller(q)] # target[q]
    BY <1>0, <2>1
  <2>5. CASE loaded[q] = NoRoom /\ Goto(q, "release") /\ UNCHANGED draft
    <3>1. OthersWait(q) /\ pc'[q] = "release"
      BY <2>1, <2>5 DEF OthersWait, OthersKeep, Goto, Shape, TypeOK
    <3>2. RequestIx(q)'
      BY <2>1, <2>2, <3>1, <1>0 DEF RequestIx, WhereAt, DraftAt, IndexAt, Doing
    <3> QED
      BY <2>1, <2>2, <2>3, <3>1, <3>2, IxClears
  <2>6. CASE loaded[q] # NoRoom /\ Goto(q, "delete") /\ UNCHANGED draft
    <3>1. OthersWait(q) /\ pc'[q] = "delete"
      BY <2>1, <2>6 DEF OthersWait, OthersKeep, Goto, Shape, TypeOK
    <3>2. RequestIx(q)'
      BY <2>1, <2>2, <2>4, <3>1, <1>0 DEF RequestIx, WhereAt, DraftAt, IndexAt, Doing, Caller
    <3> QED
      BY <2>1, <2>2, <2>3, <3>1, <3>2, IxClears
  <2>7. CASE /\ loaded[q] # NoRoom /\ Goto(q, "save")
             /\ draft' = [draft EXCEPT ![q] = Without(loaded[q], Caller(q))]
    <3>1. OthersWait(q) /\ pc'[q] = "save" /\ draft'[q] = Without(loaded[q], Caller(q))
      BY <2>1, <2>7 DEF OthersWait, OthersKeep, Goto, Shape, TypeOK
    <3>2. loaded[q] \in Room
      BY <2>7 DEF Shape, TypeOK
    <3>3. Members(Without(loaded[q], Caller(q))) = Members(loaded[q]) \ {Caller(q)}
      BY <3>2, <1>0 DEF Without, Members, Room
    <3>4. RequestIx(q)'
      BY <2>1, <2>2, <2>4, <3>1, <3>3, <1>0 DEF RequestIx, WhereAt, DraftAt, IndexAt, Doing, Caller
    <3> QED
      BY <2>1, <2>2, <2>3, <3>1, <3>4, IxClears
  <2> QED
    BY <1>1, <2>5, <2>6, <2>7 DEF LeaveUnindex
<1>2. CASE DismissSweep(q)
  <2>1. PICK m \in todo[q] :
           /\ memberOf' = [memberOf EXCEPT ![m] = 0]
           /\ Goto(q, IF todo[q] = {m} THEN "release" ELSE "sweep")
           /\ todo' = [todo EXCEPT ![q] = @ \ {m}]
    BY <1>2 DEF DismissSweep
  <2>2. pc[q] = "sweep" /\ UNCHANGED <<rooms, roomSeq, op, target, loaded, draft>>
    BY <1>2 DEF DismissSweep
  <2>3. op[q] = "leave" /\ ~Doing(q, "kick", {"index"}) /\ rooms[target[q]] = NoRoom
    BY <1>0, <2>2 DEF WhereAt, IndexAt, Doing
  <2>4. memberOf' \in [Accounts -> Nat] /\ \A a \in Accounts : memberOf'[a] \in {memberOf[a], 0}
    BY <1>0, <2>1
  <2>5. OthersWait(q) /\ pc'[q] \in {"release", "sweep"}
    BY <2>1, <2>2 DEF OthersWait, OthersKeep, Goto, Shape, TypeOK
  <2>6. RequestIx(q)'
    BY <2>2, <2>3, <2>5, <1>0 DEF RequestIx, WhereAt, DraftAt, IndexAt, Doing
  <2> QED
    BY <2>2, <2>3, <2>4, <2>5, <2>6, IxClears
<1>3. CASE KickUnindex(q)
  <2>1. /\ pc[q] = "index" /\ op[q] = "kick" /\ UNCHANGED <<rooms, roomSeq, op, target, loaded, draft>>
        /\ memberOf' = [a \in Accounts |-> IF a \in todo[q] THEN 0 ELSE memberOf[a]]
        /\ todo' = [todo EXCEPT ![q] = {}] /\ Goto(q, "release")
    BY <1>3 DEF KickUnindex
  <2>2. OthersWait(q) /\ pc'[q] = "release"
    BY <2>1 DEF OthersWait, OthersKeep, Goto, Shape, TypeOK
  <2>3. memberOf' \in [Accounts -> Nat] /\ \A a \in Accounts : memberOf'[a] \in {memberOf[a], 0}
    BY <1>0, <2>1
  <2>4. \A a \in todo[q] : memberOf'[a] = 0
    BY <2>1 DEF Shape, TypeOK
  <2>5. RequestIx(q)'
    BY <2>1, <2>2, <1>0 DEF RequestIx, WhereAt, DraftAt, IndexAt, Doing
  <2> QED
    BY <2>1, <2>2, <2>3, <2>4, <2>5, IxClears
<1> QED
  BY <1>1, <1>2, <1>3

\* JOIN and CREATE write the caller's entry, nobody else's.
LEMMA IxWrites ==
    ASSUME IInv, Ix, NEW q \in Requests, JoinIndex(q) \/ CreateIndex(q)
    PROVE  Ix'
<1> USE RoomsAssumption, RulesAssumption DEF IInv
<1>0. /\ memberOf \in [Accounts -> Nat] /\ roomSeq \in Nat /\ target \in [Requests -> Nat]
      /\ Caller(q) \in Accounts /\ WhereAt(q) /\ IndexAt(q) /\ target[q] \in RoomIds
  BY CallerType DEF Shape, TypeOK, Ix, RequestIx, JoinIndex, CreateIndex
<1>1. /\ memberOf' = [memberOf EXCEPT ![Caller(q)] = target[q]] /\ pc[q] = "index"
      /\ op[q] \in {"create", "join"} /\ UNCHANGED <<rooms, roomSeq>>
  BY DEF JoinIndex, CreateIndex
<1>2. OthersWait(q) /\ pc'[q] \in {"release", "idle"}
  BY <1>1 DEF JoinIndex, CreateIndex, Goto, Finish, OthersWait, OthersKeep, Shape, TypeOK, local
<1>3. op'[q] = "none" \/ (op[q] = "join" /\ op'[q] = op[q] /\ target'[q] = target[q])
  <2>1. CASE JoinIndex(q)
    BY <2>1 DEF JoinIndex, local
  <2>2. CASE CreateIndex(q)
    BY <2>2 DEF CreateIndex, Finish, Shape, TypeOK
  <2> QED
    BY <2>1, <2>2
<1>4. RequestIx(q)'
  BY <1>2, <1>3 DEF RequestIx, WhereAt, DraftAt, IndexAt, Doing
<1>5. \A p \in Requests : PairOK(p, q)' /\ PairOK(q, p)'
  BY <1>2, <1>3, PairsKeep
<1>6. ASSUME NEW p \in Requests \ {q}, target[p] = target[q]
      PROVE  /\ ~Doing(p, "create", {"save"})
             /\ Doing(p, "create", {"index"}) => Caller(p) # Caller(q)
             /\ Doing(p, "leave", {"save", "delete"}) => Caller(p) # Caller(q)
  <2>1. PairOK(p, q) /\ PairOK(q, p)
    BY DEF Ix
  <2>2. CASE op[q] = "create"
    BY <1>6, <2>1, <2>2 DEF PairOK, Doing
  <2>3. CASE op[q] = "join"
    <3>1. ~Doing(p, "leave", {"save", "delete"})
      BY <1>1, <1>6, <2>3, LockApart DEF Doing, InLock
    <3> QED
      BY <1>1, <1>6, <2>1, <2>3, <3>1 DEF PairOK, Doing
  <2> QED
    BY <1>1, <2>2, <2>3
<1>7. ASSUME NEW p \in Requests \ {q} PROVE IndexAt(p)'
  <2>1. IndexAt(p) /\ Caller(p) \in Accounts
    BY CallerType DEF Ix, RequestIx
  <2>2. CASE target[p] = target[q]
    BY <1>0, <1>1, <1>2, <1>6, <2>1, <2>2 DEF IndexAt, Doing, OthersWait, OthersKeep
  <2>3. CASE target[p] # target[q]
    BY <1>0, <1>1, <1>2, <2>1, <2>3 DEF IndexAt, Doing, OthersWait, OthersKeep
  <2> QED
    BY <2>2, <2>3
<1>8. Bounded'
  <2>1. target[q] <= roomSeq
    <3>1. CASE op[q] = "create"
      BY <1>0, <3>1 DEF WhereAt
    <3>2. CASE op[q] = "join"
      <4>1. rooms[target[q]] # NoRoom
        BY <1>0, <1>1, <3>2 DEF IndexAt, Doing
      <4> QED
        BY <1>0, <4>1 DEF Safe, Beyond
    <3> QED
      BY <1>1, <3>1, <3>2
  <2> QED
    BY <1>0, <1>1, <2>1 DEF Ix, Bounded
<1>9. Entries'
  <2>1. rooms[target[q]] # NoRoom => Caller(q) \in Members(rooms[target[q]])
    <3>1. CASE op[q] = "create"
      BY <1>0, <1>1, <3>1 DEF IndexAt, Doing, Shape, Listed
    <3>2. CASE op[q] = "join"
      BY <1>0, <1>1, <3>2 DEF IndexAt, Doing
    <3> QED
      BY <1>1, <3>1, <3>2
  <2>2. \A r \in RoomIds, a \in Accounts : Dropping(r, a) => Dropping(r, a)'
    BY <1>1, <1>2 DEF Dropping, Doing, OthersWait, OthersKeep
  <2> QED
    BY <1>0, <1>1, <2>1, <2>2 DEF Ix, Entries
<1> QED
  BY <1>0, <1>1, <1>2, <1>4, <1>5, <1>7, <1>8, <1>9, IxOf

\* CREATE, a save and a dismissal write the record.
LEMMA IxSaves ==
    ASSUME IInv, Ix, NEW q \in Requests, CreateSave(q) \/ Save(q) \/ DismissDelete(q)
    PROVE  Ix'
<1> USE RoomsAssumption, RulesAssumption DEF IInv
<1> DEFINE r == target[q]
<1>0. /\ memberOf \in [Accounts -> Nat] /\ roomSeq \in Nat /\ target \in [Requests -> Nat]
      /\ Caller(q) \in Accounts /\ WhereAt(q) /\ IndexAt(q) /\ DraftAt(q) /\ r \in RoomIds
      /\ RequestOK(q)
  BY CallerType DEF Shape, TypeOK, Ix, RequestIx, CreateSave, Save, DismissDelete, Safe
<1>1. /\ OthersWait(q) /\ UNCHANGED <<memberOf, roomSeq, op, target, loaded, draft>>
      /\ pc'[q] \in {"index", "release", "sweep"} /\ pc[q] \in {"save", "delete"}
  <2>1. CASE CreateSave(q)
    BY <2>1 DEF CreateSave, Goto, OthersWait, OthersKeep, Shape, TypeOK, local
  <2>2. CASE Save(q)
    BY <2>2 DEF Save, Goto, OthersWait, OthersKeep, Shape, TypeOK, local
  <2>3. CASE DismissDelete(q)
    BY <2>3 DEF DismissDelete, Goto, OthersWait, OthersKeep, Shape, TypeOK
  <2> QED
    BY <2>1, <2>2, <2>3
<1>2. PICK new : rooms' = [rooms EXCEPT ![r] = new]
  BY DEF CreateSave, Save, DismissDelete
<1>3. rooms'[r] = new /\ \A s \in RoomIds : s # r => rooms'[s] = rooms[s]
  BY <1>0, <1>2 DEF Shape, TypeOK
<1>4. Bounded'
  BY <1>1 DEF Ix, Bounded
<1>6. CASE CreateSave(q)
  <2>1. PICK max \in Capacities, game \in GameModes, group \in GroupModes : new = NewRoom(Caller(q), max, game, group)
    BY <1>0, <1>3, <1>6 DEF CreateSave, Shape, TypeOK
  <2>2. op[q] = "create" /\ pc[q] = "save" /\ pc'[q] = "index" /\ rooms[r] = NoRoom /\ new.owner = Caller(q)
    BY <1>0, <1>6, <2>1 DEF CreateSave, Goto, Shape, TypeOK, RequestOK, ReservedAt, Creating, NewRoom
  <2>3. RequestIx(q)'
    BY <1>0, <1>1, <1>3, <2>2 DEF RequestIx, WhereAt, DraftAt, IndexAt, Doing, Caller
  <2>4. \A p \in Requests : PairOK(p, q)' /\ PairOK(q, p)'
    BY <1>1, <2>2, PairsKeep
  <2>5. ASSUME NEW p \in Requests \ {q} PROVE IndexAt(p)'
    <3>1. IndexAt(p) /\ PairOK(q, p) /\ (pc[p] # "idle" => target[p] \in RoomIds)
          /\ WhereAt(p) /\ (pc[p] = "idle" => op[p] = "none")
      BY DEF Ix, RequestIx, Shape
    <3>2. CASE target[p] = r
      BY <1>1, <2>2, <3>1, <3>2 DEF IndexAt, WhereAt, Doing, OthersWait, OthersKeep, PairOK
    <3>3. CASE target[p] # r
      BY <1>1, <1>3, <3>1, <3>3 DEF IndexAt, Doing, OthersWait, OthersKeep
    <3> QED
      BY <3>2, <3>3
  <2>6. Entries'
    <3>1. \A a \in Accounts : memberOf[a] # r
      BY <1>0, <2>2 DEF IndexAt, Doing
    <3>2. \A s \in RoomIds, a \in Accounts : Dropping(s, a) => Dropping(s, a)'
      BY <1>1, <2>2 DEF Dropping, Doing, OthersWait, OthersKeep
    <3> QED
      BY <1>1, <1>3, <3>1, <3>2 DEF Ix, Entries
  <2> QED
    BY <1>0, <1>1, <1>4, <2>3, <2>4, <2>5, <2>6, IxOf
<1>7. CASE Save(q) \/ DismissDelete(q)
  <2>1. op[q] # "create" /\ InLock(q) /\ rooms[r] # NoRoom /\ rooms[r] = loaded[q]
    <3>1. CASE Save(q)
      BY <1>0, <3>1 DEF Save, InLock, RequestOK, FreshAt
    <3>2. CASE DismissDelete(q)
      BY <1>0, <3>2 DEF DismissDelete, InLock, RequestOK, FreshAt, WhereAt
    <3> QED
      BY <1>7, <3>1, <3>2
  <2>2. new # NoRoom => new.owner = rooms[r].owner
    <3>1. CASE Save(q)
      <4>1. Legal(loaded[q], draft[q]) /\ new = draft[q] /\ loaded[q] \in Room
        BY <1>0, <1>3, <3>1, <2>1 DEF Save, RequestOK, FreshAt, Shape, TypeOK
      <4> QED
        BY <2>1, <4>1, LegalKeepsOwner
    <3>2. CASE DismissDelete(q)
      BY <1>0, <1>3, <3>2 DEF DismissDelete, Shape, TypeOK
    <3> QED
      BY <1>7, <3>1, <3>2
  <2>3. \A p \in Requests \ {q} : InLock(p) => target[p] # r
    BY <2>1, LockApart
  <2>4. ASSUME NEW p \in Requests \ {q} PROVE IndexAt(p)'
    <3>1. IndexAt(p) /\ (pc[p] # "idle" => target[p] \in RoomIds)
      BY DEF Ix, RequestIx, Shape
    <3>2. CASE target[p] = r
      BY <1>1, <1>3, <2>1, <2>2, <2>3, <3>1, <3>2 DEF IndexAt, Doing, InLock, OthersWait, OthersKeep
    <3>3. CASE target[p] # r
      BY <1>1, <1>3, <3>1, <3>3 DEF IndexAt, Doing, OthersWait, OthersKeep
    <3> QED
      BY <3>2, <3>3
  <2>5. \A p \in Requests : PairOK(p, q)' /\ PairOK(q, p)'
    <3>1. op[q] = "join" /\ pc'[q] \in {"save", "index"} => pc[q] \in {"save", "index"}
      BY <1>0, <1>1 DEF WhereAt
    <3> QED
      BY <1>1, <2>1, <3>1, PairsKeep
  <2>6. \A s \in RoomIds, a \in Accounts : Dropping(s, a) => Dropping(s, a)' /\ s # r
    <3>1. ~Doing(q, "kick", {"index"})
      BY <1>1 DEF Doing
    <3>2. \A p \in Requests \ {q} : target[p] = r => ~Doing(p, "kick", {"index"})
      BY <2>3 DEF Doing, InLock
    <3> QED
      BY <1>1, <3>1, <3>2 DEF Dropping, Doing, OthersWait, OthersKeep
  <2>7. RequestIx(q)' /\ (new # NoRoom => \A a \in Accounts : memberOf[a] = r => a \in Members(new) \/ Dropping(r, a)')
    <3>1. CASE DismissDelete(q)
      <4>1. new = NoRoom /\ pc'[q] \in {"release", "sweep"} /\ op[q] = "leave"
        BY <1>0, <1>3, <3>1 DEF DismissDelete, Goto, Shape, TypeOK, WhereAt
      <4> QED
        BY <1>0, <1>1, <1>3, <4>1 DEF RequestIx, WhereAt, DraftAt, IndexAt, Doing
    <3>2. CASE Save(q)
      <4>1. /\ new = draft[q] /\ pc[q] = "save" /\ todo' = todo
            /\ pc'[q] = IF op[q] \in {"join", "kick"} THEN "index" ELSE "release"
        BY <1>0, <1>3, <3>2 DEF Save, Goto, Shape, TypeOK, local
      <4>2. new # NoRoom
        <5>1. loaded[q] \in Room /\ Legal(loaded[q], draft[q]) /\ loaded[q].owner \in Members(loaded[q])
          BY <1>0, <2>1, <4>1 DEF RequestOK, FreshAt, Shape, TypeOK, Listed
        <5>2. draft[q] \in Room
          BY <5>1, LegalKeepsRoom
        <5> QED
          BY <4>1, <5>2
      <4>3. RequestIx(q)'
        BY <1>0, <1>1, <1>3, <2>1, <4>1, <4>2 DEF RequestIx, WhereAt, DraftAt, IndexAt, Doing, Caller
      <4>4. ASSUME NEW a \in Accounts, memberOf[a] = r PROVE a \in Members(new) \/ Dropping(r, a)'
        <5>1. a \in Members(loaded[q])
          BY <1>0, <2>1, <2>6, <4>4 DEF Ix, Entries
        <5>2. CASE op[q] = "leave"
          <6>1. a # Caller(q)
            BY <1>0, <4>1, <4>4, <5>2 DEF IndexAt, Doing
          <6> QED
            BY <1>0, <4>1, <5>1, <5>2, <6>1 DEF DraftAt
        <5>3. CASE op[q] = "kick"
          <6>1. a \in todo[q] => Dropping(r, a)'
            BY <1>1, <4>1, <5>3 DEF Dropping, Doing
          <6> QED
            BY <1>0, <4>1, <5>1, <5>3, <6>1 DEF DraftAt
        <5> QED
          BY <1>0, <2>1, <4>1, <5>1, <5>2, <5>3 DEF DraftAt
      <4> QED
        BY <4>3, <4>4
    <3> QED
      BY <1>7, <3>1, <3>2
  <2>8. Entries'
    BY <1>1, <1>3, <2>6, <2>7 DEF Ix, Entries
  <2> QED
    BY <1>0, <1>1, <1>4, <2>4, <2>5, <2>7, <2>8, IxOf
<1> QED
  BY <1>6, <1>7

\* Every step, when no lease lapses and nothing fails.
LEMMA IxStep ==
    ASSUME MaxLapses = 0, MaxFaults = 0
    PROVE  IInv /\ Ix /\ [Next]_vars => Ix'
<1> SUFFICES ASSUME IInv, Ix, [Next]_vars PROVE Ix'
  OBVIOUS
<1>1. ASSUME UNCHANGED <<rooms, memberOf, roomSeq, pc, op, target, loaded, draft, todo>> PROVE Ix'
  <2>1. (\A q \in Requests : RequestIx(q))' /\ Bounded'
    BY <1>1 DEF Ix, RequestIx, WhereAt, DraftAt, IndexAt, Doing, Bounded, Caller
  <2>2. (\A p, q \in Requests : PairOK(p, q))'
    BY <1>1 DEF Ix, PairOK, Doing, Caller
  <2>3. Entries'
    BY <1>1 DEF Ix, Entries, Dropping, Doing
  <2> QED
    BY <2>1, <2>2, <2>3 DEF Ix
<1>2. CASE UNCHANGED vars
  BY <1>1, <1>2 DEF vars, store, local
<1>3. ASSUME NEW q \in Requests, Work(q) PROVE Ix'
  BY <1>3, IxLoads, IxDrops, IxWrites, IxSaves DEF Work, Loading
<1>4. ASSUME NEW q \in Requests, RedisError(q) \/ Crash(q) PROVE FALSE
  BY <1>4 DEF RedisError, Crash, IInv, Shape, TypeOK
<1>5. ASSUME NEW a \in Accounts, Disconnect(a) PROVE Ix'
  <2> DEFINE q == <<a, "close">>
  <2>1. q \in Requests /\ Caller(q) = a
    BY DEF Requests, Lanes, Caller
  <2>2. CASE memberOf[a] # 0 /\ Begin(q, "leave", memberOf[a])
    <3>1. memberOf[a] \in RoomIds
      BY <2>2 DEF IInv, Shape, TypeOK, RoomIds
    <3> QED
      BY <2>1, <2>2, <3>1, IxBegin DEF Operations, IInv
  <2>3. CASE UNCHANGED <<store, lease, pc, local, budget>>
    BY <1>1, <2>3 DEF store, local
  <2> QED
    BY <1>5, <2>2, <2>3 DEF Disconnect
<1>6. ASSUME NEW a \in Accounts, Reconnect(a) PROVE Ix'
  BY <1>1, <1>6 DEF Reconnect, store, local
<1>7. ASSUME NEW s \in RoomIds, OrphanExpires(s) \/ Lapse(s) PROVE Ix'
  BY <1>1, <1>7 DEF OrphanExpires, Lapse, store, local
<1> QED
  BY <1>2, <1>3, <1>4, <1>5, <1>6, <1>7, IxArrives DEF Next

\* The invariant of the index holds throughout.
LEMMA IxAlways ==
    ASSUME MaxLapses = 0, MaxFaults = 0
    PROVE  Spec => [](IInv /\ Ix)
<1>1. Init => Ix
  <2> SUFFICES ASSUME Init PROVE Ix
    OBVIOUS
  <2>1. \A q \in Requests : RequestIx(q)
    BY DEF Init, RequestIx, WhereAt, DraftAt, IndexAt, Doing
  <2>2. \A p, q \in Requests : PairOK(p, q)
    BY DEF Init, PairOK
  <2>3. Bounded /\ Entries
    BY DEF Init, Bounded, Entries
  <2> QED
    BY <2>1, <2>2, <2>3 DEF Ix
<1>2. IInv /\ Ix /\ [Next]_vars => Ix'
  BY IxStep
<1> QED
  BY <1>1, <1>2, IInvAlways, PTL DEF Spec

\* In one room the converse holds too: a member has its entry, or the request that
\* gives it or takes it away is at work.  An account in two rooms has one entry.
Writing(a) ==
    \E q \in Requests :
        /\ Caller(q) = a
        /\ Doing(q, "join", {"index"}) \/ Doing(q, "create", {"index"}) \/ Doing(q, "leave", {"save", "delete"})

Indexed == \A r \in RoomIds : rooms[r] # NoRoom =>
               \A a \in Members(rooms[r]) : memberOf[a] = r \/ Writing(a)

\* A step that leaves records and entries alone, by a request that is not writing.
LEMMA IndexedQuiet ==
    ASSUME Indexed, UNCHANGED <<rooms, memberOf>>, NEW q \in Requests, OthersWait(q),
           ~(Doing(q, "join", {"index"}) \/ Doing(q, "create", {"index"}) \/ Doing(q, "leave", {"save", "delete"}))
    PROVE  Indexed'
<1>1. \A a : Writing(a) => Writing(a)'
  BY DEF Writing, Doing, OthersWait, OthersKeep
<1> QED
  BY <1>1 DEF Indexed

\* Every step keeps the index right.
LEMMA IndexedStep ==
    ASSUME MaxRooms = 1, MaxLapses = 0, MaxFaults = 0
    PROVE  IInv /\ Ix /\ Indexed /\ [Next]_vars => Indexed'
<1> SUFFICES ASSUME IInv, Ix, Indexed, [Next]_vars PROVE Indexed'
  OBVIOUS
<1>0. RoomIds = {1} /\ \A q \in Requests : pc[q] # "idle" => target[q] = 1
  BY DEF RoomIds, IInv, Shape
<1>1. ASSUME UNCHANGED <<rooms, memberOf, pc, op>> PROVE Indexed'
  BY <1>1 DEF Indexed, Writing, Doing, Caller
<1>2. CASE UNCHANGED vars
  BY <1>1, <1>2 DEF vars, store, local
<1>3. ASSUME NEW q \in Requests, pc[q] \in {"idle", "lock", "load", "release", "handoff"},
             UNCHANGED <<rooms, memberOf>>, OthersWait(q)
      PROVE  Indexed'
  BY <1>3, IndexedQuiet DEF Doing
<1>4. ASSUME NEW q \in Requests, Arrive(q) PROVE Indexed'
  <2>1. OthersWait(q) /\ pc[q] = "idle" /\ UNCHANGED <<rooms, memberOf>>
    BY <1>4 DEF Arrive, CreateRequest, RequestById, RequestByIndex, RequestReenter, Begin, Goto, store,
                OthersWait, OthersKeep, IInv, Shape, TypeOK
  <2> QED
    BY <1>3, <2>1
<1>5. ASSUME NEW q \in Requests, Work(q) PROVE Indexed'
  <2>1. CASE Acquire(q) \/ GiveUp(q) \/ Release(q) \/ LeaveLoad(q)
    <3>1. OthersWait(q)
      BY <2>1 DEF Acquire, GiveUp, Release, LeaveLoad, Goto, Finish, local, OthersWait, OthersKeep, IInv, Shape, TypeOK
    <3>2. pc[q] \in {"lock", "load", "release"} /\ UNCHANGED <<rooms, memberOf>>
      BY <2>1 DEF Acquire, GiveUp, Release, LeaveLoad, Loads, store
    <3> QED
      BY <1>3, <3>1, <3>2
  <2>2. CASE Loading(q)
    <3>1. pc[q] = "load"
      BY <2>2, LoadCases DEF IInv
    <3>2. OthersWait(q) /\ UNCHANGED <<rooms, memberOf>>
      <4>1. CASE Refuse(q)
        BY <4>1 DEF Refuse, Goto, store, local, OthersWait, OthersKeep, IInv, Shape, TypeOK
      <4>2. ASSUME NEW record, NEW left, Accept(q, record, left)
            PROVE  OthersWait(q) /\ UNCHANGED <<rooms, memberOf>>
        BY <4>2 DEF Accept, Goto, store, OthersWait, OthersKeep, IInv, Shape, TypeOK
      <4> QED
        BY <2>2, <4>1, <4>2, LoadCases DEF IInv
    <3> QED
      BY <1>3, <3>1, <3>2
  <2>3. CASE Handoff(q)
    <3>1. pc[q] = "handoff" /\ UNCHANGED <<rooms, memberOf>>
      BY <2>3 DEF Handoff, store
    <3>2. CASE Finish(q)
      <4>1. OthersWait(q)
        BY <3>2 DEF Finish, OthersWait, OthersKeep, IInv, Shape, TypeOK
      <4> QED
        BY <1>3, <3>1, <4>1
    <3>3. CASE UNCHANGED <<pc, op>>
      BY <1>1, <3>1, <3>3
    <3> QED
      BY <2>3, <3>2, <3>3 DEF Handoff
  <2>4. CASE LeaveUnindex(q)
    <3>1. /\ pc[q] = "unindex" /\ op[q] = "leave" /\ memberOf' = [memberOf EXCEPT ![Caller(q)] = 0]
          /\ UNCHANGED <<rooms, op>>
      BY <2>4 DEF LeaveUnindex, Ix, RequestIx, WhereAt
    <3>2. CASE loaded[q] = NoRoom
      BY <1>0, <3>1, <3>2 DEF Ix, RequestIx, IndexAt, Doing, Indexed
    <3>3. CASE loaded[q] # NoRoom
      <4>1. pc'[q] \in {"save", "delete"} /\ OthersWait(q)
        BY <2>4, <3>3 DEF LeaveUnindex, Goto, OthersWait, OthersKeep, IInv, Shape, TypeOK
      <4>2. Writing(Caller(q))' /\ \A a \in Accounts : Writing(a) => Writing(a)'
        BY <3>1, <4>1 DEF Writing, Doing, Caller, OthersWait, OthersKeep
      <4>3. memberOf \in [Accounts -> 0..MaxRooms] /\ \A room : Members(room) \subseteq Accounts
        BY DEF IInv, Shape, TypeOK, Members
      <4> QED
        BY <3>1, <4>2, <4>3, CallerType DEF Indexed
    <3> QED
      BY <3>2, <3>3
  <2>5. CASE CreateSave(q)
    <3>1. PICK max \in Capacities, game \in GameModes, group \in GroupModes :
             rooms' = [rooms EXCEPT ![target[q]] = NewRoom(Caller(q), max, game, group)]
      BY <2>5 DEF CreateSave
    <3>2. pc'[q] = "index" /\ op'[q] = "create" /\ target[q] = 1
      BY <1>0, <2>5 DEF CreateSave, Goto, local, IInv, Shape, TypeOK
    <3>3. rooms'[1] = NewRoom(Caller(q), max, game, group)
      BY <1>0, <3>1, <3>2 DEF IInv, Shape, TypeOK
    <3>4. \A a \in Accounts : Away = Away /\ (a # Caller(q) => NewRoom(Caller(q), max, game, group).members[a] = Away)
      BY DEF NewRoom
    <3>5. Members(rooms'[1]) \subseteq {Caller(q)}
      BY <3>3, <3>4 DEF Members
    <3>6. Writing(Caller(q))'
      BY <3>2 DEF Writing, Doing, Caller
    <3> QED
      BY <1>0, <3>5, <3>6 DEF Indexed
  <2>6. CASE JoinIndex(q) \/ CreateIndex(q)
    <3>1. /\ memberOf' = [memberOf EXCEPT ![Caller(q)] = 1] /\ UNCHANGED rooms /\ OthersWait(q)
      BY <1>0, <2>6 DEF JoinIndex, CreateIndex, Goto, Finish, local, OthersWait, OthersKeep, IInv, Shape, TypeOK
    <3>2. \A a \in Accounts \ {Caller(q)} : Writing(a) => Writing(a)'
      BY <3>1 DEF Writing, Doing, OthersWait, OthersKeep, Caller
    <3>3. memberOf \in [Accounts -> 0..MaxRooms] /\ \A room : Members(room) \subseteq Accounts
      BY DEF IInv, Shape, TypeOK, Members
    <3> QED
      BY <1>0, <3>1, <3>2, <3>3, CallerType DEF Indexed
  <2>7. CASE Save(q)
    <3>1. /\ rooms' = [rooms EXCEPT ![target[q]] = draft[q]] /\ target[q] = 1 /\ op[q] # "create"
          /\ pc[q] = "save" /\ UNCHANGED <<memberOf, op>> /\ OthersWait(q)
          /\ (op[q] = "join" => pc'[q] = "index")
      BY <1>0, <2>7 DEF Save, Goto, local, OthersWait, OthersKeep, IInv, Shape, TypeOK
    <3>2. rooms'[1] = draft[q] /\ rooms[1] = loaded[q] /\ rooms[1] # NoRoom
      BY <1>0, <3>1 DEF IInv, Safe, RequestOK, FreshAt, Shape, TypeOK
    <3>3. /\ Members(draft[q]) \subseteq Members(loaded[q]) \cup {Caller(q)}
          /\ op[q] # "join" => Members(draft[q]) \subseteq Members(loaded[q])
          /\ op[q] = "leave" => Caller(q) \notin Members(draft[q])
      BY <3>1 DEF Ix, RequestIx, DraftAt
    <3>4. \A a \in Accounts \ {Caller(q)} : Writing(a) => Writing(a)'
      BY <3>1 DEF Writing, Doing, OthersWait, OthersKeep, Caller
    <3>5. op[q] = "join" => Writing(Caller(q))'
      BY <3>1 DEF Writing, Doing, Caller
    <3>6. op[q] \notin {"join", "leave"} /\ Writing(Caller(q)) => Writing(Caller(q))'
      BY <3>1 DEF Writing, Doing, OthersWait, OthersKeep, Caller
    <3>7. \A a \in Members(draft[q]) : memberOf'[a] = 1 \/ Writing(a)'
      <4> SUFFICES ASSUME NEW a \in Members(draft[q]), memberOf[a] # 1, ~Writing(a)' PROVE FALSE
        BY <3>1
      <4>1. a \in Accounts
        BY DEF Members
      <4>2. a \in Members(loaded[q])
        BY <3>3, <3>5
      <4>3. Writing(a)
        BY <1>0, <3>2, <4>2 DEF Indexed
      <4> QED
        BY <3>3, <3>4, <3>5, <3>6, <4>1, <4>3
    <3> QED
      BY <1>0, <3>2, <3>7 DEF Indexed
  <2>8. CASE DismissDelete(q)
    <3>1. rooms'[1] = NoRoom
      BY <1>0, <2>8 DEF DismissDelete, IInv, Shape, TypeOK
    <3> QED
      BY <1>0, <3>1 DEF Indexed
  <2>9. CASE DismissSweep(q)
    <3>1. rooms[1] = NoRoom /\ UNCHANGED rooms
      BY <1>0, <2>9 DEF DismissSweep, Ix, RequestIx, WhereAt, IndexAt, Doing
    <3> QED
      BY <1>0, <3>1 DEF Indexed
  <2>10. CASE KickUnindex(q)
    <3>1. /\ op[q] = "kick" /\ pc[q] = "index" /\ UNCHANGED rooms /\ OthersWait(q)
          /\ memberOf' = [a \in Accounts |-> IF a \in todo[q] THEN 0 ELSE memberOf[a]]
      BY <2>10 DEF KickUnindex, Goto, OthersWait, OthersKeep, IInv, Shape, TypeOK
    <3>2. todo[q] \cap Members(rooms[1]) = {}
      BY <1>0, <3>1 DEF Ix, RequestIx, IndexAt, Doing
    <3>3. \A a : Writing(a) => Writing(a)'
      BY <3>1 DEF Writing, Doing, OthersWait, OthersKeep
    <3>4. \A a \in Members(rooms[1]) : memberOf'[a] = memberOf[a]
      BY <3>1, <3>2 DEF Members
    <3> QED
      BY <1>0, <3>1, <3>3, <3>4 DEF Indexed
  <2> QED
    BY <1>5, <2>1, <2>2, <2>3, <2>4, <2>5, <2>6, <2>7, <2>8, <2>9, <2>10 DEF Work, Loading
<1>6. ASSUME NEW q \in Requests, RedisError(q) \/ Crash(q) PROVE FALSE
  BY <1>6 DEF RedisError, Crash, IInv, Shape, TypeOK
<1>7. ASSUME NEW a \in Accounts, Disconnect(a) PROVE Indexed'
  <2> DEFINE q == <<a, "close">>
  <2>1. q \in Requests
    BY DEF Requests, Lanes
  <2>2. CASE Begin(q, "leave", memberOf[a])
    <3>1. OthersWait(q) /\ pc[q] = "idle" /\ UNCHANGED <<rooms, memberOf>>
      BY <2>1, <2>2 DEF Begin, store, OthersWait, OthersKeep, IInv, Shape, TypeOK
    <3> QED
      BY <1>3, <2>1, <3>1
  <2>3. CASE UNCHANGED <<store, lease, pc, local, budget>>
    BY <1>1, <2>3 DEF store, local
  <2> QED
    BY <1>7, <2>2, <2>3 DEF Disconnect
<1>8. ASSUME NEW a \in Accounts, Reconnect(a) PROVE Indexed'
  BY <1>1, <1>8 DEF Reconnect, store, local
<1>9. ASSUME NEW s \in RoomIds, OrphanExpires(s) \/ Lapse(s) PROVE Indexed'
  BY <1>1, <1>9 DEF OrphanExpires, Lapse, store, local
<1> QED
  BY <1>2, <1>4, <1>5, <1>6, <1>7, <1>8, <1>9 DEF Next

\* Nobody the index sends to a room is missing from its record once the requests are done,
\* in any number of rooms: half of IndexMatchesRecords.
THEOREM EntriesLeadToMembers ==
    ASSUME MaxLapses = 0, MaxFaults = 0
    PROVE  Spec => []IndexedAreListed
<1>1. IInv /\ Ix => IndexedAreListed
  <2> SUFFICES ASSUME IInv, Ix, Idle, NEW a \in Accounts, memberOf[a] # 0, rooms[memberOf[a]] # NoRoom
               PROVE  a \in Members(rooms[memberOf[a]])
    BY DEF IndexedAreListed, Exists
  <2>1. memberOf[a] \in RoomIds
    BY DEF IInv, Shape, TypeOK, RoomIds
  <2>2. ~Dropping(memberOf[a], a)
    BY DEF Dropping, Doing, Idle
  <2> QED
    BY <2>1, <2>2 DEF Ix, Entries
<1> QED
  BY <1>1, IxAlways, PTL

\* The reverse index and the one room's record agree, in both directions, once the requests
\* are done: IndexMatchesRecords, the state in which a disconnect finds the room to leave.
THEOREM IndexAndRecordsAgree ==
    ASSUME MaxRooms = 1, MaxLapses = 0, MaxFaults = 0
    PROVE  Spec => []IndexMatchesRecords
<1>1. Init => Indexed
  BY DEF Init, Indexed
<1>2. IInv /\ Ix /\ Indexed /\ [Next]_vars => Indexed'
  BY IndexedStep
<1>3. Indexed => ListedAreIndexed
  BY DEF Indexed, ListedAreIndexed, Exists, Idle, Writing, Doing
<1>4. Spec => []Indexed
  BY <1>1, <1>2, IxAlways, PTL DEF Spec
<1> QED
  BY <1>3, <1>4, EntriesLeadToMembers, PTL DEF IndexMatchesRecords
==============================================================================
