----------------------------- MODULE RoomStart -----------------------------
(***************************************************************************)
(* How a custom room's match begins (src/src/tcp/handlers/RoomStart.js).   *)
(* START flips the record under its lock, takes a match id, writes the     *)
(* settings, then hands the match to the members one by one, and awaits a  *)
(* database before each.  Nothing keeps a second START of the room, or a   *)
(* member's return to it, from coming in between.                          *)
(*                                                                         *)
(* A match server seats who comes in any match that has a place            *)
(* (MatchFleet); where it has to make one it reads the settings of the id  *)
(* that the first to join was handed, and of no other                      *)
(* (src/match-server/matchsettings.go), and whoever it seats there plays   *)
(* by them.  A match of this module is that: an id whose holder was the    *)
(* first.                                                                  *)
(* MatchSettings has what the settings say; here they are an edition.      *)
(*                                                                         *)
(* Bounds: one room whose owner stays, MaxStarts STARTs, MaxChanges other  *)
(* operations.                                                             *)
(***************************************************************************)
EXTENDS Integers, Sequences, FiniteSets, SequencesExt

CONSTANTS Seated, MaxStarts, MaxChanges

\* A room seats at most 48.
ASSUME StartAssumption == MaxStarts \in Nat /\ MaxChanges \in Nat /\ IsFiniteSet(Seated)

VARIABLES
    lobby,      \* the record: state, members in order, their teams, edition of the settings
    starts,     \* START -> its await: id, write, tell, done; its match and what it was told
    stored,     \* match -> edition in match:<id>:settings, or none
    suss,       \* member -> the matches it was handed, with its team, in order
    played,     \* match -> edition that a match server plays by, once someone was its first
    unread,     \* the matches whose settings were not read: GET failed, no bus, expired, no JSON
    nextMatch,
    crossed,    \* the room was opened while a START was under way
    changes

startVars == <<lobby, starts, stored, suss, played, unread, nextMatch, crossed, changes>>

Unwritten == -1
Unplayed == -2

NotBegun == [at |-> "none", match |-> 0, room |-> [state |-> "waiting", members |-> <<>>,
                                                team |-> <<>>, edition |-> 0],
          left |-> <<>>, failed |-> FALSE]

StartInit ==
    /\ lobby = [state |-> "waiting", members |-> SetToSeq(Seated),
                team |-> [m \in Seated |-> 1], edition |-> 0]
    /\ starts = [s \in 1 .. MaxStarts |-> NotBegun]
    /\ stored = [i \in 1 .. MaxStarts |-> Unwritten]
    /\ played = [i \in 1 .. MaxStarts |-> Unplayed]
    /\ unread = {}
    /\ suss = [m \in Seated |-> <<>>]
    /\ nextMatch = 0 /\ crossed = FALSE /\ changes = 0

-----------------------------------------------------------------------------
(* The record (CustomRooms has its lock and its rules).                    *)

UnderWay(s) == starts[s].at \notin {"none", "done"}

Change ==
    /\ changes < MaxChanges /\ changes' = changes + 1
    /\ UNCHANGED <<starts, stored, suss, played, unread, nextMatch>>

ChangeSettings ==
    /\ Change /\ UNCHANGED crossed
    /\ lobby.state = "waiting" /\ lobby' = [lobby EXCEPT !.edition = @ + 1]

SwitchTeam(m) ==
    /\ Change /\ UNCHANGED crossed
    /\ lobby.state = "waiting" /\ m \in ToSet(lobby.members)
    /\ lobby' = [lobby EXCEPT !.team[m] = 3 - @]

\* The owner, the first, stays.
GoAway(m) ==
    /\ Change /\ UNCHANGED crossed
    /\ \E i \in DOMAIN lobby.members \ {1} :
           lobby.members[i] = m /\ lobby' = [lobby EXCEPT !.members = RemoveAt(@, i)]

\* ROOM/12: a member is back in the lobby, and the room is open again for all.
Reenter ==
    /\ Change /\ crossed' = (crossed \/ \E s \in DOMAIN starts : UnderWay(s))
    /\ lobby.state = "ingame" /\ lobby' = [lobby EXCEPT !.state = "waiting"]

-----------------------------------------------------------------------------
(* START.                                                                  *)

Move(s, from, next) == starts[s].at = from /\ starts' = [starts EXCEPT ![s] = next]

StartMatch(s) ==
    /\ lobby.state = "waiting"
    /\ Move(s, "none", [NotBegun EXCEPT !.at = "id", !.room = lobby, !.left = lobby.members])
    /\ \A r \in 1 .. s - 1 : starts[r].at # "none"
    /\ lobby' = [lobby EXCEPT !.state = "ingame"]
    /\ UNCHANGED <<stored, suss, played, unread, nextMatch, crossed, changes>>

NextMatchId(s) ==
    /\ Move(s, "id", [starts[s] EXCEPT !.at = "write", !.match = nextMatch + 1])
    /\ nextMatch' = nextMatch + 1
    /\ UNCHANGED <<lobby, stored, suss, played, unread, crossed, changes>>

\* The room stays in game, and nobody is told.
NextMatchIdFails(s) ==
    /\ Move(s, "id", [starts[s] EXCEPT !.at = "done", !.failed = TRUE, !.left = <<>>])
    /\ UNCHANGED <<lobby, stored, suss, played, unread, nextMatch, crossed, changes>>

\* Mutant: the settings are those of the record as it is by now.
WriteCurrent(s) ==
    /\ Move(s, "write", [starts[s] EXCEPT !.at = "tell"])
    /\ stored' = [stored EXCEPT ![starts[s].match] = lobby.edition]
    /\ UNCHANGED <<lobby, suss, played, unread, nextMatch, crossed, changes>>

WriteSettings(s) ==
    /\ Move(s, "write", [starts[s] EXCEPT !.at = "tell"])
    /\ stored' = [stored EXCEPT ![starts[s].match] = starts[s].room.edition]
    /\ UNCHANGED <<lobby, suss, played, unread, nextMatch, crossed, changes>>

\* A failed write is logged: the match will have the default rules.
WriteFails(s) ==
    /\ Move(s, "write", [starts[s] EXCEPT !.at = "tell", !.failed = TRUE])
    /\ UNCHANGED <<lobby, stored, suss, played, unread, nextMatch, crossed, changes>>

\* Mutant: the team is the one the member has by now.
ToldCurrent(s, m) == [match |-> starts[s].match, team |-> lobby.team[m]]

Told(s, m) == [match |-> starts[s].match, team |-> starts[s].room.team[m]]

\* Mutant: the members are told before the settings are written.
TellEarly(s) ==
    /\ starts[s].at \in {"write", "tell"} /\ starts[s].left # <<>>
    /\ LET m == Head(starts[s].left) IN suss' = [suss EXCEPT ![m] = Append(@, Told(s, m))]
    /\ starts' = [starts EXCEPT ![s].left = Tail(@)]
    /\ UNCHANGED <<lobby, stored, played, unread, nextMatch, crossed, changes>>

\* getById, the token, the push.
Tell(s) ==
    /\ starts[s].at = "tell" /\ starts[s].left # <<>>
    /\ LET m == Head(starts[s].left) IN suss' = [suss EXCEPT ![m] = Append(@, Told(s, m))]
    /\ starts' = [starts EXCEPT ![s].left = Tail(@)]
    /\ UNCHANGED <<lobby, stored, played, unread, nextMatch, crossed, changes>>

\* getById fails: that member's handoff is skipped.
TellSkips(s) ==
    /\ starts[s].at = "tell" /\ starts[s].left # <<>> /\ Head(starts[s].left) # starts[s].room.members[1]
    /\ starts' = [starts EXCEPT ![s].left = Tail(@), ![s].failed = TRUE]
    /\ UNCHANGED <<lobby, stored, suss, played, unread, nextMatch, crossed, changes>>

StartDone(s) ==
    /\ Move(s, "tell", [starts[s] EXCEPT !.at = "done"]) /\ starts[s].left = <<>>
    /\ UNCHANGED <<lobby, stored, suss, played, unread, nextMatch, crossed, changes>>

\* Match server: a member is the first of a match, and its settings are read, or the default
\* ones stay.  Who finds a match with a place changes nothing here.
Join(m) ==
    /\ suss[m] # <<>>
    /\ LET i == Last(suss[m]).match IN
       \/ played' = [played EXCEPT ![i] = stored[i]] /\ unread' = unread \ {i}
       \/ played' = [played EXCEPT ![i] = Unwritten] /\ unread' = unread \cup {i}
    /\ UNCHANGED <<lobby, starts, stored, suss, nextMatch, crossed, changes>>

StartNext ==
    \/ ChangeSettings \/ Reenter
    \/ \E m \in Seated : SwitchTeam(m) \/ GoAway(m) \/ Join(m)
    \/ \E s \in 1 .. MaxStarts :
           \/ StartMatch(s) \/ NextMatchId(s) \/ NextMatchIdFails(s) \/ WriteSettings(s) \/ WriteFails(s)
           \/ Tell(s) \/ TellSkips(s) \/ StartDone(s)

-----------------------------------------------------------------------------
Match(i) == CHOOSE s \in DOMAIN starts : starts[s].match = i

\* The type invariant.
StartTypeOK ==
    /\ lobby.state \in {"waiting", "ingame"} /\ ToSet(lobby.members) \subseteq Seated
    /\ nextMatch \in 0 .. MaxStarts
    /\ \A i \in 1 .. MaxStarts : /\ stored[i] \in Unwritten .. MaxChanges
                                 /\ played[i] \in Unplayed .. MaxChanges
    /\ unread \subseteq 1 .. MaxStarts
    /\ \A s \in DOMAIN starts : starts[s].at \in {"none", "id", "write", "tell", "done"}

\* A match is played by the settings the room had when the START of its first member's match
\* took its snapshot, however they change later and whichever START runs beside it; by the
\* default ones only when they could not be written or the server did not get them.
PlayedAsStarted ==
    \A i \in 1 .. MaxStarts : played[i] # Unplayed =>
        \/ played[i] = starts[Match(i)].room.edition
        \/ played[i] = Unwritten /\ (starts[Match(i)].failed \/ i \in unread)

\* The members a START tells go into one match, each on the team it had then, and a member is
\* told of a match once.
ToldOneMatch ==
    \A m \in Seated : \A j \in DOMAIN suss[m] :
        /\ suss[m][j].team = starts[Match(suss[m][j].match)].room.team[m]
        /\ \A k \in DOMAIN suss[m] : k # j => suss[m][k].match # suss[m][j].match

\* When no START is under way, those whom the last one told are all in its match (the last
\* they were handed), unless it failed for one of them, or a member's return opened the room
\* while the others were still being told.
TogetherInLast ==
    LET begun == {s \in DOMAIN starts : starts[s].at # "none"}
        last == CHOOSE s \in begun : \A r \in begun : r <= s
    IN  begun # {} /\ (\A s \in begun : starts[s].at = "done" /\ ~ starts[s].failed) /\ ~ crossed =>
            \A m \in ToSet(starts[last].room.members) :
                suss[m] # <<>> /\ suss[m][Len(suss[m])].match = starts[last].match
=============================================================================
