----------------------------- MODULE MatchFleet -----------------------------
(***************************************************************************)
(* How players reach a match.  First the fleet: match servers register     *)
(* themselves with a heartbeat (match-server/fleet.go, bus.RegisterServer),*)
(* the gateways and the matchmaker keep a list that a timer refreshes      *)
(* (src/tcp/fleet.js) and take a server of it for a whole match.  Then,    *)
(* on one server, the manager (match-server/manager.go): it puts whoever   *)
(* joins into the first match that still gathers players, whatever match   *)
(* the ticket names.                                                       *)
(*                                                                         *)
(* The two halves share no state: FleetNext and ManagerNext.  Time counts  *)
(* steps of RefreshEvery.  Bounds: MaxFleetTime, MaxMisses failed          *)
(* heartbeats or refreshes, MaxDeaths of servers; MaxJoins connections,    *)
(* MaxResumes.                                                             *)
(***************************************************************************)
EXTENDS Integers, FiniteSets, Sequences, SequencesExt

CONSTANTS Hosts, RefreshEvery, BeatEvery, MaxAge, MaxFleetTime, MaxMisses, MaxDeaths,
          Fighters, RosterCap, MaxJoins, MaxResumes

ASSUME MatchFleetAssumption ==
    /\ {RefreshEvery, BeatEvery, RosterCap} \subseteq Nat \ {0}
    /\ {MaxAge, MaxFleetTime, MaxMisses, MaxDeaths, MaxJoins, MaxResumes} \subseteq Nat

VARIABLES
    hour,
    up,      \* servers that run
    score,     \* the sorted set "matchservers": server -> heartbeat, Never without
    beat,      \* server -> when it last tried to register, whether it has failed since it did
    list,      \* servers of fleet.js, in a process
    fetch,   \* when that process last asked for it, and the failures since it got it
    misses, deaths

fleetVars == <<hour, up, score, beat, list, fetch, misses, deaths>>

Never == -1
Static == "static"

FleetInit ==
    /\ hour = 0 /\ up = Hosts
    /\ score = [h \in Hosts |-> Never]
    /\ beat = [h \in Hosts |-> [at |-> -BeatEvery, heard |-> Never, failed |-> 0]]
    /\ list = {} /\ fetch = [at |-> -RefreshEvery, got |-> Never, failed |-> 0]
    /\ misses = 0 /\ deaths = 0

BeatDue(h) == h \in up /\ hour >= beat[h].at + BeatEvery
ListDue == hour >= fetch.at + RefreshEvery

\* The timers run on time.
FleetTick ==
    /\ hour < MaxFleetTime /\ ~ListDue /\ \A h \in Hosts : ~BeatDue(h)
    /\ hour' = hour + 1
    /\ UNCHANGED <<up, score, beat, list, fetch, misses, deaths>>

\* RegisterServer: ZADD with the time.
RegisterServer(h) ==
    /\ BeatDue(h)
    /\ score' = [score EXCEPT ![h] = hour]
    /\ beat' = [beat EXCEPT ![h] = [at |-> hour, heard |-> hour, failed |-> 0]]
    /\ UNCHANGED <<hour, up, list, fetch, misses, deaths>>

\* The error is logged and the next heartbeat waited for.
RegisterFails(h) ==
    /\ BeatDue(h) /\ misses < MaxMisses /\ misses' = misses + 1
    /\ beat' = [beat EXCEPT ![h].at = hour, ![h].failed = @ + 1]
    /\ UNCHANGED <<hour, up, score, list, fetch, deaths>>

HostDies(h) ==
    /\ h \in up /\ deaths < MaxDeaths /\ deaths' = deaths + 1
    /\ up' = up \ {h}
    /\ UNCHANGED <<hour, score, beat, list, fetch, misses>>

\* Mutant: the server whose age is just the limit is stale.
FreshBelow == {h \in Hosts : score[h] # Never /\ score[h] > hour - MaxAge}

\* getMatchServers: ZREMRANGEBYSCORE below the cutoff, ZRANGEBYSCORE from it.
Fresh == {h \in Hosts : score[h] # Never /\ score[h] >= hour - MaxAge}

RefreshList ==
    /\ ListDue
    /\ list' = Fresh
    /\ score' = [h \in Hosts |-> IF h \in Fresh THEN score[h] ELSE Never]
    /\ fetch' = [at |-> hour, got |-> hour, failed |-> 0]
    /\ UNCHANGED <<hour, up, beat, misses, deaths>>

\* Keep the last good list on a Redis blip.
ListFails ==
    /\ ListDue /\ misses < MaxMisses /\ misses' = misses + 1
    /\ fetch' = [fetch EXCEPT !.at = hour, !.failed = @ + 1]
    /\ UNCHANGED <<hour, up, score, beat, list, deaths>>

\* pickServer, once for a match: any of the list, and without one the static address.
PickServer == IF list = {} THEN {Static} ELSE list

FleetNext ==
    \/ FleetTick \/ RefreshList \/ ListFails
    \/ \E h \in Hosts : RegisterServer(h) \/ RegisterFails(h) \/ HostDies(h)

-----------------------------------------------------------------------------
VARIABLES
    ticket,   \* fighter -> the match its prepare_token names
    hosted,   \* the matches of a server in the order they were made
    joins,    \* connections made
    playing,  \* fighters in a match or on their way into one
    resumes   \* matches made for a reconnect

managerVars == <<ticket, hosted, joins, playing, resumes>>

Stranger == "stranger"
NoFighter == "nobody"

\* first is being admitted and starts run(); mail waits in the mailbox.
NewMatch(p) == [first |-> p, roster |-> <<>>, mail |-> {}, reserved |-> 0,
                running |-> FALSE, started |-> FALSE, ended |-> FALSE, gone |-> FALSE]

ManagerInit ==
    /\ ticket \in [Fighters -> {1, 2}]
    /\ hosted = <<>> /\ joins = 0 /\ playing = {} /\ resumes = 0

\* Mutant: one more than the cap.
AdmitsOneMore(m) == ~m.gone /\ ~m.ended /\ ~m.started /\ m.reserved <= RosterCap

\* canAdmit, of the matches that are registered.
CanAdmit(m) == ~m.gone /\ ~m.ended /\ ~m.started /\ m.reserved < RosterCap

\* Mutant: the slot is counted when the player is in.
ReserveLater(m) == [m EXCEPT !.reserved = Len(m.roster)]

Reserve(m) == [m EXCEPT !.reserved = @ + 1]

\* MatchManager.join, under its lock.
ConnectTo(p) ==
    /\ p \notin playing /\ joins < MaxJoins /\ joins' = joins + 1
    /\ LET open == {w \in DOMAIN hosted : CanAdmit(hosted[w])} IN
       hosted' =
          IF open = {} THEN Append(hosted, Reserve(NewMatch(p)))
          ELSE LET w == CHOOSE w \in open : \A v \in open : w <= v IN
               [hosted EXCEPT ![w] = [Reserve(hosted[w]) EXCEPT !.mail = @ \cup {p}]]
    /\ playing' = playing \cup {p}
    /\ UNCHANGED <<ticket, resumes>>

Becomes(w, m) == hosted' = [hosted EXCEPT ![w] = m]

\* admitFirst, inline.
AdmitFirst(w) ==
    LET m == hosted[w] IN
    /\ m.first # NoFighter
    /\ Becomes(w, [m EXCEPT !.first = NoFighter, !.roster = <<m.first>>, !.running = TRUE])
    /\ UNCHANGED <<ticket, joins, playing, resumes>>

\* admitLater, out of the mailbox.
AdmitNext(w, p) ==
    LET m == hosted[w] IN
    /\ m.running /\ p \in m.mail
    /\ Becomes(w, [m EXCEPT !.mail = @ \ {p}, !.roster = Append(@, p)])
    /\ UNCHANGED <<ticket, joins, playing, resumes>>

\* Mutant: the slot of who leaves is free again.
LeftAndFreed(m, i) == [m EXCEPT !.roster = RemoveAt(@, i), !.reserved = @ - 1]

\* removePlayer, of the session at i: the reservation stays.
Left(m, i) == [m EXCEPT !.roster = RemoveAt(@, i)]

Quit(w, p) ==
    LET m == hosted[w] IN
    /\ m.running
    /\ \E i \in DOMAIN m.roster : m.roster[i] = p /\ Becomes(w, Left(m, i))
    /\ playing' = playing \ {p}
    /\ UNCHANGED <<ticket, joins, resumes>>

\* startBuyPhase locks the match.
LockMatch(w) ==
    LET m == hosted[w] IN
    /\ m.running /\ ~m.started /\ ~m.ended
    /\ Becomes(w, [m EXCEPT !.started = TRUE])
    /\ UNCHANGED <<ticket, joins, playing, resumes>>

\* matchIDString: the id of the first in the roster who has one; 0 stands for a made up one.
MatchIDString(roster) ==
    LET named == SelectSeq(roster, LAMBDA q : q # Stranger) IN
    IF named = <<>> THEN 0 ELSE ticket[Head(named)]

\* matchEnd and publishResult, or the match is cancelled before it starts.
EndMatch(w) ==
    LET m == hosted[w] IN
    /\ m.running /\ ~m.ended /\ m.roster # <<>>
    /\ Becomes(w, [m EXCEPT !.ended = TRUE])
    /\ UNCHANGED <<ticket, joins, playing, resumes>>

\* run returns and the match is reaped; whoever is in the mailbox is never admitted.
Reap(w) ==
    LET m == hosted[w] IN
    /\ m.running /\ (m.ended \/ m.roster = <<>>)
    /\ Becomes(w, [m EXCEPT !.gone = TRUE, !.running = FALSE, !.roster = <<>>, !.mail = {}])
    /\ playing' = playing \ (m.mail \cup {m.roster[i] : i \in DOMAIN m.roster})
    /\ UNCHANGED <<ticket, joins, resumes>>

\* handleHello of a reconnect from an address that has no session: a match of its own, for a
\* player nobody knows, that gathers like any other.
Resume ==
    /\ resumes < MaxResumes /\ resumes' = resumes + 1
    /\ hosted' = Append(hosted, [Reserve(NewMatch(NoFighter)) EXCEPT !.roster = <<Stranger>>, !.running = TRUE])
    /\ UNCHANGED <<ticket, joins, playing>>

ManagerNext ==
    \/ \E p \in Fighters : ConnectTo(p)
    \/ \E w \in DOMAIN hosted :
          \/ AdmitFirst(w) \/ LockMatch(w) \/ EndMatch(w) \/ Reap(w)
          \/ \E p \in Fighters : AdmitNext(w, p) \/ Quit(w, p)
    \/ Resume

-----------------------------------------------------------------------------
\* The type invariant of the fleet.
FleetTypeOK ==
    /\ hour \in 0 .. MaxFleetTime /\ up \subseteq Hosts /\ list \subseteq Hosts
    /\ score \in [Hosts -> Never .. MaxFleetTime]
    /\ misses \in 0 .. MaxMisses /\ deaths \in 0 .. MaxDeaths

\* The type invariant of the manager.
ManagerTypeOK ==
    /\ \A w \in DOMAIN hosted :
          /\ hosted[w].first \in Fighters \cup {NoFighter} /\ hosted[w].mail \subseteq Fighters
          /\ hosted[w].roster \in Seq(Fighters \cup {Stranger})
          /\ {hosted[w].running, hosted[w].started, hosted[w].ended, hosted[w].gone} \subseteq BOOLEAN
    /\ playing \subseteq Fighters /\ resumes \in 0 .. MaxResumes

\* A match is sent to a server that registered within MaxAge, give or take the refreshes since:
\* a dead server is picked for so long and no longer (bus/index.js, "Stale members are pruned").
PickedIsFresh ==
    \A h \in PickServer \ {Static} :
        hour - beat[h].heard <= MaxAge + RefreshEvery * (1 + fetch.failed)

\* A server that runs and lost no more heartbeats in a row than fit into MaxAge stays on the
\* list, once a refresh has seen it.
SteadyIsOffered ==
    \A h \in up :
        /\ beat[h].heard # Never /\ beat[h].heard < fetch.got
        /\ BeatEvery * (1 + beat[h].failed) <= MaxAge
        => h \in list

\* No match has more players than it has room for, though they are let in by one goroutine,
\* admitted by another and may leave in between (manager.go, "race-safe roster-size view").
RosterWithinCap ==
    \A w \in DOMAIN hosted :
        LET m == hosted[w] IN
        Len(m.roster) + Cardinality(m.mail) + (IF m.first = NoFighter THEN 0 ELSE 1) <= RosterCap

\* A server has one match that gathers players, so that those who come meet; but a reconnect's.
OneGathering ==
    Cardinality({w \in DOMAIN hosted : CanAdmit(hosted[w])}) <= 1 + resumes

\* False, and no part of a run: players of one match id make up a match (results.go:63-65, "the
\* matchmaker gives every player it puts in this match").  The manager does not ask for the id,
\* so two matches sent to one server mix, and publishResult settles both under one of the ids.
ResultIsOfItsMatch ==
    \A w \in DOMAIN hosted :
        LET m == hosted[w] IN
        m.started /\ m.ended =>
            \A i \in DOMAIN m.roster : m.roster[i] = Stranger \/ ticket[m.roster[i]] = MatchIDString(m.roster)
=============================================================================
