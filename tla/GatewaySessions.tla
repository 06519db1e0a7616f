-------------------------- MODULE GatewaySessions --------------------------
(***************************************************************************)
(* The TCP gateways of src/src/tcp/gateway.js: a connection authenticates, *)
(* registers itself as its account's session on its node, and presence in  *)
(* Redis tells the other processes who is online.  AUTH awaits the token   *)
(* lookup and the ban check; presence commands are sent without waiting    *)
(* and reach Redis in the order their node sent them; socket.destroy() and *)
(* a peer that hangs up are seen by the 'close' handler later.             *)
(*                                                                         *)
(* Bounds: every socket connects once, MaxAuths AUTH frames a socket,      *)
(* MaxBanned bans, MaxFailures crashes, failed commands, lost messages.    *)
(***************************************************************************)
EXTENDS Integers, Sequences, FiniteSets, SequencesExt

CONSTANTS Nodes, Accounts, Sockets,
          Nobody,      \* no session, no account, no node
          MaxAuths, MaxBanned, MaxFailures

ASSUME GatewayAssumption ==
    /\ IsFiniteSet(Nodes) /\ IsFiniteSet(Sockets)
    /\ Nobody \notin Nodes \cup Accounts \cup Sockets
    /\ MaxAuths \in Nat /\ MaxBanned \in Nat /\ MaxFailures \in Nat

VARIABLES
    conn,        \* socket -> "new", "open", "dead" (its close event pending), "closed"
    where,       \* socket -> node it is connected to
    awaiting,    \* socket -> the await its AUTH is in
    claims,      \* socket -> account the token named
    entry,       \* socket -> account it authenticated as
    auths,       \* socket -> AUTH frames so far
    loose,       \* history: sockets that went away while AUTH was served, or that
                 \* authenticated as a second account
    used,        \* history: account -> nodes it registered on
    sessions,    \* node -> account -> socket
    commands,    \* node -> presence commands on their way to Redis
    presence,    \* account -> node
    banned,
    revokes,     \* node -> accounts of session.revoke messages in flight
    kicks,       \* sockets whose destroy timer runs
    failures

history == <<loose, used>>
socketVars == <<conn, where, awaiting, claims, entry, auths, history>>
banVars == <<banned, revokes, kicks>>
gatewayVars == <<socketVars, sessions, commands, presence, banVars, failures>>

GatewayInit ==
    /\ conn = [s \in Sockets |-> "new"]
    /\ where = [s \in Sockets |-> Nobody]
    /\ awaiting = [s \in Sockets |-> "none"]
    /\ claims = [s \in Sockets |-> Nobody]
    /\ entry = [s \in Sockets |-> Nobody]
    /\ auths = [s \in Sockets |-> 0]
    /\ loose = {}
    /\ used = [a \in Accounts |-> {}]
    /\ sessions = [n \in Nodes |-> [a \in Accounts |-> Nobody]]
    /\ commands = [n \in Nodes |-> <<>>]
    /\ presence = [a \in Accounts |-> Nobody]
    /\ banned = {}
    /\ revokes = [n \in Nodes |-> {}]
    /\ kicks = {}
    /\ failures = 0

Failure == failures < MaxFailures /\ failures' = failures + 1

\* socket.destroy(): nothing for a socket that is dead already.
Destroyed(sockets) ==
    [s \in Sockets |-> IF s \in sockets /\ conn[s] = "open" THEN "dead" ELSE conn[s]]

\* Those of them it destroys in the middle of an AUTH.
Caught(sockets) == {s \in sockets : conn[s] = "open" /\ awaiting[s] # "none"}

\* What the history keeps of a registration that destroys the sockets given.
Registered(s, sockets) ==
    /\ used' = [used EXCEPT ![claims[s]] = @ \cup {where[s]}]
    /\ loose' = loose \cup Caught(sockets) \cup
                   {t \in {s} : entry[t] \notin {Nobody, claims[t]}}

Online(accounts) == [op |-> "set", accounts |-> accounts]
Offline(a) == [op |-> "del", accounts |-> {a}]
Send(n, command) == commands' = [commands EXCEPT ![n] = Append(@, command)]

-----------------------------------------------------------------------------
(* The life of a socket.                                                   *)

Connect(s, n) ==
    /\ conn[s] = "new"
    /\ conn' = [conn EXCEPT ![s] = "open"]
    /\ where' = [where EXCEPT ![s] = n]
    /\ UNCHANGED <<awaiting, claims, entry, auths, history, sessions, commands, presence, banVars, failures>>

Hangup(s) ==
    /\ conn[s] = "open"
    /\ conn' = Destroyed({s})
    /\ loose' = loose \cup Caught({s})
    /\ UNCHANGED <<used, where, awaiting, claims, entry, auths, sessions, commands, presence, banVars, failures>>

\* The setTimeout of kick() and of the ban gate.
Destroy(s) ==
    /\ s \in kicks
    /\ kicks' = kicks \ {s}
    /\ conn' = Destroyed({s})
    /\ loose' = loose \cup Caught({s})
    /\ UNCHANGED <<used, where, awaiting, claims, entry, auths, sessions, commands, presence, banned, revokes, failures>>

\* Mutant: the map entry is set to null.
CloseNull(s) ==
    /\ conn[s] = "dead"
    /\ conn' = [conn EXCEPT ![s] = "closed"]
    /\ LET n == where[s]
           a == entry[s]
       IN  IF a # Nobody /\ sessions[n][a] = s
             THEN /\ sessions' = [sessions EXCEPT ![n][a] = "null"]
                  /\ Send(n, Offline(a))
             ELSE UNCHANGED <<sessions, commands>>
    /\ UNCHANGED <<where, awaiting, claims, entry, auths, history, presence, banVars, failures>>

\* Mutant: the map entry stays.
CloseKeeps(s) ==
    /\ conn[s] = "dead"
    /\ conn' = [conn EXCEPT ![s] = "closed"]
    /\ LET n == where[s]
           a == entry[s]
       IN  IF a # Nobody /\ sessions[n][a] = s
             THEN /\ sessions' = sessions
                  /\ Send(n, Offline(a))
             ELSE UNCHANGED <<sessions, commands>>
    /\ UNCHANGED <<where, awaiting, claims, entry, auths, history, presence, banVars, failures>>

\* Mutant: presence is left to its TTL.
CloseSilently(s) ==
    /\ conn[s] = "dead"
    /\ conn' = [conn EXCEPT ![s] = "closed"]
    /\ LET n == where[s]
           a == entry[s]
       IN  IF a # Nobody /\ sessions[n][a] = s
             THEN /\ sessions' = [sessions EXCEPT ![n][a] = Nobody]
                  /\ UNCHANGED commands
             ELSE UNCHANGED <<sessions, commands>>
    /\ UNCHANGED <<where, awaiting, claims, entry, auths, history, presence, banVars, failures>>

\* The close event: only the socket that is the account's session here ends it.
\* The same branch takes the account off the queue and out of its room.
Close(s) ==
    /\ conn[s] = "dead"
    /\ conn' = [conn EXCEPT ![s] = "closed"]
    /\ LET n == where[s]
           a == entry[s]
       IN  IF a # Nobody /\ sessions[n][a] = s
             THEN /\ sessions' = [sessions EXCEPT ![n][a] = Nobody]
                  /\ Send(n, Offline(a))
             ELSE UNCHANGED <<sessions, commands>>
    /\ UNCHANGED <<where, awaiting, claims, entry, auths, history, presence, banVars, failures>>

-----------------------------------------------------------------------------
(* AUTH.                                                                   *)

\* The frame arrives; a is the account of its token, Nobody for an unknown one.
Auth(s, a) ==
    /\ conn[s] = "open" /\ awaiting[s] = "none" /\ auths[s] < MaxAuths
    /\ auths' = [auths EXCEPT ![s] = @ + 1]
    /\ awaiting' = [awaiting EXCEPT ![s] = "token"]
    /\ claims' = [claims EXCEPT ![s] = a]
    /\ UNCHANGED <<conn, where, entry, history, sessions, commands, presence, banVars, failures>>

\* getByToken answers: an unknown token closes the socket, a document with the
\* banned flag is kicked.
TokenRead(s) ==
    /\ awaiting[s] = "token"
    /\ conn' = IF claims[s] = Nobody THEN Destroyed({s}) ELSE conn
    /\ kicks' = IF claims[s] \in banned THEN kicks \cup {s} ELSE kicks
    /\ awaiting' = [awaiting EXCEPT ![s] = IF claims[s] \in banned \cup {Nobody} THEN "none" ELSE "ban"]
    /\ UNCHANGED <<where, claims, entry, auths, history, sessions, commands, presence, banned, revokes, failures>>

\* accountByOpenId runs in the auth store.
BanRead(s) ==
    /\ awaiting[s] = "ban"
    /\ kicks' = IF claims[s] \in banned THEN kicks \cup {s} ELSE kicks
    /\ awaiting' = [awaiting EXCEPT ![s] = IF claims[s] \in banned THEN "none" ELSE "register"]
    /\ UNCHANGED <<conn, where, claims, entry, auths, history, sessions, commands, presence, banned, revokes, failures>>

\* ... or rejects, and the gate fails open.
BanReadFails(s) ==
    /\ Failure
    /\ awaiting[s] = "ban"
    /\ awaiting' = [awaiting EXCEPT ![s] = "register"]
    /\ UNCHANGED <<conn, where, claims, entry, auths, history, sessions, commands, presence, banVars>>

\* getByToken rejects: logged, the socket stays as it was.
TokenReadFails(s) ==
    /\ Failure
    /\ awaiting[s] = "token"
    /\ awaiting' = [awaiting EXCEPT ![s] = "none"]
    /\ UNCHANGED <<conn, where, claims, entry, auths, history, sessions, commands, presence, banVars>>

\* Mutant: the session before it is left connected.
RegisterBeside(s) ==
    /\ awaiting[s] = "register"
    /\ sessions' = [sessions EXCEPT ![where[s]][claims[s]] = s]
    /\ entry' = [entry EXCEPT ![s] = claims[s]]
    /\ awaiting' = [awaiting EXCEPT ![s] = "none"]
    /\ Registered(s, {})
    /\ Send(where[s], Online({claims[s]}))
    /\ UNCHANGED <<conn, where, claims, auths, presence, banVars, failures>>

\* register and markOnline.  Nothing asks whether the socket is still open.
Register(s) ==
    /\ awaiting[s] = "register"
    /\ LET before == {sessions[where[s]][claims[s]]} \ {s, Nobody}
       IN  conn' = Destroyed(before) /\ Registered(s, before)
    /\ sessions' = [sessions EXCEPT ![where[s]][claims[s]] = s]
    /\ entry' = [entry EXCEPT ![s] = claims[s]]
    /\ awaiting' = [awaiting EXCEPT ![s] = "none"]
    /\ Send(where[s], Online({claims[s]}))
    /\ UNCHANGED <<where, claims, auths, presence, banVars, failures>>

-----------------------------------------------------------------------------
(* Presence.                                                               *)

Connected(n) == {a \in Accounts : sessions[n][a] # Nobody}

\* refreshPresence, every PRESENCE_REFRESH_MS; one refresh waits at a time.
Heartbeat(n) ==
    /\ Connected(n) # {}
    /\ commands[n] # <<>> => Last(commands[n]) # Online(Connected(n))
    /\ Send(n, Online(Connected(n)))
    /\ UNCHANGED <<socketVars, sessions, presence, banVars, failures>>

\* Mutant: the refresh extends the keys that are there.
ExecuteExtend(n) ==
    /\ commands[n] # <<>>
    /\ commands' = [commands EXCEPT ![n] = Tail(@)]
    /\ presence' = LET c == Head(commands[n])
                   IN  [a \in Accounts |-> IF a \notin c.accounts THEN presence[a]
                                           ELSE IF c.op = "del" THEN Nobody
                                           ELSE IF presence[a] # Nobody THEN n ELSE Nobody]
    /\ UNCHANGED <<socketVars, sessions, banVars, failures>>

\* Redis executes a node's next command.
Execute(n) ==
    /\ commands[n] # <<>>
    /\ commands' = [commands EXCEPT ![n] = Tail(@)]
    /\ presence' = LET c == Head(commands[n])
                   IN  [a \in Accounts |-> IF a \notin c.accounts THEN presence[a]
                                           ELSE IF c.op = "del" THEN Nobody ELSE n]
    /\ UNCHANGED <<socketVars, sessions, banVars, failures>>

\* It rejects: a warning.
CommandFails(n) ==
    /\ Failure
    /\ commands[n] # <<>>
    /\ commands' = [commands EXCEPT ![n] = Tail(@)]
    /\ UNCHANGED <<socketVars, sessions, presence, banVars>>

\* Mutant: SET without EX.
NeverExpires(a) == FALSE /\ UNCHANGED gatewayVars

\* PRESENCE_TTL_SEC: a key that nobody refreshes goes away.
Expire(a) ==
    /\ presence[a] # Nobody
    /\ LET n == presence[a]
       IN  /\ a \notin Connected(n)
           /\ \A i \in DOMAIN commands[n] : a \notin commands[n][i].accounts
    /\ presence' = [presence EXCEPT ![a] = Nobody]
    /\ UNCHANGED <<socketVars, sessions, commands, banVars, failures>>

-----------------------------------------------------------------------------
(* Bans, revocation, crashes.                                              *)

\* The flag is saved and session.revoke published to every node.
Ban(a) ==
    /\ a \notin banned /\ Cardinality(banned) < MaxBanned
    /\ banned' = banned \cup {a}
    /\ revokes' = [n \in Nodes |-> revokes[n] \cup {a}]
    /\ UNCHANGED <<socketVars, sessions, commands, presence, kicks, failures>>

\* kick(): the account connected here gets CMD.KICK and a destroy timer.
Revoked(n, a) ==
    /\ a \in revokes[n]
    /\ revokes' = [revokes EXCEPT ![n] = @ \ {a}]
    /\ kicks' = kicks \cup ({sessions[n][a]} \ {Nobody})
    /\ UNCHANGED <<socketVars, sessions, commands, presence, banned, failures>>

\* The node dies; a supervisor starts it again, empty.
Crash(n) ==
    /\ Failure
    /\ LET gone == {s \in Sockets : where[s] = n}
       IN  /\ conn' = [s \in Sockets |-> IF s \in gone THEN "closed" ELSE conn[s]]
           /\ awaiting' = [s \in Sockets |-> IF s \in gone THEN "none" ELSE awaiting[s]]
           /\ kicks' = kicks \ gone
    /\ sessions' = [sessions EXCEPT ![n] = [a \in Accounts |-> Nobody]]
    /\ commands' = [commands EXCEPT ![n] = <<>>]
    /\ revokes' = [revokes EXCEPT ![n] = {}]
    /\ UNCHANGED <<where, claims, entry, auths, history, presence, banned>>

-----------------------------------------------------------------------------

SocketStep(s) == Destroy(s) \/ Close(s) \/ TokenRead(s) \/ BanRead(s) \/ Register(s)

GatewayNext ==
    \/ \E s \in Sockets : \/ \E n \in Nodes : Connect(s, n)
                          \/ \E a \in Accounts \cup {Nobody} : Auth(s, a)
                          \/ Hangup(s) \/ SocketStep(s) \/ TokenReadFails(s) \/ BanReadFails(s)
    \/ \E n \in Nodes : \/ Heartbeat(n) \/ Execute(n) \/ CommandFails(n) \/ Crash(n)
                        \/ \E a \in Accounts : Revoked(n, a)
    \/ \E a \in Accounts : Expire(a) \/ Ban(a)

GatewaySpec == GatewayInit /\ [][GatewayNext]_gatewayVars

\* The event loops run, the databases answer, timers fire and keys expire;
\* peers and operators do what they like.
GatewayFairSpec ==
    /\ GatewaySpec
    /\ \A s \in Sockets : WF_gatewayVars(SocketStep(s))
    /\ \A n \in Nodes : WF_gatewayVars(Execute(n)) /\ WF_gatewayVars(Heartbeat(n))
    /\ \A a \in Accounts : WF_gatewayVars(Expire(a))
    /\ \A n \in Nodes, a \in Accounts : WF_gatewayVars(Revoked(n, a))

-----------------------------------------------------------------------------
(* Properties.                                                             *)

\* Type invariant.
GatewayTypeOK ==
    /\ conn \in [Sockets -> {"new", "open", "dead", "closed"}]
    /\ where \in [Sockets -> Nodes \cup {Nobody}]
    /\ awaiting \in [Sockets -> {"none", "token", "ban", "register"}]
    /\ claims \in [Sockets -> Accounts \cup {Nobody}]
    /\ entry \in [Sockets -> Accounts \cup {Nobody}]
    /\ auths \in [Sockets -> 0..MaxAuths]
    /\ sessions \in [Nodes -> [Accounts -> Sockets \cup {Nobody}]]
    /\ loose \subseteq Sockets
    /\ used \in [Accounts -> SUBSET Nodes]
    /\ commands \in [Nodes -> Seq([op : {"set", "del"}, accounts : SUBSET Accounts])]
    /\ presence \in [Accounts -> Nodes \cup {Nobody}]
    /\ banned \subseteq Accounts
    /\ revokes \in [Nodes -> SUBSET Accounts]
    /\ kicks \subseteq Sockets
    /\ failures \in 0..MaxFailures

\* A session's socket is one whose close event is still to come: no account stays
\* registered (and online) on a socket that is gone.  Except a socket that goes away
\* in the middle of its AUTH, which register stores all the same, and one that
\* authenticates as a second account: its close ends only the second's session.
NoGhost ==
    \A n \in Nodes, a \in Accounts :
        LET s == sessions[n][a]
        IN  s # Nobody /\ s \notin loose => conn[s] \in {"open", "dead"}

\* The same with no exception: presence is "cleared on disconnect".
ClearedOnDisconnect ==
    \A n \in Nodes, a \in Accounts :
        sessions[n][a] # Nobody => conn[sessions[n][a]] # "closed"

\* On one node an account has at most one socket left open: the newest.
OneConnection ==
    \A s \in Sockets :
        conn[s] = "open" /\ entry[s] # Nobody => sessions[where[s]][entry[s]] = s

\* Once Redis has executed everything, the accounts that are online are those
\* with a session: for an account that used one node, while no command failed.
PresenceFollows ==
    \A a \in Accounts :
        failures = 0 /\ Cardinality(used[a]) <= 1 /\ (\A n \in Nodes : commands[n] = <<>>) =>
            (presence[a] # Nobody <=> \E n \in Nodes : a \in Connected(n))

\* Sessions and presence are what the sockets say: none outlives its socket, the newest
\* is the only one left open, and presence names the accounts that have one.
SessionsFollowSockets == NoGhost /\ OneConnection /\ PresenceFollows

\* Whatever cleared it, an account's presence comes back while it is connected.
PresenceHeals ==
    \A n \in Nodes, a \in Accounts :
        a \in Connected(n) ~> (presence[a] # Nobody \/ a \notin Connected(n))

\* An account without an open connection does not stay online, not even after a
\* crash: the close handler or the TTL clears it.  Except for a ghost (see NoGhost).
OfflineSettles ==
    \A a \in Accounts :
        LET HasSocket == \/ \E s \in Sockets : entry[s] = a /\ conn[s] = "open"
                         \/ \E n \in Nodes : sessions[n][a] \in loose
        IN  ~HasSocket ~> (presence[a] = Nobody \/ HasSocket)

\* Presence comes right again after every fault, online and offline.
PresenceSettles == PresenceHeals /\ OfflineSettles

\* A banned account holds a session only until the revocation reaches its node and
\* the kick's timer runs out ("must not hold a live notification channel").
BannedIsOut ==
    \A n \in Nodes, a \in Accounts :
        a \in banned /\ a \notin revokes[n] /\ a \in Connected(n) =>
            sessions[n][a] \in kicks \/ conn[sessions[n][a]] # "open"
=============================================================================
