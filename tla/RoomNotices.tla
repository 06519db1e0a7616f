---------------------------- MODULE RoomNotices ----------------------------
(***************************************************************************)
(* What the clients of a custom room are told (src/src/tcp/handlers/Room*, *)
(* broadcast of src/src/tcp/rooms.js and the gw.push relay of gateway.js). *)
(*                                                                         *)
(* An operation saves the record under the room's lock (RoomRecord has its *)
(* rules, CustomRooms its lock).  Then, when the release is answered, its  *)
(* gateway pushes the new record to the members through Redis, and each    *)
(* gateway relays what it hears to the clients it has.  Nothing numbers    *)
(* the pushes: a client shows the record it was sent last.                 *)
(*                                                                         *)
(* Bounds: one room at a time, MaxOps operations, MaxMissed faults.        *)
(***************************************************************************)
EXTENDS Integers, Sequences, FiniteSets

CONSTANTS Guests, Gateways, MaxOps, MaxMissed

ASSUME NoticesAssumption == MaxOps \in Nat /\ MaxMissed \in Nat /\ "nobody" \notin Guests

VARIABLES
    record,    \* the room in Redis
    at,        \* account -> the gateway its client is connected to
    online,    \* the clients that are connected
    saved,     \* gateway -> what it has to say of the operations whose lock it has released
    channel,   \* gateway -> gw.push messages published and not yet relayed by it
    view,      \* account -> the room its client shows
    missed,    \* clients that a notice did not reach, and no later one made up for
    spread,    \* gateways that changed the record
    ops, losses

noticeVars == <<record, at, online, saved, channel, view, missed, spread, ops, losses>>

\* A change of a seat or a setting gives the record a new edition.
NoRecord == [owner |-> "nobody", members |-> {}, edition |-> 0]
Outside == NoRecord

NoticesInit ==
    /\ record = NoRecord /\ online = Guests /\ at \in [Guests -> Gateways]
    /\ saved = [g \in Gateways |-> <<>>] /\ channel = [g \in Gateways |-> <<>>]
    /\ view = [a \in Guests |-> Outside]
    /\ missed = {} /\ spread = {} /\ ops = 0 /\ losses = 0

-----------------------------------------------------------------------------
(* Operations.                                                             *)

\* what: the notice's kind, whom it is about, its receivers; answer: the reply on a's socket.
Operate(a, new, what, about, to, answer) ==
    /\ a \in online /\ ops < MaxOps
    /\ ops' = ops + 1
    /\ record' = new
    /\ spread' = IF new = record THEN spread ELSE spread \cup {at[a]}
    /\ saved' = [saved EXCEPT ![at[a]] = Append(@, [by |-> a, answer |-> answer,
                     notice |-> [kind |-> what, about |-> about, to |-> to, room |-> new]])]
    /\ UNCHANGED <<at, channel, view, missed, losses>>

Edited == [record EXCEPT !.edition = @ + 1]
With(a) == [Edited EXCEPT !.members = @ \cup {a}]
Without(a) == IF a = record.owner THEN NoRecord ELSE [Edited EXCEPT !.members = @ \ {a}]

\* A client acts on the room it shows; the server refuses who is not a member.
Shows(a) == view[a] # Outside /\ a \in record.members

\* A player is slower than a push: it has heard what is to say of its last room.
Idle(a) ==
    /\ view[a] = Outside
    /\ \A g \in Gateways : /\ \A i \in DOMAIN channel[g] : a \notin channel[g][i].to
                           /\ \A i \in DOMAIN saved[g] : a \notin saved[g][i].notice.to

OpenRoom(a) ==
    /\ record = NoRecord /\ Idle(a)
    /\ Operate(a, [owner |-> a, members |-> {a}, edition |-> ops], "none", a, {}, "room")
    /\ UNCHANGED online

\* Mutant: the joiner is left out of the broadcast.
EnterUntold(a) ==
    /\ record # NoRecord /\ Idle(a) /\ a \notin record.members
    /\ Operate(a, With(a), "join", a, record.members, "none")
    /\ UNCHANGED online

EnterRoom(a) ==
    /\ record # NoRecord /\ Idle(a) /\ a \notin record.members
    /\ Operate(a, With(a), "join", a, With(a).members, "none")
    /\ UNCHANGED online

LeaveNotice(a) == IF a = record.owner THEN "dismiss" ELSE "leave"

LeaveRoom(a) ==
    /\ Shows(a)
    /\ Operate(a, Without(a), LeaveNotice(a), a, record.members \ {a}, "left")
    /\ UNCHANGED online

\* Mutant: the owner, who asked for it, is not told.
KickUntold(a, b) ==
    /\ Shows(a) /\ a = record.owner /\ b \in record.members \ {a}
    /\ Operate(a, Without(b), "kick", b, record.members \ {a}, "none")
    /\ UNCHANGED online

KickGuest(a, b) ==
    /\ Shows(a) /\ a = record.owner /\ b \in record.members \ {a}
    /\ Operate(a, Without(b), "kick", b, record.members, "none")
    /\ UNCHANGED online

ChangeRoom(a) ==
    /\ Shows(a) /\ a = record.owner
    /\ Operate(a, Edited, "room", a, record.members, "none")
    /\ UNCHANGED online

SwitchPlace(a) ==
    /\ Shows(a)
    /\ Operate(a, Edited, "room", a, record.members, "none")
    /\ UNCHANGED online

\* SETREADY_NTF lists the players; playerInfo sends ready as true whatever it is.
TickReady(a) ==
    /\ Shows(a)
    /\ Operate(a, record, "players", a, record.members, "none")
    /\ UNCHANGED online

ReturnToRoom(a) ==
    /\ Shows(a)
    /\ Operate(a, record, "none", a, {}, "room")
    /\ UNCHANGED online

\* Mutant: the disconnected account leaves and nobody is told.
DropSilently(a) ==
    /\ a \in record.members
    /\ Operate(a, Without(a), LeaveNotice(a), a, {}, "none")
    /\ online' = online \ {a}

\* handleDisconnect, from the socket's close event.
Disconnect(a) ==
    /\ a \in record.members
    /\ Operate(a, Without(a), LeaveNotice(a), a, record.members \ {a}, "none")
    /\ online' = online \ {a}

-----------------------------------------------------------------------------
(* Notices.                                                                *)

SendsOut(a, n) == n.kind = "dismiss" \/ (n.kind = "kick" /\ n.about = a)

\* The client: a notice changes the room it shows, and lets in only whom it is about.
ToldOf(a, n) ==
    IF SendsOut(a, n) THEN Outside
    ELSE IF n.kind = "join" /\ n.about = a THEN n.room
    ELSE IF view[a] = Outside THEN Outside
    ELSE IF n.kind = "players" THEN [view[a] EXCEPT !.members = n.room.members]
    ELSE n.room

\* broadcast, pushToAccount, publishPS, and the reply.
Broadcast(g) ==
    /\ saved[g] # <<>>
    /\ LET op == Head(saved[g]) IN
       /\ channel' = [h \in Gateways |->
                         IF op.notice.to = {} THEN channel[h] ELSE Append(channel[h], op.notice)]
       /\ view' = CASE op.answer = "room" -> [view EXCEPT ![op.by] = op.notice.room]
                    [] op.answer = "left" -> [view EXCEPT ![op.by] = Outside]
                    [] OTHER -> view
    /\ saved' = [saved EXCEPT ![g] = Tail(@)]
    /\ UNCHANGED <<record, at, online, missed, spread, ops, losses>>

Here(g, n) == {a \in n.to \cap online : at[a] = g}

\* The subscription's handler: notifyRaw to the clients that have a session here.
Relay(g) ==
    /\ channel[g] # <<>>
    /\ LET n == Head(channel[g])
           full(a) == n.kind # "players" /\ (ToldOf(a, n) # Outside \/ SendsOut(a, n))
       IN  /\ view' = [a \in Guests |-> IF a \in Here(g, n) THEN ToldOf(a, n) ELSE view[a]]
           /\ missed' = missed \ {a \in Here(g, n) : full(a)}
    /\ channel' = [channel EXCEPT ![g] = Tail(@)]
    /\ UNCHANGED <<record, at, online, saved, spread, ops, losses>>

\* The gateway's subscription is down when the message is published.
MissNotice(g) ==
    /\ losses < MaxMissed /\ losses' = losses + 1
    /\ channel[g] # <<>>
    /\ missed' = missed \cup Here(g, Head(channel[g]))
    /\ channel' = [channel EXCEPT ![g] = Tail(@)]
    /\ UNCHANGED <<record, at, online, saved, view, spread, ops>>

\* The process dies with operations saved and nothing said of them.
GatewayDies(g) ==
    /\ losses < MaxMissed /\ losses' = losses + 1
    /\ online' = {a \in online : at[a] # g}
    /\ missed' = missed \cup UNION {saved[g][i].notice.to : i \in DOMAIN saved[g]}
    /\ saved' = [saved EXCEPT ![g] = <<>>] /\ channel' = [channel EXCEPT ![g] = <<>>]
    /\ UNCHANGED <<record, at, view, spread, ops>>

NoticesNext ==
    \/ \E a \in Guests :
           \/ OpenRoom(a) \/ EnterRoom(a) \/ LeaveRoom(a) \/ ChangeRoom(a) \/ SwitchPlace(a)
           \/ TickReady(a) \/ ReturnToRoom(a) \/ Disconnect(a)
           \/ \E b \in Guests : KickGuest(a, b)
    \/ \E g \in Gateways : Broadcast(g) \/ Relay(g) \/ MissNotice(g) \/ GatewayDies(g)

-----------------------------------------------------------------------------
\* The type invariant.
NoticesTypeOK ==
    /\ {online, missed, record.members} \subseteq SUBSET Guests
    /\ record.members # {} <=> record.owner \in record.members
    /\ \A a \in Guests : view[a].members \subseteq Guests /\ view[a].edition \in 0 .. MaxOps
    /\ ops \in 0 .. MaxOps /\ losses \in 0 .. MaxMissed

\* When everything has been said, each client shows the room as it is, or none if it is not
\* in it: the notices carry the whole room "so recipients full-refresh", and a client that
\* missed one is right again after the next.  For operations of one gateway: two gateways
\* publish in any order, and the older record may come last.
RosterShown ==
    Cardinality(spread) <= 1 /\ (\A g \in Gateways : saved[g] = <<>> /\ channel[g] = <<>>) =>
        \A a \in online \ missed :
            view[a] = IF a \in record.members THEN record ELSE Outside
=============================================================================
