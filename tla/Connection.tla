----------------------------- MODULE Connection -----------------------------
(***************************************************************************)
(* One connection of the TCP gateway, from the bytes its client sends to   *)
(* the frames the gateway acts on (src/src/tcp/framing.js, handleConnection *)
(* and handleFrame of gateway.js).  TCP cuts the bytes anywhere.  Each     *)
(* 'data' event queues a job; AUTH awaits two databases in the middle of a *)
(* job, and while it waits chunks and the socket's close come in.          *)
(*                                                                         *)
(* A payload is one byte per byte of its meaning: a token, or anything.    *)
(* Bounds: MaxFrames frames, MaxWaiting chunks waiting.                    *)
(***************************************************************************)
EXTENDS Integers, Sequences, SequencesExt

CONSTANTS MaxFrames, MaxWaiting

ASSUME ConnectionAssumption == MaxFrames \in Nat \ {0} /\ MaxWaiting \in Nat \ {0}

AUTH == 1
HEARTBEAT == 2
APP == 3     \* any other command: a base protocol

\* Tokens: two accounts, one of them banned, and one that nobody has.
Account(token) == CASE token = 7 -> "player" [] token = 8 -> "banned" [] OTHER -> "unknown"

Region == 2

\* What a client writes: a heartbeat has no length and no payload.
Bytes(f) ==
    IF f.cmd = HEARTBEAT THEN <<f.cmd, Region>>
    ELSE <<f.cmd, Region, 0, 0, 0, Len(f.payload)>> \o f.payload

Frames ==
    {[cmd |-> HEARTBEAT, payload |-> <<>>]}
    \cup {[cmd |-> AUTH, payload |-> <<token>>] : token \in 7 .. 9}
    \cup {[cmd |-> APP, payload |-> p] : p \in {<<>>, <<2, 2>>}}

Stream(frames) == FlattenSeq([i \in DOMAIN frames |-> Bytes(frames[i])])

VARIABLES
    script,    \* what this client sends, frame by frame
    sent,      \* bytes of it that have arrived
    queue,     \* chunks whose job has not begun
    buf,       \* bytes read and not yet parsed
    frames,    \* frames of the running job that are still to handle
    pc,        \* the running job: idle, or the await it is at
    entry,     \* the connection's account, once it has one
    session,   \* the account whose session is this socket
    socket,    \* open, destroyed (its close event is still to come), or closed
    outcomes    \* what became of the frames handled

connectionVars ==
    <<script, sent, queue, buf, frames, pc, entry, session, socket, outcomes>>

ConnectionInit ==
    /\ script \in UNION {[1 .. n -> Frames] : n \in 1 .. MaxFrames}
    /\ sent = 0 /\ queue = <<>> /\ buf = <<>> /\ frames = <<>> /\ pc = "idle"
    /\ entry = "none" /\ session = "none" /\ socket = "open" /\ outcomes = <<>>

-----------------------------------------------------------------------------
(* Framing.                                                                *)

\* readUInt32BE, of lengths below a byte.
LengthAt(bytes) == bytes[6]

\* Mutant: the payload is not waited for.
HeaderSize(bytes) ==
    IF Len(bytes) < 2 THEN 0
    ELSE IF bytes[1] = HEARTBEAT THEN 2
    ELSE IF Len(bytes) < 6 THEN 0
    ELSE IF Len(bytes) < 6 + LengthAt(bytes) THEN Len(bytes)
    ELSE 6 + LengthAt(bytes)

\* Bytes of the first frame; 0 while it is not complete.
FrameSize(bytes) ==
    IF Len(bytes) < 2 THEN 0
    ELSE IF bytes[1] = HEARTBEAT THEN 2
    ELSE IF Len(bytes) < 6 THEN 0
    ELSE IF Len(bytes) < 6 + LengthAt(bytes) THEN 0
    ELSE 6 + LengthAt(bytes)

FirstFrame(bytes) ==
    [cmd |-> bytes[1],
     payload |-> IF bytes[1] = HEARTBEAT THEN <<>> ELSE SubSeq(bytes, 7, FrameSize(bytes))]

Parse[bytes \in Seq(Nat)] ==
    IF FrameSize(bytes) = 0 THEN [frames |-> <<>>, rest |-> bytes]
    ELSE LET n == FrameSize(bytes)
             tail == Parse[SubSeq(bytes, n + 1, Len(bytes))]
         IN  [frames |-> <<FirstFrame(bytes)>> \o tail.frames, rest |-> tail.rest]

-----------------------------------------------------------------------------
(* The connection.                                                         *)

\* A 'data' event.
Receive(n) ==
    /\ socket = "open" /\ Len(queue) < MaxWaiting
    /\ sent' = sent + n
    /\ queue' = Append(queue, SubSeq(Stream(script), sent + 1, sent + n))
    /\ UNCHANGED <<script, buf, frames, pc, entry, session, socket, outcomes>>

\* Mutant: a chunk is parsed when it comes, while AUTH waits.
BeginAtOnce ==
    /\ queue # <<>>
    /\ LET parsed == Parse[buf \o Head(queue)] IN
       frames' = parsed.frames \o frames /\ buf' = parsed.rest
    /\ queue' = Tail(queue)
    /\ UNCHANGED <<script, sent, pc, entry, session, socket, outcomes>>

\* Mutant: what is left of a chunk is forgotten.
BeginAfresh ==
    /\ pc = "idle" /\ frames = <<>> /\ queue # <<>>
    /\ frames' = Parse[Head(queue)].frames /\ buf' = Parse[Head(queue)].rest
    /\ queue' = Tail(queue)
    /\ UNCHANGED <<script, sent, pc, entry, session, socket, outcomes>>

\* A job begins when the one before it has handled its last frame.
Begin ==
    /\ pc = "idle" /\ frames = <<>> /\ queue # <<>>
    /\ LET parsed == Parse[buf \o Head(queue)] IN
       frames' = parsed.frames /\ buf' = parsed.rest
    /\ queue' = Tail(queue)
    /\ UNCHANGED <<script, sent, pc, entry, session, socket, outcomes>>

HandledAs(outcome) ==
    /\ outcomes' = Append(outcomes, [frame |-> Head(frames), as |-> outcome, when |-> socket])
    /\ frames' = Tail(frames)
    /\ UNCHANGED <<script, sent, queue, buf>>

Begins(cmd) == pc = "idle" /\ frames # <<>> /\ Head(frames).cmd = cmd

Heartbeat ==
    /\ Begins(HEARTBEAT) /\ HandledAs("echoed")
    /\ UNCHANGED <<pc, entry, session, socket>>

\* An app message goes to the router under the account of the entry; before AUTH to nobody.
AppMessage ==
    /\ Begins(APP) /\ HandledAs(entry)
    /\ UNCHANGED <<pc, entry, session, socket>>

\* socket.destroy: nothing more is read; the jobs already queued run on.
Destroyed == IF socket = "open" THEN "destroyed" ELSE socket

AuthBegins ==
    /\ Begins(AUTH)
    /\ pc' = "token"
    /\ UNCHANGED <<script, sent, queue, buf, frames, entry, session, socket, outcomes>>

Token == Head(frames).payload[1]

\* getByToken knows nobody of that token.
AuthUnknown ==
    /\ pc = "token" /\ Account(Token) = "unknown"
    /\ HandledAs("refused") /\ pc' = "idle" /\ socket' = Destroyed
    /\ UNCHANGED <<entry, session>>

AuthKnown ==
    /\ pc = "token" /\ Account(Token) # "unknown"
    /\ pc' = "ban"
    /\ UNCHANGED <<script, sent, queue, buf, frames, entry, session, socket, outcomes>>

\* A rejected query ends the frame, not the connection.
AuthFails ==
    /\ pc = "token" /\ HandledAs("refused") /\ pc' = "idle"
    /\ UNCHANGED <<entry, session, socket>>

\* isBanned, by the game's flag (by the auth store alone it may fail open): KICK, and a timer
\* destroys the socket.
AuthBanned ==
    /\ pc = "ban" /\ Account(Token) = "banned"
    /\ HandledAs("refused") /\ pc' = "idle"
    /\ UNCHANGED <<entry, session, socket>>

KickTimer ==
    /\ \E i \in DOMAIN outcomes : /\ outcomes[i].frame.cmd = AUTH /\ outcomes[i].as = "refused"
                                 /\ Account(outcomes[i].frame.payload[1]) = "banned"
    /\ socket = "open" /\ socket' = "destroyed"
    /\ UNCHANGED <<script, sent, queue, buf, frames, pc, entry, session, outcomes>>

\* register, whatever became of the socket meanwhile.
AuthAccepted ==
    /\ pc = "ban" /\ Account(Token) = "player"
    /\ HandledAs(Account(Token)) /\ pc' = "idle"
    /\ entry' = Account(Token) /\ session' = Account(Token)
    /\ UNCHANGED socket

\* The client hangs up.
Hangup ==
    /\ socket = "open" /\ socket' = "destroyed"
    /\ UNCHANGED <<script, sent, queue, buf, frames, pc, entry, session, outcomes>>

\* Mutant: the session is left to the next connection to replace.
ClosesOnly ==
    /\ socket = "destroyed" /\ socket' = "closed"
    /\ UNCHANGED <<script, sent, queue, buf, frames, pc, entry, session, outcomes>>

\* The 'close' event.
CloseEvent ==
    /\ socket = "destroyed" /\ socket' = "closed"
    /\ session' = IF entry # "none" THEN "none" ELSE session
    /\ UNCHANGED <<script, sent, queue, buf, frames, pc, entry, outcomes>>

ConnectionNext ==
    \/ \E n \in 1 .. Len(Stream(script)) - sent : Receive(n)
    \/ Begin \/ Heartbeat \/ AppMessage
    \/ AuthBegins \/ AuthUnknown \/ AuthKnown \/ AuthFails \/ AuthBanned \/ AuthAccepted
    \/ KickTimer \/ Hangup \/ CloseEvent

-----------------------------------------------------------------------------
\* The type invariant.
ConnectionTypeOK ==
    /\ sent \in 0 .. Len(Stream(script)) /\ Len(queue) <= MaxWaiting
    /\ pc \in {"idle", "token", "ban"} /\ (pc # "idle" => frames # <<>>)
    /\ entry \in {"none", "player"} /\ session \in {"none", "player"}
    /\ socket \in {"open", "destroyed", "closed"}

\* However TCP cuts the stream, and whatever arrives while AUTH waits, the frames handled
\* and those still in the buffers are, in order, the frames the client wrote.
NoByteLost ==
    LET bytes == buf \o FlattenSeq(queue) \o SubSeq(Stream(script), sent + 1, Len(Stream(script)))
    IN  [i \in DOMAIN outcomes |-> outcomes[i].frame] \o frames \o Parse[bytes].frames = script

\* gateway.js: "serialise per-connection processing to a promise chain".  An app message is
\* routed for the account of the AUTH before it in the stream, and ignored only when no AUTH
\* before it was accepted.
RoutedForItsAccount ==
    \A i \in DOMAIN outcomes : outcomes[i].frame.cmd = APP =>
        outcomes[i].as = IF \E j \in 1 .. i - 1 : /\ outcomes[j].frame.cmd = AUTH
                                                 /\ outcomes[j].as = "player"
                        THEN "player" ELSE "none"

\* A socket that has closed has no session, unless an AUTH was accepted after its close:
\* the jobs already queued run on, and no close event will end what they register.
ClosedHasNoSession ==
    socket = "closed" /\ session # "none" =>
        \E i \in DOMAIN outcomes : outcomes[i].frame.cmd = AUTH /\ outcomes[i].as = "player"
                                  /\ outcomes[i].when = "closed"
=============================================================================
