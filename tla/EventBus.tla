------------------------------ MODULE EventBus ------------------------------
(***************************************************************************)
(* The two back ends behind one interface: Bus, on Redis                   *)
(* (src/src/bus/index.js), and InMemoryBus (inMemoryBus.js), which         *)
(* getBus (instance.js) puts in its place without a REDIS_URL.  One        *)
(* process makes the same calls to both; what it can see of them is        *)
(* compared, for the calls that Redis answers.  Redis drops a key when it  *)
(* expires; InMemoryBus keeps the entry and looks at its time when it is   *)
(* asked.                                                                  *)
(*                                                                         *)
(* A stay ends between two ticks of the clock.  Bounds: MaxBusOps calls,   *)
(* MaxBusTime ticks, one key of each kind, the list of InMemoryBus trimmed *)
(* to Trim (its 1000) and a stream of Redis to MaxLen or more (its 100000).*)
(***************************************************************************)
EXTENDS Integers, Sequences, FiniteSets, SequencesExt

CONSTANTS Holders, Fields, Values, MaxBusOps, MaxBusTime, Trim, MaxLen

ASSUME BusAssumption == MaxBusOps \in Nat /\ MaxBusTime \in Nat
                        /\ Trim \in Nat \ {0} /\ MaxLen \in Nat

VARIABLES
    clock,
    memory,      \* InMemoryBus: lock, key, presence (each with its expiresAt), hash, counter
    redis,       \* the same keys in Redis
    answers,     \* what the last call answered: <<InMemoryBus, Bus>>
    heeded,      \* the callers of the last call look at its answer
    log,         \* stream: InMemoryBus' list, cut to Trim
    stream,      \* stream: messages published to Redis
    trimmed,     \* last id that MAXLEN took off the stream
    group,       \* Redis has the group
    cursor,      \* last id the group was delivered
    subscribed,  \* subscribeStream was called
    given,       \* messages a handler was called with: [memory, redis]
    again,       \* a holder took the lease it held
    busOps

streamVars == <<log, stream, trimmed, group, cursor, subscribed, given>>
busVars == <<clock, memory, redis, answers, heeded, streamVars, again, busOps>>

None == [held |-> FALSE, by |-> "nobody", exp |-> 0]
Until(value, ttl) == [held |-> TRUE, by |-> value, exp |-> 2 * (clock + ttl) - 1]

Empty == [lock |-> None, key |-> None, presence |-> None, hash |-> [f \in {} |-> 0], counter |-> 0]

BusInit ==
    /\ clock = 0 /\ memory = Empty /\ redis = Empty /\ answers = <<0, 0>> /\ heeded = FALSE
    /\ log = <<>> /\ stream = <<>> /\ trimmed = 0 /\ group \in BOOLEAN /\ cursor = 0
    /\ subscribed \in BOOLEAN
    /\ given = [memory |-> <<>>, redis |-> <<>>]
    /\ again = FALSE /\ busOps = 0

Expired(entry, time) == entry.held /\ entry.exp < 2 * time

\* Redis: an expired key is gone.
Unexpired(keys, time) ==
    [keys EXCEPT !.lock = IF Expired(@, time) THEN None ELSE @,
                 !.key = IF Expired(@, time) THEN None ELSE @,
                 !.presence = IF Expired(@, time) THEN None ELSE @]

BusTick ==
    /\ clock < MaxBusTime /\ clock' = clock + 1 /\ redis' = Unexpired(redis, clock + 1)
    /\ UNCHANGED <<memory, answers, heeded, streamVars, again, busOps>>

Call == busOps < MaxBusOps /\ busOps' = busOps + 1 /\ UNCHANGED <<clock, streamVars>>
Answered(m, r) == answers' = <<m, r>> /\ heeded' = TRUE

\* Every caller of hset, clearPresence and releaseLock goes on whatever it is told.
Unheeded(m, r) == answers' = <<m, r>> /\ heeded' = FALSE

-----------------------------------------------------------------------------
(* The lease.                                                              *)

\* Mutant: who holds the lease is not looked at, only whether it is there.
FreeUnlessThere(token) == ~ memory.lock.held \/ memory.lock.by = token

FreeInMemory(token) ==
    \/ ~ memory.lock.held \/ Expired(memory.lock, clock)
    \/ memory.lock.by = token

AcquireLock(token, ttl) ==
    /\ Call
    /\ memory' = IF FreeInMemory(token) THEN [memory EXCEPT !.lock = Until(token, ttl)] ELSE memory
    /\ redis' = IF ~ redis.lock.held THEN [redis EXCEPT !.lock = Until(token, ttl)] ELSE redis
    /\ Answered(FreeInMemory(token), ~ redis.lock.held)
    /\ again' = (again \/ (redis.lock.held /\ redis.lock.by = token))

\* Mutant: a lease that has run out is extended.
MineInMemoryLate(token) == memory.lock.held /\ memory.lock.by = token

MineInMemory(token) ==
    memory.lock.held /\ memory.lock.by = token /\ ~ Expired(memory.lock, clock)

MineInRedis(token) == redis.lock.held /\ redis.lock.by = token

RenewLock(token, ttl) ==
    /\ Call
    /\ memory' = IF MineInMemory(token) THEN [memory EXCEPT !.lock = Until(token, ttl)] ELSE memory
    /\ redis' = IF MineInRedis(token) THEN [redis EXCEPT !.lock = Until(token, ttl)] ELSE redis
    /\ Answered(MineInMemory(token), MineInRedis(token)) /\ UNCHANGED again

\* InMemoryBus says true of a lease of one's own that has run out.
ReleaseLock(token) ==
    /\ Call
    /\ memory' = IF memory.lock.held /\ memory.lock.by = token THEN [memory EXCEPT !.lock = None] ELSE memory
    /\ redis' = IF MineInRedis(token) THEN [redis EXCEPT !.lock = None] ELSE redis
    /\ Unheeded(memory.lock.held /\ memory.lock.by = token, MineInRedis(token)) /\ UNCHANGED again

-----------------------------------------------------------------------------
(* Keys, presence, hashes, the counter.                                    *)

Seen(entry) == IF entry.held /\ ~ Expired(entry, clock) THEN entry.by ELSE "nobody"

SetKey(v, ttl) ==
    /\ Call /\ UNCHANGED again
    /\ memory' = [memory EXCEPT !.key = Until(v, ttl)] /\ redis' = [redis EXCEPT !.key = Until(v, ttl)]
    /\ Answered(0, 0)

\* getKey drops what it finds expired.
GetKey ==
    /\ Call /\ UNCHANGED <<again, redis>>
    /\ memory' = [memory EXCEPT !.key = IF Expired(@, clock) THEN None ELSE @]
    /\ Answered(Seen(memory.key), redis.key.by)

\* setPresence; refreshPresence is one for each account.
SetPresence(node, ttl) ==
    /\ Call /\ UNCHANGED again
    /\ memory' = [memory EXCEPT !.presence = Until(node, ttl)]
    /\ redis' = [redis EXCEPT !.presence = Until(node, ttl)]
    /\ Answered(0, 0)

\* DEL says whether there was one, InMemoryBus that there was.
ClearPresence ==
    /\ Call /\ UNCHANGED again
    /\ memory' = [memory EXCEPT !.presence = None] /\ redis' = [redis EXCEPT !.presence = None]
    /\ Unheeded(TRUE, redis.presence.held)

\* Mutant: the entry is believed whatever its age.
GetNodeEver ==
    /\ Call /\ UNCHANGED <<again, redis, memory>>
    /\ Answered(memory.presence.by, redis.presence.by)

\* getNode, getNodes, scanPresence.
GetNode ==
    /\ Call /\ UNCHANGED <<again, redis>>
    /\ memory' = [memory EXCEPT !.presence = IF Expired(@, clock) THEN None ELSE @]
    /\ Answered(Seen(memory.presence), redis.presence.by)

Put(hash, f, v) == [g \in DOMAIN hash \cup {f} |-> IF g = f THEN v ELSE hash[g]]
Cut(hash, f) == [g \in DOMAIN hash \ {f} |-> hash[g]]

\* HSET says whether the field is new, InMemoryBus that it is.
HSet(f, v) ==
    /\ Call /\ UNCHANGED again
    /\ memory' = [memory EXCEPT !.hash = Put(@, f, v)] /\ redis' = [redis EXCEPT !.hash = Put(@, f, v)]
    /\ Unheeded(TRUE, f \notin DOMAIN redis.hash)

\* hdel says whether it was there.
HDel(f) ==
    /\ Call /\ UNCHANGED again
    /\ memory' = [memory EXCEPT !.hash = Cut(@, f)] /\ redis' = [redis EXCEPT !.hash = Cut(@, f)]
    /\ Answered(f \in DOMAIN memory.hash, f \in DOMAIN redis.hash)

\* hgetall; hget and hlen are of it.
HGetAll ==
    /\ Call /\ UNCHANGED <<again, memory, redis>>
    /\ Answered(memory.hash, redis.hash)

Incr ==
    /\ Call /\ UNCHANGED again
    /\ memory' = [memory EXCEPT !.counter = @ + 1] /\ redis' = [redis EXCEPT !.counter = @ + 1]
    /\ Answered(memory.counter + 1, redis.counter + 1)

-----------------------------------------------------------------------------
(* A stream of which one group reads.                                      *)

StreamCall == busOps < MaxBusOps /\ busOps' = busOps + 1
              /\ UNCHANGED <<clock, memory, redis, answers, heeded, again>>

\* subscribeStream: a group of Redis begins at the first message, InMemoryBus at the next.  An
\* XGROUP CREATE that fails is logged, and not tried again; the group may be there already.
Subscribe ==
    /\ StreamCall /\ ~ subscribed /\ subscribed' = TRUE /\ group' \in {group, TRUE}
    /\ UNCHANGED <<log, stream, trimmed, cursor, given>>

\* publish: InMemoryBus calls the handlers at once; XADD may take messages off the stream's
\* other end, and leaves MaxLen.
PublishEvent ==
    /\ StreamCall
    /\ LET id == Len(stream) + 1  grown == Append(log, id) IN
       /\ stream' = Append(stream, id)
       /\ trimmed' \in {trimmed} \cup {n \in trimmed .. id : n + MaxLen <= id}
       /\ log' = IF Len(grown) > Trim THEN Tail(grown) ELSE grown
       /\ given' = IF subscribed THEN [given EXCEPT !.memory = Append(@, id)] ELSE given
    /\ UNCHANGED <<group, cursor, subscribed>>

Deliver(id) ==
    /\ subscribed /\ group /\ id <= Len(stream)
    /\ cursor' = id /\ given' = [given EXCEPT !.redis = Append(@, id)]
    /\ UNCHANGED <<clock, memory, redis, answers, heeded, log, stream, trimmed, group, subscribed,
                   again, busOps>>

\* Mutant: the group begins where the stream ends.
ReadFromEnd == cursor < Len(stream) /\ Deliver(Len(stream))

\* The group's consumer, one message after the other, of those still on the stream.  (A handler
\* that throws is logged, by either; Redis then has the message pending: Settlement.)
ReadGroup == Deliver(1 + IF cursor < trimmed THEN trimmed ELSE cursor)

BusNext ==
    \/ BusTick
    \/ \E token \in Holders, ttl \in 1 .. 2 : AcquireLock(token, ttl) \/ RenewLock(token, ttl)
    \/ \E token \in Holders : ReleaseLock(token)
    \/ \E v \in Values : SetKey(v, 1) \/ SetPresence(v, 2)
    \/ GetKey \/ ClearPresence \/ GetNode
    \/ \E f \in Fields : HDel(f) \/ \E v \in Values : HSet(f, v)
    \/ HGetAll \/ Incr
    \/ Subscribe \/ PublishEvent \/ ReadGroup

-----------------------------------------------------------------------------
\* The type invariant.
BusTypeOK ==
    /\ clock \in 0 .. MaxBusTime /\ busOps \in 0 .. MaxBusOps
    /\ cursor \in 0 .. Len(stream) /\ Len(log) <= Trim
    /\ DOMAIN memory.hash \subseteq Fields /\ memory.counter \in 0 .. MaxBusOps

\* Whatever the calls and the time between them, InMemoryBus answers as Redis does where a
\* caller looks at the answer, and the lease has the same holder, unless a holder acquired the
\* lease it held (InMemoryBus lets it).
AnswersAlike ==
    ~ again => /\ heeded => answers[1] = answers[2]
               /\ Seen(memory.lock) = redis.lock.by

\* A group is given no message twice or late, and skips none that is still on the stream, those
\* of before it subscribed among them; one is taken off it under MaxLen newer ones alone.
\* InMemoryBus gives those that follow, without a gap, and keeps the newest for nobody.
EachMessageOnce ==
    /\ \A i, j \in DOMAIN given.redis : i < j => given.redis[i] < given.redis[j]
    /\ \A id \in 1 .. cursor : id > trimmed => id \in ToSet(given.redis)
    /\ trimmed = 0 \/ trimmed + MaxLen <= Len(stream)
    /\ IsSuffix(given.memory, stream) /\ IsSuffix(log, stream)
=============================================================================
