----------------------------- MODULE Matchmaker -----------------------------
(***************************************************************************)
(* The shared matchmaker of src/src/tcp/matchmaker.js: every gateway feeds *)
(* one queue in Redis, and N replicas contend for the lease `mm:leader`.   *)
(* A replica that believes it leads reads the queue, plans its batches,    *)
(* and for each mints a match id, claims the players with HDEL and pushes  *)
(* each one its match.  Every await is a step.                             *)
(*                                                                         *)
(* The queue is the hash `mmqueue`, an entry an account; joinedAt counts   *)
(* up from the newest entry there is, so no two are equal.  overdue is the *)
(* set of players who waited TIMEOUT_MS.  asked and matched count what a   *)
(* player asked for and what it was sent; no code reads them.              *)
(*                                                                         *)
(* Bounds: MaxStarts STARTs a player, MaxMatches match ids, MaxLapses      *)
(* leases that run out under a live leader, MaxStops graceful shutdowns,   *)
(* MaxFaults crashes and failed commands.                                  *)
(***************************************************************************)
EXTENDS Integers, FiniteSets, FiniteSetsExt

CONSTANTS Accounts, Replicas, Modes,
          MinPlayers, MatchSize,
          Free,        \* nobody holds the lease
          Orphan,      \* its holder is gone and the TTL still runs
          MaxStarts, MaxMatches, MaxLapses, MaxStops, MaxFaults

ASSUME MatchmakerAssumption ==
    /\ IsFiniteSet(Accounts)
    /\ MinPlayers \in Nat \ {0} /\ MatchSize \in Nat \ {0}
    /\ MaxStarts \in Nat /\ MaxMatches \in Nat /\ MaxLapses \in Nat
    /\ MaxStops \in Nat /\ MaxFaults \in Nat
    /\ Free \notin Replicas /\ Orphan \notin Replicas /\ Free # Orphan

Entry == [account : Accounts, mode : Modes, joinedAt : Nat]

VARIABLES
    queue,       \* the entries in Redis
    overdue,     \* the accounts whose entry is older than TIMEOUT_MS
    online,      \* account -> presence key set
    lease,
    isLeader,    \* replica -> what it believes
    stopped,     \* replicas whose timers are cleared and that exit next
    pc, plan, batch, matchId,  \* a replica's tick: batches to form, the one under way, its id
    matchSeq,
    asked,       \* account -> STARTs sent
    matched,     \* account -> matches pushed to it
    lapses, stops, faults

requests == <<queue, overdue, asked>>
ticks == <<pc, plan, batch, matchId>>
budget == <<lapses, stops, faults>>
vars == <<requests, online, lease, isLeader, stopped, ticks, matchSeq, matched, budget>>

Init ==
    /\ queue = {} /\ overdue = {}
    /\ online = [a \in Accounts |-> TRUE]
    /\ lease = Free
    /\ isLeader = [r \in Replicas |-> FALSE]
    /\ stopped = {}
    /\ pc = [r \in Replicas |-> "idle"]
    /\ plan = [r \in Replicas |-> {}]
    /\ batch = [r \in Replicas |-> {}]
    /\ matchId = [r \in Replicas |-> 0]
    /\ matchSeq = 0
    /\ asked = [a \in Accounts |-> 0]
    /\ matched = [a \in Accounts |-> {}]
    /\ lapses = 0 /\ stops = 0 /\ faults = 0

OffQueue(gone) == {e \in queue : e.account \notin gone}
Now == 1 + Max({e.joinedAt : e \in queue} \cup {0})
InQueue(a) == \E e \in queue : e.account = a

-----------------------------------------------------------------------------
(* The gateways: START, CANCEL, a closed socket, a new one.                *)

\* HSET: a second START replaces the entry and its joinedAt.
Start(a, mode) ==
    /\ online[a] /\ asked[a] < MaxStarts
    /\ asked' = [asked EXCEPT ![a] = @ + 1]
    /\ queue' = OffQueue({a}) \cup {[account |-> a, mode |-> mode, joinedAt |-> Now]}
    /\ overdue' = overdue \ {a}
    /\ UNCHANGED <<online, lease, isLeader, stopped, ticks, matchSeq, matched, budget>>

\* HDEL, for CANCEL and DROPMATCH alike; the hash may hold no such field.
Cancel(a) ==
    /\ online[a]
    /\ queue' = OffQueue({a})
    /\ overdue' = overdue \ {a}
    /\ UNCHANGED <<asked, online, lease, isLeader, stopped, ticks, matchSeq, matched, budget>>

\* close: matchmaker.cancel, then markOffline.
Disconnect(a) ==
    /\ online[a]
    /\ online' = [online EXCEPT ![a] = FALSE]
    /\ queue' = OffQueue({a})
    /\ overdue' = overdue \ {a}
    /\ UNCHANGED <<asked, lease, isLeader, stopped, ticks, matchSeq, matched, budget>>

Connect(a) ==
    /\ ~online[a]
    /\ online' = [online EXCEPT ![a] = TRUE]
    /\ UNCHANGED <<requests, lease, isLeader, stopped, ticks, matchSeq, matched, budget>>

Age(a) ==
    /\ InQueue(a) /\ a \notin overdue
    /\ overdue' = overdue \cup {a}
    /\ UNCHANGED <<queue, asked, online, lease, isLeader, stopped, ticks, matchSeq, matched, budget>>

-----------------------------------------------------------------------------
(* leadership(): every RENEW_MS.                                           *)

\* The lease is not ours any more: standby.  A tick under way goes on.
Demote(r) ==
    /\ isLeader[r] /\ lease # r
    /\ isLeader' = [isLeader EXCEPT ![r] = FALSE]
    /\ UNCHANGED <<requests, online, lease, stopped, ticks, matchSeq, matched, budget>>

\* SET NX PX.
Elect(r) ==
    /\ ~isLeader[r] /\ r \notin stopped /\ lease = Free
    /\ lease' = r
    /\ isLeader' = [isLeader EXCEPT ![r] = TRUE]
    /\ UNCHANGED <<requests, online, stopped, ticks, matchSeq, matched, budget>>

-----------------------------------------------------------------------------
(* tick(): a replica that believes it leads, one tick at a time.           *)

OfMode(mode) == {e \in queue : e.mode = mode}
Players(entries) == {e.account : e \in entries}

\* Mutant: a lone player waits for a second one however long it takes.
RipeWhenFull(mode) == Cardinality(OfMode(mode)) >= MinPlayers

Ripe(mode) ==
    \/ Cardinality(OfMode(mode)) >= MinPlayers
    \/ Players(OfMode(mode)) \cap overdue # {}

Older(entries, e) == {f \in entries : f.joinedAt < e.joinedAt}

\* The first MATCH_SIZE entries in the order of joinedAt.
Oldest(mode) ==
    Players({e \in OfMode(mode) : Cardinality(Older(OfMode(mode), e)) < MatchSize})

\* HGETALL, then groups and batches in memory.
Read(r) ==
    /\ isLeader[r] /\ pc[r] = "idle"
    /\ plan' = [plan EXCEPT ![r] = {Oldest(m) : m \in {n \in Modes : Ripe(n)}} \ {{}}]
    /\ plan'[r] # {}
    /\ pc' = [pc EXCEPT ![r] = "mint"]
    /\ UNCHANGED <<requests, online, lease, isLeader, stopped, batch, matchId, matchSeq, matched, budget>>

\* Mutant: match ids counted per process.
MintOwn(r) ==
    /\ pc[r] = "mint" /\ matchId[r] < MaxMatches
    /\ matchId' = [matchId EXCEPT ![r] = @ + 1]
    /\ matchSeq' = IF matchId[r] < matchSeq THEN matchSeq ELSE matchId[r] + 1
    /\ \E b \in plan[r] :
          /\ batch' = [batch EXCEPT ![r] = b]
          /\ plan' = [plan EXCEPT ![r] = @ \ {b}]
    /\ pc' = [pc EXCEPT ![r] = "claim"]
    /\ UNCHANGED <<requests, online, lease, isLeader, stopped, matched, budget>>

\* Mutant: the id is the counter before INCR, and 0 means no match.
MintBefore(r) ==
    /\ pc[r] = "mint" /\ matchSeq < MaxMatches
    /\ matchSeq' = matchSeq + 1
    /\ matchId' = [matchId EXCEPT ![r] = matchSeq]
    /\ \E b \in plan[r] :
          /\ batch' = [batch EXCEPT ![r] = b]
          /\ plan' = [plan EXCEPT ![r] = @ \ {b}]
    /\ pc' = [pc EXCEPT ![r] = "claim"]
    /\ UNCHANGED <<requests, online, lease, isLeader, stopped, matched, budget>>

\* formMatch: INCR mm:matchseq.
Mint(r) ==
    /\ pc[r] = "mint" /\ matchSeq < MaxMatches
    /\ matchSeq' = matchSeq + 1
    /\ matchId' = [matchId EXCEPT ![r] = matchSeq + 1]
    /\ \E b \in plan[r] :
          /\ batch' = [batch EXCEPT ![r] = b]
          /\ plan' = [plan EXCEPT ![r] = @ \ {b}]
    /\ pc' = [pc EXCEPT ![r] = "claim"]
    /\ UNCHANGED <<requests, online, lease, isLeader, stopped, matched, budget>>

\* Mutant: the players are taken off the queue only after the pushes.
ClaimNothing(r) ==
    /\ pc[r] = "claim"
    /\ pc' = [pc EXCEPT ![r] = "push"]
    /\ UNCHANGED <<requests, online, lease, isLeader, stopped, plan, batch, matchId, matchSeq, matched, budget>>

\* HDEL: how many fields it deleted is not looked at.
Claim(r) ==
    /\ pc[r] = "claim"
    /\ queue' = OffQueue(batch[r])
    /\ overdue' = overdue \ batch[r]
    /\ pc' = [pc EXCEPT ![r] = "push"]
    /\ UNCHANGED <<asked, online, lease, isLeader, stopped, plan, batch, matchId, matchSeq, matched, budget>>

\* GET presence and PUBLISH gw.push for one player of the batch; then the next
\* player, the next batch, or the end of the tick.
Push(r) ==
    /\ pc[r] = "push"
    /\ \E a \in batch[r] :
          /\ matched' = IF online[a] THEN [matched EXCEPT ![a] = @ \cup {matchId[r]}] ELSE matched
          /\ batch' = [batch EXCEPT ![r] = @ \ {a}]
          /\ pc' = [pc EXCEPT ![r] = CASE batch[r] # {a} -> "push"
                                       [] batch[r] = {a} /\ plan[r] # {} -> "mint"
                                       [] OTHER -> "idle"]
    /\ UNCHANGED <<requests, online, lease, isLeader, stopped, plan, matchId, matchSeq, budget>>

-----------------------------------------------------------------------------
(* What goes wrong.                                                        *)

TickEnds(r) ==
    /\ pc' = [pc EXCEPT ![r] = "idle"]
    /\ plan' = [plan EXCEPT ![r] = {}]
    /\ batch' = [batch EXCEPT ![r] = {}]

\* A command rejects: the tick unwinds and the next one starts afresh.
TickFails(r) ==
    /\ faults < MaxFaults /\ pc[r] # "idle"
    /\ faults' = faults + 1
    /\ TickEnds(r)
    /\ UNCHANGED <<requests, online, lease, isLeader, stopped, matchId, matchSeq, matched, lapses, stops>>

\* A crash leaves the lease to its TTL; the replica comes back with a new token.
Crash(r) ==
    /\ faults < MaxFaults
    /\ faults' = faults + 1
    /\ lease' = IF lease = r THEN Orphan ELSE lease
    /\ isLeader' = [isLeader EXCEPT ![r] = FALSE]
    /\ stopped' = stopped \ {r}
    /\ TickEnds(r)
    /\ UNCHANGED <<requests, online, matchId, matchSeq, matched, lapses, stops>>

\* SIGTERM: the timers are cleared and the lease released; a tick under way runs
\* on until the reply to the release arrives and the process exits.
Stop(r) ==
    /\ stops < MaxStops /\ r \notin stopped
    /\ stops' = stops + 1
    /\ stopped' = stopped \cup {r}
    /\ lease' = IF isLeader[r] /\ lease = r THEN Free ELSE lease
    /\ isLeader' = [isLeader EXCEPT ![r] = FALSE]
    /\ UNCHANGED <<requests, online, ticks, matchSeq, matched, lapses, faults>>

Exit(r) ==
    /\ r \in stopped
    /\ stopped' = stopped \ {r}
    /\ TickEnds(r)
    /\ UNCHANGED <<requests, online, lease, isLeader, matchId, matchSeq, matched, budget>>

\* HSET rejects: logged, and the client still gets its START_NTF.
StartLost(a) ==
    /\ faults < MaxFaults
    /\ online[a] /\ asked[a] < MaxStarts
    /\ faults' = faults + 1
    /\ asked' = [asked EXCEPT ![a] = @ + 1]
    /\ UNCHANGED <<queue, overdue, online, lease, isLeader, stopped, ticks, matchSeq, matched, lapses, stops>>

OrphanExpires ==
    /\ lease = Orphan
    /\ lease' = Free
    /\ UNCHANGED <<requests, online, isLeader, stopped, ticks, matchSeq, matched, budget>>

\* The leader stalls past LEASE_MS without renewing.
Lapse ==
    /\ lapses < MaxLapses
    /\ lapses' = lapses + 1
    /\ lease \in Replicas
    /\ lease' = Free
    /\ UNCHANGED <<requests, online, isLeader, stopped, ticks, matchSeq, matched, stops, faults>>

-----------------------------------------------------------------------------

Tick(r) == Read(r) \/ Mint(r) \/ Claim(r) \/ Push(r)

Next ==
    \/ \E a \in Accounts : \/ \E m \in Modes : Start(a, m)
                           \/ Cancel(a) \/ Disconnect(a) \/ Connect(a) \/ Age(a) \/ StartLost(a)
    \/ \E r \in Replicas : \/ Demote(r) \/ Elect(r) \/ Tick(r) \/ TickFails(r)
                           \/ Crash(r) \/ Stop(r) \/ Exit(r)
    \/ OrphanExpires \/ Lapse

Spec == Init /\ [][Next]_vars

\* Timers fire, Redis answers and keys expire; players do what they like.
FairSpec ==
    /\ Spec
    /\ \A r \in Replicas : /\ WF_vars(Tick(r)) /\ WF_vars(Demote(r)) /\ WF_vars(Elect(r))
                          /\ WF_vars(Exit(r))
    /\ \A a \in Accounts : WF_vars(Age(a))
    /\ WF_vars(OrphanExpires)

-----------------------------------------------------------------------------
(* Properties.                                                             *)

\* Type invariant.
TypeOK ==
    /\ queue \subseteq Entry
    /\ overdue \subseteq Accounts
    /\ online \in [Accounts -> BOOLEAN]
    /\ lease \in Replicas \cup {Free, Orphan}
    /\ isLeader \in [Replicas -> BOOLEAN]
    /\ stopped \subseteq Replicas
    /\ pc \in [Replicas -> {"idle", "mint", "claim", "push"}]
    /\ plan \in [Replicas -> SUBSET SUBSET Accounts]
    /\ batch \in [Replicas -> SUBSET Accounts]
    /\ matchId \in [Replicas -> 0..MaxMatches]
    /\ matchSeq \in 0..MaxMatches
    /\ asked \in [Accounts -> 0..MaxStarts]
    /\ matched \in [Accounts -> SUBSET (1..MaxMatches)]
    /\ lapses \in 0..MaxLapses
    /\ stops \in 0..MaxStops
    /\ faults \in 0..MaxFaults

\* A START is good for one match: whatever crashes, fails over or is retried, no
\* player is sent more matches than it asked for, until a lease lapses or a leader
\* stops in the middle of a tick.
OneMatchPerStart ==
    lapses = 0 /\ stops = 0 => \A a \in Accounts : Cardinality(matched[a]) <= asked[a]

\* The same with no exception ("claims its players atomically via HDEL").
NeverMatchedTwice == \A a \in Accounts : Cardinality(matched[a]) <= asked[a]

\* The replicas that form matches are at most one ("exactly ONE is the ACTIVE
\* processor at a time", "no split-brain").
OneFormsMatches == \A r, s \in Replicas : pc[r] # "idle" /\ pc[s] # "idle" => r = s

\* A match id names one match: two replicas never work under the same id, and no
\* match is bigger than MATCH_SIZE.
MatchesApart ==
    /\ \A r, s \in Replicas :
          r # s /\ pc[r] \in {"claim", "push"} /\ pc[s] \in {"claim", "push"} => matchId[r] # matchId[s]
    /\ \A m \in 1..matchSeq : Cardinality({a \in Accounts : m \in matched[a]}) <= MatchSize

\* What the players are sent: one match a START, under an id of its own.
MatchesSound == OneMatchPerStart /\ MatchesApart

\* A claim takes players who are on the queue still: none who cancelled after the
\* read, or whom another leader has taken.
CancelledIsNotMatched ==
    [][\A r \in Replicas : Claim(r) => \A a \in batch[r] : InQueue(a)]_vars

\* A queued player leaves the queue for a match (or because it cancels), across
\* crashes, shutdowns and failed ticks, as long as match ids last.
QueuedIsServed ==
    \A a \in Accounts : InQueue(a) ~> (~InQueue(a) \/ matchSeq = MaxMatches)
=============================================================================
