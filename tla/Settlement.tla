----------------------------- MODULE Settlement -----------------------------
(***************************************************************************)
(* The way of a match result from the Go match server to the ledger:       *)
(* Publish puts it in a buffered channel (match-server/bus/bus.go), a      *)
(* drainer XADDs it, settlement workers read the stream as one consumer    *)
(* group (bus/index.js), settle it player by player, one transaction each  *)
(* (db/repo/postgres.js), and acknowledge it (servers/settlement.js).      *)
(*                                                                         *)
(* A result is its match, its players and the winners among them, each     *)
(* with one coin to credit.  Stream ids are positions in the stream, which *)
(* XADD's MAXLEN (100000 entries) is not let reach.                        *)
(*                                                                         *)
(* A transaction runs under READ COMMITTED: it inserts its row, waiting    *)
(* for another one that has inserted the same and not ended, credits the   *)
(* account, waiting for another one that has, and commits.                 *)
(*                                                                         *)
(* Bounds: one result a match, a channel of Buffer messages, COUNT entries *)
(* a read, players in Lineups, MaxFaults faults of the kinds FaultKinds.   *)
(***************************************************************************)
EXTENDS Integers, Sequences, FiniteSets, SequencesExt

CONSTANTS Matches, Accounts, Workers, Buffer, Count, MaxFaults,
          Lineups,     \* the sets of players a match may end with
          FaultKinds   \* of "send", "crash", "read", "handler" and "ack"

ASSUME SettlementAssumption ==
    Buffer \in Nat /\ Count \in Nat \ {0} /\ MaxFaults \in Nat /\ Lineups \subseteq SUBSET Accounts

Result == [match : Matches, players : SUBSET Accounts, winners : SUBSET Accounts]

VARIABLES
    reported,    \* the results of the matches that ended
    out,         \* the channel; a message is the entries it adds to the stream
    stream,      \* stream:match.result
    grouped,     \* the consumer group exists
    delivered,   \* last id delivered to the group
    unacked,     \* ids delivered and not acknowledged
    batch,       \* worker -> ids of its last read still to handle
    settled,     \* worker -> players settled of the first of them
    tx,          \* worker -> its open transaction on match_results and accounts
    ledger,      \* the committed rows of match_results, <<match, account>>
    coins,       \* account -> coins credited, committed
    faults

sending == <<reported, out, stream>>
group == <<grouped, delivered, unacked>>
worker == <<batch, settled, tx>>
postgres == <<ledger, coins>>
settlementVars == <<sending, group, worker, postgres, faults>>

\* A transaction has inserted its row, unless it was there, and may have credited it.
Tx == [row : Matches \X Accounts, fresh : BOOLEAN, paid : BOOLEAN]
NoTx == [row |-> <<>>, fresh |-> FALSE, paid |-> FALSE]

\* match.ended adds nothing to stream:match.result.
Ended == <<>>

\* XGROUP CREATE may have failed, with enableOfflineQueue false: that is only logged.
SettlementInit ==
    /\ reported = {} /\ out = <<>> /\ stream = <<>>
    /\ grouped \in BOOLEAN /\ delivered = 0 /\ unacked = {}
    /\ batch = [w \in Workers |-> <<>>]
    /\ settled = [w \in Workers |-> {}]
    /\ tx = [w \in Workers |-> NoTx]
    /\ ledger = {} /\ coins = [a \in Accounts |-> 0]
    /\ faults = 0

Fault(kind) == kind \in FaultKinds /\ faults < MaxFaults /\ faults' = faults + 1

-----------------------------------------------------------------------------
(* The match server.                                                       *)

\* A full channel drops the message.
Enqueued(queue, message) == IF Len(queue) < Buffer THEN Append(queue, message) ELSE queue

\* publishResult: the result, then match.ended.
Publish(m, players, winners) ==
    /\ \A r \in reported : r.match # m
    /\ LET result == [match |-> m, players |-> players, winners |-> winners]
       IN  /\ reported' = reported \cup {result}
           /\ out' = Enqueued(Enqueued(out, <<result>>), Ended)
    /\ UNCHANGED <<stream, group, worker, postgres, faults>>

Added == stream \o Head(out)

\* drain: XADD.
Drain ==
    /\ out # <<>>
    /\ stream' = Added
    /\ out' = Tail(out)
    /\ UNCHANGED <<reported, group, worker, postgres, faults>>

\* The reply is lost and the client library sends the command again.
DrainTwice ==
    /\ Fault("send")
    /\ out # <<>>
    /\ stream' = Added
    /\ UNCHANGED <<reported, out, group, worker, postgres>>

\* XADD fails for good: logged.
DrainFails ==
    /\ Fault("send")
    /\ out # <<>>
    /\ out' = Tail(out)
    /\ UNCHANGED <<reported, stream, group, worker, postgres>>

ServerCrash ==
    /\ Fault("crash")
    /\ out' = <<>>
    /\ UNCHANGED <<reported, stream, group, worker, postgres>>

-----------------------------------------------------------------------------
(* A settlement worker reads.                                              *)

\* How many entries nobody was given yet, at most COUNT, and their ids.
Available == LET n == Len(stream) - delivered IN IF n < Count THEN n ELSE Count
NextIds == [i \in 1..Available |-> delivered + i]

Readable == grouped /\ Available # 0

\* Mutant: a read counts COUNT entries however few there are.
ReadPast(w) ==
    /\ batch[w] = <<>> /\ Readable
    /\ batch' = [batch EXCEPT ![w] = NextIds]
    /\ delivered' = delivered + Count
    /\ unacked' = unacked \cup Range(NextIds)
    /\ UNCHANGED <<sending, grouped, settled, tx, postgres, faults>>

\* Mutant: XREAD without a group: every worker reads on its own.
ReadAlone(w) ==
    /\ batch[w] = <<>> /\ stream # <<>>
    /\ batch' = [batch EXCEPT ![w] = [i \in DOMAIN stream |-> i]]
    /\ delivered' = Len(stream)
    /\ unacked' = unacked \cup DOMAIN stream
    /\ UNCHANGED <<sending, grouped, settled, tx, postgres, faults>>

\* XREADGROUP ... '>', which fails for ever without a group.
Read(w) ==
    /\ batch[w] = <<>> /\ Readable
    /\ batch' = [batch EXCEPT ![w] = NextIds]
    /\ delivered' = delivered + Available
    /\ unacked' = unacked \cup Range(NextIds)
    /\ UNCHANGED <<sending, grouped, settled, tx, postgres, faults>>

\* The reply to it is lost: delivered, and nobody handles it.
ReadLost ==
    /\ Fault("read")
    /\ Readable
    /\ delivered' = delivered + Available
    /\ unacked' = unacked \cup Range(NextIds)
    /\ UNCHANGED <<sending, grouped, worker, postgres>>

-----------------------------------------------------------------------------
(* It settles the first message of its batch, a transaction a player.      *)

Message(w) == stream[Head(batch[w])]
Unsettled(w) == Message(w).players \ settled[w]
InTx(w) == tx[w] # NoTx
Payee(w) == tx[w].row[2]

\* Another transaction has inserted the row and not ended.
RowHeld(w, row) == \E v \in Workers \ {w} : tx[v].fresh /\ tx[v].row = row

\* Mutant: no BEGIN: the row is there at once.
InsertAtOnce(w) ==
    /\ batch[w] # <<>> /\ ~InTx(w)
    /\ \E a \in Unsettled(w) :
          LET row == <<Message(w).match, a>>
          IN  /\ ledger' = ledger \cup {row}
              /\ tx' = [tx EXCEPT ![w] = [row |-> row, fresh |-> row \notin ledger, paid |-> FALSE]]
    /\ UNCHANGED <<sending, group, batch, settled, coins, faults>>

\* BEGIN; INSERT ... ON CONFLICT DO NOTHING RETURNING, for one more player.
InsertResult(w) ==
    /\ batch[w] # <<>> /\ ~InTx(w)
    /\ \E a \in Unsettled(w) :
          LET row == <<Message(w).match, a>>
          IN  /\ ~RowHeld(w, row)
              /\ tx' = [tx EXCEPT ![w] = [row |-> row, fresh |-> row \notin ledger, paid |-> FALSE]]
    /\ UNCHANGED <<sending, group, batch, settled, postgres, faults>>

\* Mutant: credited although the row was there.
OwesAgain(w) == Payee(w) \in Message(w).winners

\* fresh && coins > 0.
Owes(w) == tx[w].fresh /\ Payee(w) \in Message(w).winners

\* UPDATE accounts ... coins + $2: waits for another transaction that has the row.
CreditCoins(w) ==
    /\ InTx(w) /\ Owes(w) /\ ~tx[w].paid
    /\ ~ \E v \in Workers \ {w} : tx[v].paid /\ Payee(v) = Payee(w)
    /\ tx' = [tx EXCEPT ![w].paid = TRUE]
    /\ UNCHANGED <<sending, group, batch, settled, postgres, faults>>

\* COMMIT.
Committed(w) ==
    /\ InTx(w) /\ (Owes(w) => tx[w].paid)
    /\ ledger' = IF tx[w].fresh THEN ledger \cup {tx[w].row} ELSE ledger
    /\ coins' = IF tx[w].paid THEN [coins EXCEPT ![Payee(w)] = @ + 1] ELSE coins

CommitResult(w) ==
    /\ Committed(w)
    /\ tx' = [tx EXCEPT ![w] = NoTx]
    /\ settled' = [settled EXCEPT ![w] = @ \cup {Payee(w)}]
    /\ UNCHANGED <<sending, group, batch, faults>>

\* The next message of the batch; a transaction still open is rolled back.
NextMessage(w) ==
    /\ batch' = [batch EXCEPT ![w] = Tail(@)]
    /\ settled' = [settled EXCEPT ![w] = {}]
    /\ tx' = [tx EXCEPT ![w] = NoTx]

\* A command of the transaction fails, ROLLBACK: the handler throws, the message is left pending.
SettleFails(w) ==
    /\ Fault("handler")
    /\ batch[w] # <<>> /\ Unsettled(w) # {}
    /\ NextMessage(w)
    /\ UNCHANGED <<sending, group, postgres>>

\* COMMIT succeeds and its reply is lost: the handler throws all the same.
CommitReplyLost(w) ==
    /\ Fault("handler")
    /\ Committed(w)
    /\ NextMessage(w)
    /\ UNCHANGED <<sending, group>>

-----------------------------------------------------------------------------
(* It acknowledges.                                                        *)

Handled(w) == batch[w] # <<>> /\ Unsettled(w) = {}

\* Mutant: acknowledged before the players are settled.
AckFirst(w) ==
    /\ batch[w] # <<>> /\ ~InTx(w)
    /\ unacked' = unacked \ {Head(batch[w])}
    /\ IF Unsettled(w) = {} THEN NextMessage(w) ELSE UNCHANGED worker
    /\ UNCHANGED <<sending, grouped, delivered, postgres, faults>>

\* Mutant: the whole read is acknowledged with its first message.
AckBatch(w) ==
    /\ Handled(w)
    /\ unacked' = unacked \ Range(batch[w])
    /\ batch' = [batch EXCEPT ![w] = <<>>]
    /\ settled' = [settled EXCEPT ![w] = {}]
    /\ UNCHANGED <<sending, grouped, delivered, tx, postgres, faults>>

\* pushMatchStats, which catches its failures, then XACK.
Ack(w) ==
    /\ Handled(w)
    /\ unacked' = unacked \ {Head(batch[w])}
    /\ NextMessage(w)
    /\ UNCHANGED <<sending, grouped, delivered, postgres, faults>>

\* XACK rejects: settled, and pending for ever.
AckFails(w) ==
    /\ Fault("ack")
    /\ Handled(w)
    /\ NextMessage(w)
    /\ UNCHANGED <<sending, group, postgres>>

\* The worker dies, and Postgres rolls its transaction back.  Started again it asks for the
\* group once more and reads '>': its pending messages stay.
WorkerCrash(w) ==
    /\ Fault("crash")
    /\ batch' = [batch EXCEPT ![w] = <<>>]
    /\ settled' = [settled EXCEPT ![w] = {}]
    /\ tx' = [tx EXCEPT ![w] = NoTx]
    /\ grouped' \in {grouped, TRUE}
    /\ UNCHANGED <<sending, delivered, unacked, postgres>>

-----------------------------------------------------------------------------

WorkerStep(w) == Read(w) \/ InsertResult(w) \/ CreditCoins(w) \/ CommitResult(w) \/ Ack(w)

SettlementNext ==
    \/ \E m \in Matches, players \in Lineups : \E winners \in SUBSET players :
          Publish(m, players, winners)
    \/ Drain \/ DrainTwice \/ DrainFails \/ ServerCrash \/ ReadLost
    \/ \E w \in Workers : \/ WorkerStep(w) \/ SettleFails(w) \/ CommitReplyLost(w)
                          \/ AckFails(w) \/ WorkerCrash(w)

SettlementSpec == SettlementInit /\ [][SettlementNext]_settlementVars

\* The drainer and the workers run, Redis and Postgres answer.
Fairness == WF_settlementVars(Drain) /\ \A w \in Workers : WF_settlementVars(WorkerStep(w))

FairSettlementSpec == SettlementSpec /\ Fairness

-----------------------------------------------------------------------------
(* Properties.                                                             *)

\* Type invariant.
SettlementTypeOK ==
    /\ reported \subseteq Result
    /\ out \in Seq({Ended} \cup {<<r>> : r \in Result}) /\ Len(out) <= Buffer
    /\ stream \in Seq(Result)
    /\ grouped \in BOOLEAN
    /\ delivered \in 0..Len(stream)
    /\ unacked \subseteq 1..delivered
    /\ batch \in [Workers -> Seq(1..delivered)]
    /\ settled \in [Workers -> SUBSET Accounts]
    /\ tx \in [Workers -> {NoTx} \cup Tx]
    /\ ledger \subseteq Matches \X Accounts
    /\ coins \in [Accounts -> Nat]
    /\ faults \in 0..MaxFaults

\* Sent twice, redelivered, settled by two workers at once or half done, a result is credited
\* at most once, exactly when its row is in the ledger: an account has one coin for each match
\* it won and has a row of.
CreditedOnce ==
    \A a \in Accounts :
        coins[a] = Cardinality({r \in reported : a \in r.winners /\ <<r.match, a>> \in ledger})

\* A message leaves the group's pending list only when all its players are settled.
AcknowledgedIsSettled ==
    \A i \in 1..delivered :
        i \notin unacked => \A a \in stream[i].players : <<stream[i].match, a>> \in ledger

\* No message is handled by two workers.
HandledByOne ==
    \A v, w \in Workers : v # w => Range(batch[v]) \cap Range(batch[w]) = {}

\* Settlement implements the ledger: however its transactions overlap, fail or are tried
\* again, a row and its coins appear together, once, for a player of a match that ended.
Ledger == INSTANCE MatchLedger
ImplementsLedger == Ledger!LedgerSpec

\* Everything in the stream is settled in the end, as long as nothing fails and the group was created.
StreamedIsSettled ==
    []<>(\/ \A i \in DOMAIN stream : \A a \in stream[i].players : <<stream[i].match, a>> \in ledger
         \/ faults > 0 \/ ~grouped)

\* A result in the stream is settled in the end also when a handler throws ("left PENDING
\* (for redelivery)").
RedeliveredIsSettled ==
    \A m \in Matches, a \in Accounts :
        (\E i \in DOMAIN stream : stream[i].match = m /\ a \in stream[i].players)
            ~> (<<m, a>> \in ledger \/ ~grouped)
=============================================================================
