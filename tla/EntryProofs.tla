----------------------------- MODULE EntryProofs -----------------------------
(***************************************************************************)
(* How a player gets in, and into a match: the identity service, for any   *)
(* players, callbacks, pairings, polls and calls, on either back end (what *)
(* a sign-in leaves in the store and what the page that waits for it is    *)
(* told); the shared matchmaker, for any players, replicas, modes and      *)
(* batch sizes (what its replicas send the players, whatever lapses,       *)
(* stops, fails and crashes).                                              *)
(***************************************************************************)
EXTENDS Identity, Matchmaker, FiniteSetTheorems, WellFoundedInduction, TLAPS

-----------------------------------------------------------------------------
(* The inductive invariant.                                                *)

Guest(n) == [uid : 0 .. Cardinality(Users), access : 0 .. n, refresh : 0 .. n, renovation : BOOLEAN]
CallbackState == [pc : Steps, pair : Pairs \cup {Nobody}, user : Users \cup {Nobody},
                  uid : 0 .. Cardinality(Users) + 1, tries : 0 .. Attempts - 1]
PollState == [pc : {"idle", "select", "delete"}, pair : Pairs \cup {Nobody},
              seen : Terminal \cup {"none"}, lost : BOOLEAN]
CallState(n) == [pc : {"idle", "rotate", "clear"}, user : Users \cup {Nobody}, token : 0 .. n]

\* The steps of a callback that knows its user.
Named == {"find", "uid", "insert", "account", "issue"}

GuestsOK == guest \in [Users -> Guest(issues)]
CallbacksOK ==
    /\ callback \in [Callbacks -> CallbackState]
    /\ \A c \in Callbacks : /\ callback[c].pc # "idle" => callback[c].pair \in Pairs
                            /\ callback[c].pc \in Named => callback[c].user \in Users
CallsOK ==
    /\ call \in [Calls -> CallState(issues)]
    /\ \A k \in Calls : call[k].pc # "idle" => call[k].user \in Users
PagesOK ==
    /\ pairing \in [Pairs -> Terminal \cup {"none", "pending", "gone"}]
    /\ view \in [Pairs -> Terminal \cup {"closed", "polling", "expired", "timed out"}]
    /\ handed \in [Pairs -> Nat]
    /\ poll \in [Polls -> PollState]
    /\ \A w \in Polls : poll[w].pc # "idle" => poll[w].pair \in Pairs
SetsOK ==
    /\ backend \in Backends
    /\ account \subseteq Users /\ exhausted \subseteq Users
    /\ orphaned \subseteq Users /\ raced \subseteq Users
    /\ issues \in 0 .. MaxIssues /\ blocks \in 0 .. MaxBlocks /\ failures \in 0 .. MaxFailures

Types == GuestsOK /\ CallbacksOK /\ CallsOK /\ PagesOK /\ SetsOK

Registered == {u \in Users : guest[u].uid # 0}

\* There are as many uids as users, and a callback tries at most the next one.
Uids ==
    /\ \A u \in Users : guest[u].uid <= Cardinality(Registered)
    /\ \A c \in Callbacks : /\ callback[c].uid <= Cardinality(Registered) + 1
                            /\ callback[c].pc = "insert" => callback[c].uid >= 1

\* A callback whose user has no uid yet lost every attempt to a uid as high as the
\* one it tried.
Tries ==
    \A c \in Callbacks :
        /\ callback[c].pc \in {"discord", "find"} => callback[c].tries = 0
        /\ callback[c].pc = "uid" /\ guest[callback[c].user].uid = 0 =>
              \E v \in Users : guest[v].uid >= callback[c].tries
        /\ callback[c].pc = "insert" /\ guest[callback[c].user].uid = 0 =>
              callback[c].uid > callback[c].tries
        /\ callback[c].pc = "account" => guest[callback[c].user].uid # 0

\* On Postgres the guests have uids apart; on both stores those with an account have.
Apart ==
    /\ \A u \in account : guest[u].uid # 0
    /\ backend = "pg" => \A u, v \in Users : u # v /\ guest[u].uid # 0 => guest[u].uid # guest[v].uid
    /\ \A u, v \in account : u # v => guest[u].uid # guest[v].uid

\* A refresh holds the token of the row, unless it is a race.
Rotating ==
    \A k \in Calls :
        call[k].pc = "rotate" /\ call[k].user \notin raced => call[k].token = guest[call[k].user].refresh

Rows == Uids /\ Tries /\ Apart /\ Rotating /\ GuestHasAccount /\ RetriedEnough /\ TokensOfOneLogin

\* What a page and its polls know of the row is true of it, or the row is gone.
Shown ==
    /\ \A p \in Pairs : view[p] = "polling" => pairing[p] # "none"
    /\ \A w \in Polls :
          /\ poll[w].pc # "idle" => pairing[poll[w].pair] # "none"
          /\ poll[w].pc = "delete" => /\ poll[w].seen \in Terminal
                                      /\ pairing[poll[w].pair] \in {poll[w].seen, "gone"}
    /\ ExpiredIsGone

\* The row goes with the payload.
Once ==
    backend = "pg" => \A p \in Pairs : handed[p] <= 1 /\ (pairing[p] # "gone" => handed[p] = 0)

IdentityInv == Types /\ Rows /\ Shown /\ Once

\* The types proved are those the runs check.
LEMMA TypesIsTypeOK == Types => IdentityTypeOK
BY DEF Types, IdentityTypeOK, GuestsOK, CallbacksOK, CallsOK, PagesOK, SetsOK, Guest, CallbackState, PollState, CallState

-----------------------------------------------------------------------------
(* What each part of the service leaves alone.                             *)

\* What a step of the pairings leaves alone.
LEMMA PairingFrame ==
    PairingNext => UNCHANGED <<backend, guest, account, call, history, counters>>
BY DEF PairingNext, Dialog, Expire, TimeUp, StartPoll, Begin, process

\* What a step of a callback leaves alone.
LEMMA CallbackFrame ==
    CallbackNext => UNCHANGED <<backend, view, poll, call, handed>>
BY DEF CallbackNext, DiscordUser, DiscordFails, Find, MarkFailed, NextUid, InsertGuest, Duplicate,
       InsertAccount, IssueTokens, Complete, CallbackFails, history, process

\* What a step of the polls leaves alone.
LEMMA PollFrame ==
    PollNext => UNCHANGED <<backend, guest, account, callback, call, exhausted, orphaned, raced, issues>>
BY DEF PollNext, LosePoll, PollSelect, PollDelete, PollFails, history, counters, Fault

\* What a step of the connect server leaves alone.
LEMMA ConnectFrame ==
    ConnectNext => UNCHANGED <<backend, account, pairing, view, callback, poll, handed, exhausted, orphaned, issues>>
BY DEF ConnectNext, RefreshLoad, ValidateBlocked, LogoutLoad, Doing, Rotate, Clear, CallFails, Block,
       history, counters, Fault, process

-----------------------------------------------------------------------------
(* Types.                                                                  *)

\* The types hold at the start.
LEMMA InitTypes == IdentityInit => Types
<1> SUFFICES ASSUME IdentityInit PROVE Types
  OBVIOUS
<1>1. Cardinality(Users) \in Nat
  BY IdentityAssumption, FS_CardinalityType
<1>2. GuestsOK
  BY <1>1 DEF IdentityInit, GuestsOK, Guest, NoGuest
<1>3. CallbacksOK
  BY <1>1, IdentityAssumption DEF IdentityInit, CallbacksOK, CallbackState, NoCallback, Steps, Named
<1>4. CallsOK
  BY DEF IdentityInit, CallsOK, CallState, NoCall
<1>5. PagesOK
  BY DEF IdentityInit, PagesOK, PollState, NoPoll, Terminal
<1>6. SetsOK
  BY IdentityAssumption DEF IdentityInit, SetsOK
<1> QED
  BY <1>2, <1>3, <1>4, <1>5, <1>6 DEF Types

\* A callback moves on with its pair, its user and its attempt.
LEMMA GotoOK ==
    ASSUME CallbacksOK, NEW c \in Callbacks, NEW step \in Steps, Goto(c, step),
           callback[c].pc # "idle", step \in Named => callback[c].user \in Users
    PROVE  CallbacksOK'
BY DEF CallbacksOK, CallbackState, Goto

\* A callback that goes on to fail or to complete has its type.
LEMMA LeftOK ==
    ASSUME CallbacksOK, NEW c \in Callbacks, NEW step \in {"fail", "complete"}, Left(c, step),
           callback[c].pc # "idle"
    PROVE  CallbacksOK'
<1> DEFINE x == [callback[c] EXCEPT !.pc = step, !.user = Nobody]
<1>1. callback' = [callback EXCEPT ![c] = x]
  BY DEF Left, CallbacksOK
<1>2. x \in CallbackState /\ x.pc \notin Named /\ x.pair = callback[c].pair
  BY DEF CallbacksOK, CallbackState, Steps, Named
<1> HIDE DEF x
<1> QED
  BY <1>1, <1>2 DEF CallbacksOK

\* A callback that is done has its type.
LEMMA IdleOK ==
    ASSUME CallbacksOK, NEW c \in Callbacks, Idle(c)
    PROVE  CallbacksOK'
<1>1. NoCallback \in CallbackState /\ NoCallback.pc = "idle"
  BY IdentityAssumption, FS_CardinalityType DEF NoCallback, CallbackState, Steps
<1>2. callback' = [callback EXCEPT ![c] = NoCallback]
  BY DEF Idle
<1> HIDE DEF NoCallback
<1> QED
  BY <1>1, <1>2 DEF CallbacksOK, Named

\* Every step keeps the types of the callbacks.
LEMMA CallbacksStep == Types /\ Rows /\ [IdentityNext]_identityVars => CallbacksOK'
<1> SUFFICES ASSUME Types, Rows, [IdentityNext]_identityVars PROVE CallbacksOK'
  OBVIOUS
<1>0. CallbacksOK /\ Cardinality(Users) \in Nat /\ Attempts \in Nat \ {0}
      /\ 0 \in 0 .. Cardinality(Users) + 1 /\ 0 \in 0 .. Attempts - 1
  BY IdentityAssumption, FS_CardinalityType DEF Types
<1> USE DEF At
<1>1. ASSUME NEW c \in Callbacks, NEW p \in Pairs, Begin(c, p) PROVE CallbacksOK'
  <2> DEFINE x == [NoCallback EXCEPT !.pc = "discord", !.pair = p]
  <2>1. x \in CallbackState /\ x.pc = "discord" /\ x.pair = p
    <3>1. NoCallback \in CallbackState
      BY IdentityAssumption, <1>0 DEF NoCallback, CallbackState, Steps
    <3> HIDE DEF NoCallback
    <3> QED
      BY <3>1 DEF CallbackState, Steps
  <2>2. callback' = [callback EXCEPT ![c] = x]
    BY <1>1 DEF Begin
  <2> HIDE DEF x
  <2> QED
    BY <1>0, <2>1, <2>2 DEF CallbacksOK, Named
<1>2. ASSUME NEW c \in Callbacks, NEW u \in Users, DiscordUser(c, u) PROVE CallbacksOK'
  BY <1>0, <1>2 DEF DiscordUser, CallbacksOK, CallbackState, Steps
<1>3. ASSUME NEW c \in Callbacks, DiscordFails(c) \/ Find(c) \/ InsertAccount(c) \/ IssueTokens(c)
      PROVE  CallbacksOK'
  <2>1. ASSUME NEW step \in {"fail", "complete"}, Left(c, step), callback[c].pc # "idle"
        PROVE  CallbacksOK'
    BY <1>0, <2>1, LeftOK
  <2>2. ASSUME NEW step \in Steps, Goto(c, step), callback[c].pc # "idle",
               step \in Named => callback[c].user \in Users
        PROVE  CallbacksOK'
    BY <1>0, <2>2, GotoOK
  <2>3. CASE DiscordFails(c)
    BY <2>2, <2>3 DEF DiscordFails, Steps, Named
  <2>4. CASE Find(c)
    BY <1>0, <2>1, <2>2, <2>4 DEF Find, Steps, Named, CallbacksOK
  <2>5. CASE InsertAccount(c)
    BY <1>0, <2>2, <2>5 DEF InsertAccount, Steps, Named, CallbacksOK
  <2>6. CASE IssueTokens(c)
    BY <2>1, <2>6 DEF IssueTokens
  <2> QED
    BY <1>3, <2>3, <2>4, <2>5, <2>6
<1>4. ASSUME NEW c \in Callbacks, MarkFailed(c) \/ Complete(c) \/ CallbackFails(c) PROVE CallbacksOK'
  <2>1. Idle(c)
    BY <1>4 DEF MarkFailed, Complete, CallbackFails
  <2> QED
    BY <1>0, <2>1, IdleOK
<1>5. ASSUME NEW c \in Callbacks, NextUid(c) PROVE CallbacksOK'
  <2>1. PICK last \in Users :
           callback' = [callback EXCEPT ![c].pc = "insert", ![c].uid = guest[last].uid + 1]
    BY <1>5 DEF NextUid
  <2>2. guest[last].uid + 1 \in 0 .. Cardinality(Users) + 1
    BY <1>0 DEF Types, GuestsOK, Guest
  <2>3. callback[c].pc = "uid"
    BY <1>5 DEF NextUid
  <2> QED
    BY <1>0, <2>1, <2>2, <2>3 DEF CallbacksOK, CallbackState, Steps, Named
<1>6. ASSUME NEW c \in Callbacks, InsertGuest(c) PROVE CallbacksOK'
  <2>1. /\ callback[c].pc = "insert"
        /\ callback' = [callback EXCEPT ![c].pc = "account", ![c].uid = 0]
    BY <1>6 DEF InsertGuest
  <2>2. callback' = [callback EXCEPT ![c] = [callback[c] EXCEPT !.pc = "account", !.uid = 0]]
    BY <1>0, <2>1 DEF CallbacksOK
  <2> DEFINE x == [callback[c] EXCEPT !.pc = "account", !.uid = 0]
  <2>3. x \in CallbackState /\ x.user \in Users /\ x.pair \in Pairs
    BY <1>0, <2>1 DEF CallbacksOK, CallbackState, Steps, Named
  <2> HIDE DEF x
  <2>4. callback' = [callback EXCEPT ![c] = x]
    BY <2>2 DEF x
  <2> QED
    BY <1>0, <2>3, <2>4 DEF CallbacksOK
<1>7. ASSUME NEW c \in Callbacks, Duplicate(c) PROVE CallbacksOK'
  <2>1. CASE callback[c].tries + 1 < Attempts
    <3>1. /\ callback[c].pc \in {"insert", "account"}
          /\ callback' = [callback EXCEPT ![c].pc = "uid", ![c].uid = 0, ![c].tries = @ + 1]
      BY <1>7, <2>1 DEF Duplicate, Refused
    <3>2. callback[c].tries + 1 \in 0 .. Attempts - 1
      BY <1>0, <2>1 DEF CallbacksOK, CallbackState
    <3> QED
      BY <1>0, <3>1, <3>2 DEF CallbacksOK, CallbackState, Steps, Named
  <2>2. CASE ~ (callback[c].tries + 1 < Attempts)
    <3>1. Idle(c)
      BY <1>7, <2>2 DEF Duplicate
    <3> QED
      BY <1>0, <3>1, IdleOK
  <2> QED
    BY <2>1, <2>2
<1>8. CASE UNCHANGED callback
  BY <1>0, <1>8 DEF CallbacksOK
<1>9. ASSUME NEW p \in Pairs, Dialog(p) \/ Expire(p) \/ TimeUp(p) \/ \E w \in Polls : StartPoll(w, p)
      PROVE  UNCHANGED callback
  BY <1>9 DEF Dialog, Expire, TimeUp, StartPoll, process
<1>10. CASE PairingNext
  BY <1>1, <1>8, <1>9, <1>10 DEF PairingNext
<1>11. CASE CallbackNext
  BY <1>2, <1>3, <1>4, <1>5, <1>6, <1>7, <1>11 DEF CallbackNext
<1> QED
  BY <1>8, <1>10, <1>11, PollFrame, ConnectFrame DEF IdentityNext, identityVars, process
\* A guest row changes at one user, and what is written are known numbers.
LEMMA GuestsStep == Types /\ Rows /\ [IdentityNext]_identityVars => GuestsOK' /\ SetsOK'
<1> SUFFICES ASSUME Types, Rows, [IdentityNext]_identityVars PROVE GuestsOK' /\ SetsOK'
  OBVIOUS
<1>0. /\ GuestsOK /\ CallbacksOK /\ CallsOK /\ SetsOK /\ Cardinality(Users) \in Nat
      /\ {MaxIssues, MaxBlocks, MaxFailures} \subseteq Nat
  BY IdentityAssumption, FS_CardinalityType DEF Types
<1>00. issues \in Nat /\ issues' \in Nat /\ issues <= issues' => 0 .. issues \subseteq 0 .. issues'
  OBVIOUS
<1> USE DEF At
<1>1. ASSUME NEW c \in Callbacks, InsertGuest(c) PROVE GuestsOK' /\ SetsOK'
  <2> DEFINE u == callback[c].user
  <2>1. callback[c].pc = "insert" /\ u \in Users /\ guest[u].uid = 0
    BY <1>0, <1>1 DEF InsertGuest, Unique, CallbacksOK, Named
  <2>2. /\ guest' = [guest EXCEPT ![u].uid = callback[c].uid]
        /\ UNCHANGED <<backend, account, history, counters>>
    BY <1>1 DEF InsertGuest
  <2>3. callback[c].uid \in 0 .. Cardinality(Users)
    <3>1. Registered \subseteq Users \ {u}
      BY <2>1 DEF Registered
    <3>2. IsFiniteSet(Users \ {u}) /\ Cardinality(Users \ {u}) = Cardinality(Users) - 1
      BY <2>1, IdentityAssumption, FS_RemoveElement
    <3>3. IsFiniteSet(Registered) /\ Cardinality(Registered) <= Cardinality(Users \ {u})
      BY <3>1, <3>2, FS_Subset
    <3>4. Cardinality(Registered) \in Nat
      BY <3>3, FS_CardinalityType
    <3>5. callback[c].uid \in Nat /\ callback[c].uid <= Cardinality(Registered) + 1
      BY <1>0 DEF Rows, Uids, CallbacksOK, CallbackState
    <3> QED
      BY <1>0, <3>2, <3>3, <3>4, <3>5
  <2> HIDE DEF u
  <2>4. GuestsOK'
    BY <1>0, <2>1, <2>2, <2>3 DEF GuestsOK, Guest, counters
  <2> QED
    BY <1>0, <2>2, <2>4 DEF SetsOK, history, counters
<1>2. ASSUME NEW c \in Callbacks, IssueTokens(c) PROVE GuestsOK' /\ SetsOK'
  <2> DEFINE u == callback[c].user
  <2>1. u \in Users
    BY <1>0, <1>2 DEF IssueTokens, CallbacksOK, Named
  <2>2. /\ issues < MaxIssues /\ issues' = issues + 1
        /\ guest' = [guest EXCEPT ![u].access = issues', ![u].refresh = issues']
        /\ raced' \subseteq raced \cup {u}
        /\ UNCHANGED <<backend, account, exhausted, orphaned, blocks, failures>>
    BY <1>2 DEF IssueTokens, Raced
  <2> HIDE DEF u
  <2>3. issues \in Nat /\ issues' \in 0 .. MaxIssues
    BY <1>0, <2>2 DEF SetsOK
  <2>4. GuestsOK'
    BY <1>0, <1>00, <2>1, <2>2, <2>3 DEF GuestsOK, Guest
  <2> QED
    BY <1>0, <2>1, <2>2, <2>3, <2>4 DEF SetsOK
<1>3. ASSUME NEW c \in Callbacks,
             \/ \E u \in Users : DiscordUser(c, u)
             \/ DiscordFails(c) \/ Find(c) \/ MarkFailed(c) \/ NextUid(c) \/ Duplicate(c)
             \/ InsertAccount(c) \/ Complete(c) \/ CallbackFails(c)
      PROVE  GuestsOK' /\ SetsOK'
  <2>1. UNCHANGED <<backend, guest, issues, blocks, raced>> /\ failures' \in 0 .. MaxFailures
    BY <1>0, <1>3 DEF DiscordUser, DiscordFails, Find, MarkFailed, NextUid, Duplicate, InsertAccount,
       Complete, CallbackFails, Fault, history, counters, SetsOK
  <2>2. /\ UNCHANGED account \/ (callback[c].pc = "account" /\ account' = account \cup {callback[c].user})
        /\ UNCHANGED exhausted \/ (callback[c].pc \in {"insert", "account"} /\ exhausted' = exhausted \cup {callback[c].user})
        /\ UNCHANGED orphaned \/ (callback[c].pc = "account" /\ orphaned' = orphaned \cup {callback[c].user})
    BY <1>3 DEF DiscordUser, DiscordFails, Find, MarkFailed, NextUid, Duplicate, Refused, InsertAccount,
       Complete, CallbackFails, history
  <2>3. account' \subseteq Users /\ exhausted' \subseteq Users /\ orphaned' \subseteq Users
    BY <1>0, <2>2 DEF SetsOK, CallbacksOK, Named
  <2> QED
    BY <1>0, <2>1, <2>3 DEF GuestsOK, SetsOK
<1>4. ASSUME NEW k \in Calls, Rotate(k) PROVE GuestsOK' /\ SetsOK'
  <2>1. call[k].user \in Users /\ call[k].token \in 0 .. issues
    BY <1>0, <1>4 DEF Rotate, CallsOK, CallState
  <2>2. /\ guest' = [guest EXCEPT ![call[k].user].access = call[k].token]
        /\ UNCHANGED <<backend, account, history, counters>>
    BY <1>4 DEF Rotate
  <2> QED
    BY <1>0, <2>1, <2>2 DEF GuestsOK, Guest, SetsOK, history, counters
<1>5. ASSUME NEW k \in Calls, Clear(k) PROVE GuestsOK' /\ SetsOK'
  <2>1. call[k].user \in Users
    BY <1>0, <1>5 DEF Clear, CallsOK
  <2>2. /\ guest' = [guest EXCEPT ![call[k].user].access = 0, ![call[k].user].refresh = 0]
        /\ raced' \subseteq raced \cup {call[k].user}
        /\ UNCHANGED <<backend, account, exhausted, orphaned, counters>>
    BY <1>5 DEF Clear, Raced
  <2>3. 0 \in 0 .. issues
    BY <1>0 DEF SetsOK
  <2>4. GuestsOK'
    BY <1>0, <2>1, <2>2, <2>3 DEF GuestsOK, Guest, counters
  <2> QED
    BY <1>0, <2>1, <2>2, <2>4 DEF SetsOK, counters
<1>6. ASSUME NEW u \in Users, Block(u) PROVE GuestsOK' /\ SetsOK'
  <2>1. /\ guest' = [guest EXCEPT ![u].renovation = ~@]
        /\ UNCHANGED <<backend, account, history, issues, failures>> /\ blocks' \in 0 .. MaxBlocks
    BY <1>0, <1>6 DEF Block, SetsOK
  <2> QED
    BY <1>0, <2>1 DEF GuestsOK, Guest, SetsOK, history
<1>7. ASSUME NEW k \in Calls,
             CallFails(k) \/ \E u \in Users : RefreshLoad(k, u) \/ ValidateBlocked(k, u) \/ LogoutLoad(k, u)
      PROVE  GuestsOK' /\ SetsOK'
  <2>1. UNCHANGED <<backend, guest, account, history, issues, blocks>> /\ failures' \in 0 .. MaxFailures
    BY <1>0, <1>7 DEF CallFails, RefreshLoad, ValidateBlocked, LogoutLoad, Doing, Fault, counters, SetsOK
  <2> QED
    BY <1>0, <2>1 DEF GuestsOK, SetsOK, history
<1>8. CASE PollNext
  <2>1. UNCHANGED <<blocks>> /\ failures' \in 0 .. MaxFailures
    BY <1>0, <1>8 DEF PollNext, LosePoll, PollSelect, PollDelete, PollFails, Fault, counters, SetsOK
  <2> QED
    BY <1>0, <1>8, <2>1, PollFrame DEF GuestsOK, SetsOK
<1>9. CASE PairingNext \/ UNCHANGED identityVars
  <2>1. UNCHANGED <<backend, guest, account, history, counters>>
    BY <1>9, PairingFrame DEF identityVars
  <2> QED
    BY <1>0, <2>1 DEF GuestsOK, SetsOK, history, counters
<1>10. CASE CallbackNext
  BY <1>1, <1>2, <1>3, <1>10 DEF CallbackNext
<1>11. CASE ConnectNext
  BY <1>4, <1>5, <1>6, <1>7, <1>11 DEF ConnectNext
<1> QED
  BY <1>8, <1>9, <1>10, <1>11 DEF IdentityNext

\* Every step keeps the types of the calls.
LEMMA CallsStep == Types /\ GuestsOK' /\ SetsOK' /\ [IdentityNext]_identityVars => CallsOK'
<1> SUFFICES ASSUME Types, SetsOK', [IdentityNext]_identityVars PROVE CallsOK'
  OBVIOUS
<1>0. CallsOK /\ GuestsOK /\ issues \in Nat /\ issues' \in Nat
  BY IdentityAssumption DEF Types, SetsOK
<1>1. ASSUME NEW k \in Calls, NEW u \in Users, NEW stage \in {"rotate", "clear"},
             NEW token \in {0, guest[u].refresh}, Doing(k, stage, u, token)
      PROVE  CallsOK'
  <2> DEFINE x == [pc |-> stage, user |-> u, token |-> token]
  <2>1. x \in CallState(issues) /\ x.user = u
    BY <1>0 DEF GuestsOK, Guest, CallState
  <2>2. call' = [call EXCEPT ![k] = x] /\ issues' = issues
    BY <1>1 DEF Doing, counters
  <2> HIDE DEF x
  <2> QED
    BY <1>0, <2>1, <2>2 DEF CallsOK
<1>2. ASSUME NEW k \in Calls, Rotate(k) \/ Clear(k) \/ CallFails(k) PROVE CallsOK'
  <2>1. call' = [call EXCEPT ![k] = NoCall] /\ issues' = issues
    BY <1>2 DEF Rotate, Clear, CallFails, Fault, counters
  <2>2. NoCall \in CallState(issues) /\ NoCall.pc = "idle"
    BY <1>0 DEF NoCall, CallState
  <2> HIDE DEF NoCall
  <2> QED
    BY <1>0, <2>1, <2>2 DEF CallsOK
<1>3. ASSUME UNCHANGED call, issues' = issues \/ issues' = issues + 1 PROVE CallsOK'
  <2>1. 0 .. issues \subseteq 0 .. issues'
    BY <1>0, <1>3
  <2> QED
    BY <1>0, <1>3, <2>1 DEF CallsOK, CallState
<1>4. ASSUME NEW u \in Users, Block(u) PROVE UNCHANGED <<call, issues>>
  BY <1>4 DEF Block, process
<1>5. CASE ConnectNext
  BY <1>1, <1>2, <1>3, <1>4, <1>5 DEF ConnectNext, RefreshLoad, ValidateBlocked, LogoutLoad
<1>6. CASE CallbackNext
  <2>1. issues' = issues \/ issues' = issues + 1
    BY <1>6 DEF CallbackNext, DiscordUser, DiscordFails, Find, MarkFailed, NextUid, InsertGuest, Duplicate,
       InsertAccount, IssueTokens, Complete, CallbackFails, Fault, counters
  <2> QED
    BY <1>3, <1>6, <2>1, CallbackFrame
<1>7. CASE PairingNext \/ PollNext \/ UNCHANGED identityVars
  <2>1. UNCHANGED <<call, issues>>
    BY <1>7, PairingFrame, PollFrame DEF identityVars, process, counters
  <2> QED
    BY <1>3, <2>1
<1> QED
  BY <1>5, <1>6, <1>7 DEF IdentityNext
-----------------------------------------------------------------------------
(* The pairing, its page and its polls.                                    *)

Pages == PagesOK /\ Shown /\ Once

\* Nothing is shown at the start.
LEMMA InitPages == IdentityInit => Shown /\ Once
BY DEF IdentityInit, Shown, Once, NoPoll, ExpiredIsGone

\* Every step keeps what the pages show.
LEMMA PagesStep == Types /\ Shown /\ Once /\ [IdentityNext]_identityVars => Pages'
<1> SUFFICES ASSUME PagesOK, CallbacksOK, Shown, Once, [IdentityNext]_identityVars PROVE Pages'
  BY DEF Types
<1> USE DEF Pages, Terminal
<1>0. UNCHANGED backend
  BY PairingFrame, CallbackFrame, PollFrame, ConnectFrame DEF IdentityNext, identityVars
<1>1. ASSUME NEW p \in Pairs, Dialog(p) PROVE Pages'
  <2>1. /\ pairing[p] = "none" /\ pairing' = [pairing EXCEPT ![p] = "pending"]
        /\ view' = [view EXCEPT ![p] = "polling"] /\ UNCHANGED <<poll, handed>>
    BY <1>1 DEF Dialog, process, history
  <2>2. PagesOK'
    BY <2>1 DEF PagesOK
  <2>3. Shown'
    BY <2>1 DEF PagesOK, Shown, ExpiredIsGone
  <2>4. Once'
    BY <1>0, <2>1 DEF PagesOK, Once
  <2> QED
    BY <2>2, <2>3, <2>4
<1>2. ASSUME NEW p \in Pairs, Expire(p) PROVE Pages'
  <2>1. /\ pairing[p] # "none" /\ pairing[p] # "gone" /\ pairing' = [pairing EXCEPT ![p] = "gone"]
        /\ UNCHANGED <<view, poll, handed>>
    BY <1>2 DEF Expire, process, history
  <2>2. PagesOK'
    BY <2>1 DEF PagesOK
  <2>3. Shown'
    BY <2>1 DEF PagesOK, Shown, ExpiredIsGone
  <2>4. Once'
    BY <1>0, <2>1 DEF PagesOK, Once
  <2> QED
    BY <2>2, <2>3, <2>4
<1>3. ASSUME NEW p \in Pairs, TimeUp(p) PROVE Pages'
  <2>1. view' = [view EXCEPT ![p] = "timed out"] /\ UNCHANGED <<pairing, poll, handed>>
    BY <1>3 DEF TimeUp, process, history
  <2> QED
    BY <1>0, <2>1 DEF PagesOK, Shown, ExpiredIsGone, Once
<1>4. ASSUME NEW p \in Pairs, NEW w \in Polls, StartPoll(w, p) PROVE Pages'
  <2> DEFINE x == [NoPoll EXCEPT !.pc = "select", !.pair = p]
  <2>1. view[p] = "polling" /\ poll' = [poll EXCEPT ![w] = x] /\ UNCHANGED <<pairing, view, handed>>
    BY <1>4 DEF StartPoll, history
  <2>2. x \in PollState /\ x.pc = "select" /\ x.pair = p
    BY DEF NoPoll, PollState
  <2> HIDE DEF x
  <2>3. PagesOK'
    BY <2>1, <2>2 DEF PagesOK
  <2>4. Shown'
    BY <2>1, <2>2 DEF PagesOK, Shown, ExpiredIsGone
  <2>5. Once'
    BY <1>0, <2>1 DEF Once
  <2> QED
    BY <2>3, <2>4, <2>5
<1>5. ASSUME NEW c \in Callbacks, MarkFailed(c) \/ Complete(c) PROVE Pages'
  <2>1. PICK p \in Pairs, status \in Terminal : pairing' = Settled(p, status)
    BY <1>5 DEF MarkFailed, Complete, At, CallbacksOK
  <2>2. pairing' = [pairing EXCEPT ![p] = IF pairing[p] = "pending" THEN status ELSE pairing[p]]
    BY <2>1 DEF Settled
  <2>3. UNCHANGED <<view, poll, handed>>
    BY <1>5 DEF MarkFailed, Complete, history
  <2>4. PagesOK'
    BY <2>2, <2>3 DEF PagesOK
  <2>5. Shown'
    BY <2>2, <2>3 DEF PagesOK, Shown, ExpiredIsGone
  <2>6. Once'
    BY <1>0, <2>2, <2>3 DEF PagesOK, Once
  <2> QED
    BY <2>4, <2>5, <2>6
<1>6. CASE UNCHANGED <<pairing, view, handed, poll>>
  BY <1>0, <1>6 DEF PagesOK, Shown, ExpiredIsGone, Once
<1>7. ASSUME NEW w \in Polls, LosePoll(w) PROVE Pages'
  <2>1. poll' = [poll EXCEPT ![w].lost = TRUE] /\ UNCHANGED <<pairing, view, handed>>
    BY <1>7 DEF LosePoll, history
  <2>2. PagesOK'
    BY <2>1 DEF PagesOK, PollState
  <2>3. \A v \in Polls : poll'[v].pc = poll[v].pc /\ poll'[v].pair = poll[v].pair /\ poll'[v].seen = poll[v].seen
    BY <2>1 DEF PagesOK, PollState
  <2>4. Shown' /\ Once'
    BY <1>0, <2>1, <2>3 DEF PagesOK, Shown, ExpiredIsGone, Once
  <2> QED
    BY <2>2, <2>4
<1>8. ASSUME NEW w \in Polls, PollFails(w) PROVE Pages'
  <2>1. poll' = [poll EXCEPT ![w] = NoPoll] /\ UNCHANGED <<pairing, view, handed>>
    BY <1>8 DEF PollFails, history
  <2>2. NoPoll \in PollState /\ NoPoll.pc = "idle"
    BY DEF NoPoll, PollState
  <2> HIDE DEF NoPoll
  <2> QED
    BY <1>0, <2>1, <2>2 DEF PagesOK, Shown, ExpiredIsGone, Once
\* The answer to a poll.
<1>9. ASSUME NEW w \in Polls, poll[w].pc # "idle",
             NEW status \in {"pending", "completed", "failed", "expired"}, Answer(w, status)
      PROVE  /\ (poll \in [Polls -> PollState])'
             /\ \A v \in Polls : poll'[v].pc # "idle" => v # w /\ poll'[v] = poll[v]
             /\ \A p \in Pairs : \/ view'[p] = view[p]
                                 \/ p = poll[w].pair /\ view'[p] = status /\ status # "pending"
             /\ (view \in [Pairs -> Terminal \cup {"closed", "polling", "expired", "timed out"}])'
  <2>1. /\ poll' = [poll EXCEPT ![w] = NoPoll]
        /\ view' = [view EXCEPT ![poll[w].pair] =
                       IF poll[w].lost \/ view[poll[w].pair] # "polling" \/ status = "pending"
                       THEN view[poll[w].pair] ELSE status]
    BY <1>9 DEF Answer
  <2>2. NoPoll \in PollState /\ NoPoll.pc = "idle"
    BY DEF NoPoll, PollState
  <2> HIDE DEF NoPoll
  <2>3. poll[w].pair \in Pairs
    BY <1>9 DEF PagesOK
  <2> QED
    BY <2>1, <2>2, <2>3 DEF PagesOK
<1>10. ASSUME NEW w \in Polls, PollSelect(w) PROVE Pages'
  <2> DEFINE p == poll[w].pair
             status == pairing[p]
  <2>1. poll[w].pc = "select" /\ p \in Pairs /\ UNCHANGED <<pairing, handed>> /\ status # "none"
    BY <1>10 DEF PollSelect, PagesOK, history, Shown
  <2>2. CASE status \in Terminal
    <3>1. poll' = [poll EXCEPT ![w].pc = "delete", ![w].seen = status] /\ UNCHANGED view
      BY <1>10, <2>2 DEF PollSelect
    <3> DEFINE x == [poll[w] EXCEPT !.pc = "delete", !.seen = status]
    <3>2. x \in PollState /\ x.pc = "delete" /\ x.seen = status /\ x.pair = p
      BY <2>2 DEF PagesOK, PollState
    <3>3. poll' = [poll EXCEPT ![w] = x]
      BY <3>1 DEF PagesOK
    <3> HIDE DEF x
    <3>4. PagesOK'
      BY <2>1, <3>1, <3>2, <3>3 DEF PagesOK
    <3>5. Shown'
      <4>1. \A v \in Polls : v # w => poll'[v] = poll[v]
        BY <3>3 DEF PagesOK
      <4>2. poll'[w] = x
        BY <3>3 DEF PagesOK
      <4>3. \A v \in Polls : /\ poll'[v].pc # "idle" => pairing[poll'[v].pair] # "none"
                             /\ poll'[v].pc = "delete" =>
                                   /\ poll'[v].seen \in Terminal
                                   /\ pairing[poll'[v].pair] \in {poll'[v].seen, "gone"}
        BY <2>1, <2>2, <3>2, <4>1, <4>2 DEF Shown
      <4> QED
        BY <2>1, <3>1, <4>3 DEF Shown, ExpiredIsGone
    <3> QED
      BY <1>0, <2>1, <3>4, <3>5 DEF Once
  <2>3. CASE status \notin Terminal
    <3> DEFINE answer == IF status = "pending" THEN status ELSE "expired"
    <3>1. Answer(w, answer) /\ answer \in {"pending", "completed", "failed", "expired"}
      BY <1>10, <2>3 DEF PollSelect
    <3>2. answer # "pending" => status = "gone"
      BY <2>1, <2>3 DEF PagesOK
    <3> HIDE DEF answer, p, status
    <3>3. /\ (poll \in [Polls -> PollState])'
          /\ \A v \in Polls : poll'[v].pc # "idle" => v # w /\ poll'[v] = poll[v]
          /\ \A q \in Pairs : \/ view'[q] = view[q]
                              \/ q = poll[w].pair /\ view'[q] = answer /\ answer # "pending"
          /\ (view \in [Pairs -> Terminal \cup {"closed", "polling", "expired", "timed out"}])'
      BY <1>9, <2>1, <3>1
    <3>4. PagesOK'
      BY <2>1, <3>3 DEF PagesOK
    <3>5. \A q \in Pairs : view'[q] = view[q] \/ pairing[q] = "gone"
      BY <3>2, <3>3 DEF p, status
    <3>6. Shown'
      BY <2>1, <3>3, <3>5 DEF PagesOK, Shown, ExpiredIsGone
    <3> QED
      BY <1>0, <2>1, <3>4, <3>6 DEF Once
  <2> QED
    BY <2>2, <2>3
<1>11. ASSUME NEW w \in Polls, PollDelete(w) PROVE Pages'
  <2> DEFINE p == poll[w].pair
             seen == poll[w].seen
             answer == IF Given(w) THEN seen ELSE "expired"
  <2>1. poll[w].pc = "delete" /\ p \in Pairs /\ seen \in Terminal /\ pairing[p] \in {seen, "gone"}
    BY <1>11 DEF PollDelete, PagesOK, Shown
  <2>2. /\ pairing' = [pairing EXCEPT ![p] = "gone"]
        /\ handed' = [handed EXCEPT ![p] = IF Given(w) THEN handed[p] + 1 ELSE handed[p]]
    BY <1>11, <2>1 DEF PollDelete
  <2>3. Answer(w, answer) /\ answer \in {"pending", "completed", "failed", "expired"} /\ answer # "pending"
    BY <1>11, <2>1 DEF PollDelete
  <2>4. Given(w) => backend = "mongo" \/ pairing[p] = seen
    BY DEF Given
  <2>5. /\ (poll \in [Polls -> PollState])'
        /\ \A v \in Polls : poll'[v].pc # "idle" => v # w /\ poll'[v] = poll[v]
        /\ \A q \in Pairs : \/ view'[q] = view[q]
                            \/ q = poll[w].pair /\ view'[q] = answer /\ answer # "pending"
        /\ (view \in [Pairs -> Terminal \cup {"closed", "polling", "expired", "timed out"}])'
    <3> HIDE DEF answer
    <3> QED
      BY <1>9, <2>1, <2>3
  <2> HIDE DEF answer, seen
  <2>6. PagesOK'
    <3>1. pairing' \in [Pairs -> Terminal \cup {"none", "pending", "gone"}]
      BY <2>2 DEF PagesOK
    <3>2. handed' \in [Pairs -> Nat]
      <4>1. (IF Given(w) THEN handed[p] + 1 ELSE handed[p]) \in Nat
        <5>1. \A n \in Nat : n + 1 \in Nat
          OBVIOUS
        <5>2. handed[p] \in Nat
          BY <2>1 DEF PagesOK
        <5> QED
          BY <5>1, <5>2, Zenon
      <4> QED
        BY <2>1, <2>2, <4>1 DEF PagesOK
    <3>3. \A v \in Polls : poll'[v].pc # "idle" => poll'[v].pair \in Pairs
      BY <2>5 DEF PagesOK
    <3> QED
      BY <2>5, <3>1, <3>2, <3>3 DEF PagesOK
  <2>7. Shown'
    <3>1. \A v \in Polls : poll'[v].pc # "idle" => pairing'[poll'[v].pair] # "none"
      BY <2>1, <2>2, <2>5 DEF PagesOK, Shown
    <3>2. \A v \in Polls : poll'[v].pc = "delete" =>
             poll'[v].seen \in Terminal /\ pairing'[poll'[v].pair] \in {poll'[v].seen, "gone"}
      BY <2>1, <2>2, <2>5 DEF PagesOK, Shown
    <3>3. \A q \in Pairs : view'[q] = "polling" => pairing'[q] # "none"
      BY <2>1, <2>2, <2>3, <2>5 DEF PagesOK, Shown
    <3>4. ExpiredIsGone'
      BY <2>1, <2>2, <2>5 DEF PagesOK, Shown, ExpiredIsGone
    <3> QED
      BY <3>1, <3>2, <3>3, <3>4 DEF Shown
  <2>8. Once'
    <3> SUFFICES ASSUME backend = "pg", NEW q \in Pairs
                 PROVE  handed'[q] <= 1 /\ (pairing'[q] # "gone" => handed'[q] = 0)
      BY <1>0 DEF Once
    <3>1. CASE q # p
      BY <2>2, <3>1 DEF PagesOK, Once
    <3>2. CASE q = p
      <4>1. Given(w) => handed[p] = 0
        BY <2>1, <2>4 DEF Once
      <4>2. pairing'[p] = "gone" /\ handed[p] \in Nat /\ handed[p] <= 1
        BY <2>1, <2>2 DEF PagesOK, Once
      <4>3. handed'[p] = IF Given(w) THEN handed[p] + 1 ELSE handed[p]
        BY <2>1, <2>2 DEF PagesOK
      <4>4. handed'[p] <= 1
        BY <4>1, <4>2, <4>3
      <4> QED
        BY <3>2, <4>2, <4>4
    <3> QED
      BY <3>1, <3>2
  <2> QED
    BY <2>6, <2>7, <2>8
<1>12. CASE PairingNext
  <2>1. ASSUME NEW p \in Pairs, NEW c \in Callbacks, Begin(c, p)
        PROVE  UNCHANGED <<pairing, view, handed, poll>>
    BY <2>1 DEF Begin, history
  <2> QED
    BY <1>1, <1>2, <1>3, <1>4, <1>6, <1>12, <2>1 DEF PairingNext
<1>13. CASE CallbackNext
  <2>1. ASSUME NEW c \in Callbacks, ~ (MarkFailed(c) \/ Complete(c)),
               \/ \E u \in Users : DiscordUser(c, u)
               \/ DiscordFails(c) \/ Find(c) \/ NextUid(c) \/ InsertGuest(c) \/ Duplicate(c)
               \/ InsertAccount(c) \/ IssueTokens(c) \/ CallbackFails(c)
        PROVE  UNCHANGED pairing
    BY <2>1 DEF DiscordUser, DiscordFails, Find, NextUid, InsertGuest, Duplicate, InsertAccount,
                IssueTokens, CallbackFails
  <2> QED
    BY <1>5, <1>6, <1>13, <2>1, CallbackFrame DEF CallbackNext
<1>14. CASE PollNext
  BY <1>7, <1>8, <1>10, <1>11, <1>14 DEF PollNext
<1> QED
  BY <1>6, <1>12, <1>13, <1>14, ConnectFrame DEF IdentityNext, identityVars, process, history
-----------------------------------------------------------------------------
(* The rows of a guest.                                                    *)

\* There are no rows at the start.
LEMMA InitRows == IdentityInit => Rows
<1> SUFFICES ASSUME IdentityInit PROVE Rows
  OBVIOUS
<1>1. Registered = {} /\ Cardinality(Registered) = 0
  <2>1. Registered = {}
    BY DEF IdentityInit, Registered, NoGuest
  <2> QED
    BY <2>1, FS_EmptySet
<1>2. Uids
  BY <1>1 DEF IdentityInit, Uids, NoGuest, NoCallback
<1>3. Tries
  BY DEF IdentityInit, Tries, NoCallback
<1>4. Rotating
  BY DEF IdentityInit, Rotating, NoCall
<1>6. Apart
  BY DEF IdentityInit, Apart, NoGuest
<1>5. GuestHasAccount /\ RetriedEnough /\ TokensOfOneLogin
  BY DEF IdentityInit, GuestHasAccount, RetriedEnough, TokensOfOneLogin, NoGuest
<1> QED
  BY <1>2, <1>3, <1>4, <1>5, <1>6 DEF Rows

\* What a step changes in the rows of the guests.
LEMMA GuestMoves ==
    ASSUME Types, [IdentityNext]_identityVars
    PROVE  \/ guest' = guest
           \/ \E c \in Callbacks : InsertGuest(c) \/ IssueTokens(c)
           \/ \E k \in Calls : Rotate(k) \/ Clear(k)
           \/ \E u \in Users : Block(u)
<1>1. CASE CallbackNext
  BY <1>1 DEF CallbackNext, DiscordUser, DiscordFails, Find, MarkFailed, NextUid, Duplicate,
       InsertAccount, Complete, CallbackFails
<1>2. CASE ConnectNext
  BY <1>2 DEF ConnectNext, RefreshLoad, ValidateBlocked, LogoutLoad, Doing, CallFails
<1> QED
  BY <1>1, <1>2, PairingFrame, PollFrame DEF IdentityNext, identityVars

\* Only the insert of a guest gives a row its uid.
LEMMA UidsKept ==
    ASSUME Types, [IdentityNext]_identityVars, ~ \E c \in Callbacks : InsertGuest(c)
    PROVE  \A u \in Users : guest'[u].uid = guest[u].uid
<1>0. GuestsOK
  BY DEF Types
<1>1. ASSUME NEW c \in Callbacks, IssueTokens(c) PROVE \A u \in Users : guest'[u].uid = guest[u].uid
  BY <1>0, <1>1 DEF IssueTokens, GuestsOK, Guest
<1>2. ASSUME NEW k \in Calls, Rotate(k) \/ Clear(k) PROVE \A u \in Users : guest'[u].uid = guest[u].uid
  BY <1>0, <1>2 DEF Rotate, Clear, GuestsOK, Guest
<1>3. ASSUME NEW v \in Users, Block(v) PROVE \A u \in Users : guest'[u].uid = guest[u].uid
  BY <1>0, <1>3 DEF Block, GuestsOK, Guest
<1> QED
  BY <1>1, <1>2, <1>3, GuestMoves

\* A callback of no guest to provision: it stays, starts, ends or goes on.
Moves(d) ==
    \/ callback'[d] = callback[d]
    \/ /\ callback'[d].pc \notin {"uid", "insert", "account"}
       /\ callback'[d].uid \in {0, callback[d].uid}
       /\ callback'[d].tries \in {0, callback[d].tries}
       /\ callback'[d].pc \in {"discord", "find"} =>
             callback'[d].tries = 0 \/ callback[d].pc \in {"discord", "find"}
       /\ callback[d].pc = "account" =>
             callback[d].user \in account' \cup orphaned'
    \/ /\ callback[d].pc = "find" /\ callback'[d].pc = "uid"
       /\ callback'[d].uid = callback[d].uid /\ callback'[d].tries = callback[d].tries

\* What a step changes in the callbacks, but for the three that provision a guest.
LEMMA CallbackMoves ==
    ASSUME Types, [IdentityNext]_identityVars,
           ~ \E c \in Callbacks : InsertGuest(c) \/ NextUid(c) \/ Duplicate(c)
    PROVE  \A d \in Callbacks : Moves(d)
<1>0. callback \in [Callbacks -> CallbackState]
  BY DEF Types, CallbacksOK
<1>1. ASSUME NEW c \in Callbacks, NEW p \in Pairs, Begin(c, p) PROVE \A d \in Callbacks : Moves(d)
  BY <1>0, <1>1 DEF At, Moves, Begin, NoCallback
<1>2. ASSUME NEW c \in Callbacks, NEW u \in Users, DiscordUser(c, u) PROVE \A d \in Callbacks : Moves(d)
  BY <1>0, <1>2 DEF At, Moves, DiscordUser, CallbackState
<1>3. ASSUME NEW c \in Callbacks, DiscordFails(c) PROVE \A d \in Callbacks : Moves(d)
  BY <1>0, <1>3 DEF At, Moves, DiscordFails, Goto, CallbackState
<1>4. ASSUME NEW c \in Callbacks, Find(c) PROVE \A d \in Callbacks : Moves(d)
  BY <1>0, <1>4 DEF At, Moves, Find, Goto, Left, CallbackState
<1>5. ASSUME NEW c \in Callbacks, MarkFailed(c) \/ Complete(c) PROVE \A d \in Callbacks : Moves(d)
  BY <1>0, <1>5 DEF At, Moves, MarkFailed, Complete, Idle, NoCallback
<1>6. ASSUME NEW c \in Callbacks, InsertAccount(c) PROVE \A d \in Callbacks : Moves(d)
  BY <1>0, <1>6 DEF At, Moves, InsertAccount, Goto, CallbackState
<1>7. ASSUME NEW c \in Callbacks, IssueTokens(c) PROVE \A d \in Callbacks : Moves(d)
  BY <1>0, <1>7 DEF At, Moves, IssueTokens, Left, CallbackState
<1>8. ASSUME NEW c \in Callbacks, CallbackFails(c) PROVE \A d \in Callbacks : Moves(d)
  BY <1>0, <1>8 DEF At, Moves, CallbackFails, Idle, NoCallback
<1>9. ASSUME UNCHANGED callback PROVE \A d \in Callbacks : Moves(d)
  BY <1>9 DEF Moves
<1>10. ASSUME NEW p \in Pairs, Dialog(p) \/ Expire(p) \/ TimeUp(p) \/ \E w \in Polls : StartPoll(w, p)
       PROVE  UNCHANGED callback
  BY <1>10 DEF Dialog, Expire, TimeUp, StartPoll, process
<1>11. CASE PairingNext
  BY <1>1, <1>9, <1>10, <1>11 DEF PairingNext
<1>12. CASE CallbackNext
  BY <1>2, <1>3, <1>4, <1>5, <1>6, <1>7, <1>8, <1>12 DEF CallbackNext
<1> QED
  BY <1>9, <1>11, <1>12, PollFrame, ConnectFrame DEF IdentityNext, identityVars, process

\* One user more has a uid.
LEMMA Registers ==
    ASSUME Types, Rows, NEW c \in Callbacks, InsertGuest(c)
    PROVE  /\ callback[c].user \in Users /\ guest[callback[c].user].uid = 0 /\ callback[c].pc = "insert"
           /\ callback[c].uid >= 1 /\ callback[c].uid <= Cardinality(Registered) + 1
           /\ guest'[callback[c].user].uid = callback[c].uid
           /\ \A v \in Users : v # callback[c].user => guest'[v] = guest[v]
           /\ callback' = [callback EXCEPT ![c].pc = "account", ![c].uid = 0]
           /\ Cardinality(Registered) \in Nat
           /\ Cardinality(Registered') = Cardinality(Registered) + 1
<1> DEFINE u == callback[c].user
<1>1. u \in Users /\ callback[c].pc = "insert" /\ guest[u].uid = 0
  BY DEF InsertGuest, At, Unique, Types, CallbacksOK, Named
<1>2. callback[c].uid >= 1 /\ callback[c].uid <= Cardinality(Registered) + 1 /\ callback[c].uid \in Nat
  BY <1>1 DEF Rows, Uids, Types, CallbacksOK, CallbackState
<1>3. /\ guest' = [guest EXCEPT ![u].uid = callback[c].uid]
      /\ callback' = [callback EXCEPT ![c].pc = "account", ![c].uid = 0]
  BY DEF InsertGuest
<1>4. guest'[u].uid = callback[c].uid /\ \A v \in Users : v # u => guest'[v] = guest[v]
  BY <1>1, <1>3 DEF Types, GuestsOK, Guest
<1> HIDE DEF u
<1>5. Registered' = Registered \cup {u} /\ u \notin Registered
  BY <1>1, <1>2, <1>4 DEF Registered
<1>6. IsFiniteSet(Registered)
  BY IdentityAssumption, FS_Subset DEF Registered
<1>7. Cardinality(Registered) \in Nat /\ Cardinality(Registered') = Cardinality(Registered) + 1
  BY <1>5, <1>6, FS_AddElement, FS_CardinalityType
<1> QED
  BY <1>1, <1>2, <1>3, <1>4, <1>7 DEF u

\* Every step keeps the uids low.
LEMMA UidsStep == Types /\ Rows /\ [IdentityNext]_identityVars => Uids'
<1> SUFFICES ASSUME Types, Rows, [IdentityNext]_identityVars PROVE Uids'
  OBVIOUS
<1>0. /\ \A u \in Users : guest[u].uid \in Nat /\ guest[u].uid <= Cardinality(Registered)
      /\ \A d \in Callbacks : /\ callback[d].uid \in Nat
                              /\ callback[d].uid <= Cardinality(Registered) + 1
                              /\ callback[d].pc = "insert" => callback[d].uid >= 1
      /\ callback \in [Callbacks -> CallbackState]
  BY DEF Types, Rows, Uids, GuestsOK, Guest, CallbacksOK, CallbackState
<1>00. Cardinality(Registered) \in Nat
  <2>1. IsFiniteSet(Registered)
    BY IdentityAssumption, FS_Subset DEF Registered
  <2> QED
    BY <2>1, FS_CardinalityType
<1>1. ASSUME NEW c \in Callbacks, InsertGuest(c) PROVE Uids'
  <2> DEFINE n == Cardinality(Registered)
             m == Cardinality(Registered')
  <2>1. m = n + 1 /\ n \in Nat
    BY <1>1, Registers
  <2>2. \A u \in Users : guest'[u].uid <= m
    <3> TAKE u \in Users
    <3>1. guest'[u].uid = callback[c].uid \/ guest'[u] = guest[u]
      BY <1>1, Registers
    <3> QED
      BY <1>0, <2>1, <3>1
  <2>3. \A d \in Callbacks : callback'[d].uid <= m + 1 /\ (callback'[d].pc = "insert" => callback'[d].uid >= 1)
    <3> TAKE d \in Callbacks
    <3>1. CASE d = c
      <4>1. callback'[d].uid = 0 /\ callback'[d].pc = "account"
        <5>1. callback' = [callback EXCEPT ![c].pc = "account", ![c].uid = 0]
          BY <1>1, Registers
        <5> QED
          BY <1>0, <3>1, <5>1 DEF CallbackState
      <4> QED
        BY <2>1, <4>1
    <3>2. CASE d # c
      <4>1. callback'[d] = callback[d]
        BY <1>0, <1>1, <3>2, Registers
      <4> QED
        BY <1>0, <2>1, <4>1
    <3> QED
      BY <3>1, <3>2
  <2> QED
    BY <2>2, <2>3 DEF Uids
<1>2. ASSUME ~ \E c \in Callbacks : InsertGuest(c) PROVE Uids'
  <2>1. \A u \in Users : guest'[u].uid = guest[u].uid
    BY <1>2, UidsKept
  <2>2. Registered' = Registered
    BY <2>1 DEF Registered
  <2>3. ASSUME NEW c \in Callbacks, NextUid(c) \/ Duplicate(c), NEW d \in Callbacks
        PROVE  /\ callback'[d].uid <= Cardinality(Registered) + 1
               /\ callback'[d].pc = "insert" => callback'[d].uid >= 1
    <3>1. CASE d # c
      <4>1. callback'[d] = callback[d]
        BY <1>0, <2>3, <3>1 DEF NextUid, Duplicate, Idle
      <4> QED
        BY <1>0, <4>1
    <3>2. CASE d = c /\ NextUid(c)
      <4>1. PICK last \in Users :
               callback' = [callback EXCEPT ![c].pc = "insert", ![c].uid = guest[last].uid + 1]
        BY <3>2 DEF NextUid
      <4>2. callback'[d].uid = guest[last].uid + 1
        BY <1>0, <3>2, <4>1 DEF CallbackState
      <4> QED
        BY <1>0, <1>00, <4>2
    <3>3. CASE d = c /\ Duplicate(c)
      <4>1. callback'[d].uid = 0 /\ callback'[d].pc # "insert"
        BY <1>0, <3>3 DEF Duplicate, Idle, NoCallback, CallbackState
      <4> QED
        BY <1>00, <4>1
    <3> QED
      BY <2>3, <3>1, <3>2, <3>3
  <2>4. ASSUME ~ \E c \in Callbacks : NextUid(c) \/ Duplicate(c), NEW d \in Callbacks
        PROVE  /\ callback'[d].uid <= Cardinality(Registered) + 1
               /\ callback'[d].pc = "insert" => callback'[d].uid >= 1
    <3>1. \/ callback'[d] = callback[d]
          \/ callback'[d].pc # "insert" /\ callback'[d].uid \in {0, callback[d].uid}
      BY <1>2, <2>4, CallbackMoves DEF Moves
    <3> QED
      BY <1>0, <1>00, <3>1
  <2>5. \A d \in Callbacks : /\ callback'[d].uid <= Cardinality(Registered) + 1
                             /\ callback'[d].pc = "insert" => callback'[d].uid >= 1
    BY <2>3, <2>4
  <2> QED
    BY <1>0, <2>1, <2>2, <2>5 DEF Uids
<1> QED
  BY <1>1, <1>2
\* A uid that was given stays.
LEMMA UidsStay ==
    ASSUME Types, Rows, [IdentityNext]_identityVars
    PROVE  /\ \A u \in Users : guest[u].uid # 0 => guest'[u].uid = guest[u].uid
           /\ \A n \in Nat : (\E v \in Users : guest[v].uid >= n) => \E v \in Users : guest'[v].uid >= n
<1>1. ASSUME NEW u \in Users PROVE guest[u].uid = 0 \/ guest'[u].uid = guest[u].uid
  <2>1. CASE \E c \in Callbacks : InsertGuest(c)
    BY <2>1, Registers
  <2>2. CASE ~ \E c \in Callbacks : InsertGuest(c)
    BY <2>2, UidsKept
  <2> QED
    BY <2>1, <2>2
<1>2. \A u \in Users : guest[u].uid \in Nat /\ guest'[u].uid \in Nat
  BY GuestsStep DEF Types, GuestsOK, Guest
<1>3. ASSUME NEW n \in Nat, NEW v \in Users, guest[v].uid >= n PROVE guest'[v].uid >= n
  BY <1>1, <1>2, <1>3
<1> QED
  BY <1>1, <1>3

\* Every step keeps the tries of a callback counted.
LEMMA TriesStep == Types /\ Rows /\ [IdentityNext]_identityVars => Tries'
<1> SUFFICES ASSUME Types, Rows, [IdentityNext]_identityVars PROVE Tries'
  OBVIOUS
<1>0. /\ \A u \in Users : guest[u].uid \in Nat
      /\ callback \in [Callbacks -> CallbackState]
      /\ \A d \in Callbacks : callback[d].uid \in Nat /\ callback[d].tries \in Nat
      /\ \A d \in Callbacks : callback[d].pc \in Named => callback[d].user \in Users
  BY IdentityAssumption DEF Types, GuestsOK, Guest, CallbacksOK, CallbackState
\* What Tries says of one callback.
<1> DEFINE Tried(d) ==
             /\ callback'[d].pc \in {"discord", "find"} => callback'[d].tries = 0
             /\ callback'[d].pc = "uid" /\ guest'[callback'[d].user].uid = 0 =>
                   \E v \in Users : guest'[v].uid >= callback'[d].tries
             /\ callback'[d].pc = "insert" /\ guest'[callback'[d].user].uid = 0 =>
                   callback'[d].uid > callback'[d].tries
             /\ callback'[d].pc = "account" => guest'[callback'[d].user].uid # 0
<1>1. ASSUME NEW d \in Callbacks, callback'[d] = callback[d] PROVE Tried(d)
  <2>1. callback[d].pc \in {"uid", "insert", "account"} /\ guest'[callback[d].user].uid = 0
           => guest[callback[d].user].uid = 0
    BY <1>0, UidsStay DEF Named
  <2> QED
    BY <1>0, <1>1, <2>1, UidsStay DEF Rows, Tries
<1>2. ASSUME NEW c \in Callbacks, InsertGuest(c), NEW d \in Callbacks, d = c PROVE Tried(d)
  <2>1. callback' = [callback EXCEPT ![c].pc = "account", ![c].uid = 0]
    BY <1>2, Registers
  <2>2. callback'[d].pc = "account" /\ callback'[d].user = callback[c].user
    BY <1>0, <1>2, <2>1 DEF CallbackState
  <2>3. guest'[callback[c].user].uid = callback[c].uid /\ callback[c].uid >= 1
    BY <1>2, Registers
  <2>4. callback[c].uid # 0
    BY <2>3
  <2> QED
    BY <1>2, <2>2, <2>3, <2>4
<1>3. ASSUME NEW c \in Callbacks, NextUid(c), NEW d \in Callbacks, d = c PROVE Tried(d)
  <2>1. PICK last \in Users :
           /\ \A u \in Users : guest[u].uid <= guest[last].uid
           /\ callback' = [callback EXCEPT ![c].pc = "insert", ![c].uid = guest[last].uid + 1]
    BY <1>3 DEF NextUid
  <2>2. guest' = guest /\ callback[d].pc = "uid"
    BY <1>3 DEF NextUid, At
  <2>3. /\ callback'[d].pc = "insert" /\ callback'[d].uid = guest[last].uid + 1
        /\ callback'[d].tries = callback[d].tries /\ callback'[d].user = callback[d].user
    BY <1>0, <1>3, <2>1 DEF CallbackState
  <2>4. ASSUME guest[callback[d].user].uid = 0 PROVE callback'[d].uid > callback'[d].tries
    <3>1. PICK v \in Users : guest[v].uid >= callback[d].tries
      BY <2>2, <2>4 DEF Rows, Tries
    <3>2. guest[v].uid <= guest[last].uid /\ guest[v].uid \in Nat /\ guest[last].uid \in Nat
      BY <1>0, <2>1
    <3> QED
      BY <1>0, <2>3, <3>1, <3>2
  <2> QED
    BY <2>2, <2>3, <2>4
<1>4. ASSUME NEW c \in Callbacks, Duplicate(c), NEW d \in Callbacks, d = c PROVE Tried(d)
  <2>1. CASE callback[c].tries + 1 < Attempts
    <3>1. /\ callback' = [callback EXCEPT ![c].pc = "uid", ![c].uid = 0, ![c].tries = @ + 1]
          /\ guest' = guest
          /\ (callback[c].pc = "insert" /\ ~ Unique(c)) \/ callback[c].pc = "account"
      BY <1>4, <2>1 DEF Duplicate, Refused, At
    <3>2. /\ callback'[d].pc = "uid" /\ callback'[d].tries = callback[d].tries + 1
          /\ callback'[d].user = callback[d].user
      BY <1>0, <1>4, <3>1 DEF CallbackState
    <3>3. ASSUME guest[callback[d].user].uid = 0
          PROVE  \E v \in Users : guest[v].uid >= callback[d].tries + 1
      <4>0. callback[c].pc = "insert" /\ ~ Unique(c)
        BY <1>4, <3>1, <3>3 DEF Rows, Tries
      <4>1. PICK v \in Users : guest[v].uid = callback[d].uid
        BY <1>4, <3>3, <4>0 DEF Unique
      <4>2. callback[d].uid > callback[d].tries
        BY <1>4, <3>3, <4>0 DEF Rows, Tries
      <4> QED
        BY <1>0, <4>1, <4>2
    <3> QED
      BY <3>1, <3>2, <3>3
  <2>2. CASE ~ (callback[c].tries + 1 < Attempts)
    <3>1. callback'[d].pc = "idle"
      BY <1>0, <1>4, <2>2 DEF Duplicate, Idle, NoCallback
    <3> QED
      BY <3>1
  <2> QED
    BY <2>1, <2>2
<1>5. ASSUME NEW c \in Callbacks, InsertGuest(c) \/ NextUid(c) \/ Duplicate(c),
             NEW d \in Callbacks, d # c
      PROVE  callback'[d] = callback[d]
  BY <1>0, <1>5 DEF InsertGuest, NextUid, Duplicate, Idle
<1>6. ASSUME ~ \E c \in Callbacks : InsertGuest(c) \/ NextUid(c) \/ Duplicate(c),
             NEW d \in Callbacks
      PROVE  Tried(d)
  <2>1. CASE callback'[d] = callback[d]
    <3> HIDE DEF Tried
    <3> QED
      BY <1>1, <2>1
  <2>2. CASE callback'[d] # callback[d]
    <3>1. Moves(d)
      BY <1>6, CallbackMoves
    <3>2. CASE callback'[d].pc \notin {"uid", "insert", "account"}
      BY <2>2, <3>1, <3>2 DEF Moves, Rows, Tries
    <3>3. CASE callback'[d].pc \in {"uid", "insert", "account"}
      <4>1. callback[d].pc = "find" /\ callback'[d].pc = "uid" /\ callback'[d].tries = 0
        BY <2>2, <3>1, <3>3 DEF Moves, Rows, Tries
      <4>2. callback[d].user \in Users /\ guest[callback[d].user].uid >= 0 /\ 0 \in Nat
        BY <1>0, <4>1 DEF Named
      <4>3. \E v \in Users : guest'[v].uid >= 0
        BY <4>2, UidsStay
      <4> QED
        BY <4>1, <4>3
    <3> QED
      BY <3>2, <3>3
  <2> QED
    BY <2>1, <2>2
<1> HIDE DEF Tried
<1>7. \A d \in Callbacks : Tried(d)
  BY <1>1, <1>2, <1>3, <1>4, <1>5, <1>6
<1> QED
  BY <1>7 DEF Tries, Tried
\* Both tokens of a row are of one login, and a refresh under way knows it.
LEMMA TokensStep == Types /\ Rows /\ [IdentityNext]_identityVars => Rotating' /\ TokensOfOneLogin'
<1> SUFFICES ASSUME Types, Rotating, TokensOfOneLogin, [IdentityNext]_identityVars
             PROVE  Rotating' /\ TokensOfOneLogin'
  BY DEF Rows
<1>0. GuestsOK /\ CallbacksOK /\ CallsOK
  BY DEF Types
<1> USE DEF Rotating, TokensOfOneLogin
<1>1. ASSUME NEW c \in Callbacks, InsertGuest(c) PROVE Rotating' /\ TokensOfOneLogin'
  <2>1. /\ guest' = [guest EXCEPT ![callback[c].user].uid = callback[c].uid]
        /\ UNCHANGED <<call, raced>>
    BY <1>1 DEF InsertGuest, history
  <2>2. \A u \in Users : guest'[u].access = guest[u].access /\ guest'[u].refresh = guest[u].refresh
    BY <1>0, <2>1 DEF GuestsOK, Guest
  <2> QED
    BY <1>0, <2>1, <2>2 DEF CallsOK
<1>2. ASSUME NEW c \in Callbacks, IssueTokens(c) PROVE Rotating' /\ TokensOfOneLogin'
  <2> DEFINE u == callback[c].user
  <2>1. /\ guest' = [guest EXCEPT ![u].access = issues', ![u].refresh = issues']
        /\ Raced(u) /\ UNCHANGED call
    BY <1>2 DEF IssueTokens
  <2>2. u \in Users
    BY <1>0, <1>2 DEF IssueTokens, At, CallbacksOK, Named
  <2> HIDE DEF u
  <2>3. /\ guest'[u].access = guest'[u].refresh
        /\ \A v \in Users : v # u => guest'[v] = guest[v]
    BY <1>0, <2>1, <2>2 DEF GuestsOK, Guest
  <2>4. raced \subseteq raced' /\ \A k \in Calls : call[k].pc = "rotate" /\ call[k].user = u => u \in raced'
    BY <2>1 DEF Raced, Refreshing
  <2>5. TokensOfOneLogin'
    BY <2>3, <2>4
  <2>6. Rotating'
    <3> SUFFICES ASSUME NEW k \in Calls, call[k].pc = "rotate", call[k].user \notin raced'
                 PROVE  call[k].token = guest'[call[k].user].refresh
      BY <2>1
    <3>1. call[k].user \in Users /\ call[k].user # u
      BY <1>0, <2>4 DEF CallsOK
    <3> QED
      BY <2>3, <2>4, <3>1
  <2> QED
    BY <2>5, <2>6
<1>3. ASSUME NEW k \in Calls, Rotate(k) PROVE Rotating' /\ TokensOfOneLogin'
  <2> DEFINE u == call[k].user
  <2>1. /\ guest' = [guest EXCEPT ![u].access = call[k].token]
        /\ call' = [call EXCEPT ![k] = NoCall] /\ raced' = raced
        /\ call[k].pc = "rotate" /\ u \in Users
    BY <1>0, <1>3 DEF Rotate, history, CallsOK
  <2>2. NoCall.pc = "idle"
    BY DEF NoCall
  <2> HIDE DEF u, NoCall
  <2>3. /\ guest'[u].access = call[k].token /\ guest'[u].refresh = guest[u].refresh
        /\ \A v \in Users : v # u => guest'[v] = guest[v]
    BY <1>0, <2>1 DEF GuestsOK, Guest
  <2>4. \A j \in Calls : call'[j].pc = "rotate" => call'[j] = call[j]
    BY <1>0, <2>1, <2>2 DEF CallsOK
  <2>5. u \notin raced => call[k].token = guest[u].refresh
    BY <2>1 DEF u
  <2> QED
    BY <1>0, <2>1, <2>3, <2>4, <2>5 DEF CallsOK
<1>4. ASSUME NEW k \in Calls, Clear(k) PROVE Rotating' /\ TokensOfOneLogin'
  <2> DEFINE u == call[k].user
  <2>1. /\ guest' = [guest EXCEPT ![u].access = 0, ![u].refresh = 0]
        /\ call' = [call EXCEPT ![k] = NoCall] /\ Raced(u)
        /\ call[k].pc = "clear" /\ u \in Users
    BY <1>0, <1>4 DEF Clear, CallsOK
  <2>2. NoCall.pc = "idle"
    BY DEF NoCall
  <2> HIDE DEF u, NoCall
  <2>3. /\ guest'[u].access = guest'[u].refresh
        /\ \A v \in Users : v # u => guest'[v] = guest[v]
    BY <1>0, <2>1 DEF GuestsOK, Guest
  <2>4. raced \subseteq raced' /\ \A j \in Calls : call[j].pc = "rotate" /\ call[j].user = u => u \in raced'
    BY <2>1 DEF Raced, Refreshing
  <2>5. \A j \in Calls : call'[j].pc = "rotate" => call'[j] = call[j]
    BY <1>0, <2>1, <2>2 DEF CallsOK
  <2>6. TokensOfOneLogin'
    BY <2>3, <2>4
  <2>7. Rotating'
    <3> SUFFICES ASSUME NEW j \in Calls, call'[j].pc = "rotate", call'[j].user \notin raced'
                 PROVE  call'[j].token = guest'[call'[j].user].refresh
      OBVIOUS
    <3>1. call'[j] = call[j] /\ call[j].user \in Users /\ call[j].user # u
      BY <1>0, <2>4, <2>5 DEF CallsOK
    <3> QED
      BY <2>3, <2>4, <3>1
  <2> QED
    BY <2>6, <2>7
<1>5. ASSUME NEW u \in Users, Block(u) PROVE Rotating' /\ TokensOfOneLogin'
  <2>1. guest' = [guest EXCEPT ![u].renovation = ~@] /\ UNCHANGED <<call, raced>>
    BY <1>5 DEF Block, process, history
  <2>2. \A v \in Users : guest'[v].access = guest[v].access /\ guest'[v].refresh = guest[v].refresh
    BY <1>0, <2>1 DEF GuestsOK, Guest
  <2> QED
    BY <1>0, <2>1, <2>2 DEF CallsOK
<1>6. ASSUME NEW k \in Calls, NEW u \in Users, RefreshLoad(k, u) \/ ValidateBlocked(k, u) \/ LogoutLoad(k, u)
      PROVE  Rotating' /\ TokensOfOneLogin'
  <2>1. PICK stage \in {"rotate", "clear"}, token \in {0, guest[u].refresh} :
           /\ call' = [call EXCEPT ![k] = [pc |-> stage, user |-> u, token |-> token]]
           /\ stage = "rotate" => token = guest[u].refresh
    BY <1>6 DEF RefreshLoad, ValidateBlocked, LogoutLoad, Doing
  <2>2. UNCHANGED <<guest, raced>>
    BY <1>6 DEF RefreshLoad, ValidateBlocked, LogoutLoad, Doing, history
  <2> QED
    BY <1>0, <2>1, <2>2 DEF CallsOK
<1>7. ASSUME NEW k \in Calls, CallFails(k) PROVE Rotating' /\ TokensOfOneLogin'
  <2>1. call' = [call EXCEPT ![k] = NoCall] /\ UNCHANGED <<guest, raced>>
    BY <1>7 DEF CallFails, history
  <2> QED
    BY <1>0, <2>1 DEF CallsOK, NoCall
<1>8. CASE UNCHANGED <<guest, call, raced>>
  BY <1>8
<1>9. ASSUME NEW c \in Callbacks,
             \/ \E u \in Users : DiscordUser(c, u)
             \/ DiscordFails(c) \/ Find(c) \/ MarkFailed(c) \/ NextUid(c) \/ Duplicate(c)
             \/ InsertAccount(c) \/ Complete(c) \/ CallbackFails(c)
      PROVE  UNCHANGED <<guest, call, raced>>
  BY <1>9 DEF DiscordUser, DiscordFails, Find, MarkFailed, NextUid, Duplicate, InsertAccount, Complete,
              CallbackFails, history
<1>10. CASE CallbackNext
  BY <1>1, <1>2, <1>8, <1>9, <1>10 DEF CallbackNext
<1>11. CASE ConnectNext
  BY <1>3, <1>4, <1>5, <1>6, <1>7, <1>11 DEF ConnectNext
<1> QED
  BY <1>8, <1>10, <1>11, PairingFrame, PollFrame DEF IdentityNext, identityVars, process, history

\* No account is taken back, and what failed stays failed.
LEMMA AccountKept ==
    ASSUME [IdentityNext]_identityVars
    PROVE  account \subseteq account' /\ orphaned \subseteq orphaned' /\ backend' = backend
<1>1. CASE CallbackNext
  BY <1>1 DEF CallbackNext, DiscordUser, DiscordFails, Find, MarkFailed, NextUid, InsertGuest, Duplicate,
     InsertAccount, IssueTokens, Complete, CallbackFails, history
<1> QED
  BY <1>1, PairingFrame, PollFrame, ConnectFrame DEF IdentityNext, identityVars, history

\* An insert that is not refused keeps the uids apart.
LEMMA ApartStep == Types /\ Rows /\ [IdentityNext]_identityVars => Apart'
<1> SUFFICES ASSUME Types, Rows, [IdentityNext]_identityVars PROVE Apart'
  OBVIOUS
<1>0. /\ Apart /\ account \subseteq Users /\ account' \subseteq Users
      /\ \A c \in Callbacks : callback[c].pc \in Named => callback[c].user \in Users
  BY GuestsStep DEF Rows, Types, SetsOK, CallbacksOK
<1>1. ASSUME NEW c \in Callbacks, InsertGuest(c) PROVE Apart'
  <2> DEFINE u == callback[c].user
  <2>1. /\ u \in Users /\ guest[u].uid = 0 /\ guest'[u].uid = callback[c].uid /\ callback[c].uid >= 1
        /\ \A v \in Users : v # u => guest'[v] = guest[v]
    BY <1>1, Registers
  <2>2. backend = "pg" => \A v \in Users : guest[v].uid # callback[c].uid
    BY <1>1 DEF InsertGuest, Unique
  <2>3. UNCHANGED <<backend, account>>
    BY <1>1 DEF InsertGuest
  <2>4. u \notin account
    BY <1>0, <2>1 DEF Apart
  <2> HIDE DEF u
  <2> QED
    BY <1>0, <2>1, <2>2, <2>3, <2>4 DEF Apart
<1>2. ASSUME NEW c \in Callbacks, InsertAccount(c) PROVE Apart'
  <2>1. /\ account' = account \cup {callback[c].user} /\ UNCHANGED <<backend, guest>>
        /\ \A v \in account : guest[v].uid # guest[callback[c].user].uid
    BY <1>2 DEF InsertAccount, AccountUnique
  <2>2. guest[callback[c].user].uid # 0
    BY <1>2 DEF InsertAccount, At, Rows, Tries
  <2> QED
    BY <1>0, <2>1, <2>2 DEF Apart
<1>3. ASSUME ~ \E c \in Callbacks : InsertGuest(c) \/ InsertAccount(c) PROVE Apart'
  <2>1. \A v \in Users : guest'[v].uid = guest[v].uid
    BY <1>3, UidsKept
  <2>2. UNCHANGED <<backend, account>>
    <3>1. CASE CallbackNext
      BY <1>3, <3>1 DEF CallbackNext, DiscordUser, DiscordFails, Find, MarkFailed, NextUid, Duplicate,
         IssueTokens, Complete, CallbackFails, history
    <3> QED
      BY <3>1, PairingFrame, PollFrame, ConnectFrame DEF IdentityNext, identityVars
  <2> QED
    BY <1>0, <2>1, <2>2 DEF Apart
<1> QED
  BY <1>1, <1>2, <1>3

\* A guest has its account, or is owed it, or the insert was refused or failed.
LEMMA AccountStep == Types /\ Rows /\ [IdentityNext]_identityVars => GuestHasAccount'
<1> SUFFICES ASSUME Types, Rows, [IdentityNext]_identityVars, NEW u \in Users, guest'[u].uid # 0
             PROVE  \/ u \in account' \cup orphaned'
                    \/ \E c \in Callbacks : callback'[c].pc = "account" /\ callback'[c].user = u
                    \/ backend' = "mongo" /\ \E v \in account' \ {u} : guest'[v].uid = guest'[u].uid
  BY DEF GuestHasAccount, At
<1>0. callback \in [Callbacks -> CallbackState]
  BY DEF Types, CallbacksOK
<1>1. guest[u].uid # 0 =>
         \/ u \in account \cup orphaned
         \/ \E c \in Callbacks : callback[c].pc = "account" /\ callback[c].user = u
         \/ backend = "mongo" /\ \E v \in account \ {u} : guest[v].uid = guest[u].uid
  BY DEF Rows, GuestHasAccount, At
<1>5. guest[u].uid # 0 /\ (backend = "mongo" /\ \E v \in account \ {u} : guest[v].uid = guest[u].uid)
         => backend' = "mongo" /\ \E v \in account' \ {u} : guest'[v].uid = guest'[u].uid
  BY AccountKept, UidsStay DEF Rows, Apart, Types, SetsOK
<1>2. account \subseteq account' /\ orphaned \subseteq orphaned'
  BY AccountKept
<1>3. ASSUME NEW c \in Callbacks, InsertGuest(c)
      PROVE  \/ u \in account' \cup orphaned'
             \/ \E d \in Callbacks : callback'[d].pc = "account" /\ callback'[d].user = u
             \/ backend' = "mongo" /\ \E v \in account' \ {u} : guest'[v].uid = guest'[u].uid
  <2>1. callback' = [callback EXCEPT ![c].pc = "account", ![c].uid = 0]
        /\ callback[c].pc = "insert"
    BY <1>3, Registers
  <2>2. callback'[c].pc = "account" /\ callback'[c].user = callback[c].user
        /\ \A d \in Callbacks : d # c => callback'[d] = callback[d]
    BY <1>0, <2>1 DEF CallbackState
  <2>3. CASE u = callback[c].user
    BY <2>2, <2>3
  <2>4. CASE u # callback[c].user
    <3>1. guest[u].uid # 0
      BY <1>3, <2>4, Registers
    <3> QED
      BY <1>1, <1>2, <1>5, <2>1, <2>2, <3>1
  <2> QED
    BY <2>3, <2>4
<1>4. ASSUME ~ \E c \in Callbacks : InsertGuest(c)
      PROVE  \/ u \in account' \cup orphaned'
             \/ \E d \in Callbacks : callback'[d].pc = "account" /\ callback'[d].user = u
             \/ backend' = "mongo" /\ \E v \in account' \ {u} : guest'[v].uid = guest'[u].uid
  <2>1. guest[u].uid # 0
    BY <1>4, UidsKept
  <2>2. CASE u \in account \cup orphaned
    BY <1>2, <2>2
  <2>3. ASSUME NEW c \in Callbacks, callback[c].pc = "account", callback[c].user = u
        PROVE  \/ callback'[c] = callback[c] \/ u \in account' \cup orphaned'
               \/ backend' = "mongo" /\ \E v \in account' \ {u} : guest'[v].uid = guest'[u].uid
    <3>0. CASE Duplicate(c)
      <4>1. /\ UNCHANGED <<backend, guest, account>>
            /\ \E v \in account : guest[v].uid = guest[u].uid
        BY <2>3, <3>0 DEF Duplicate, Refused, AccountUnique, At
      <4>2. PICK v \in account : guest[v].uid = guest[u].uid
        BY <4>1
      <4>3. CASE v = u
        BY <1>2, <4>3
      <4>4. CASE v # u
        <5>1. backend \in {"pg", "mongo"} /\ v \in Users
          BY IdentityAssumption DEF Types, SetsOK
        <5>2. backend # "pg"
          BY <2>1, <4>2, <4>4, <5>1 DEF Rows, Apart
        <5> QED
          BY <4>1, <4>2, <4>4, <5>1, <5>2
      <4> QED
        BY <4>3, <4>4
    <3>1. CASE \E d \in Callbacks : NextUid(d) \/ (d # c /\ Duplicate(d))
      BY <1>0, <2>3, <3>1 DEF NextUid, Duplicate, Idle, At
    <3>2. CASE ~ \E d \in Callbacks : NextUid(d) \/ Duplicate(d)
      <4>1. Moves(c)
        BY <1>4, <3>2, CallbackMoves
      <4> QED
        BY <2>3, <4>1 DEF Moves
    <3> QED
      BY <3>0, <3>1, <3>2
  <2> QED
    BY <1>1, <1>5, <2>1, <2>2, <2>3
<1> QED
  BY <1>3, <1>4

\* Who gives up has lost every attempt to a uid of its own: there were more users than attempts.
LEMMA RetriedStep == Types /\ Rows /\ [IdentityNext]_identityVars => RetriedEnough'
<1> SUFFICES ASSUME Types, Rows, [IdentityNext]_identityVars, Cardinality(Users) <= Attempts, NEW u \in exhausted'
             PROVE  guest'[u].uid # 0
  BY DEF RetriedEnough
<1>1. CASE u \in exhausted
  <2>1. guest[u].uid # 0 /\ u \in Users
    BY <1>1 DEF Rows, RetriedEnough, Types, SetsOK
  <2> QED
    BY <2>1, UidsStay
<1>2. CASE u \notin exhausted
  <2>1. PICK c \in Callbacks : Duplicate(c) /\ u = callback[c].user /\ ~ (callback[c].tries + 1 < Attempts)
    <3>1. CASE CallbackNext
      BY <1>2, <3>1 DEF CallbackNext, DiscordUser, DiscordFails, Find, MarkFailed, NextUid, InsertGuest,
         Duplicate, InsertAccount, IssueTokens, Complete, CallbackFails, history
    <3> QED
      BY <1>2, <3>1, PairingFrame, PollFrame, ConnectFrame DEF IdentityNext, identityVars, history
  <2>9. guest' = guest /\ u \in Users
        /\ ((callback[c].pc = "insert" /\ ~ Unique(c)) \/ callback[c].pc = "account")
    BY <2>1 DEF Duplicate, Refused, At, Types, CallbacksOK, Named
  <2>3. SUFFICES ASSUME guest[u].uid = 0 PROVE FALSE
    BY <2>9
  <2>2. callback[c].pc = "insert" /\ ~ Unique(c) /\ u \in Users
    BY <2>1, <2>3, <2>9 DEF Rows, Tries
  <2>4. PICK v \in Users : guest[v].uid = callback[c].uid
    BY <2>1, <2>2, <2>3 DEF Unique
  <2>5. callback[c].uid > callback[c].tries
    BY <2>1, <2>2, <2>3 DEF Rows, Tries
  <2>6. guest[v].uid <= Cardinality(Registered)
    BY DEF Rows, Uids
  <2>7. Cardinality(Registered) \in Nat /\ Cardinality(Registered) <= Cardinality(Users) - 1
    <3>1. Registered \subseteq Users \ {u}
      BY <2>3 DEF Registered
    <3>2. IsFiniteSet(Users \ {u}) /\ Cardinality(Users \ {u}) = Cardinality(Users) - 1
      BY <2>2, IdentityAssumption, FS_RemoveElement
    <3>3. IsFiniteSet(Registered) /\ Cardinality(Registered) <= Cardinality(Users \ {u})
      BY <3>1, <3>2, FS_Subset
    <3> QED
      BY <3>2, <3>3, FS_CardinalityType
  <2>8. callback[c].tries \in Nat /\ callback[c].uid \in Nat /\ Attempts \in Nat /\ Cardinality(Users) \in Nat
    BY IdentityAssumption, FS_CardinalityType DEF Types, CallbacksOK, CallbackState
  <2> QED
    BY <2>1, <2>4, <2>5, <2>6, <2>7, <2>8
<1> QED
  BY <1>1, <1>2

-----------------------------------------------------------------------------
(* The theorems.                                                           *)

\* The invariant holds at the start.
LEMMA IdentityStarts == IdentityInit => IdentityInv
BY InitTypes, InitRows, InitPages DEF IdentityInv

\* Every step keeps the invariant.
LEMMA IdentityStep == IdentityInv /\ [IdentityNext]_identityVars => IdentityInv'
<1> SUFFICES ASSUME IdentityInv, [IdentityNext]_identityVars PROVE IdentityInv'
  OBVIOUS
<1>1. GuestsOK' /\ SetsOK' /\ CallbacksOK' /\ Pages'
  BY GuestsStep, CallbacksStep, PagesStep DEF IdentityInv
<1>2. CallsOK'
  BY <1>1, CallsStep DEF IdentityInv
<1>3. Rows'
  BY UidsStep, TriesStep, ApartStep, TokensStep, AccountStep, RetriedStep DEF IdentityInv, Rows
<1> QED
  BY <1>1, <1>2, <1>3 DEF IdentityInv, Types, Pages

\* The invariant says what the two properties say.
LEMMA IdentityIs == IdentityInv => SignInsSound /\ GuestRowsSound
<1> SUFFICES ASSUME IdentityInv PROVE SignInsSound /\ GuestRowsSound
  OBVIOUS
<1>1. SingleUseOnPostgres
  BY DEF IdentityInv, Once, SingleUseOnPostgres, SingleUse
<1>2. ExpiredIsGone
  BY DEF IdentityInv, Shown
<1>3. UidOfOneAccount
  BY IdentityAssumption DEF IdentityInv, Types, SetsOK, Rows, Apart, UidOfOneAccount
<1> QED
  BY <1>1, <1>2, <1>3 DEF SignInsSound, GuestRowsSound, IdentityInv, Rows

\* Every variable of the identity service stays in its type: among others no uid is
\* higher than the number of users, and no token is from a login that never was.
THEOREM IdentityTypes == IdentitySpec => []IdentityTypeOK
<1>1. IdentityInv => IdentityTypeOK
  BY TypesIsTypeOK DEF IdentityInv
<1> QED
  BY <1>1, IdentityStarts, IdentityStep, PTL DEF IdentitySpec

\* The outcome of a sign-in is given to one poll on Postgres, and a page that is told
\* "expired" leaves none behind (repositories/pairings, routes/pair.js).
THEOREM SignInsAreSound == IdentitySpec => []SignInsSound
<1>1. IdentityInv => SignInsSound
  BY IdentityIs
<1> QED
  BY <1>1, IdentityStarts, IdentityStep, PTL DEF IdentitySpec

\* For any number of callbacks that provision at once (login-flow.js, routes/oauth.js): a guest
\* has its account unless its provisioning failed or goes on, or, on MongoDB, another guest's
\* account has its uid; two guests share a uid on MongoDB alone; with no more users than attempts
\* nobody is given up without a guest row; and tokens are of one login but for overtaken refreshes.
THEOREM GuestRowsAreSound == IdentitySpec => []GuestRowsSound
<1>1. IdentityInv => GuestRowsSound
  BY IdentityIs
<1> QED
  BY <1>1, IdentityStarts, IdentityStep, PTL DEF IdentitySpec

-----------------------------------------------------------------------------
(* Finite sets of numbers, images and the first entries of a queue.        *)

\* A non-empty set of naturals has a least element.
LEMMA Least ==
    ASSUME NEW S \in SUBSET Nat, S # {}
    PROVE  \E x \in S : \A y \in S : x <= y
<1>1. PICK m \in S : \A k \in S : <<k, m>> \notin OpToRel(<, Nat)
  BY WFMin, NatLessThanWellFounded, Zenon
<1>2. \A k \in S : ~ (k < m)
  BY <1>1 DEF OpToRel
<1> QED
  BY <1>2

\* A finite set of naturals that is not empty has a greatest one.
LEMMA Greatest ==
    ASSUME NEW S \in SUBSET Nat, IsFiniteSet(S), S # {}
    PROVE  \E m \in S : \A y \in S : y <= m
<1> DEFINE k == Cardinality(S)
<1>1. k \in Nat
  BY FS_CardinalityType
<1>2. PICK f \in Bijection(1..k, S) : TRUE
  BY FS_CardinalityType DEF ExistsBijection
<1>3. f \in [1..k -> S] /\ \A y \in S : \E i \in 1..k : f[i] = y
  BY <1>2 DEF Bijection, Surjection
<1> HIDE DEF k
<1> DEFINE Bounded(i) == \E m \in S : \A j \in 1..i : f[j] <= m
           Bad == {i \in 0..k : ~ Bounded(i)}
<1>4. CASE Bad = {}
  <2>1. Bounded(k)
    <3> HIDE DEF Bounded
    <3> QED
      BY <1>1, <1>4
  <2> QED
    BY <1>3, <2>1
<1>5. CASE Bad # {}
  <2>1. PICK i \in Bad : \A j \in Bad : i <= j
    <3>1. Bad \in SUBSET Nat
      BY <1>1
    <3> HIDE DEF Bad
    <3> QED
      BY <1>5, <3>1, Least
  <2>2. i # 0
    <3>1. \A j \in 1..0 : FALSE
      OBVIOUS
    <3>2. Bounded(0)
      BY <3>1
    <3> HIDE DEF Bounded
    <3> QED
      BY <2>1, <3>2
  <2>3. i \in 1..k /\ i - 1 \in 0..k
    BY <1>1, <2>1, <2>2
  <2>4. Bounded(i - 1)
    BY <2>1, <2>3
  <2>5. PICK m \in S : \A j \in 1..(i - 1) : f[j] <= m
    BY <2>4
  <2>6. f[i] \in S /\ f[i] \in Nat /\ m \in Nat
    BY <1>3, <2>3
  <2>7. CASE f[i] <= m
    <3>1. \A j \in 1..i : f[j] <= m
      <4> TAKE j \in 1..i
      <4> j = i \/ j \in 1..(i - 1)
        BY <2>3
      <4> QED
        BY <2>5, <2>7
    <3> QED
      BY <2>1, <2>5, <3>1
  <2>8. CASE m < f[i]
    <3>1. \A j \in 1..i : f[j] <= f[i]
      <4> TAKE j \in 1..i
      <4>1. CASE j = i
        BY <2>6, <4>1
      <4>2. CASE j \in 1..(i - 1)
        <5>1. f[j] <= m
          BY <2>5, <4>2
        <5>2. j \in 1..k
          BY <1>1, <2>3, <4>2
        <5>3. f[j] \in Nat
          BY <1>3, <5>2
        <5> QED
          BY <2>6, <2>8, <5>1, <5>3
      <4> QED
        BY <2>3, <4>1, <4>2
    <3> QED
      BY <2>1, <2>6, <3>1
  <2>9. f[i] <= m \/ m < f[i]
    BY <2>6
  <2> QED
    BY <2>7, <2>8, <2>9
<1> QED
  BY <1>4, <1>5

\* The largest of a finite set of numbers is one of them.
LEMMA MaxIs ==
    ASSUME NEW S \in SUBSET Nat, IsFiniteSet(S), S # {}
    PROVE  Max(S) \in S /\ \A y \in S : y <= Max(S)
<1>1. PICK m \in S : \A y \in S : y <= m
  BY Greatest
<1>2. \A y \in S : m >= y
  BY <1>1
<1> QED
  BY <1>2 DEF Max

\* An image of a finite set is finite and no bigger.
LEMMA Image ==
    ASSUME NEW S, NEW T, IsFiniteSet(S), NEW f \in [S -> T]
    PROVE  LET I == {f[x] : x \in S} IN IsFiniteSet(I) /\ Cardinality(I) <= Cardinality(S)
<1> DEFINE I == {f[x] : x \in S}
<1>1. f \in Surjection(S, I)
  BY DEF Surjection
<1> HIDE DEF I
<1>2. IsFiniteSet(I) /\ Cardinality(I) <= Cardinality(S)
  BY <1>1, FS_Surjection
<1> QED
  BY <1>2 DEF I

\* Who is among the first n: at most n.
LEMMA FirstOnes ==
    ASSUME NEW S \in SUBSET Entry, IsFiniteSet(S), NEW n \in Nat \ {0},
           \A e, f \in S : e.joinedAt = f.joinedAt => e = f
    PROVE  LET F == {e \in S : Cardinality(Older(S, e)) < n}
           IN  IsFiniteSet(F) /\ Cardinality(F) <= n
<1> DEFINE F == {e \in S : Cardinality(Older(S, e)) < n}
<1>1. IsFiniteSet(F) /\ Cardinality(F) \in Nat
  BY FS_Subset, FS_CardinalityType
<1>2. ASSUME F = {} PROVE Cardinality(F) <= n
  BY <1>2, FS_EmptySet
<1>3. ASSUME F # {} PROVE Cardinality(F) <= n
  <2> DEFINE g == [e \in F |-> e.joinedAt]
             J == {g[e] : e \in F}
  <2>1. g \in [F -> Nat]
    BY DEF Entry
  <2>2. IsFiniteSet(J)
    <3> HIDE DEF F, g
    <3> QED
      BY <1>1, <2>1, Image
  <2>3. J \in SUBSET Nat /\ J # {}
    BY <1>3, <2>1
  <2>4. PICK last \in F : \A e \in F : e.joinedAt <= last.joinedAt
    <3>1. PICK m \in J : \A y \in J : y <= m
      <4> HIDE DEF J
      <4> QED
        BY <2>2, <2>3, Greatest
    <3> QED
      BY <3>1
  <2>5. F \ {last} \subseteq Older(S, last)
    BY <2>4 DEF Older, Entry
  <2>6. IsFiniteSet(Older(S, last)) /\ Cardinality(Older(S, last)) \in Nat
    BY FS_Subset, FS_CardinalityType DEF Older
  <2>7. Cardinality(Older(S, last)) < n
    BY <2>4
  <2> HIDE DEF F
  <2>8. Cardinality(F \ {last}) = Cardinality(F) - 1
    BY <1>1, <2>4, FS_RemoveElement
  <2>9. Cardinality(F \ {last}) <= Cardinality(Older(S, last))
    BY <2>5, <2>6, FS_Subset
  <2> QED
    BY <1>1, <2>6, <2>7, <2>8, <2>9
<1> QED
  BY <1>1, <1>2, <1>3

-----------------------------------------------------------------------------
(* Types, the queue and the match ids.                                     *)

\* An account has one entry, and no two joined at the same time.
QueueOK ==
    /\ IsFiniteSet(queue)
    /\ \A e, f \in queue : e.account = f.account \/ e.joinedAt = f.joinedAt => e = f

Forming(r) == pc[r] \in {"claim", "push"}

\* The ids under way were minted, each by one replica; so were those sent.
Ids ==
    /\ \A r \in Replicas : matchId[r] <= matchSeq /\ (Forming(r) => matchId[r] >= 1)
    /\ \A r, s \in Replicas : r # s /\ Forming(r) /\ Forming(s) => matchId[r] # matchId[s]
    /\ \A a \in Accounts : matched[a] \subseteq 1..matchSeq

Base == TypeOK /\ QueueOK /\ Ids

\* It holds at the start.
LEMMA BaseInit == Init => Base
<1> SUFFICES ASSUME Init PROVE Base
  OBVIOUS
<1>1. TypeOK
  BY MatchmakerAssumption DEF Init, TypeOK
<1>2. QueueOK
  BY FS_EmptySet DEF Init, QueueOK
<1>3. Ids
  BY DEF Init, Ids, Forming
<1> QED
  BY <1>1, <1>2, <1>3 DEF Base

\* The number of a new entry is higher than any other.
LEMMA NowIs ==
    ASSUME TypeOK, QueueOK
    PROVE  Now \in Nat /\ \A e \in queue : e.joinedAt < Now
<1> DEFINE g == [e \in queue |-> e.joinedAt]
           J == {g[e] : e \in queue}
<1>1. g \in [queue -> Nat]
  BY DEF TypeOK, Entry
<1>2. IsFiniteSet(J)
  <2> HIDE DEF g
  <2> QED
    BY <1>1, Image DEF QueueOK
<1>3. IsFiniteSet(J \cup {0}) /\ J \cup {0} \in SUBSET Nat
  <2>1. J \in SUBSET Nat
    BY <1>1
  <2> HIDE DEF J
  <2> QED
    BY <1>2, <2>1, FS_AddElement
<1>4. J = {e.joinedAt : e \in queue}
  OBVIOUS
<1>5. Max(J \cup {0}) \in Nat /\ \A y \in J : y <= Max(J \cup {0})
  <2> HIDE DEF J
  <2> QED
    BY <1>3, MaxIs
<1>6. Now = 1 + Max(J \cup {0})
  BY <1>4 DEF Now
<1>7. \A e \in queue : e.joinedAt \in J /\ e.joinedAt \in Nat
  BY <1>1
<1> HIDE DEF J
<1> QED
  BY <1>5, <1>6, <1>7

\* What a replica reads: at most MATCH_SIZE players who are on the queue for a mode.
LEMMA OldestIs ==
    ASSUME TypeOK, QueueOK, NEW m \in Modes
    PROVE  /\ Oldest(m) \in SUBSET Accounts /\ IsFiniteSet(Oldest(m))
           /\ Cardinality(Oldest(m)) <= MatchSize
           /\ \A a \in Oldest(m) : \E e \in queue : e.account = a /\ e.mode = m
<1> DEFINE S == OfMode(m)
           F == {e \in S : Cardinality(Older(S, e)) < MatchSize}
           g == [e \in F |-> e.account]
<1>1. S \in SUBSET Entry /\ IsFiniteSet(S) /\ \A e, f \in S : e.joinedAt = f.joinedAt => e = f
  BY FS_Subset DEF TypeOK, QueueOK, OfMode
<1>2. IsFiniteSet(F) /\ Cardinality(F) <= MatchSize
  <2> HIDE DEF S
  <2> QED
    BY <1>1, FirstOnes, MatchmakerAssumption
<1>3. Oldest(m) = {g[e] : e \in F} /\ g \in [F -> Accounts]
  BY <1>1 DEF Oldest, Players, Entry
<1>4. IsFiniteSet(Oldest(m)) /\ Cardinality(Oldest(m)) <= Cardinality(F)
  <2> HIDE DEF F, g
  <2> QED
    BY <1>2, <1>3, Image
<1>5. \A a \in Oldest(m) : \E e \in queue : e.account = a /\ e.mode = m
  BY DEF Oldest, Players, OfMode
<1>6. Oldest(m) \in SUBSET Accounts
  BY <1>3
<1>7. Cardinality(F) \in Nat /\ Cardinality(Oldest(m)) \in Nat
  BY <1>2, <1>4, FS_CardinalityType
<1> HIDE DEF F
<1>8. Cardinality(Oldest(m)) <= MatchSize
  BY <1>2, <1>4, <1>7, MatchmakerAssumption
<1> QED
  BY <1>4, <1>5, <1>6, <1>8

\* The queue only loses entries, or has one that is new.
LEMMA QueueStep ==
    ASSUME TypeOK, QueueOK,
           \/ queue' \subseteq queue
           \/ \E a \in Accounts, m \in Modes : Start(a, m)
    PROVE  QueueOK' /\ queue' \subseteq Entry
<1>1. CASE queue' \subseteq queue
  BY <1>1, FS_Subset DEF QueueOK, TypeOK
<1>2. ASSUME NEW a \in Accounts, NEW m \in Modes, Start(a, m)
      PROVE  QueueOK' /\ queue' \subseteq Entry
  <2> DEFINE new == [account |-> a, mode |-> m, joinedAt |-> Now]
  <2>1. queue' = OffQueue({a}) \cup {new}
    BY <1>2 DEF Start
  <2>2. OffQueue({a}) \subseteq queue /\ \A e \in OffQueue({a}) : e.account # a
    BY DEF OffQueue
  <2>3. IsFiniteSet(queue')
    <3>1. IsFiniteSet(OffQueue({a}))
      BY <2>2, FS_Subset DEF QueueOK
    <3> QED
      BY <2>1, <3>1, FS_AddElement
  <2>4. new \in Entry /\ new.account = a /\ new.joinedAt = Now /\ \A e \in queue : e.joinedAt # Now
    <3>1. Now \in Nat /\ \A e \in queue : e.joinedAt < Now
      BY NowIs
    <3>2. \A e \in queue : e.joinedAt \in Nat
      BY DEF TypeOK, Entry
    <3> QED
      BY <3>1, <3>2 DEF Entry
  <2> HIDE DEF new
  <2>5. queue' \subseteq Entry
    BY <2>1, <2>2, <2>4 DEF TypeOK
  <2>6. ASSUME NEW e \in queue', NEW f \in queue', e.account = f.account \/ e.joinedAt = f.joinedAt
        PROVE  e = f
    BY <2>1, <2>2, <2>4, <2>6 DEF QueueOK
  <2> QED
    BY <2>3, <2>5, <2>6 DEF QueueOK
<1> QED
  BY <1>1, <1>2

\* Every step keeps the types.
LEMMA TypeStep == Base /\ [Next]_vars => TypeOK'
<1> SUFFICES ASSUME Base, [Next]_vars PROVE TypeOK'
  OBVIOUS
<1> USE MatchmakerAssumption DEF Base, TypeOK
<1>0. CASE UNCHANGED vars
  BY <1>0 DEF vars, requests, ticks, budget
<1>1. ASSUME NEW a \in Accounts, NEW m \in Modes, Start(a, m) PROVE TypeOK'
  <2>1. queue' \subseteq Entry
    BY <1>1, QueueStep
  <2>2. asked' \in [Accounts -> 0..MaxStarts]
    BY <1>1 DEF Start
  <2> QED
    BY <1>1, <2>1, <2>2 DEF Start, ticks, budget
<1>2. ASSUME NEW a \in Accounts, Cancel(a) PROVE TypeOK'
  BY <1>2 DEF Cancel, ticks, budget, OffQueue
<1>3. ASSUME NEW a \in Accounts, Disconnect(a) PROVE TypeOK'
  BY <1>3 DEF Disconnect, ticks, budget, OffQueue
<1>4. ASSUME NEW a \in Accounts, Connect(a) PROVE TypeOK'
  BY <1>4 DEF Connect, requests, ticks, budget
<1>5. ASSUME NEW a \in Accounts, Age(a) PROVE TypeOK'
  BY <1>5 DEF Age, ticks, budget
<1>6. ASSUME NEW a \in Accounts, StartLost(a) PROVE TypeOK'
  <2>1. asked' \in [Accounts -> 0..MaxStarts]
    BY <1>6 DEF StartLost
  <2>2. faults' \in 0..MaxFaults
    BY <1>6 DEF StartLost
  <2> QED
    BY <1>6, <2>1, <2>2 DEF StartLost, ticks
<1>7. ASSUME NEW r \in Replicas, Demote(r) PROVE TypeOK'
  BY <1>7 DEF Demote, requests, ticks, budget
<1>8. ASSUME NEW r \in Replicas, Elect(r) PROVE TypeOK'
  BY <1>8 DEF Elect, requests, ticks, budget
<1>9. ASSUME NEW r \in Replicas, Stop(r) PROVE TypeOK'
  <2>1. stops' \in 0..MaxStops
    BY <1>9 DEF Stop
  <2> QED
    BY <1>9, <2>1 DEF Stop, requests, ticks
<1>10. ASSUME OrphanExpires PROVE TypeOK'
  BY <1>10 DEF OrphanExpires, requests, ticks, budget
<1>11. ASSUME Lapse PROVE TypeOK'
  <2>1. lapses' \in 0..MaxLapses
    BY <1>11 DEF Lapse
  <2> QED
    BY <1>11, <2>1 DEF Lapse, requests, ticks
<1>12. ASSUME NEW r \in Replicas, Read(r) PROVE TypeOK'
  <2>1. {Oldest(m) : m \in {k \in Modes : Ripe(k)}} \ {{}} \in SUBSET SUBSET Accounts
    BY OldestIs
  <2>2. plan' \in [Replicas -> SUBSET SUBSET Accounts]
    BY <1>12, <2>1 DEF Read
  <2> QED
    BY <1>12, <2>2 DEF Read, requests, budget
<1>13. ASSUME NEW r \in Replicas, Mint(r) PROVE TypeOK'
  <2>1. matchSeq' \in 0..MaxMatches /\ matchId' \in [Replicas -> 0..MaxMatches]
    BY <1>13 DEF Mint
  <2>2. batch' \in [Replicas -> SUBSET Accounts] /\ plan' \in [Replicas -> SUBSET SUBSET Accounts]
    BY <1>13 DEF Mint
  <2> QED
    BY <1>13, <2>1, <2>2 DEF Mint, requests, budget
<1>14. ASSUME NEW r \in Replicas, Claim(r) PROVE TypeOK'
  <2>1. queue' \subseteq Entry /\ overdue' \subseteq Accounts
    BY <1>14 DEF Claim, OffQueue
  <2> QED
    BY <1>14, <2>1 DEF Claim, budget
<1>15. ASSUME NEW r \in Replicas, Push(r) PROVE TypeOK'
  <2>1. matchId[r] \in 1..MaxMatches
    BY <1>15 DEF Push, Ids, Forming
  <2>2. matched' \in [Accounts -> SUBSET (1..MaxMatches)] /\ batch' \in [Replicas -> SUBSET Accounts]
    BY <1>15, <2>1 DEF Push
  <2>3. pc' \in [Replicas -> {"idle", "mint", "claim", "push"}]
    BY <1>15 DEF Push
  <2> QED
    BY <1>15, <2>2, <2>3 DEF Push, requests, budget
<1>16. ASSUME NEW r \in Replicas, TickFails(r) PROVE TypeOK'
  <2>1. faults' \in 0..MaxFaults
    BY <1>16 DEF TickFails
  <2>2. pc' \in [Replicas -> {"idle", "mint", "claim", "push"}] /\ plan' \in [Replicas -> SUBSET SUBSET Accounts]
        /\ batch' \in [Replicas -> SUBSET Accounts]
    BY <1>16 DEF TickFails, TickEnds
  <2> QED
    BY <1>16, <2>1, <2>2 DEF TickFails, requests
<1>17. ASSUME NEW r \in Replicas, Crash(r) PROVE TypeOK'
  <2>1. faults' \in 0..MaxFaults
    BY <1>17 DEF Crash
  <2>2. pc' \in [Replicas -> {"idle", "mint", "claim", "push"}] /\ plan' \in [Replicas -> SUBSET SUBSET Accounts]
        /\ batch' \in [Replicas -> SUBSET Accounts]
    BY <1>17 DEF Crash, TickEnds
  <2> QED
    BY <1>17, <2>1, <2>2 DEF Crash, requests
<1>18. ASSUME NEW r \in Replicas, Exit(r) PROVE TypeOK'
  <2>2. pc' \in [Replicas -> {"idle", "mint", "claim", "push"}] /\ plan' \in [Replicas -> SUBSET SUBSET Accounts]
        /\ batch' \in [Replicas -> SUBSET Accounts]
    BY <1>18 DEF Exit, TickEnds
  <2> QED
    BY <1>18, <2>2 DEF Exit, requests, budget
<1> QED
  BY <1>0, <1>1, <1>2, <1>3, <1>4, <1>5, <1>6, <1>7, <1>8, <1>9, <1>10, <1>11,
     <1>12, <1>13, <1>14, <1>15, <1>16, <1>17, <1>18 DEF Next, Tick

\* The gateways' steps and the lease's leave every tick alone.
LEMMA OutsideTicks ==
    ASSUME [Next]_vars,
           ~ \E r \in Replicas : Tick(r) \/ TickFails(r) \/ Crash(r) \/ Exit(r)
    PROVE  UNCHANGED <<pc, plan, batch, matchId, matchSeq, matched>>
BY DEF Next, vars, ticks, Start, Cancel, Disconnect, Connect, Age, StartLost, Demote, Elect, Stop,
       OrphanExpires, Lapse

\* What the end of a tick leaves.
LEMMA TickEndsIs ==
    ASSUME NEW r \in Replicas, TickFails(r) \/ Crash(r) \/ Exit(r)
    PROVE  TickEnds(r) /\ UNCHANGED <<matchId, matchSeq, matched, queue>>
BY DEF TickFails, Crash, Exit, requests

\* Every step keeps the base.
LEMMA BaseStep == Base /\ [Next]_vars => Base'
<1> SUFFICES ASSUME Base, [Next]_vars PROVE Base'
  OBVIOUS
<1> USE MatchmakerAssumption DEF Base
<1>1. QueueOK'
  <2>1. \/ queue' \subseteq queue
        \/ \E a \in Accounts, m \in Modes : Start(a, m)
    BY DEF Next, Tick, vars, requests, OffQueue, Cancel, Disconnect, Connect, Age, StartLost, Demote,
           Elect, Stop, OrphanExpires, Lapse, Read, Mint, Claim, Push, TickFails, Crash, Exit
  <2> QED
    BY <2>1, QueueStep
<1>2. Ids'
  <2> USE DEF TypeOK, Ids, Forming
  <2>1. ASSUME NEW r \in Replicas, Read(r) PROVE Ids'
    BY <2>1 DEF Read
  <2>2. ASSUME NEW r \in Replicas, Mint(r) PROVE Ids'
    <3>1. /\ pc' = [pc EXCEPT ![r] = "claim"] /\ matchId' = [matchId EXCEPT ![r] = matchSeq + 1]
          /\ matchSeq' = matchSeq + 1 /\ matched' = matched
      BY <2>2 DEF Mint
    <3>2. matchSeq \in Nat /\ matchId \in [Replicas -> Nat]
      OBVIOUS
    <3>3. \A q \in Replicas : matchId'[q] <= matchSeq' /\ (Forming(q)' => matchId'[q] >= 1)
      BY <3>1, <3>2
    <3>4. \A q, s \in Replicas : q # s /\ Forming(q)' /\ Forming(s)' => matchId'[q] # matchId'[s]
      BY <3>1, <3>2
    <3>5. \A a \in Accounts : matched'[a] \subseteq 1..matchSeq'
      BY <3>1, <3>2
    <3> QED
      BY <3>3, <3>4, <3>5
  <2>3. ASSUME NEW r \in Replicas, Claim(r) PROVE Ids'
    BY <2>3 DEF Claim
  <2>4. ASSUME NEW r \in Replicas, Push(r) PROVE Ids'
    <3>1. pc[r] = "push" /\ matchId[r] \in 1..matchSeq /\ UNCHANGED <<matchId, matchSeq>>
      BY <2>4 DEF Push
    <3>2. \A q \in Replicas : Forming(q)' => Forming(q)
      BY <2>4 DEF Push
    <3>3. \A a \in Accounts : matched'[a] \subseteq matched[a] \cup {matchId[r]}
      BY <2>4 DEF Push
    <3> QED
      BY <3>1, <3>2, <3>3
  <2>5. ASSUME NEW r \in Replicas, TickFails(r) \/ Crash(r) \/ Exit(r) PROVE Ids'
    <3>1. /\ UNCHANGED <<matchId, matchSeq, matched>>
          /\ \A q \in Replicas : Forming(q)' => Forming(q)
      BY <2>5, TickEndsIs DEF TickEnds
    <3> QED
      BY <3>1
  <2>6. CASE UNCHANGED <<pc, plan, batch, matchId, matchSeq, matched>>
    BY <2>6
  <2> QED
    BY <2>1, <2>2, <2>3, <2>4, <2>5, <2>6, OutsideTicks DEF Tick
<1> QED
  BY <1>1, <1>2, TypeStep

-----------------------------------------------------------------------------
(* Batches: those of a tick have no player in common, none is bigger than  *)
(* MATCH_SIZE, and neither is what a match id was sent to.                 *)

Plans ==
    \A r \in Replicas :
        /\ \A b \in plan[r] : Cardinality(b) <= MatchSize
        /\ \A b, c \in plan[r] : b # c => b \cap c = {}
        /\ Forming(r) => \A b \in plan[r] : b \cap batch[r] = {}
        /\ pc[r] = "idle" => plan[r] = {}

Got(m) == {a \in Accounts : m \in matched[a]}

Sizes ==
    /\ \A r \in Replicas : Forming(r) => Cardinality(Got(matchId[r]) \cup batch[r]) <= MatchSize
    /\ \A m \in Nat : Cardinality(Got(m)) <= MatchSize

\* Every step keeps the plans.
LEMMA PlansStep == Base /\ Plans /\ [Next]_vars => Plans'
<1> SUFFICES ASSUME Base, Plans, [Next]_vars PROVE Plans'
  OBVIOUS
<1> USE DEF Base, TypeOK, Plans, Forming
<1>1. ASSUME NEW r \in Replicas, Read(r) PROVE Plans'
  <2> DEFINE P == {Oldest(m) : m \in {k \in Modes : Ripe(k)}} \ {{}}
  <2>1. /\ plan' = [plan EXCEPT ![r] = P] /\ pc' = [pc EXCEPT ![r] = "mint"]
        /\ UNCHANGED batch
    BY <1>1 DEF Read
  <2>2. \A b \in P : Cardinality(b) <= MatchSize
    BY OldestIs
  <2>3. ASSUME NEW b \in P, NEW c \in P, b # c PROVE b \cap c = {}
    <3>1. PICK m \in Modes : b = Oldest(m)
      OBVIOUS
    <3>2. PICK k \in Modes : c = Oldest(k)
      OBVIOUS
    <3>3. m # k
      BY <2>3, <3>1, <3>2
    <3>4. \A a \in b : \E e \in queue : e.account = a /\ e.mode = m
      BY <3>1, OldestIs
    <3>5. \A a \in c : \E e \in queue : e.account = a /\ e.mode = k
      BY <3>2, OldestIs
    <3> QED
      BY <3>3, <3>4, <3>5 DEF QueueOK
  <2> HIDE DEF P
  <2> QED
    BY <2>1, <2>2, <2>3
<1>2. ASSUME NEW r \in Replicas, Mint(r) PROVE Plans'
  <2>1. PICK b \in plan[r] : /\ batch' = [batch EXCEPT ![r] = b]
                             /\ plan' = [plan EXCEPT ![r] = @ \ {b}]
    BY <1>2 DEF Mint
  <2>2. pc' = [pc EXCEPT ![r] = "claim"]
    BY <1>2 DEF Mint
  <2> QED
    BY <2>1, <2>2
<1>3. ASSUME NEW r \in Replicas, Claim(r) PROVE Plans'
  BY <1>3 DEF Claim
<1>4. ASSUME NEW r \in Replicas, Push(r) PROVE Plans'
  <2>1. PICK a \in batch[r] :
           /\ batch' = [batch EXCEPT ![r] = @ \ {a}]
           /\ pc' = [pc EXCEPT ![r] = CASE batch[r] # {a} -> "push"
                                        [] batch[r] = {a} /\ plan[r] # {} -> "mint"
                                        [] OTHER -> "idle"]
    BY <1>4 DEF Push
  <2>2. pc[r] = "push" /\ UNCHANGED plan
    BY <1>4 DEF Push
  <2> QED
    BY <2>1, <2>2
<1>5. ASSUME NEW r \in Replicas, TickFails(r) \/ Crash(r) \/ Exit(r) PROVE Plans'
  BY <1>5, TickEndsIs DEF TickEnds
<1>6. CASE UNCHANGED <<pc, plan, batch, matchId, matchSeq, matched>>
  BY <1>6
<1> QED
  BY <1>1, <1>2, <1>3, <1>4, <1>5, <1>6, OutsideTicks DEF Tick

\* Every step keeps the sizes.
LEMMA SizesStep == Base /\ Plans /\ Sizes /\ [Next]_vars => Sizes'
<1> SUFFICES ASSUME Base, Plans, Sizes, [Next]_vars PROVE Sizes'
  OBVIOUS
<1> USE DEF Base, Forming
<1>0. /\ pc \in [Replicas -> {"idle", "mint", "claim", "push"}]
      /\ plan \in [Replicas -> SUBSET SUBSET Accounts]
      /\ batch \in [Replicas -> SUBSET Accounts]
      /\ matchId \in [Replicas -> Nat] /\ matchSeq \in Nat
      /\ matched \in [Accounts -> SUBSET (1..MaxMatches)]
  BY DEF TypeOK
<1>00. IsFiniteSet(Accounts) /\ MatchSize \in Nat
  BY MatchmakerAssumption
<1>1. ASSUME NEW r \in Replicas, Read(r) PROVE Sizes'
  BY <1>0, <1>1 DEF Read, Sizes, Got
<1>2. ASSUME NEW r \in Replicas, Mint(r) PROVE Sizes'
  <2>1. PICK b \in plan[r] : batch' = [batch EXCEPT ![r] = b]
    BY <1>2 DEF Mint
  <2>2. /\ pc' = [pc EXCEPT ![r] = "claim"] /\ matchId' = [matchId EXCEPT ![r] = matchSeq + 1]
        /\ UNCHANGED matched
    BY <1>2 DEF Mint
  <2>3. \A m : Got(m)' = Got(m)
    BY <2>2 DEF Got
  <2>4. Got(matchSeq + 1) = {}
    BY <1>0 DEF Got, Ids
  <2>5. Cardinality(b) <= MatchSize /\ {} \cup b = b
    BY DEF Plans
  <2>6. ASSUME NEW q \in Replicas, Forming(q)'
        PROVE  Cardinality(Got(matchId'[q]) \cup batch'[q]) <= MatchSize
    <3>1. CASE q = r
      BY <1>0, <2>1, <2>2, <2>4, <2>5, <3>1
    <3>2. CASE q # r
      BY <1>0, <2>1, <2>2, <2>6, <3>2 DEF Sizes
    <3> QED
      BY <3>1, <3>2
  <2> QED
    BY <2>3, <2>6 DEF Sizes
<1>3. ASSUME NEW r \in Replicas, Claim(r) PROVE Sizes'
  BY <1>0, <1>3 DEF Claim, Sizes, Got
<1>4. ASSUME NEW r \in Replicas, Push(r) PROVE Sizes'
  <2>1. PICK a \in batch[r] :
           /\ matched' = IF online[a] THEN [matched EXCEPT ![a] = @ \cup {matchId[r]}] ELSE matched
           /\ batch' = [batch EXCEPT ![r] = @ \ {a}]
    BY <1>4 DEF Push
  <2>2. pc[r] = "push" /\ UNCHANGED matchId /\ a \in Accounts
        /\ \A q \in Replicas : Forming(q)' => Forming(q)
    BY <1>0, <1>4 DEF Push
  <2> DEFINE New(m) == {b \in Accounts : m \in matched'[b]}
  <2>3. \A m : m # matchId[r] => New(m) = Got(m)
    BY <1>0, <2>1, <2>2 DEF Got
  <2>4. New(matchId[r]) \subseteq Got(matchId[r]) \cup batch[r]
    BY <1>0, <2>1, <2>2 DEF Got
  <2>5. IsFiniteSet(Got(matchId[r]) \cup batch[r])
    <3>1. Got(matchId[r]) \cup batch[r] \subseteq Accounts
      BY <1>0 DEF Got
    <3> QED
      BY <1>00, <3>1, FS_Subset
  <2>6. \A T \in SUBSET (Got(matchId[r]) \cup batch[r]) : Cardinality(T) <= MatchSize
    <3> TAKE T \in SUBSET (Got(matchId[r]) \cup batch[r])
    <3>1. Cardinality(T) <= Cardinality(Got(matchId[r]) \cup batch[r])
      BY <2>5, FS_Subset
    <3>2. Cardinality(Got(matchId[r]) \cup batch[r]) <= MatchSize
      BY <2>2 DEF Sizes
    <3>3. Cardinality(T) \in Nat /\ Cardinality(Got(matchId[r]) \cup batch[r]) \in Nat
      BY <2>5, FS_Subset, FS_CardinalityType
    <3> QED
      BY <1>00, <3>1, <3>2, <3>3
  <2>7. ASSUME NEW q \in Replicas, Forming(q)'
        PROVE  Cardinality(New(matchId[q]) \cup batch'[q]) <= MatchSize
    <3>1. CASE q = r
      <4>1. New(matchId[q]) \cup batch'[q] \in SUBSET (Got(matchId[r]) \cup batch[r])
        BY <1>0, <2>1, <2>2, <2>4, <3>1
      <4> QED
        BY <2>6, <4>1
    <3>2. CASE q # r
      <4>1. Forming(q) /\ matchId[q] # matchId[r]
        BY <2>2, <2>7, <3>2 DEF Ids
      <4>2. New(matchId[q]) = Got(matchId[q]) /\ batch'[q] = batch[q]
        BY <1>0, <2>1, <2>2, <2>3, <3>2, <4>1
      <4> QED
        BY <4>1, <4>2 DEF Sizes
    <3> QED
      BY <3>1, <3>2
  <2>8. ASSUME NEW m \in Nat PROVE Cardinality(New(m)) <= MatchSize
    <3>1. CASE m = matchId[r]
      BY <2>4, <2>6, <3>1
    <3>2. CASE m # matchId[r]
      BY <2>3, <3>2 DEF Sizes
    <3> QED
      BY <3>1, <3>2
  <2> QED
    BY <2>2, <2>7, <2>8 DEF Sizes, Got
<1>5. ASSUME NEW r \in Replicas, TickFails(r) \/ Crash(r) \/ Exit(r) PROVE Sizes'
  <2>1. /\ UNCHANGED <<matchId, matched>>
        /\ \A q \in Replicas : Forming(q)' => Forming(q) /\ batch'[q] = batch[q]
    BY <1>0, <1>5, TickEndsIs DEF TickEnds
  <2>2. \A m : Got(m)' = Got(m)
    BY <2>1 DEF Got
  <2> QED
    BY <2>1, <2>2 DEF Sizes
<1>6. CASE UNCHANGED <<pc, plan, batch, matchId, matchSeq, matched>>
  BY <1>6 DEF Sizes, Got
<1> QED
  BY <1>1, <1>2, <1>3, <1>4, <1>5, <1>6, OutsideTicks DEF Tick

-----------------------------------------------------------------------------
(* What a START is good for, while no lease lapses and no leader stops.    *)

Calm == lapses = 0 /\ stops = 0

\* Only the holder of the lease leads, and only a leader is in a tick.
OneLeader ==
    Calm => \A r \in Replicas : (isLeader[r] => lease = r) /\ (pc[r] # "idle" => isLeader[r])

\* The player may still be claimed; it is claimed and has not been sent its match.
Waiting(a) ==
    \/ InQueue(a)
    \/ \E r \in Replicas : a \in UNION plan[r] \/ (pc[r] = "claim" /\ a \in batch[r])
Pushing(a) == \E r \in Replicas : pc[r] = "push" /\ a \in batch[r]
One(b) == IF b THEN 1 ELSE 0

\* The matches a player was sent, and those on their way, were each asked for.
Counted ==
    Calm => \A a \in Accounts :
        Cardinality(matched[a]) + One(Waiting(a)) + One(Pushing(a)) <= asked[a]

\* Calm is never regained.
LEMMA CalmBefore == Base /\ [Next]_vars /\ Calm' => Calm
<1> SUFFICES ASSUME Base, [Next]_vars, Calm' PROVE Calm
  OBVIOUS
<1>1. lapses \in Nat /\ stops \in Nat
  BY MatchmakerAssumption DEF Base, TypeOK
<1>2. /\ lapses' = lapses \/ lapses' = lapses + 1
      /\ stops' = stops \/ stops' = stops + 1
  BY DEF Next, Tick, vars, budget, Start, Cancel, Disconnect, Connect, Age, StartLost, Demote, Elect,
         Stop, OrphanExpires, Lapse, Read, Mint, Claim, Push, TickFails, Crash, Exit
<1> QED
  BY <1>1, <1>2 DEF Calm

\* Every step keeps the one leader.
LEMMA LeaderStep == Base /\ OneLeader /\ [Next]_vars => OneLeader'
<1> SUFFICES ASSUME Base, OneLeader, [Next]_vars, Calm'
             PROVE  \A r \in Replicas : (isLeader'[r] => lease' = r) /\ (pc'[r] # "idle" => isLeader'[r])
  BY DEF OneLeader
<1>0. /\ \A r \in Replicas : (isLeader[r] => lease = r) /\ (pc[r] # "idle" => isLeader[r])
      /\ isLeader \in [Replicas -> BOOLEAN]
      /\ pc \in [Replicas -> {"idle", "mint", "claim", "push"}]
      /\ Free \notin Replicas /\ Orphan \notin Replicas
  BY CalmBefore, MatchmakerAssumption DEF OneLeader, Base, TypeOK
<1>1. ASSUME NEW r \in Replicas, Demote(r) PROVE FALSE
  BY <1>0, <1>1 DEF Demote
<1>2. ASSUME NEW r \in Replicas, Elect(r)
      PROVE  \A q \in Replicas : (isLeader'[q] => lease' = q) /\ (pc'[q] # "idle" => isLeader'[q])
  BY <1>0, <1>2 DEF Elect, ticks
<1>3. ASSUME NEW r \in Replicas, Stop(r) PROVE FALSE
  <2>1. stops \in Nat /\ stops' = stops + 1 /\ stops' = 0
    BY <1>3, MatchmakerAssumption DEF Stop, Calm, Base, TypeOK
  <2> QED
    BY <2>1
<1>4. ASSUME OrphanExpires \/ Lapse
      PROVE  \A q \in Replicas : (isLeader'[q] => lease' = q) /\ (pc'[q] # "idle" => isLeader'[q])
  <2>1. CASE OrphanExpires
    BY <1>0, <2>1 DEF OrphanExpires, ticks
  <2>2. CASE Lapse
    <3>1. lapses \in Nat /\ lapses' = lapses + 1 /\ lapses' = 0
      BY <2>2, MatchmakerAssumption DEF Lapse, Calm, Base, TypeOK
    <3> QED
      BY <3>1
  <2> QED
    BY <1>4, <2>1, <2>2
<1>5. ASSUME NEW r \in Replicas, Crash(r)
      PROVE  \A q \in Replicas : (isLeader'[q] => lease' = q) /\ (pc'[q] # "idle" => isLeader'[q])
  BY <1>0, <1>5 DEF Crash, TickEnds
<1>6. ASSUME NEW r \in Replicas, TickFails(r) \/ Exit(r)
      PROVE  \A q \in Replicas : (isLeader'[q] => lease' = q) /\ (pc'[q] # "idle" => isLeader'[q])
  BY <1>0, <1>6 DEF TickFails, Exit, TickEnds
<1>7. ASSUME NEW r \in Replicas, Tick(r)
      PROVE  \A q \in Replicas : (isLeader'[q] => lease' = q) /\ (pc'[q] # "idle" => isLeader'[q])
  BY <1>0, <1>7 DEF Tick, Read, Mint, Claim, Push
<1>8. CASE UNCHANGED <<isLeader, lease, pc>>
  BY <1>0, <1>8
<1>9. ASSUME NEW a \in Accounts,
             \/ \E m \in Modes : Start(a, m)
             \/ Cancel(a) \/ Disconnect(a) \/ Connect(a) \/ Age(a) \/ StartLost(a)
      PROVE  UNCHANGED <<isLeader, lease, pc>>
  BY <1>9 DEF Start, Cancel, Disconnect, Connect, Age, StartLost, ticks
<1> QED
  BY <1>1, <1>2, <1>3, <1>4, <1>5, <1>6, <1>7, <1>8, <1>9 DEF Next, vars, ticks

\* A player was sent a finite number of matches.
LEMMA MatchedFinite ==
    ASSUME TypeOK, NEW a \in Accounts
    PROVE  IsFiniteSet(matched[a]) /\ Cardinality(matched[a]) \in Nat
<1>1. matched[a] \subseteq 1..MaxMatches
  BY DEF TypeOK
<1>2. 1 \in Int /\ MaxMatches \in Int
  BY MatchmakerAssumption
<1>3. IsFiniteSet(1..MaxMatches)
  BY <1>2, FS_Interval
<1>4. IsFiniteSet(matched[a])
  BY <1>1, <1>3, FS_Subset
<1> QED
  BY <1>4, FS_CardinalityType

\* Nobody's due grows, so nobody is sent more than it asked for.
LEMMA DueShrinks ==
    ASSUME Base, Base', NEW a \in Accounts,
           Cardinality(matched[a]) + One(Waiting(a)) + One(Pushing(a)) <= asked[a],
           asked'[a] >= asked[a], matched'[a] = matched[a],
           Waiting(a)' => Waiting(a), Pushing(a)' => Pushing(a)
    PROVE  Cardinality(matched'[a]) + One(Waiting(a)') + One(Pushing(a)') <= asked'[a]
<1>1. Cardinality(matched[a]) \in Nat /\ asked[a] \in Int /\ asked'[a] \in Int
  BY MatchedFinite DEF Base, TypeOK
<1>2. One(Waiting(a)') <= One(Waiting(a)) /\ One(Pushing(a)') <= One(Pushing(a))
  BY DEF One
<1>3. /\ One(Waiting(a)) \in Nat /\ One(Waiting(a)') \in Nat
      /\ One(Pushing(a)) \in Nat /\ One(Pushing(a)') \in Nat
  BY DEF One
<1> QED
  BY <1>1, <1>2, <1>3
\* Every step keeps the counters.
LEMMA CountedStep == Base /\ Plans /\ OneLeader /\ Counted /\ [Next]_vars => Counted'
<1> SUFFICES ASSUME Base, Plans, OneLeader, Counted, [Next]_vars, Calm', NEW a \in Accounts
             PROVE  Cardinality(matched'[a]) + One(Waiting(a)') + One(Pushing(a)') <= asked'[a]
  <2>1. (Calm' => \A a \in Accounts :
            Cardinality(matched'[a]) + One(Waiting(a)') + One(Pushing(a)') <= asked'[a]) => Counted'
    BY DEF Counted
  <2> QED
    BY <2>1
<1>0. /\ asked \in [Accounts -> Nat] /\ matched \in [Accounts -> SUBSET (1..MaxMatches)]
      /\ pc \in [Replicas -> {"idle", "mint", "claim", "push"}]
      /\ plan \in [Replicas -> SUBSET SUBSET Accounts]
      /\ batch \in [Replicas -> SUBSET Accounts]
  BY DEF Base, TypeOK
<1>00. Base' /\ Calm
  BY BaseStep, CalmBefore
<1>000. Cardinality(matched[a]) + One(Waiting(a)) + One(Pushing(a)) <= asked[a]
  BY <1>00 DEF Counted
<1>01. Cardinality(matched[a]) \in Nat /\ One(Waiting(a)) \in {0, 1} /\ One(Pushing(a)) \in {0, 1}
       /\ One(Waiting(a)') \in {0, 1} /\ One(Pushing(a)') \in {0, 1}
  <2>1. Cardinality(matched[a]) \in Nat
    BY MatchedFinite DEF Base
  <2> QED
    BY <2>1 DEF One
<1>02. \A r, s \in Replicas : pc[r] # "idle" /\ pc[s] # "idle" => r = s
  BY <1>00 DEF OneLeader
\* It suffices that the player's due does not grow, or that it is counted once more.
<1> DEFINE Due == Cardinality(matched'[a]) + One(Waiting(a)') + One(Pushing(a)') <= asked'[a]
<1>03. ASSUME asked'[a] >= asked[a], matched'[a] = matched[a],
              Waiting(a)' => Waiting(a), Pushing(a)' => Pushing(a)
       PROVE  Due
  BY <1>00, <1>000, <1>03, DueShrinks
<1> HIDE DEF Due
<1>1. ASSUME NEW b \in Accounts, NEW m \in Modes, Start(b, m) PROVE Due
  <2>1. /\ queue' = OffQueue({b}) \cup {[account |-> b, mode |-> m, joinedAt |-> Now]}
        /\ asked' = [asked EXCEPT ![b] = @ + 1]
        /\ UNCHANGED <<pc, plan, batch, matched>>
    BY <1>1 DEF Start, ticks
  <2>2. Pushing(a)' <=> Pushing(a)
    BY <2>1 DEF Pushing
  <2>3. CASE a = b
    <3>1. asked'[a] = asked[a] + 1 /\ matched'[a] = matched[a]
      BY <1>0, <2>1, <2>3
    <3>2. One(Pushing(a)') = One(Pushing(a)) /\ asked[a] \in Nat
      BY <1>0, <2>2 DEF One
    <3> QED
      BY <1>000, <1>01, <3>1, <3>2 DEF Due
  <2>4. CASE a # b
    <3>1. Waiting(a)' => Waiting(a)
      BY <2>1, <2>4 DEF Waiting, InQueue, OffQueue
    <3>2. asked'[a] = asked[a] /\ asked[a] \in Nat
      BY <1>0, <2>1, <2>4
    <3> QED
      BY <1>03, <2>1, <2>2, <3>1, <3>2
  <2> QED
    BY <2>3, <2>4
<1>2. ASSUME /\ queue' \subseteq queue /\ asked'[a] >= asked[a]
             /\ UNCHANGED <<pc, plan, batch, matched>>
      PROVE  Due
  <2>1. Waiting(a)' => Waiting(a)
    BY <1>2 DEF Waiting, InQueue
  <2>2. Pushing(a)' => Pushing(a)
    BY <1>2 DEF Pushing
  <2> QED
    BY <1>03, <1>2, <2>1, <2>2
<1>3. ASSUME NEW r \in Replicas, Read(r) PROVE Due
  <2>1. /\ plan' = [plan EXCEPT ![r] = {Oldest(m) : m \in {k \in Modes : Ripe(k)}} \ {{}}]
        /\ pc[r] = "idle" /\ pc' = [pc EXCEPT ![r] = "mint"]
        /\ UNCHANGED <<queue, asked, batch, matched>>
    BY <1>3 DEF Read, requests
  <2>2. \A m \in Modes : \A b \in Oldest(m) : InQueue(b)
    BY OldestIs DEF Base, InQueue
  <2>3. \A b \in plan'[r] : a \in b => InQueue(a)
    BY <1>0, <2>1, <2>2
  <2>4. Waiting(a)' => Waiting(a)
    <3> SUFFICES ASSUME Waiting(a)', ~ InQueue(a) PROVE Waiting(a)
      BY DEF Waiting
    <3>1. PICK q \in Replicas : a \in UNION plan'[q] \/ (pc'[q] = "claim" /\ a \in batch'[q])
      BY <2>1 DEF Waiting, InQueue
    <3>2. q # r
      BY <1>0, <2>1, <2>3, <3>1
    <3> QED
      BY <1>0, <2>1, <3>1, <3>2 DEF Waiting
  <2>5. Pushing(a)' => Pushing(a)
    BY <1>0, <2>1 DEF Pushing
  <2>6. asked'[a] >= asked[a]
    BY <1>0, <2>1
  <2> QED
    BY <1>03, <2>1, <2>4, <2>5, <2>6
<1>4. ASSUME NEW r \in Replicas, Mint(r) PROVE Due
  <2>1. PICK b \in plan[r] : /\ batch' = [batch EXCEPT ![r] = b]
                             /\ plan' = [plan EXCEPT ![r] = @ \ {b}]
    BY <1>4 DEF Mint
  <2>2. /\ pc[r] = "mint" /\ pc' = [pc EXCEPT ![r] = "claim"]
        /\ UNCHANGED <<queue, asked, matched>>
    BY <1>4 DEF Mint, requests
  <2>3. Waiting(a)' => Waiting(a)
    BY <1>0, <2>1, <2>2 DEF Waiting, InQueue
  <2>4. Pushing(a)' => Pushing(a)
    BY <1>0, <2>1, <2>2 DEF Pushing
  <2>5. asked'[a] >= asked[a]
    BY <1>0, <2>2
  <2> QED
    BY <1>03, <2>2, <2>3, <2>4, <2>5
<1>5. ASSUME NEW r \in Replicas, Claim(r) PROVE Due
  <2>1. /\ pc[r] = "claim" /\ pc' = [pc EXCEPT ![r] = "push"]
        /\ queue' = OffQueue(batch[r])
        /\ UNCHANGED <<asked, plan, batch, matched>>
    BY <1>5 DEF Claim
  <2>2. CASE a \in batch[r]
    <3>1. ~ Waiting(a)'
      <4>1. ~ InQueue(a)'
        BY <2>1, <2>2 DEF InQueue, OffQueue
      <4>2. \A q \in Replicas : a \notin UNION plan'[q]
        <5> TAKE q \in Replicas
        <5>1. CASE q = r
          BY <2>1, <2>2, <5>1 DEF Plans, Forming
        <5>2. CASE q # r
          BY <1>02, <2>1, <5>2 DEF Plans
        <5> QED
          BY <5>1, <5>2
      <4>3. \A q \in Replicas : pc'[q] # "claim"
        BY <1>0, <1>02, <2>1
      <4> QED
        BY <4>1, <4>2, <4>3 DEF Waiting
    <3>2. Waiting(a)
      BY <2>1, <2>2 DEF Waiting
    <3>3. One(Waiting(a)') = 0 /\ One(Waiting(a)) = 1
      BY <3>1, <3>2 DEF One
    <3>4. asked'[a] = asked[a] /\ asked[a] \in Nat /\ matched'[a] = matched[a]
      BY <1>0, <2>1
    <3> QED
      BY <1>000, <1>01, <3>3, <3>4 DEF Due
  <2>3. CASE a \notin batch[r]
    <3>1. Waiting(a)' => Waiting(a)
      BY <1>0, <2>1 DEF Waiting, InQueue, OffQueue
    <3>2. Pushing(a)' => Pushing(a)
      BY <1>0, <2>1, <2>3 DEF Pushing
    <3>3. asked'[a] >= asked[a]
      BY <1>0, <2>1
    <3> QED
      BY <1>03, <2>1, <3>1, <3>2, <3>3
  <2> QED
    BY <2>2, <2>3
<1>6. ASSUME NEW r \in Replicas, Push(r) PROVE Due
  <2>1. PICK b \in batch[r] :
           /\ matched' = IF online[b] THEN [matched EXCEPT ![b] = @ \cup {matchId[r]}] ELSE matched
           /\ batch' = [batch EXCEPT ![r] = @ \ {b}]
           /\ pc' = [pc EXCEPT ![r] = CASE batch[r] # {b} -> "push"
                                        [] batch[r] = {b} /\ plan[r] # {} -> "mint"
                                        [] OTHER -> "idle"]
    BY <1>6 DEF Push
  <2>2. pc[r] = "push" /\ UNCHANGED <<queue, asked, plan>>
    BY <1>6 DEF Push, requests
  <2>3. Waiting(a)' => Waiting(a)
    <3>1. pc'[r] # "claim" /\ \A q \in Replicas : q # r => pc'[q] = pc[q] /\ batch'[q] = batch[q]
      BY <1>0, <2>1
    <3> QED
      BY <2>2, <3>1 DEF Waiting, InQueue
  <2>4. CASE a = b
    <3>1. Pushing(a)
      BY <2>1, <2>2, <2>4 DEF Pushing
    <3>2. ~ Pushing(a)'
      <4>1. a \notin batch'[r]
        BY <1>0, <2>1, <2>4
      <4>2. \A q \in Replicas : q # r => pc'[q] = "idle"
        BY <1>0, <1>02, <2>1, <2>2
      <4> QED
        BY <4>1, <4>2 DEF Pushing
    <3>3. Cardinality(matched'[a]) <= Cardinality(matched[a]) + 1
      <4>1. matched'[a] = matched[a] \cup {matchId[r]} \/ matched'[a] = matched[a]
        BY <1>0, <2>1, <2>4
      <4>2. IsFiniteSet(matched[a])
        BY MatchedFinite DEF Base
      <4>3. Cardinality(matched[a] \cup {matchId[r]}) \in {Cardinality(matched[a]), Cardinality(matched[a]) + 1}
        BY <4>2, FS_AddElement
      <4>4. \/ Cardinality(matched'[a]) = Cardinality(matched[a])
            \/ Cardinality(matched'[a]) = Cardinality(matched[a]) + 1
        BY <4>1, <4>3, Zenon
      <4> QED
        BY <1>01, <4>4
    <3>4. Cardinality(matched'[a]) \in Nat
      <4>1. matched'[a] = matched[a] \cup {matchId[r]} \/ matched'[a] = matched[a]
        BY <1>0, <2>1, <2>4
      <4>2. IsFiniteSet(matched[a])
        BY MatchedFinite DEF Base
      <4>3. IsFiniteSet(matched'[a])
        BY <4>1, <4>2, FS_AddElement
      <4> QED
        BY <4>3, FS_CardinalityType
    <3>5. One(Pushing(a)') = 0 /\ One(Pushing(a)) = 1 /\ One(Waiting(a)') <= One(Waiting(a))
      BY <2>3, <3>1, <3>2 DEF One
    <3>6. asked'[a] = asked[a] /\ asked[a] \in Nat
      BY <1>0, <2>2
    <3> QED
      BY <1>000, <1>01, <3>3, <3>4, <3>5, <3>6 DEF Due
  <2>5. CASE a # b
    <3>1. matched'[a] = matched[a] /\ asked'[a] >= asked[a]
      BY <1>0, <2>1, <2>2, <2>5
    <3>2. Pushing(a)' => Pushing(a)
      BY <1>0, <2>1, <2>2 DEF Pushing
    <3> QED
      BY <1>03, <2>3, <3>1, <3>2
  <2> QED
    BY <2>4, <2>5
<1>7. ASSUME NEW r \in Replicas, TickFails(r) \/ Crash(r) \/ Exit(r) PROVE Due
  <2>1. TickEnds(r) /\ UNCHANGED <<matched, queue, asked>>
    BY <1>7, TickEndsIs DEF TickFails, Crash, Exit, requests
  <2>2. Waiting(a)' => Waiting(a)
    BY <1>0, <2>1 DEF TickEnds, Waiting, InQueue
  <2>3. Pushing(a)' => Pushing(a)
    BY <1>0, <2>1 DEF TickEnds, Pushing
  <2>4. asked'[a] >= asked[a]
    BY <1>0, <2>1
  <2> QED
    BY <1>03, <2>1, <2>2, <2>3, <2>4
<1>8. ASSUME NEW b \in Accounts, Cancel(b) \/ Disconnect(b) \/ Connect(b) \/ Age(b) \/ StartLost(b)
      PROVE  Due
  <2>1. queue' \subseteq queue /\ UNCHANGED <<pc, plan, batch, matched>>
    BY <1>8 DEF Cancel, Disconnect, Connect, Age, StartLost, OffQueue, requests, ticks
  <2>2. asked' = asked \/ asked' = [asked EXCEPT ![b] = @ + 1]
    BY <1>8 DEF Cancel, Disconnect, Connect, Age, StartLost, requests
  <2>3. asked'[a] >= asked[a]
    BY <1>0, <2>2
  <2> QED
    BY <1>2, <2>1, <2>3
<1>9. ASSUME \/ \E r \in Replicas : Demote(r) \/ Elect(r) \/ Stop(r)
             \/ OrphanExpires \/ Lapse \/ UNCHANGED vars
      PROVE  Due
  <2>1. UNCHANGED <<queue, asked, pc, plan, batch, matched>>
    BY <1>9 DEF Demote, Elect, Stop, OrphanExpires, Lapse, vars, requests, ticks
  <2>2. asked'[a] >= asked[a] /\ queue' \subseteq queue
    BY <1>0, <2>1
  <2> QED
    BY <1>2, <2>1, <2>2
<1> QED
  <2>1. Due
    BY <1>1, <1>3, <1>4, <1>5, <1>6, <1>7, <1>8, <1>9 DEF Next, Tick
  <2> QED
    BY <2>1 DEF Due

-----------------------------------------------------------------------------
(* The theorems.                                                           *)

\* The inductive invariant.
IInv == Base /\ Plans /\ Sizes /\ OneLeader /\ Counted

\* The invariant holds at the start.
LEMMA InitIInv == Init => IInv
<1> SUFFICES ASSUME Init PROVE IInv
  OBVIOUS
<1>1. Plans
  BY DEF Init, Plans, Forming
<1>2. Sizes
  <2>1. \A r \in Replicas : ~ Forming(r)
    BY DEF Init, Forming
  <2>2. \A m : Got(m) = {}
    BY DEF Init, Got
  <2> QED
    BY <2>1, <2>2, FS_EmptySet, MatchmakerAssumption DEF Sizes
<1>3. OneLeader
  BY DEF Init, OneLeader
<1>4. Counted
  <2>1. ASSUME NEW a \in Accounts PROVE ~ Waiting(a) /\ ~ Pushing(a) /\ matched[a] = {} /\ asked[a] = 0
    BY DEF Init, Waiting, Pushing, InQueue
  <2> QED
    BY <2>1, FS_EmptySet DEF Counted, One
<1> QED
  BY <1>1, <1>2, <1>3, <1>4, BaseInit DEF IInv

\* Every step keeps the invariant.
LEMMA NextIInv == IInv /\ [Next]_vars => IInv'
BY BaseStep, PlansStep, SizesStep, LeaderStep, CountedStep DEF IInv

\* The invariant says what MatchesSound says.
LEMMA SoundFromIInv == IInv => MatchesSound
<1> SUFFICES ASSUME IInv PROVE MatchesSound
  OBVIOUS
<1>1. OneMatchPerStart
  <2> SUFFICES ASSUME Calm, NEW a \in Accounts PROVE Cardinality(matched[a]) <= asked[a]
    BY DEF OneMatchPerStart, Calm
  <2>1. Cardinality(matched[a]) + One(Waiting(a)) + One(Pushing(a)) <= asked[a]
    BY DEF IInv, Counted
  <2>2. One(Waiting(a)) \in {0, 1} /\ One(Pushing(a)) \in {0, 1} /\ asked[a] \in Nat
    BY DEF One, IInv, Base, TypeOK
  <2>3. Cardinality(matched[a]) \in Nat
    BY MatchedFinite DEF IInv, Base
  <2> QED
    BY <2>1, <2>2, <2>3
<1>2. MatchesApart
  <2>1. \A r, s \in Replicas :
          r # s /\ pc[r] \in {"claim", "push"} /\ pc[s] \in {"claim", "push"} => matchId[r] # matchId[s]
    BY DEF IInv, Base, Ids, Forming
  <2>2. \A m \in 1..matchSeq : Cardinality({a \in Accounts : m \in matched[a]}) <= MatchSize
    BY DEF IInv, Base, TypeOK, Sizes, Got
  <2> QED
    BY <2>1, <2>2 DEF MatchesApart
<1> QED
  BY <1>1, <1>2 DEF MatchesSound

\* Every variable of the matchmaker stays in its type: entries are of the queue's
\* shape, the ids sent were minted, and a batch holds accounts.
THEOREM MatchmakerTypes == Spec => []TypeOK
<1>1. IInv => TypeOK
  BY DEF IInv, Base
<1> QED
  BY <1>1, InitIInv, NextIInv, PTL DEF Spec

\* Whatever crashes, fails over or is retried, a START is good for one match until a
\* lease lapses or a leader stops; and always a match id names one match, of at most
\* MATCH_SIZE players (formMatch of matchmaker.js).
THEOREM MatchesAreSound == Spec => []MatchesSound
BY InitIInv, NextIInv, SoundFromIInv, PTL DEF Spec
=============================================================================
