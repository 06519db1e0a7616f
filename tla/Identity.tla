------------------------------ MODULE Identity ------------------------------
(***************************************************************************)
(* The identity service (auth/): the login server signs a player in with   *)
(* Discord, the connect server serves the tokens that come of it.          *)
(*                                                                         *)
(* The game opens a WebView, which gets a pairing and polls it; the player *)
(* authorises in a browser, and Discord calls the login server back: it    *)
(* finds or provisions the guest, issues a token pair and completes the    *)
(* pairing, whose payload one poll takes.  Every command of the store      *)
(* (Postgres, or MongoDB without DATABASE_URL) is a step of its own.       *)
(*                                                                         *)
(* A token is the number of the login it comes from, 0 is NULL: a refresh  *)
(* replaces the access token by another one of the login whose refresh     *)
(* token it was given.  Expiry of a token, rate limits and signatures only *)
(* refuse a call and change nothing.                                       *)
(*                                                                         *)
(* Bounds: MaxIssues logins, MaxBlocks changes of a renovation flag by an  *)
(* operator, MaxFailures failed commands, errors of Discord, lost answers.  *)
(***************************************************************************)
EXTENDS Integers, FiniteSets

CONSTANTS Users, Callbacks, Pairs, Polls, Calls, Nobody, Backends,
          Attempts, MaxIssues, MaxBlocks, MaxFailures

ASSUME IdentityAssumption ==
    /\ IsFiniteSet(Users) /\ Nobody \notin Users \cup Pairs
    /\ Backends \subseteq {"pg", "mongo"}
    /\ Attempts \in Nat \ {0} /\ {MaxIssues, MaxBlocks, MaxFailures} \subseteq Nat

VARIABLES
    backend,    \* "pg" or "mongo"
    guest,      \* user -> row of auth.guests: uid (0: no row), access, refresh, renovation
    account,    \* users with a row in auth.accounts
    pairing,    \* pair -> status of its row, "none" before it and "gone" after
    view,       \* pair -> what the WebView that polls it shows
    handed,     \* pair -> terminal payloads given to a poll
    callback,   \* what a Discord callback is doing
    poll,       \* what a poll is doing
    call,       \* what a request to the connect server is doing
    exhausted,  \* users a callback gave up provisioning
    orphaned,   \* users whose account insert failed
    raced,      \* users whose tokens were set or cleared while a refresh was under way
    issues, blocks, failures

process == <<callback, poll, call>>
counters == <<issues, blocks, failures>>
history == <<handed, exhausted, orphaned, raced>>
identityVars == <<backend, guest, account, pairing, view, process, history, counters>>

NoGuest == [uid |-> 0, access |-> 0, refresh |-> 0, renovation |-> FALSE]
NoCallback == [pc |-> "idle", pair |-> Nobody, user |-> Nobody, uid |-> 0, tries |-> 0]
NoPoll == [pc |-> "idle", pair |-> Nobody, seen |-> "none", lost |-> FALSE]
NoCall == [pc |-> "idle", user |-> Nobody, token |-> 0]

Terminal == {"completed", "failed"}

IdentityInit ==
    /\ backend \in Backends
    /\ guest = [u \in Users |-> NoGuest] /\ account = {}
    /\ pairing = [p \in Pairs |-> "none"] /\ view = [p \in Pairs |-> "closed"]
    /\ handed = [p \in Pairs |-> 0]
    /\ callback = [c \in Callbacks |-> NoCallback]
    /\ poll = [w \in Polls |-> NoPoll]
    /\ call = [k \in Calls |-> NoCall]
    /\ exhausted = {} /\ orphaned = {} /\ raced = {}
    /\ issues = 0 /\ blocks = 0 /\ failures = 0

Fault == failures < MaxFailures /\ failures' = failures + 1 /\ UNCHANGED <<issues, blocks>>

-----------------------------------------------------------------------------
(* The pairing (routes/dialog.js, repositories/pairings).                  *)

\* createPending, and the page that polls it.
Dialog(p) ==
    /\ pairing[p] = "none"
    /\ pairing' = [pairing EXCEPT ![p] = "pending"]
    /\ view' = [view EXCEPT ![p] = "polling"]
    /\ UNCHANGED <<backend, guest, account, process, history, counters>>

\* expires_at is past: reads take the row for absent, and it is swept.
Expire(p) ==
    /\ pairing[p] \notin {"none", "gone"}
    /\ pairing' = [pairing EXCEPT ![p] = "gone"]
    /\ UNCHANGED <<backend, guest, account, view, process, history, counters>>

\* Mutant: the status of the row is not part of the UPDATE.
SettledOver(p, status) == [pairing EXCEPT ![p] = IF @ \notin {"none", "gone"} THEN status ELSE @]

\* markCompleted, markFailed: only a pending row.
Settled(p, status) == [pairing EXCEPT ![p] = IF @ = "pending" THEN status ELSE @]

-----------------------------------------------------------------------------
(* The Discord callback (routes/discord.js, login-flow.js).                *)

Idle(c) == callback' = [callback EXCEPT ![c] = NoCallback]

At(c, pc) == callback[c].pc = pc

Goto(c, pc) == callback' = [callback EXCEPT ![c].pc = pc]

\* Only the pairing is left to settle.
Left(c, pc) == callback' = [callback EXCEPT ![c].pc = pc, ![c].user = Nobody]

\* The state is verified and findByPairId finds a pending row.
Begin(c, p) ==
    /\ At(c, "idle") /\ pairing[p] = "pending"
    /\ callback' = [callback EXCEPT ![c] = [NoCallback EXCEPT !.pc = "discord", !.pair = p]]
    /\ UNCHANGED <<backend, guest, account, pairing, view, poll, call, history, counters>>

\* exchangeCode and fetchUser: Discord names the user.
DiscordUser(c, u) ==
    /\ At(c, "discord")
    /\ callback' = [callback EXCEPT ![c].pc = "find", ![c].user = u]
    /\ UNCHANGED <<backend, guest, account, pairing, view, poll, call, history, counters>>

DiscordFails(c) ==
    /\ Fault
    /\ At(c, "discord") /\ Goto(c, "fail")
    /\ UNCHANGED <<backend, guest, account, pairing, view, poll, call, history>>

\* findByDcId: provision, or updateDiscordFields and look at the renovation flag.
Find(c) ==
    /\ At(c, "find")
    /\ LET g == guest[callback[c].user] IN
           IF g.uid # 0 /\ g.renovation THEN Left(c, "fail")
           ELSE Goto(c, IF g.uid = 0 THEN "uid" ELSE "issue")
    /\ UNCHANGED <<backend, guest, account, pairing, view, poll, call, history, counters>>

\* tryMarkFailed.
MarkFailed(c) ==
    /\ At(c, "fail")
    /\ pairing' = Settled(callback[c].pair, "failed")
    /\ Idle(c)
    /\ UNCHANGED <<backend, guest, account, view, poll, call, history, counters>>

\* nextUid: MAX(uid) + 1.
NextUid(c) ==
    /\ At(c, "uid")
    /\ \E last \in Users :
          /\ \A u \in Users : guest[u].uid <= guest[last].uid
          /\ callback' = [callback EXCEPT ![c].pc = "insert", ![c].uid = guest[last].uid + 1]
    /\ UNCHANGED <<backend, guest, account, pairing, view, poll, call, history, counters>>

\* The unique keys of the guests: dc_id, and on Postgres the uid.
Unique(c) ==
    /\ guest[callback[c].user].uid = 0
    /\ backend = "pg" => \A u \in Users : guest[u].uid # callback[c].uid

\* The unique uid of MongoDB's accounts; on Postgres the guests already have it.
AccountUnique(c) == \A u \in account : guest[u].uid # guest[callback[c].user].uid

\* A duplicate key.
Refused(c) ==
    \/ At(c, "insert") /\ ~Unique(c)
    \/ At(c, "account") /\ ~AccountUnique(c)

\* insertUser.
InsertGuest(c) ==
    /\ At(c, "insert") /\ Unique(c)
    /\ guest' = [guest EXCEPT ![callback[c].user].uid = callback[c].uid]
    /\ callback' = [callback EXCEPT ![c].pc = "account", ![c].uid = 0]
    /\ UNCHANGED <<backend, account, pairing, view, poll, call, history, counters>>

\* Mutant: a duplicate key is an error like any other.
DuplicateThrown(c) ==
    /\ Refused(c)
    /\ Idle(c) /\ exhausted' = exhausted \cup {callback[c].user}
    /\ UNCHANGED <<backend, guest, account, pairing, view, poll, call, handed, orphaned, raced, counters>>

\* Mutant: one attempt too many.
RetryOnceMore(c) ==
    /\ Refused(c)
    /\ callback' = [callback EXCEPT ![c].pc = "uid", ![c].uid = 0, ![c].tries = @ + 1]
    /\ UNCHANGED <<backend, guest, account, pairing, view, poll, call, history, counters>>

\* withUidRetry: all over with another uid, Attempts times; once the guest is in, dc_id
\* refuses every one of them.  What it throws leaves the pairing pending.
Duplicate(c) ==
    /\ Refused(c)
    /\ IF callback[c].tries + 1 < Attempts
       THEN /\ callback' = [callback EXCEPT ![c].pc = "uid", ![c].uid = 0, ![c].tries = @ + 1]
            /\ UNCHANGED exhausted
       ELSE Idle(c) /\ exhausted' = exhausted \cup {callback[c].user}
    /\ UNCHANGED <<backend, guest, account, pairing, view, poll, call, handed, orphaned, raced, counters>>

\* Mutant: the account row is left to the game server.
SkipAccount(c) ==
    /\ At(c, "account") /\ Goto(c, "issue")
    /\ UNCHANGED <<backend, guest, account, pairing, view, poll, call, history, counters>>

InsertAccount(c) ==
    /\ At(c, "account") /\ AccountUnique(c)
    /\ account' = account \cup {callback[c].user}
    /\ Goto(c, "issue")
    /\ UNCHANGED <<backend, guest, pairing, view, poll, call, history, counters>>

\* The users a refresh has loaded.
Refreshing == {call[k].user : k \in {k \in Calls : call[k].pc = "rotate"}}

Raced(u) == raced' = IF u \in Refreshing THEN raced \cup {u} ELSE raced

\* issueTokens: setTokens of a new pair.
IssueTokens(c) ==
    /\ At(c, "issue") /\ issues < MaxIssues /\ issues' = issues + 1
    /\ LET u == callback[c].user IN
           /\ guest' = [guest EXCEPT ![u].access = issues', ![u].refresh = issues']
           /\ Raced(u)
    /\ Left(c, "complete")
    /\ UNCHANGED <<backend, account, pairing, view, poll, call,
                   handed, exhausted, orphaned, blocks, failures>>

Complete(c) ==
    /\ At(c, "complete")
    /\ pairing' = Settled(callback[c].pair, "completed")
    /\ Idle(c)
    /\ UNCHANGED <<backend, guest, account, view, poll, call, history, counters>>

\* A command fails: the error handler answers 500 and the pairing stays as it is.
CallbackFails(c) ==
    /\ Fault
    /\ ~At(c, "idle") /\ Idle(c)
    /\ orphaned' = IF At(c, "account") THEN orphaned \cup {callback[c].user} ELSE orphaned
    /\ UNCHANGED <<backend, guest, account, pairing, view, poll, call, handed, exhausted, raced>>

-----------------------------------------------------------------------------
(* The WebView and its polls (static/dialog.js, routes/pair.js).           *)

Polling(p) == {w \in Polls : poll[w].pc # "idle" /\ poll[w].pair = p /\ ~poll[w].lost}

\* The next poll is set up when the one before is answered, or fails.
StartPoll(w, p) ==
    /\ view[p] = "polling" /\ Polling(p) = {} /\ poll[w].pc = "idle"
    /\ poll' = [poll EXCEPT ![w] = [NoPoll EXCEPT !.pc = "select", !.pair = p]]
    /\ UNCHANGED <<backend, guest, account, pairing, view, callback, call, history, counters>>

\* The request breaks: the page polls again, the server goes on with this one.
LosePoll(w) ==
    /\ Fault
    /\ poll[w].pc # "idle" /\ ~poll[w].lost
    /\ poll' = [poll EXCEPT ![w].lost = TRUE]
    /\ UNCHANGED <<backend, guest, account, pairing, view, callback, call, history>>

\* The page's ten minutes, looked at before each poll.
TimeUp(p) ==
    /\ view[p] = "polling" /\ Polling(p) = {}
    /\ view' = [view EXCEPT ![p] = "timed out"]
    /\ UNCHANGED <<backend, guest, account, pairing, process, history, counters>>

\* The answer to poll w: the page stops at a terminal one.
Answer(w, status) ==
    /\ poll' = [poll EXCEPT ![w] = NoPoll]
    /\ view' = [view EXCEPT ![poll[w].pair] =
                    IF poll[w].lost \/ @ # "polling" \/ status = "pending" THEN @ ELSE status]

\* The first command of consumeIfCompleted: the status of a row that is there.
PollSelect(w) ==
    /\ poll[w].pc = "select"
    /\ LET status == pairing[poll[w].pair] IN
           IF status \in Terminal
           THEN /\ poll' = [poll EXCEPT ![w].pc = "delete", ![w].seen = status]
                /\ UNCHANGED view
           ELSE Answer(w, IF status = "pending" THEN status ELSE "expired")
    /\ UNCHANGED <<backend, guest, account, pairing, callback, call, history, counters>>

\* Mutant: the payload of the row that was read, without RETURNING.
AlwaysGiven(w) == TRUE

\* DELETE ... RETURNING gives the row it deleted; MongoDB's deleteOne is not asked.
Given(w) == backend = "mongo" \/ pairing[poll[w].pair] = poll[w].seen

PollDelete(w) ==
    /\ poll[w].pc = "delete"
    /\ LET p == poll[w].pair IN
           /\ pairing' = [pairing EXCEPT ![p] = IF @ = poll[w].seen THEN "gone" ELSE @]
           /\ handed' = [handed EXCEPT ![p] = IF Given(w) THEN @ + 1 ELSE @]
    /\ Answer(w, IF Given(w) THEN poll[w].seen ELSE "expired")
    /\ UNCHANGED <<backend, guest, account, callback, call, exhausted, orphaned, raced, counters>>

PollFails(w) ==
    /\ Fault
    /\ poll[w].pc # "idle"
    /\ poll' = [poll EXCEPT ![w] = NoPoll]
    /\ UNCHANGED <<backend, guest, account, pairing, view, callback, call, history>>

-----------------------------------------------------------------------------
(* The connect server (routes/oauth.js, routes/graph.js, tokens.js).       *)

Doing(k, pc, u, token) ==
    /\ call[k].pc = "idle"
    /\ call' = [call EXCEPT ![k] = [pc |-> pc, user |-> u, token |-> token]]
    /\ UNCHANGED <<backend, guest, account, pairing, view, callback, poll, history, counters>>

\* POST /oauth/token: validateRefreshToken finds the row of the token.
RefreshLoad(k, u) ==
    /\ guest[u].refresh # 0 /\ ~guest[u].renovation
    /\ Doing(k, "rotate", u, guest[u].refresh)

\* Whatever presents a token of a blocked user: validateAccessToken, validateRefreshToken.
ValidateBlocked(k, u) ==
    /\ guest[u].renovation
    /\ guest[u].access # 0 \/ guest[u].refresh # 0
    /\ Doing(k, "clear", u, 0)

\* GET /oauth/logout: both tokens are of one row.
LogoutLoad(k, u) ==
    /\ guest[u].access # 0 /\ guest[u].refresh # 0
    /\ Doing(k, "clear", u, 0)

\* refreshAccessToken, by open_id: the refresh token is not looked at again.
Rotate(k) ==
    /\ call[k].pc = "rotate"
    /\ guest' = [guest EXCEPT ![call[k].user].access = call[k].token]
    /\ call' = [call EXCEPT ![k] = NoCall]
    /\ UNCHANGED <<backend, account, pairing, view, callback, poll, history, counters>>

\* Mutant: a logout forgets the refresh token.
ClearAccess(k) ==
    /\ call[k].pc = "clear"
    /\ guest' = [guest EXCEPT ![call[k].user].access = 0]
    /\ call' = [call EXCEPT ![k] = NoCall] /\ Raced(call[k].user)
    /\ UNCHANGED <<backend, account, pairing, view, callback, poll,
                   handed, exhausted, orphaned, counters>>

\* clearTokens, by open_id.
Clear(k) ==
    /\ call[k].pc = "clear"
    /\ guest' = [guest EXCEPT ![call[k].user].access = 0, ![call[k].user].refresh = 0]
    /\ call' = [call EXCEPT ![k] = NoCall] /\ Raced(call[k].user)
    /\ UNCHANGED <<backend, account, pairing, view, callback, poll,
                   handed, exhausted, orphaned, counters>>

CallFails(k) ==
    /\ Fault
    /\ call[k].pc # "idle"
    /\ call' = [call EXCEPT ![k] = NoCall]
    /\ UNCHANGED <<backend, guest, account, pairing, view, callback, poll, history>>

\* An operator sets or clears the renovation flag.
Block(u) ==
    /\ guest[u].uid # 0 /\ blocks < MaxBlocks /\ blocks' = blocks + 1
    /\ guest' = [guest EXCEPT ![u].renovation = ~@]
    /\ UNCHANGED <<backend, account, pairing, view, process, history, issues, failures>>

-----------------------------------------------------------------------------
PairingNext ==
    \E p \in Pairs :
        \/ Dialog(p) \/ Expire(p) \/ TimeUp(p)
        \/ \E w \in Polls : StartPoll(w, p)
        \/ \E c \in Callbacks : Begin(c, p)

CallbackNext ==
    \E c \in Callbacks :
        \/ \E u \in Users : DiscordUser(c, u)
        \/ DiscordFails(c) \/ Find(c) \/ MarkFailed(c)
        \/ NextUid(c) \/ InsertGuest(c) \/ Duplicate(c) \/ InsertAccount(c)
        \/ IssueTokens(c) \/ Complete(c) \/ CallbackFails(c)

PollNext ==
    \E w \in Polls : LosePoll(w) \/ PollSelect(w) \/ PollDelete(w) \/ PollFails(w)

ConnectNext ==
    \/ \E k \in Calls, u \in Users :
           RefreshLoad(k, u) \/ ValidateBlocked(k, u) \/ LogoutLoad(k, u)
    \/ \E k \in Calls : Rotate(k) \/ Clear(k) \/ CallFails(k)
    \/ \E u \in Users : Block(u)

IdentityNext == PairingNext \/ CallbackNext \/ PollNext \/ ConnectNext

IdentitySpec == IdentityInit /\ [][IdentityNext]_identityVars

-----------------------------------------------------------------------------
Steps == {"idle", "discord", "fail", "find", "uid", "insert", "account", "issue", "complete"}

\* The type invariant; no uid is higher than the number of users.
IdentityTypeOK ==
    /\ backend \in Backends
    /\ guest \in [Users -> [uid : 0 .. Cardinality(Users), access : 0 .. issues,
                            refresh : 0 .. issues, renovation : BOOLEAN]]
    /\ account \subseteq Users /\ exhausted \subseteq Users
    /\ orphaned \subseteq Users /\ raced \subseteq Users
    /\ pairing \in [Pairs -> Terminal \cup {"none", "pending", "gone"}]
    /\ view \in [Pairs -> Terminal \cup {"closed", "polling", "expired", "timed out"}]
    /\ handed \in [Pairs -> Nat]
    /\ callback \in [Callbacks -> [pc : Steps, pair : Pairs \cup {Nobody}, user : Users \cup {Nobody},
                                   uid : 0 .. Cardinality(Users) + 1, tries : 0 .. Attempts - 1]]
    /\ poll \in [Polls -> [pc : {"idle", "select", "delete"}, pair : Pairs \cup {Nobody},
                           seen : Terminal \cup {"none"}, lost : BOOLEAN]]
    /\ call \in [Calls -> [pc : {"idle", "rotate", "clear"}, user : Users \cup {Nobody},
                           token : 0 .. issues]]
    /\ issues \in 0 .. MaxIssues /\ blocks \in 0 .. MaxBlocks /\ failures \in 0 .. MaxFailures

\* The outcome of a sign-in is given to one poll (routes/pair.js: "single-use").
SingleUse == \A p \in Pairs : handed[p] <= 1

\* On Postgres it is, whatever polls overlap (consumeIfCompleted: DELETE ... RETURNING).
SingleUseOnPostgres == backend = "pg" => SingleUse

\* A guest row has its account row, unless the insert that makes it is still to come, has
\* failed, or on MongoDB is refused for an account with the same uid (completeDiscordLogin:
\* two inserts, and a returning user skips both).
GuestHasAccount ==
    \A u \in Users : guest[u].uid # 0 =>
        \/ u \in account \cup orphaned
        \/ \E c \in Callbacks : At(c, "account") /\ callback[c].user = u
        \/ backend = "mongo" /\ \E v \in account \ {u} : guest[v].uid = guest[u].uid

\* Two guests have one uid on MongoDB only, whose guests have no unique key on it, and then
\* one of them has no account (nextUid reads before it inserts).
UidOfOneAccount ==
    \A u, v \in Users : u # v /\ guest[u].uid # 0 /\ guest[u].uid = guest[v].uid =>
        backend = "mongo" /\ ~ ({u, v} \subseteq account)

\* With no more users than attempts, a callback gives up provisioning only for a user whose
\* guest row is there: uids that collide are retried often enough (withUidRetry).
RetriedEnough ==
    Cardinality(Users) <= Attempts => \A u \in exhausted : guest[u].uid # 0

\* The two tokens of a row are of one login, or both are cleared, unless a refresh was
\* between its two commands (validateRefreshToken, refreshAccessToken) at a login or logout.
TokensOfOneLogin == \A u \in Users \ raced : guest[u].access = guest[u].refresh

\* A page is told "expired" only when the row is gone: no outcome is left behind that the
\* page will not ask for again (markCompleted and markFailed, consumeIfCompleted).
ExpiredIsGone == \A p \in Pairs : view[p] = "expired" => pairing[p] = "gone"

\* The outcome of a sign-in reaches one poll and is not left behind.
SignInsSound == SingleUseOnPostgres /\ ExpiredIsGone

\* The rows of a guest fit together: guest and account, users and their uids, both tokens.
GuestRowsSound == GuestHasAccount /\ UidOfOneAccount /\ RetriedEnough /\ TokensOfOneLogin
=============================================================================
