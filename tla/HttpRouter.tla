----------------------------- MODULE HttpRouter -----------------------------
(***************************************************************************)
(* The pipeline every request of the game's HTTP client goes through       *)
(* (src/src/protocol/router.js): whose endpoint it is, the replay guard    *)
(* (replayGuard.js), the token, the handler, the save, and player.updated, *)
(* on which the gateway refreshes the document its session caches          *)
(* (src/src/tcp/gateway.js).  Documents are numbered as they are saved.    *)
(*                                                                         *)
(* Bounds: time to MaxTime, in ticks of a second.  The guard runs to its   *)
(* end in one step and knows nothing of sessions: where it is enabled the  *)
(* clock runs and MaxGuarded requests come one after the other; where it   *)
(* is not there is a session, and MaxPosts requests that may overlap.      *)
(***************************************************************************)
EXTENDS Integers, Sequences, FiniteSets, SequencesExt

CONSTANTS Posts, MaxPosts, MaxGuarded, MaxTime, Window, MaxSeen

ASSUME RouterAssumption ==
    MaxPosts \in Nat /\ MaxGuarded \in Nat /\ MaxTime \in Nat /\ Window \in Nat \ {0} /\ MaxSeen \in Nat \ {0}

\* Kinds of endpoint: without a token, changing the document, only reading it, in plaintext,
\* of the other server, in nobody's table.
Endpoints == {"MajorLogin", "ChangeClothes", "GetBackpack", "LogEvent", "Foreign", "Unknown"}
IsPublicEndpoint(e) == e = "MajorLogin"
Owned(e) == e \notin {"Foreign", "Unknown"}
Plaintext(e) == e = "LogEvent"

VARIABLES
    enabled,    \* config.security.replay.enabled
    now,
    seen,       \* the guard's Map: signatures and their expiry, in the order of insertion
    lastSweep,
    post,       \* request -> its endpoint, and how far it is
    recorded,   \* requests the guard let pass: signature and time
    dropped,    \* requests it dropped
    document,   \* number of the document in the store
    updates,    \* player.updated messages published and not yet heard
    caching,    \* of the account on the gateway: none, auth (document read), or live
    snapshot,   \* the document the session caches
    refresh,    \* refreshes under way: -1 asked, or the document read
    blurred,    \* two refreshes overlapped, one was missed during AUTH, or one failed
    posts

routerVars == <<enabled, now, seen, lastSweep, post, recorded, dropped, document, updates, caching,
                snapshot, refresh, blurred, posts>>
guardVars == <<seen, lastSweep, recorded, dropped>>
gatewayVars == <<caching, snapshot, refresh>>

Nothing == [endpoint |-> "none", at |-> "done"]
At(e, at) == IF at = "done" THEN Nothing ELSE [endpoint |-> e, at |-> at]

RouterInit ==
    /\ enabled \in BOOLEAN
    /\ now = 0 /\ seen = <<>> /\ lastSweep = 0
    /\ post = [p \in Posts |-> Nothing]
    /\ recorded = <<>> /\ dropped = <<>>
    /\ document = 0 /\ updates = 0
    /\ caching = "none" /\ snapshot = 0 /\ refresh = <<>> /\ blurred = FALSE
    /\ posts = 0

-----------------------------------------------------------------------------
(* The replay guard.  The signature is the endpoint and the body: an       *)
(* endpoint stands for one body of it.                                     *)

Tick == enabled /\ now < MaxTime /\ now' = now + 1
        /\ UNCHANGED <<enabled, guardVars, post, document, updates, gatewayVars, blurred, posts>>

\* From the front: the expired ones, up to the first live one; then the oldest over the cap.
SweptSeen(entries) ==
    LET live == {i \in DOMAIN entries : entries[i].exp > now}
        expired == IF live = {} THEN Len(entries) ELSE (CHOOSE i \in live : \A j \in live : i <= j) - 1
        rest == SubSeq(entries, expired + 1, Len(entries))
    IN  SubSeq(rest, IF Len(rest) > MaxSeen THEN Len(rest) - MaxSeen + 1 ELSE 1, Len(rest))

SweepDue == enabled /\ now - lastSweep > 1
Current == IF SweepDue THEN SweptSeen(seen) ELSE seen

\* Mutant: an expired signature counts as a replay until it is swept.
LiveLong(sig) == \E i \in DOMAIN Current : Current[i].sig = sig

Live(sig) == \E i \in DOMAIN Current : Current[i].sig = sig /\ Current[i].exp > now

\* Mutant: an expired signature is given a new expiry where it is.
RememberedInPlace(sig) ==
    IF \E i \in DOMAIN Current : Current[i].sig = sig
    THEN [i \in DOMAIN Current |-> IF Current[i].sig = sig THEN [sig |-> sig, exp |-> now + Window]
                                   ELSE Current[i]]
    ELSE SweptSeen(Append(Current, [sig |-> sig, exp |-> now + Window]))

\* Map.delete.
Deleted(entries, sig) ==
    IF \E i \in DOMAIN entries : entries[i].sig = sig
    THEN RemoveAt(entries, CHOOSE i \in DOMAIN entries : entries[i].sig = sig) ELSE entries

\* An expired signature is taken out first, so that the order stays that of expiry.
Remembered(sig) ==
    LET added == Append(Deleted(Current, sig), [sig |-> sig, exp |-> now + Window])
    IN  IF Len(added) > MaxSeen THEN SweptSeen(added) ELSE added

IsReplay(e) ==
    /\ enabled /\ Live(e)
    /\ seen' = Current
    /\ dropped' = Append(dropped, [sig |-> e, time |-> now]) /\ UNCHANGED recorded

IsFresh(e) ==
    /\ enabled => ~ Live(e)
    /\ seen' = IF enabled THEN Remembered(e) ELSE seen
    /\ recorded' = IF enabled THEN Append(recorded, [sig |-> e, time |-> now]) ELSE recorded
    /\ UNCHANGED dropped

-----------------------------------------------------------------------------
(* A request.                                                              *)

Arrived(p, e, at) ==
    /\ post[p].at = "done"
    /\ enabled => \A q \in Posts : post[q].at = "done"
    /\ posts < (IF enabled THEN MaxGuarded ELSE MaxPosts) /\ posts' = posts + 1
    /\ post' = [post EXCEPT ![p] = At(e, at)]
    /\ UNCHANGED <<enabled, now, document, updates, gatewayVars, blurred>>

\* next(), or an empty 200.
PassedOn(p, e) ==
    /\ ~ Owned(e) \/ Plaintext(e)
    /\ Arrived(p, e, "done") /\ UNCHANGED guardVars

\* A 409, an error in decoding, an empty answer for want of a token, or on to the handler:
\* by then the signature is recorded.
Screened(p, e) ==
    /\ Owned(e) /\ ~ Plaintext(e)
    /\ lastSweep' = IF SweepDue THEN now ELSE lastSweep
    /\ \/ IsReplay(e) /\ Arrived(p, e, "done")
       \/ IsFresh(e) /\ Arrived(p, e, "done")
       \/ IsFresh(e) /\ Arrived(p, e, IF IsPublicEndpoint(e) THEN "handler" ELSE "token")

Step(p, from, to) == post[p].at = from /\ post' = [post EXCEPT ![p] = At(@.endpoint, to)]
Unscreened == UNCHANGED <<enabled, now, guardVars, posts>>

\* getByToken: an account, or an empty answer, or the error handler's.
TokenLookup(p) ==
    /\ \E to \in {"handler", "done"} : Step(p, "token", to)
    /\ Unscreened /\ UNCHANGED <<document, updates, gatewayVars, blurred>>

\* The handler; an account is saved if it says so.  MajorLogin has none.
Handle(p) ==
    /\ \E to \in {"done"} \cup (IF post[p].endpoint = "ChangeClothes" THEN {"save"} ELSE {}) :
           Step(p, "handler", to)
    /\ Unscreened /\ UNCHANGED <<document, updates, gatewayVars, blurred>>

Save(p) ==
    /\ Step(p, "save", "publish")
    /\ document' = document + 1
    /\ Unscreened /\ UNCHANGED <<updates, gatewayVars, blurred>>

SaveFails(p) ==
    /\ Step(p, "save", "done")
    /\ Unscreened /\ UNCHANGED <<document, updates, gatewayVars, blurred>>

\* Mutant: nobody is told of a save.
PublishNever(p) ==
    /\ Step(p, "publish", "done")
    /\ Unscreened /\ UNCHANGED <<document, updates, gatewayVars, blurred>>

\* publishPS; one that fails is logged.
Publish(p) ==
    /\ Step(p, "publish", "done")
    /\ \/ updates' = updates + 1 /\ UNCHANGED blurred
       \/ blurred' = TRUE /\ UNCHANGED updates
    /\ Unscreened /\ UNCHANGED <<document, gatewayVars>>

-----------------------------------------------------------------------------
(* The gateway's session of the account.                                   *)

Apart == UNCHANGED <<enabled, now, guardVars, post, document, posts>>

\* AUTH reads the document by the token, and awaits the ban check.
AuthReads ==
    /\ ~ enabled /\ caching = "none" /\ caching' = "auth" /\ snapshot' = document
    /\ Apart /\ UNCHANGED <<updates, refresh, blurred>>

AuthRegisters ==
    /\ caching = "auth" /\ caching' = "live"
    /\ Apart /\ UNCHANGED <<updates, snapshot, refresh, blurred>>

\* A node without the session ignores the message.
HearUpdate ==
    /\ updates > 0 /\ updates' = updates - 1
    /\ refresh' = IF caching = "live" THEN Append(refresh, -1) ELSE refresh
    /\ blurred' = (blurred \/ caching = "auth" \/ (caching = "live" /\ refresh # <<>>))
    /\ Apart /\ UNCHANGED <<caching, snapshot>>

\* getById: answers come in any order.
RefreshReads(i) ==
    /\ refresh[i] = -1 /\ refresh' = [refresh EXCEPT ![i] = document]
    /\ Apart /\ UNCHANGED <<updates, caching, snapshot, blurred>>

RefreshFails(i) ==
    /\ refresh[i] = -1 /\ refresh' = RemoveAt(refresh, i) /\ blurred' = TRUE
    /\ Apart /\ UNCHANGED <<updates, caching, snapshot>>

\* Object.assign into the entry's account.
RefreshAssigns(i) ==
    /\ refresh[i] # -1 /\ snapshot' = refresh[i] /\ refresh' = RemoveAt(refresh, i)
    /\ Apart /\ UNCHANGED <<updates, caching, blurred>>

RouterNext ==
    \/ Tick
    \/ \E p \in Posts, e \in Endpoints : PassedOn(p, e) \/ Screened(p, e)
    \/ \E p \in Posts : TokenLookup(p) \/ Handle(p) \/ Save(p) \/ SaveFails(p) \/ Publish(p)
    \/ AuthReads \/ AuthRegisters \/ HearUpdate
    \/ \E i \in DOMAIN refresh : RefreshReads(i) \/ RefreshFails(i) \/ RefreshAssigns(i)

-----------------------------------------------------------------------------
\* The type invariant.
RouterTypeOK ==
    /\ now \in 0 .. MaxTime /\ lastSweep \in 0 .. now
    /\ \A i \in DOMAIN seen : seen[i].exp \in Window .. now + Window
    /\ \A p \in Posts : /\ post[p].endpoint \in Endpoints \cup {"none"}
                        /\ post[p].at \in {"done", "token", "handler", "save", "publish"}
    /\ snapshot \in 0 .. document /\ \A i \in DOMAIN refresh : refresh[i] \in -1 .. document
    /\ caching \in {"none", "auth", "live"} /\ blurred \in BOOLEAN

\* "Because the window is constant, insertion order == expiry order": the Map is sorted by
\* expiry, holds a signature once, and no more of them than the cap.
SeenInOrder ==
    /\ Len(seen) <= MaxSeen
    /\ \A i, j \in DOMAIN seen : i < j => seen[i].exp <= seen[j].exp /\ seen[i].sig # seen[j].sig

\* A repeat within the window is let through only after MaxSeen others; and only a repeat of
\* a request let through within the window is dropped.
ReplaysDropped ==
    /\ \A i, j \in DOMAIN recorded :
           i < j /\ recorded[i].sig = recorded[j].sig =>
               \/ recorded[j].time - recorded[i].time >= Window
               \/ j - i - 1 >= MaxSeen
    /\ \A d \in ToSet(dropped) : \E r \in ToSet(recorded) :
           r.sig = d.sig /\ r.time <= d.time /\ d.time - r.time < Window

\* "refreshes its cached snapshot": when no update is under way a session caches the document
\* last saved, but for refreshes that overlapped, failed, or were missed during AUTH.
SnapshotFollowsSaves ==
    caching = "live" /\ updates = 0 /\ refresh = <<>> /\ ~ blurred
        /\ (\A p \in Posts : post[p].at # "publish") => snapshot = document
=============================================================================
