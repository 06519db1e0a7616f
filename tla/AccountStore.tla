---------------------------- MODULE AccountStore ----------------------------
(***************************************************************************)
(* An account's row in Postgres (db/repo/postgres.js) and everybody who    *)
(* writes it: the HTTP endpoints through the router (protocol/router.js,   *)
(* handlers/), the login endpoints, the admin commands (admin/core.js) and *)
(* settlement's credit.  All but the last load the document, change it in  *)
(* memory and save the whole of it; nothing locks the row or checks that   *)
(* it is still what was loaded.                                            *)
(*                                                                         *)
(* The document keeps the token, the coins, the wallet's copy of them, the *)
(* ban flag and the coins spent on items (the backpack).  auth is the ban  *)
(* flag of the auth server's own row, where the account has one.           *)
(*                                                                         *)
(* Bounds: Tokens, one a login; MaxCredits rewards, MaxBans bans,          *)
(* MaxBuys purchases, MaxFaults failed commands.                           *)
(***************************************************************************)
EXTENDS Integers, FiniteSets

CONSTANTS Requests, Tokens, NoToken, NoDoc, StartCoins, Price, Prize,
          MaxCredits, MaxBans, MaxBuys, MaxFaults

ASSUME AccountStoreAssumption ==
    /\ NoToken \notin Tokens /\ StartCoins \in Nat /\ Price \in Nat \ {0} /\ Prize \in Nat \ {0}
    /\ {MaxCredits, MaxBans, MaxBuys, MaxFaults} \subseteq Nat

Doc == [token : Tokens \cup {NoToken}, coins : Nat, wallet : Nat, banned : BOOLEAN, spent : Nat]

VARIABLES
    row,         \* what Postgres has
    auth,        \* auth.accounts.banned
    hasAuth,     \* the auth store has a row of this account
    op, doc,     \* request -> what it does, the document in its memory
    pc,          \* request -> "idle", "check" (the auth store), "save", "auth"
    issued,      \* tokens generated
    session,     \* how the player came in last: by the gate ("login"), by the "alias"
    outlawed,    \* a ban is complete and nobody started to lift it
    late,        \* logins by the gate that started while outlawed
    overlapped,  \* history: someone started while another had the document
    credits, bans, buys, faults

request == <<op, doc, pc>>
counters == <<credits, bans, buys, faults>>
login == <<issued, session>>
ban == <<outlawed, late, hasAuth>>
vars == <<row, auth, request, login, ban, overlapped, counters>>

Init ==
    /\ row = [token |-> NoToken, coins |-> StartCoins, wallet |-> StartCoins, banned |-> FALSE, spent |-> 0]
    /\ auth = FALSE
    /\ op = [q \in Requests |-> "none"]
    /\ doc = [q \in Requests |-> NoDoc]
    /\ pc = [q \in Requests |-> "idle"]
    /\ issued = {} /\ session = "none"
    /\ hasAuth \in BOOLEAN
    /\ outlawed = FALSE /\ late = {} /\ overlapped = FALSE
    /\ credits = 0 /\ bans = 0 /\ buys = 0 /\ faults = 0

Fault == faults < MaxFaults /\ faults' = faults + 1 /\ UNCHANGED <<credits, bans, buys>>

Overlap == overlapped' = (overlapped \/ \E q \in Requests : pc[q] # "idle")

\* Request q has loaded the row, and waits at step.
Loaded(q, o, d, step) ==
    /\ pc[q] = "idle" /\ Overlap
    /\ op' = [op EXCEPT ![q] = o]
    /\ doc' = [doc EXCEPT ![q] = d]
    /\ pc' = [pc EXCEPT ![q] = step]

Finish(q) ==
    /\ op' = [op EXCEPT ![q] = "none"]
    /\ doc' = [doc EXCEPT ![q] = NoDoc]
    /\ pc' = [pc EXCEPT ![q] = "idle"]

-----------------------------------------------------------------------------
(* Endpoints behind a token: getByToken, then the handler changes the      *)
(* document at once.  A token the row does not have gets an empty answer.  *)

\* Mutant: the item is entered whether or not the coins are there and taken.
PurchaseOnCredit(d) == [d EXCEPT !.spent = @ + Price, !.wallet = d.coins]

\* Mutant: no look at the balance.
PurchaseUnchecked(d) == [d EXCEPT !.coins = @ - Price, !.wallet = d.coins - Price, !.spent = @ + Price]

\* Purchase, PurchaseGacha: an item the coins do not pay is free.
Purchase(d) ==
    IF d.coins >= Price
    THEN [d EXCEPT !.coins = @ - Price, !.wallet = d.coins - Price, !.spent = @ + Price]
    ELSE [d EXCEPT !.wallet = d.coins]

\* Mutant: a purchase without a token.
LoadPurchaseOfAnyone(q) ==
    /\ buys < MaxBuys /\ buys' = buys + 1
    /\ Loaded(q, "purchase", Purchase(row), "save")
    /\ UNCHANGED <<row, auth, login, ban, credits, bans, faults>>

LoadPurchase(q) ==
    /\ row.token # NoToken
    /\ buys < MaxBuys /\ buys' = buys + 1
    /\ Loaded(q, "purchase", Purchase(row), "save")
    /\ UNCHANGED <<row, auth, login, ban, credits, bans, faults>>

LoadLogout(q) ==
    /\ row.token # NoToken
    /\ Loaded(q, "logout", [row EXCEPT !.token = NoToken], "save")
    /\ UNCHANGED <<row, auth, login, ban, counters>>

\* Every other save: endpoints behind a token (clothes, profile, clan, even GetBackpack);
\* and what needs none: admin's nickname and role, by id, and MajorRegister of a known
\* open_id, whose gates were asked before the row is loaded.
LoadOther(q) ==
    /\ Loaded(q, "other", row, "save")
    /\ UNCHANGED <<row, auth, login, ban, counters>>

-----------------------------------------------------------------------------
(* MajorLogin, PlatformLogin: getByOpenId, checkBan on the document and    *)
(* then on the auth store, a new token.                                    *)

LoadLogin(q) ==
    /\ ~row.banned
    /\ Loaded(q, "login", row, "check")
    /\ late' = IF outlawed THEN late \cup {q} ELSE late
    /\ UNCHANGED <<row, auth, login, outlawed, hasAuth, counters>>

Admit(q) ==
    \E t \in Tokens \ issued :
        /\ issued' = issued \cup {t}
        /\ doc' = [doc EXCEPT ![q].token = t]
        /\ pc' = [pc EXCEPT ![q] = "save"]
        /\ UNCHANGED op

\* Login, "deprecated alias that behaves like MajorLogin": neither flag is looked at, a
\* banned account gets its token too.
LoadAlias(q) ==
    /\ \E t \in Tokens \ issued :
          /\ issued' = issued \cup {t}
          /\ Loaded(q, "alias", [row EXCEPT !.token = t], "save")
    /\ UNCHANGED <<row, auth, session, ban, counters>>

\* Mutant: the login looks at the game's own flag only.
CheckGameOnly(q) ==
    /\ pc[q] = "check"
    /\ Admit(q)
    /\ UNCHANGED <<row, auth, session, ban, overlapped, counters>>

CheckBan(q) ==
    /\ pc[q] = "check" /\ ~auth
    /\ Admit(q)
    /\ UNCHANGED <<row, auth, session, ban, overlapped, counters>>

RejectBanned(q) ==
    /\ pc[q] = "check" /\ auth
    /\ Finish(q)
    /\ late' = late \ {q}
    /\ UNCHANGED <<row, auth, login, outlawed, hasAuth, overlapped, counters>>

\* The auth store does not answer: the gate fails open.
CheckFails(q) ==
    /\ Fault
    /\ pc[q] = "check"
    /\ Admit(q)
    /\ UNCHANGED <<row, auth, session, ban, overlapped>>

-----------------------------------------------------------------------------
(* Admin commands: getById, save, then the auth store's flag.              *)

LoadBan(q) ==
    /\ bans < MaxBans /\ bans' = bans + 1
    /\ Loaded(q, "ban", [row EXCEPT !.banned = TRUE], "save")
    /\ UNCHANGED <<row, auth, login, ban, credits, buys, faults>>

\* A document without the flag is not saved.
LoadUnban(q) ==
    /\ Loaded(q, "unban", [row EXCEPT !.banned = FALSE], IF row.banned THEN "save" ELSE "auth")
    /\ outlawed' = FALSE /\ late' = {}
    /\ UNCHANGED <<row, auth, login, hasAuth, counters>>

\* A flag that is not written is not an error: the command goes on.
Concluded(q) ==
    /\ outlawed' = (op[q] = "ban" /\ \A p \in Requests : op[p] # "unban")
    /\ Finish(q)

\* _setAuthBan.
SetAuth(q) ==
    /\ pc[q] = "auth"
    /\ auth' = (hasAuth /\ op[q] = "ban")
    /\ Concluded(q)
    /\ UNCHANGED <<row, login, late, hasAuth, overlapped, counters>>

SetAuthFails(q) ==
    /\ Fault
    /\ pc[q] = "auth"
    /\ Concluded(q)
    /\ UNCHANGED <<row, auth, login, late, hasAuth, overlapped>>

-----------------------------------------------------------------------------

\* save: UPDATE ... SET token, state, ... of the whole document.
Save(q) ==
    /\ pc[q] = "save"
    /\ row' = doc[q]
    /\ session' = CASE op[q] \in {"login", "alias"} -> op[q]
                    [] op[q] = "logout"             -> "none"
                    [] OTHER                        -> session
    /\ IF op[q] \in {"ban", "unban"}
       THEN pc' = [pc EXCEPT ![q] = "auth"] /\ UNCHANGED <<op, doc>>
       ELSE Finish(q)
    /\ late' = late \ {q}
    /\ UNCHANGED <<auth, issued, outlawed, hasAuth, overlapped, counters>>

\* The UPDATE fails: the request does too, and the row stays.
SaveFails(q) ==
    /\ Fault
    /\ pc[q] = "save"
    /\ Finish(q)
    /\ late' = late \ {q}
    /\ UNCHANGED <<row, auth, login, outlawed, hasAuth, overlapped>>

\* settleMatchResult: jsonb_set of the coins, in the row itself.
Credit ==
    /\ Overlap
    /\ credits < MaxCredits /\ credits' = credits + 1
    /\ row' = [row EXCEPT !.coins = @ + Prize]
    /\ UNCHANGED <<auth, request, login, ban, bans, buys, faults>>

Next ==
    \/ Credit
    \/ \E q \in Requests :
          \/ LoadPurchase(q) \/ LoadLogout(q) \/ LoadOther(q)
          \/ LoadLogin(q) \/ LoadAlias(q) \/ CheckBan(q) \/ RejectBanned(q) \/ CheckFails(q)
          \/ LoadBan(q) \/ LoadUnban(q) \/ SetAuth(q) \/ SetAuthFails(q)
          \/ Save(q) \/ SaveFails(q)

Spec == Init /\ [][Next]_vars

-----------------------------------------------------------------------------
(* Properties.                                                             *)

\* Type invariant.
TypeOK ==
    /\ row \in Doc
    /\ {auth, hasAuth, outlawed, overlapped} \subseteq BOOLEAN
    /\ op \in [Requests -> {"none", "purchase", "logout", "other", "login", "alias", "ban", "unban"}]
    /\ doc \in [Requests -> Doc \cup {NoDoc}]
    /\ pc \in [Requests -> {"idle", "check", "save", "auth"}]
    /\ issued \subseteq Tokens /\ session \in {"none", "login", "alias"}
    /\ late \subseteq Requests
    /\ credits \in 0..MaxCredits /\ bans \in 0..MaxBans /\ buys \in 0..MaxBuys /\ faults \in 0..MaxFaults

\* However saves and credits overwrite each other, no coin comes from nowhere: what
\* an account has and has spent it was given.
NoCoinMinted == row.coins + row.spent <= StartCoins + Prize * credits

\* Who comes to the gate (MajorLogin, PlatformLogin) after a ban is complete is rejected:
\* whichever flag a save overwrote, the other one stands.  For an account with a row in the
\* auth store, which answers.  Nothing of the kind holds of the alias.
BannedStaysOut ==
    hasAuth /\ faults = 0 => \A q \in late : ~(op[q] = "login" /\ pc[q] = "save")

\* Both, in every order of requests, credits and bans.
AccountsSound == NoCoinMinted /\ BannedStaysOut

\* After a logout no token authenticates ("so the session can no longer authenticate").
LogoutHolds == session = "none" => row.token = NoToken

\* Until two of them overlap, requests and credits have the effect on the row that
\* the account promises.
Player == INSTANCE Account WITH token <- row.token, coins <- row.coins, spent <- row.spent,
                                banned <- row.banned, door <- session
ImplementsAccount ==
    Player!AccountInit /\ [][Player!AccountNext \/ overlapped']_<<Player!accountVars, overlapped>>
=============================================================================
