------------------------------ MODULE LoginGate ------------------------------
(***************************************************************************)
(* Who is let in: the gates before the login endpoints                     *)
(* (src/handlers/_authGate.js), the auth server's store they ask           *)
(* (src/db/authStore.js), and the endpoints that ask them: MajorLogin and  *)
(* PlatformLogin, MajorRegister, GetLoginData; Login asks nothing.         *)
(*                                                                         *)
(* One identity and one game process.  A query of the auth store may fail, *)
(* which lets the request through; tables that are not there turn the      *)
(* store off for the life of the process.  Meanwhile operators, the auth   *)
(* server and other requests change what the gates look at.                *)
(*                                                                         *)
(* Bounds: MaxGateChanges changes from outside, MaxGateFaults failures.    *)
(***************************************************************************)
EXTENDS Integers

CONSTANTS MaxGateChanges, MaxGateFaults

ASSUME LoginGateAssumption == {MaxGateChanges, MaxGateFaults} \subseteq Nat

VARIABLES
    gates,   \* config.auth: lists set, registration, loginToken, exempt (the dev guest), bans, url
    storeOn, \* authStore's flag in this process
    schema,  \* the auth server has made its tables
    guest,   \* auth.guests: state and access_token
    auth,    \* auth.accounts
    game,    \* the document of the game's own row, as far as bans go
    column,  \* the column accounts.banned of the SQLite file
    ask,     \* the request
    always,  \* causes to refuse it that were there all the time
    ever,    \* causes to refuse it that were there some time
    missing, \* the tables were missing some time in the life of the process
    gateChanges, gateFaults

storeVars == <<schema, guest, auth, column, missing, gateChanges>>
askVars == <<ask, always, ever>>
gateVars == <<gates, storeOn, storeVars, game, askVars, gateFaults>>

Guest(state, token) == [state |-> state, token |-> token]
NoGuest == Guest("none", 1)

NoAsk == [endpoint |-> "none", build |-> "listed", token |-> 1, pc |-> "idle",
          loaded |-> "none", unasked |-> {}, reason |-> "none", kicked |-> FALSE]

\* ensure: the store is on where there is a URL.
GateInit ==
    /\ gates \in [lists : SUBSET {"version", "signature"}, registration : BOOLEAN,
                  loginToken : BOOLEAN, exempt : BOOLEAN, bans : BOOLEAN, url : BOOLEAN]
    /\ gates.loginToken => gates.registration
    /\ gates.exempt => gates.registration
    /\ storeOn = gates.url
    /\ schema \in BOOLEAN /\ missing = ~schema
    /\ guest \in {NoGuest, Guest("open", 1)} /\ auth \in {"none", "open"}
    /\ ~schema => guest = NoGuest /\ auth = "none"
    /\ game \in {"none", "open"} /\ column = FALSE
    /\ ask = NoAsk /\ always = {} /\ ever = {}
    /\ gateChanges = 0 /\ gateFaults = 0

\* What an operator means to keep out, of the request that is on its way.
Causes ==
    LET e == ask.endpoint IN
    {c \in {"version"} : c \in gates.lists /\ ask.build = c /\ e = "MajorLogin"} \cup
    {c \in {"signature"} : c \in gates.lists /\ ask.build = c /\ e \in {"MajorLogin", "GetLoginData"}} \cup
    {c \in {"registration"} : /\ gates.registration /\ ~gates.exempt
                              /\ e \in {"MajorLogin", "MajorRegister"}
                              /\ \/ guest.state # "open"
                                 \/ gates.loginToken /\ ask.token # guest.token} \cup
    {c \in {"game ban"} : gates.bans /\ game = "banned" /\ e \in {"MajorLogin", "GetLoginData"}} \cup
    {c \in {"auth ban"} : /\ gates.bans /\ auth \in {"banned", "unauthorized"}
                          /\ e \in {"MajorLogin", "MajorRegister", "GetLoginData"}}

Watch == always' = always \cap Causes' /\ ever' = ever \cup Causes'

-----------------------------------------------------------------------------
\* reject: the decision's kick is published where the handler knows the uid.
Rejected(a, reason) ==
    [a EXCEPT !.pc = "refused", !.reason = reason,
              !.kicked = \/ reason \in {"game ban", "auth ban"} /\ a.endpoint # "MajorRegister"
                         \/ reason = "signature" /\ a.endpoint = "GetLoginData"]

\* Mutant: what there is of a build is checked at MajorRegister too, where it is not sent.
ListedAnywhere(a, c) ==
    c \notin gates.lists \/ (a.endpoint # "MajorRegister" /\ a.build # c)

\* checkVersion, checkSignature; a PlatformRegisterReq has neither, and they are not asked there.
Listed(a, c) == c \notin gates.lists \/ a.build # c \/ a.endpoint = "MajorRegister"

\* checkRegistration up to its query.
AsksGuests == gates.registration /\ storeOn /\ ~gates.exempt

\* checkBan up to its query; a is the request with its document.
BanAsked(a, then) ==
    IF gates.bans /\ a.loaded = "banned" THEN Rejected(a, "game ban")
    ELSE [a EXCEPT !.pc = IF gates.bans /\ storeOn THEN "bans" ELSE then]

LastGate(a) == CASE a.endpoint = "MajorRegister" -> "create"
             [] a.endpoint = "GetLoginData" -> "admitted"
             [] OTHER -> "save"

AfterRegistration(a) ==
    IF a.endpoint = "MajorRegister" THEN BanAsked(a, LastGate(a)) ELSE [a EXCEPT !.pc = "load"]

\* The handler up to its first await.
Gated(a) ==
    IF a.endpoint = "Login" THEN [a EXCEPT !.pc = "load"]
    ELSE IF a.endpoint # "GetLoginData" /\ ~Listed(a, "version") THEN Rejected(a, "version")
    ELSE IF ~Listed(a, "signature") THEN Rejected(a, "signature")
    ELSE IF a.endpoint = "GetLoginData" THEN BanAsked([a EXCEPT !.loaded = game], LastGate(a))
    ELSE IF AsksGuests THEN [a EXCEPT !.pc = "guests"]
    ELSE AfterRegistration(a)

\* A client asks; GetLoginData with the token of an account.  build is the list it is missing
\* from, token what it sends as login_token, where anybody looks at them.
Ask(endpoint, build, token) ==
    /\ ask.pc \notin {"guests", "load", "bans", "save", "create"}
    /\ endpoint = "GetLoginData" => game # "none"
    /\ endpoint = "Login" => build = "listed"
    /\ ask' = Gated([NoAsk EXCEPT !.endpoint = endpoint, !.build = build, !.token = token])
    /\ UNCHANGED <<gates, storeOn, storeVars, game, gateFaults>>
    /\ always' = Causes' /\ ever' = Causes'

-----------------------------------------------------------------------------
\* Mutant: a client that sends no token passes.
WrongIfSent(token) == gates.loginToken /\ token # 0 /\ token # guest.token

\* enforceLoginToken; 0 is no token.
WrongToken(token) == gates.loginToken /\ token # guest.token

\* guestByOpenId: without its table runQuery disables the store and answers no row, so the
\* request that finds this out is refused as not registered.
GuestAnswered ==
    /\ ask.pc = "guests"
    /\ storeOn' = (storeOn /\ schema)
    /\ ask' = IF guest.state # "open" \/ WrongToken(ask.token) THEN Rejected(ask, "registration")
              ELSE AfterRegistration(ask)
    /\ UNCHANGED <<gates, storeVars, game, gateFaults>>
    /\ Watch

\* Mutant: whatever the error, the store is disabled.
FailOff ==
    /\ gateFaults < MaxGateFaults /\ gateFaults' = gateFaults + 1
    /\ \/ /\ ask.pc = "guests"
          /\ ask' = AfterRegistration([ask EXCEPT !.unasked = @ \cup {"registration"}])
       \/ /\ ask.pc = "bans"
          /\ ask' = [ask EXCEPT !.pc = LastGate(ask), !.unasked = @ \cup {"auth ban"}]
    /\ storeOn' = FALSE
    /\ UNCHANGED <<gates, storeVars, game>>
    /\ Watch

\* Mutant: fails closed.
FailShut ==
    /\ gateFaults < MaxGateFaults /\ gateFaults' = gateFaults + 1
    /\ \/ ask.pc = "guests" /\ ask' = Rejected(ask, "registration")
       \/ ask.pc = "bans" /\ ask' = Rejected(ask, "auth ban")
    /\ UNCHANGED <<gates, storeOn, storeVars, game>>
    /\ Watch

\* Any other error is caught by the gate, and the request goes on.
FailOpen ==
    /\ gateFaults < MaxGateFaults /\ gateFaults' = gateFaults + 1
    /\ \/ /\ ask.pc = "guests"
          /\ ask' = AfterRegistration([ask EXCEPT !.unasked = @ \cup {"registration"}])
       \/ /\ ask.pc = "bans"
          /\ ask' = [ask EXCEPT !.pc = LastGate(ask), !.unasked = @ \cup {"auth ban"}]
    /\ UNCHANGED <<gates, storeOn, storeVars, game>>
    /\ Watch

\* getByOpenId: 404 without an account.
Load ==
    /\ ask.pc = "load"
    /\ ask' = IF game = "none" THEN [ask EXCEPT !.pc = "unknown"]
              ELSE IF ask.endpoint = "Login" THEN [ask EXCEPT !.pc = "save", !.loaded = game]
              ELSE BanAsked([ask EXCEPT !.loaded = game], LastGate(ask))
    /\ UNCHANGED <<gates, storeOn, storeVars, game, gateFaults>>
    /\ Watch

\* Mutant: an account that is not authorized is let in.
BannedOnly == auth = "banned"

\* a.banned or a.authorized = false
KeptOut == auth \in {"banned", "unauthorized"}

\* accountByOpenId.
BansAnswered ==
    /\ ask.pc = "bans"
    /\ storeOn' = (storeOn /\ schema)
    /\ ask' = IF KeptOut THEN Rejected(ask, "auth ban") ELSE [ask EXCEPT !.pc = LastGate(ask)]
    /\ UNCHANGED <<gates, storeVars, game, gateFaults>>
    /\ Watch

\* The new token is saved with the whole document, createFromLogin makes or renews the row.
Admit ==
    /\ ask.pc \in {"save", "create"}
    /\ game' = IF ask.pc = "save" THEN ask.loaded ELSE IF game = "none" THEN "open" ELSE game
    /\ ask' = [ask EXCEPT !.pc = "admitted"]
    /\ UNCHANGED <<gates, storeOn, storeVars, gateFaults>>
    /\ Watch

\* A command of the game's own store fails: 500.
AskFails ==
    /\ gateFaults < MaxGateFaults /\ gateFaults' = gateFaults + 1
    /\ ask.pc \in {"load", "save", "create"}
    /\ ask' = [ask EXCEPT !.pc = "failed"]
    /\ UNCHANGED <<gates, storeOn, storeVars, game>>
    /\ Watch

-----------------------------------------------------------------------------
\* Other requests find the tables missing.
OthersAsk ==
    /\ storeOn /\ ~schema /\ (gates.bans \/ gates.registration)
    /\ storeOn' = FALSE
    /\ UNCHANGED <<gates, storeVars, game, askVars, gateFaults>>

\* The process is started anew and asks the store again.
ProcessRestarts ==
    /\ storeOn # gates.url
    /\ storeOn' = gates.url /\ missing' = ~schema
    /\ ask' = NoAsk /\ always' = {} /\ ever' = {}
    /\ UNCHANGED <<gates, schema, guest, auth, column, gateChanges, game, gateFaults>>

\* The auth server makes its tables and rows, issues tokens and blocks guests; operators ban,
\* unban, withdraw and grant authorization.
StoresChange ==
    /\ gateChanges < MaxGateChanges /\ gateChanges' = gateChanges + 1
    /\ \/ ~schema /\ schema' = TRUE /\ UNCHANGED <<guest, auth, game>>
       \/ /\ schema
          /\ guest' \in {Guest("open", 1), Guest("open", 2), Guest("renovation", guest.token)} \ {guest}
          /\ UNCHANGED <<schema, auth, game>>
       \/ /\ schema /\ auth' \in {"open", "banned", "unauthorized"} \ {auth}
          /\ UNCHANGED <<schema, guest, game>>
       \/ /\ game # "none" /\ game' \in {"open", "banned"} \ {game}
          /\ UNCHANGED <<schema, guest, auth>>
    /\ UNCHANGED <<gates, storeOn, column, missing, ask, gateFaults>>
    /\ Watch

\* The dashboard's ban and unban: the column, which no gate reads.
DashboardBan ==
    /\ gateChanges < MaxGateChanges /\ gateChanges' = gateChanges + 1
    /\ column' = ~column
    /\ UNCHANGED <<gates, storeOn, schema, guest, auth, missing, game, askVars, gateFaults>>

GateNext ==
    \/ \E e \in {"MajorLogin", "MajorRegister", "GetLoginData", "Login"},
          b \in {"listed"} \cup gates.lists, t \in IF gates.loginToken THEN {0, 1} ELSE {1} :
          Ask(e, b, t)
    \/ GuestAnswered \/ FailOpen \/ Load \/ BansAnswered \/ Admit \/ AskFails
    \/ OthersAsk \/ ProcessRestarts \/ StoresChange \/ DashboardBan

-----------------------------------------------------------------------------
\* The type invariant.
GateTypeOK ==
    /\ {storeOn, schema, column, missing} \subseteq BOOLEAN
    /\ guest \in [state : {"none", "open", "renovation"}, token : {1, 2}]
    /\ auth \in {"none", "open", "banned", "unauthorized"} /\ game \in {"none", "open", "banned"}
    /\ ask.pc \in {"idle", "guests", "load", "bans", "save", "create",
                   "refused", "unknown", "failed", "admitted"}
    /\ always \subseteq ever
    /\ gateChanges \in 0 .. MaxGateChanges /\ gateFaults \in 0 .. MaxGateFaults

\* Nobody is let in whom a gate meant to keep out from the first step of the request to the
\* last (_authGate.js, "only accounts registered ... may join"), but for the very lookup that
\* failed (it "fails OPEN"), or without the auth server's URL or, once, its tables.
AdmittedIsEligible ==
    ask.pc = "admitted" =>
        always \subseteq ask.unasked \cup
            (IF gates.url /\ ~missing THEN {} ELSE {"registration", "auth ban"})

\* Nobody is refused but for a cause that was there: an error locks no player out
\* (authStore.js), and MajorRegister is not asked for a build it does not carry.
RefusedForCause == ask.pc = "refused" => ask.reason \in ever

\* False, and no part of a run: a forged build is kicked (_authGate.js:51, MajorLogin.js:28);
\* runLoginGate is asked before the account is known, and reject has no uid to kick.
ForgedIsKicked == ask.pc = "refused" /\ ask.reason = "signature" => ask.kicked

\* False, and no part of a run: who is banned in the dashboard stays out (routes/index.js:146).
DashboardBanHolds == column /\ gates.bans => ask.pc # "admitted"
=============================================================================
