---------------------------- MODULE Registration ----------------------------
(***************************************************************************)
(* The first login of an identity (src/handlers/MajorRegister.js, Login.js *)
(* and PlatformLogin.js over createFromLogin of src/db/repo/postgres.js).  *)
(*                                                                         *)
(* A new account is two commands: INSERT a placeholder whose state is '{}' *)
(* to get its id, then save the document.  open_id is unique, a client may *)
(* send its request again, log in between the two, and a request may fail  *)
(* at either.  A document read from a placeholder is the default one.      *)
(***************************************************************************)
EXTENDS Integers

CONSTANTS Requests, MaxRegisterFaults

ASSUME RegistrationAssumption == MaxRegisterFaults \in Nat

VARIABLES
    row,         \* the account of the identity
    request,     \* request -> where it is, the document in its memory and what it read
    registered,  \* a registration was answered
    stale,       \* a request saved over another one's save
    registerFaults

registerVars == <<row, request, registered, stale, registerFaults>>

\* state: no row, the placeholder or a document.
Row(state, name, token) == [state |-> state, name |-> name, token |-> token]
NoRow == Row("none", "none", "none")
Placeholder == Row("empty", "none", "none")

NoRequest == [pc |-> "idle", kind |-> "none", doc |-> NoRow, read |-> NoRow]

RegistrationInit ==
    /\ row = NoRow /\ registered = FALSE /\ stale = FALSE
    /\ request = [r \in Requests |-> NoRequest]
    /\ registerFaults = 0

\* rowToAccount: DEFAULT_PLAYER for an empty state, else the state.
LoadedDoc == IF row.state = "empty" THEN Row("doc", "default", "none") ELSE row

\* createFromLogin: getByOpenId, and the request's fields on an account that is there.
RegisterLoad(r) ==
    /\ request[r].pc = "idle"
    /\ request' = [request EXCEPT ![r] =
           IF row.state = "none"
           THEN [pc |-> "insert", kind |-> "register", doc |-> NoRow, read |-> NoRow]
           ELSE [pc |-> "save", kind |-> "register", read |-> row,
                 doc |-> [LoadedDoc EXCEPT !.name = "given"]]]
    /\ UNCHANGED <<row, registered, stale, registerFaults>>

\* INSERT of the placeholder; a duplicate open_id is an error, answered 500.
RegisterInsert(r) ==
    /\ request[r].pc = "insert"
    /\ IF row.state = "none"
       THEN /\ row' = Placeholder
            /\ request' = [request EXCEPT ![r].pc = "save", ![r].read = Placeholder,
                                          ![r].doc = Row("doc", "given", "none")]
       ELSE request' = [request EXCEPT ![r] = NoRequest] /\ UNCHANGED row
    /\ UNCHANGED <<registered, stale, registerFaults>>

\* MajorLogin, PlatformLogin, Login: 404 without a row, else a new token.
LoginLoad(r) ==
    /\ request[r].pc = "idle" /\ row.state # "none"
    /\ request' = [request EXCEPT ![r] = [pc |-> "save", kind |-> "login", read |-> row,
                                          doc |-> [LoadedDoc EXCEPT !.token = r]]]
    /\ UNCHANGED <<row, registered, stale, registerFaults>>

\* Mutant: a registration keeps to the columns of its INSERT.
SaveLoginsOnly(r) ==
    /\ request[r].pc = "save"
    /\ row' = IF request[r].kind = "login" THEN request[r].doc ELSE row
    /\ registered' = (registered \/ request[r].kind = "register")
    /\ stale' = (stale \/ row # request[r].read)
    /\ request' = [request EXCEPT ![r] = NoRequest]
    /\ UNCHANGED registerFaults

\* save: the whole document, and the answer.
SaveDocument(r) ==
    /\ request[r].pc = "save"
    /\ row' = request[r].doc
    /\ registered' = (registered \/ request[r].kind = "register")
    /\ stale' = (stale \/ row # request[r].read)
    /\ request' = [request EXCEPT ![r] = NoRequest]
    /\ UNCHANGED registerFaults

\* A command of the request fails, and it is answered 500.
RequestFails(r) ==
    /\ registerFaults < MaxRegisterFaults /\ registerFaults' = registerFaults + 1
    /\ request[r].pc # "idle"
    /\ request' = [request EXCEPT ![r] = NoRequest]
    /\ UNCHANGED <<row, registered, stale>>

RegistrationNext ==
    \E r \in Requests :
        \/ RegisterLoad(r) \/ RegisterInsert(r) \/ LoginLoad(r) \/ SaveDocument(r)
        \/ RequestFails(r)

-----------------------------------------------------------------------------
\* The type invariant.
RegistrationTypeOK ==
    LET Docs == [state : {"none", "empty", "doc"}, name : {"none", "default", "given"},
                 token : Requests \cup {"none"}] IN
    /\ row \in Docs
    /\ request \in [Requests -> [pc : {"idle", "insert", "save"},
                                 kind : {"none", "register", "login"}, doc : Docs, read : Docs]]
    /\ {registered, stale} \subseteq BOOLEAN
    /\ registerFaults \in 0 .. MaxRegisterFaults

\* A player's registration is not lost: once one is answered the row holds its name
\* (createFromLogin: a placeholder, "then persist the doc"), whichever of two requests made
\* the row and whoever failed, unless requests of the identity saved over each other.
RegistrationKept ==
    registered /\ ~stale => row.state = "doc" /\ row.name = "given"
=============================================================================
