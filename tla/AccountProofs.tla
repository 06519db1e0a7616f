---------------------------- MODULE AccountProofs ----------------------------
(***************************************************************************)
(* What every service of a player relies on: the row of the account        *)
(* (AccountStore) and the sessions the gateways open on it                 *)
(* (GatewaySessions).  They share no state: an AUTH only names its account *)
(* by the token a login issued.                                            *)
(***************************************************************************)
EXTENDS AccountStore, GatewaySessions, FiniteSetTheorems, SequenceTheorems, TLAPS

-----------------------------------------------------------------------------
(* The row of an account, for any requests, tokens, prices and rewards:    *)
(* what its balance and its ban are worth when nothing locks the row, and  *)
(* that it is the account of its player until two requests overlap.        *)

Known == issued \cup {NoToken}

\* The coins of a document were given to the account.
Funded(d) == d.coins + d.spent <= StartCoins + Prize * credits

\* The row and every copy of it in memory are documents, under tokens that were
\* issued, whose coins the account was given.
Docs ==
    /\ row.token \in Known /\ Funded(row)
    /\ \A q \in Requests :
          pc[q] # "idle" => doc[q] \in Doc /\ doc[q].token \in Known /\ Funded(doc[q])

\* While a ban is complete the auth store has it and nobody lifts it; who started to
\* log in since is still before the gate.
Gate ==
    hasAuth /\ faults = 0 =>
        /\ late # {} => outlawed
        /\ outlawed => auth /\ \A p \in Requests : op[p] # "unban"
        /\ \A q \in late : op[q] = "login" /\ pc[q] = "check"

\* Only a ban and its lifting go on to the auth store.
Steps == \A q \in Requests : pc[q] = "auth" => op[q] \in {"ban", "unban"}

\* The inductive invariant.
IInv == TypeOK /\ Docs /\ Steps /\ Gate

-----------------------------------------------------------------------------
(* The steps requests are made of.                                         *)

\* A purchase moves coins from the balance to what was spent.
LEMMA PurchaseIs ==
    ASSUME NEW d \in Doc
    PROVE  /\ Purchase(d) \in Doc /\ Purchase(d).token = d.token
           /\ Purchase(d).coins + Purchase(d).spent = d.coins + d.spent
<1>1. d.coins \in Nat /\ d.spent \in Nat /\ d.token \in Tokens \cup {NoToken} /\ Price \in Nat
  BY AccountStoreAssumption DEF Doc
<1>2. CASE d.coins >= Price
  <2>1. Purchase(d) = [d EXCEPT !.coins = d.coins - Price, !.wallet = d.coins - Price, !.spent = d.spent + Price]
    BY <1>2 DEF Purchase
  <2>2. d.coins - Price \in Nat /\ d.spent + Price \in Nat
    BY <1>1, <1>2
  <2>3. Purchase(d) \in Doc /\ Purchase(d).token = d.token
    BY <2>1, <2>2 DEF Doc
  <2>4. Purchase(d).coins = d.coins - Price /\ Purchase(d).spent = d.spent + Price
    BY <2>1 DEF Doc
  <2> QED
    BY <1>1, <2>3, <2>4
<1>3. CASE ~ (d.coins >= Price)
  BY <1>1, <1>3 DEF Purchase, Doc
<1> QED
  BY <1>2, <1>3

\* A request that loads a document that is in order leaves all in order.
LEMMA LoadedDocs ==
    ASSUME TypeOK, Docs, NEW q \in Requests, NEW o, NEW d \in Doc, NEW step,
           Loaded(q, o, d, step), UNCHANGED <<row, issued, credits>>,
           d.token \in Known, d.coins + d.spent = row.coins + row.spent
    PROVE  Docs' /\ (doc \in [Requests -> Doc \cup {NoDoc}])'
<1>1. Funded(d)
  BY DEF Docs, Funded
<1>2. doc' = [doc EXCEPT ![q] = d] /\ pc' = [pc EXCEPT ![q] = step]
  BY DEF Loaded
<1> QED
  BY <1>1, <1>2 DEF Docs, Funded, Known, TypeOK

\* A request that ends leaves the others' documents alone.
LEMMA FinishDocs ==
    ASSUME TypeOK, Docs, NEW q \in Requests, Finish(q), UNCHANGED <<issued, credits>>,
           row' = row \/ (pc[q] # "idle" /\ row' = doc[q])
    PROVE  Docs' /\ (doc \in [Requests -> Doc \cup {NoDoc}])'
BY DEF Finish, Docs, Funded, Known, TypeOK

\* A login takes a new token.
LEMMA AdmitDocs ==
    ASSUME TypeOK, Docs, NEW q \in Requests, pc[q] = "check", Admit(q), UNCHANGED <<row, credits>>
    PROVE  /\ Docs' /\ (doc \in [Requests -> Doc \cup {NoDoc}])'
           /\ issued \subseteq issued' /\ issued' \subseteq Tokens
<1>1. PICK t \in Tokens \ issued : /\ issued' = issued \cup {t}
                                   /\ doc' = [doc EXCEPT ![q] = [@ EXCEPT !.token = t]]
                                   /\ pc' = [pc EXCEPT ![q] = "save"]
  BY DEF Admit
<1>2. doc[q] \in Doc /\ Funded(doc[q])
  BY DEF Docs
<1> DEFINE new == [doc[q] EXCEPT !.token = t]
<1>3. new \in Doc /\ new.token = t /\ new.coins = doc[q].coins /\ new.spent = doc[q].spent
  BY <1>2 DEF Doc
<1>4. Funded(new)
  BY <1>2, <1>3 DEF Funded
<1>5. doc' = [doc EXCEPT ![q] = new]
  BY <1>1 DEF TypeOK
<1> HIDE DEF new
<1>6. Docs'
  BY <1>1, <1>3, <1>4, <1>5 DEF Docs, Funded, Known, TypeOK
<1>7. (doc \in [Requests -> Doc \cup {NoDoc}])'
  BY <1>3, <1>5 DEF TypeOK
<1> QED
  BY <1>1, <1>6, <1>7 DEF TypeOK

-----------------------------------------------------------------------------
(* Initially, and at every step.                                           *)

\* It holds at the start.
LEMMA InitIInv == Init => IInv
<1> SUFFICES ASSUME Init PROVE IInv
  OBVIOUS
<1>1. row \in Doc /\ row.token = NoToken /\ row.coins = StartCoins /\ row.spent = 0
  BY AccountStoreAssumption DEF Init, Doc
<1>2. Funded(row)
  BY <1>1, AccountStoreAssumption DEF Init, Funded
<1>3. TypeOK
  <2>1. /\ op = [q \in Requests |-> "none"] /\ doc = [q \in Requests |-> NoDoc]
        /\ pc = [q \in Requests |-> "idle"] /\ issued = {} /\ session = "none" /\ late = {}
    BY DEF Init
  <2>2. {auth, hasAuth, outlawed, overlapped} \subseteq BOOLEAN
    BY DEF Init
  <2>3. credits \in 0..MaxCredits /\ bans \in 0..MaxBans /\ buys \in 0..MaxBuys /\ faults \in 0..MaxFaults
    BY AccountStoreAssumption DEF Init
  <2> QED
    BY <1>1, <2>1, <2>2, <2>3 DEF TypeOK
<1>4. Docs
  BY <1>1, <1>2 DEF Init, Docs, Known
<1>5. Gate
  BY DEF Init, Gate
<1>6. Steps
  BY DEF Init, Steps
<1> QED
  BY <1>3, <1>4, <1>5, <1>6 DEF IInv

\* Types and coins.
LEMMA DocsStep == IInv /\ [Next]_vars => TypeOK' /\ Docs'
<1> SUFFICES ASSUME IInv, [Next]_vars PROVE TypeOK' /\ Docs'
  OBVIOUS
<1> USE DEF IInv
<1>0. /\ {MaxCredits, MaxBans, MaxBuys, MaxFaults} \subseteq Nat /\ NoToken \notin Tokens
      /\ row \in Doc /\ Purchase(row) \in Doc
  BY AccountStoreAssumption, PurchaseIs DEF TypeOK
<1>a. row.token \in Known /\ Known \subseteq Tokens \cup {NoToken}
  BY DEF TypeOK, Docs, Known
<1>1. CASE Credit
  <2>1. credits \in Nat /\ row.coins \in Nat /\ Prize \in Nat /\ StartCoins \in Nat /\ row.spent \in Nat
    BY AccountStoreAssumption DEF TypeOK, Doc
  <2>2. row' = [row EXCEPT !.coins = row.coins + Prize] /\ credits' = credits + 1 /\ credits' \in 0..MaxCredits
    BY <1>0, <1>1, <2>1 DEF Credit
  <2>3. row' \in Doc /\ row'.token = row.token /\ row'.coins = row.coins + Prize /\ row'.spent = row.spent
    BY <1>0, <2>1, <2>2 DEF Doc
  <2>4. row'.coins + row'.spent <= StartCoins + Prize * credits'
    <3>1. row.coins + row.spent <= StartCoins + Prize * credits
      BY DEF Docs, Funded
    <3>2. Prize * (credits + 1) = Prize * credits + Prize /\ Prize * credits \in Nat
      BY <2>1
    <3> QED
      BY <2>1, <2>2, <2>3, <3>1, <3>2
  <2>5. Docs'
    <3>1. ASSUME NEW q \in Requests, pc[q] # "idle" PROVE Funded(doc[q])'
      <4>1. doc' = doc
        BY <1>1 DEF Credit, request
      <4>2. doc[q].coins + doc[q].spent <= StartCoins + Prize * credits
        BY <3>1 DEF Docs, Funded
      <4>3. doc[q].coins \in Nat /\ doc[q].spent \in Nat
        BY <3>1 DEF Docs, Doc
      <4>4. Prize * (credits + 1) = Prize * credits + Prize /\ Prize * credits \in Nat
        BY <2>1
      <4> QED
        BY <2>1, <2>2, <4>1, <4>2, <4>3, <4>4 DEF Funded
    <3> QED
      BY <1>1, <1>a, <2>3, <2>4, <3>1 DEF Credit, Docs, Known, Funded, request, login
  <2> QED
    BY <1>0, <1>1, <2>2, <2>3, <2>5 DEF Credit, TypeOK, Overlap, request, login, ban
<1>2. ASSUME NEW q \in Requests, LoadPurchase(q) PROVE TypeOK' /\ Docs'
  <2>1. /\ Loaded(q, "purchase", Purchase(row), "save") /\ UNCHANGED <<row, issued, credits>>
        /\ buys' \in 0..MaxBuys
    BY <1>0, <1>2 DEF LoadPurchase, login, TypeOK
  <2>2. Docs' /\ (doc \in [Requests -> Doc \cup {NoDoc}])'
    <3>1. Purchase(row).token \in Known /\ Purchase(row).coins + Purchase(row).spent = row.coins + row.spent
      BY <1>0, <1>a, PurchaseIs
    <3> QED
      BY <1>0, <2>1, <3>1, LoadedDocs
  <2> QED
    BY <1>2, <2>1, <2>2 DEF LoadPurchase, Loaded, Overlap, TypeOK, login, ban
<1>3. ASSUME NEW q \in Requests, LoadLogout(q) PROVE TypeOK' /\ Docs'
  <2> DEFINE d == [row EXCEPT !.token = NoToken]
  <2>1. Loaded(q, "logout", d, "save") /\ UNCHANGED <<row, issued, credits>>
    BY <1>3 DEF LoadLogout, login, counters
  <2>2. d \in Doc /\ d.token \in Known /\ d.coins + d.spent = row.coins + row.spent
    BY <1>0 DEF Doc, Known
  <2>3. Docs' /\ (doc \in [Requests -> Doc \cup {NoDoc}])'
    <3> HIDE DEF d
    <3> QED
      BY <2>1, <2>2, LoadedDocs
  <2> QED
    BY <1>3, <2>1, <2>3 DEF LoadLogout, Loaded, Overlap, TypeOK, login, ban, counters
<1>4. ASSUME NEW q \in Requests, LoadOther(q) PROVE TypeOK' /\ Docs'
  <2>1. Loaded(q, "other", row, "save") /\ UNCHANGED <<row, issued, credits>>
    BY <1>4 DEF LoadOther, login, counters
  <2>2. Docs' /\ (doc \in [Requests -> Doc \cup {NoDoc}])'
    BY <1>0, <1>a, <2>1, LoadedDocs
  <2> QED
    BY <1>4, <2>1, <2>2 DEF LoadOther, Loaded, Overlap, TypeOK, login, ban, counters
<1>5. ASSUME NEW q \in Requests, LoadLogin(q) PROVE TypeOK' /\ Docs'
  <2>1. Loaded(q, "login", row, "check") /\ UNCHANGED <<row, issued, credits>>
    BY <1>5 DEF LoadLogin, login, counters
  <2>2. Docs' /\ (doc \in [Requests -> Doc \cup {NoDoc}])'
    BY <1>0, <1>a, <2>1, LoadedDocs
  <2> QED
    BY <1>5, <2>1, <2>2 DEF LoadLogin, Loaded, Overlap, TypeOK, login, counters
<1>6. ASSUME NEW q \in Requests, LoadBan(q) PROVE TypeOK' /\ Docs'
  <2> DEFINE d == [row EXCEPT !.banned = TRUE]
  <2>1. Loaded(q, "ban", d, "save") /\ UNCHANGED <<row, issued, credits>> /\ bans' \in 0..MaxBans
    BY <1>0, <1>6 DEF LoadBan, login, TypeOK
  <2>2. d \in Doc /\ d.token \in Known /\ d.coins + d.spent = row.coins + row.spent
    BY <1>0, <1>a DEF Doc
  <2>3. Docs' /\ (doc \in [Requests -> Doc \cup {NoDoc}])'
    <3> HIDE DEF d
    <3> QED
      BY <2>1, <2>2, LoadedDocs
  <2> QED
    BY <1>6, <2>1, <2>3 DEF LoadBan, Loaded, Overlap, TypeOK, login, ban
<1>7. ASSUME NEW q \in Requests, LoadUnban(q) PROVE TypeOK' /\ Docs'
  <2> DEFINE d == [row EXCEPT !.banned = FALSE]
             step == IF row.banned THEN "save" ELSE "auth"
  <2>1. Loaded(q, "unban", d, step) /\ UNCHANGED <<row, issued, credits>>
    BY <1>7 DEF LoadUnban, login, counters
  <2>2. d \in Doc /\ d.token \in Known /\ d.coins + d.spent = row.coins + row.spent
    BY <1>0, <1>a DEF Doc
  <2>3. Docs' /\ (doc \in [Requests -> Doc \cup {NoDoc}])'
    <3> HIDE DEF d, step
    <3> QED
      BY <2>1, <2>2, LoadedDocs
  <2> QED
    BY <1>7, <2>1, <2>3 DEF LoadUnban, Loaded, Overlap, TypeOK, login, counters
<1>8. ASSUME NEW q \in Requests, CheckBan(q) \/ CheckFails(q) PROVE TypeOK' /\ Docs'
  <2>1. pc[q] = "check" /\ Admit(q) /\ UNCHANGED <<row, credits>> /\ faults' \in 0..MaxFaults
    BY <1>0, <1>8 DEF CheckBan, CheckFails, Fault, counters, TypeOK
  <2>2. /\ Docs' /\ (doc \in [Requests -> Doc \cup {NoDoc}])'
        /\ issued \subseteq issued' /\ issued' \subseteq Tokens
    BY <2>1, AdmitDocs
  <2>3. (pc \in [Requests -> {"idle", "check", "save", "auth"}])' /\ op' = op
    BY <2>1 DEF Admit, TypeOK
  <2> QED
    BY <1>8, <2>1, <2>2, <2>3 DEF CheckBan, CheckFails, Fault, TypeOK, ban, counters
<1>9. ASSUME NEW q \in Requests, RejectBanned(q) \/ SaveFails(q) \/ SetAuth(q) \/ SetAuthFails(q)
      PROVE  TypeOK' /\ Docs'
  <2>1. Finish(q) /\ UNCHANGED <<row, issued, session, credits, bans, buys, overlapped, hasAuth>>
        /\ faults' \in 0..MaxFaults
    BY <1>0, <1>9 DEF RejectBanned, SaveFails, SetAuth, SetAuthFails, Concluded, Fault, counters, login, TypeOK
  <2>2. Docs' /\ (doc \in [Requests -> Doc \cup {NoDoc}])'
    BY <2>1, FinishDocs
  <2>3. auth' \in BOOLEAN /\ outlawed' \in BOOLEAN /\ late' \subseteq Requests
    BY <1>9 DEF RejectBanned, SaveFails, SetAuth, SetAuthFails, Concluded, TypeOK
  <2> QED
    BY <2>1, <2>2, <2>3 DEF Finish, TypeOK
<1>10. ASSUME NEW q \in Requests, Save(q) PROVE TypeOK' /\ Docs'
  <2>1. pc[q] = "save" /\ row' = doc[q] /\ row' \in Doc /\ row'.token \in Known
        /\ UNCHANGED <<issued, auth, outlawed, hasAuth, overlapped, counters>> /\ late' = late \ {q}
    BY <1>10 DEF Save, Docs
  <2>2. Docs' /\ (doc \in [Requests -> Doc \cup {NoDoc}])'
    <3>1. CASE op[q] \in {"ban", "unban"}
      <4>1. pc' = [pc EXCEPT ![q] = "auth"] /\ UNCHANGED <<op, doc>>
        BY <1>10, <3>1 DEF Save
      <4> QED
        BY <2>1, <4>1 DEF Docs, Funded, Known, TypeOK, counters
    <3>2. CASE op[q] \notin {"ban", "unban"}
      <4>1. Finish(q)
        BY <1>10, <3>2 DEF Save
      <4> QED
        BY <2>1, <4>1, FinishDocs DEF counters
    <3> QED
      BY <3>1, <3>2
  <2>3. session' \in {"none", "login", "alias"}
    BY <1>10 DEF Save, TypeOK
  <2>4. (pc \in [Requests -> {"idle", "check", "save", "auth"}])'
        /\ (op \in [Requests -> {"none", "purchase", "logout", "other", "login", "alias", "ban", "unban"}])'
    BY <1>10 DEF Save, Finish, TypeOK
  <2> QED
    BY <2>1, <2>2, <2>3, <2>4 DEF TypeOK, counters
<1>11. CASE UNCHANGED vars
  BY <1>11 DEF vars, request, login, ban, counters, TypeOK, Docs, Funded, Known
<1>12. ASSUME NEW q \in Requests, LoadAlias(q) PROVE TypeOK' /\ Docs'
  <2>1. PICK t \in Tokens \ issued : /\ issued' = issued \cup {t}
                                     /\ Loaded(q, "alias", [row EXCEPT !.token = t], "save")
    BY <1>12 DEF LoadAlias
  <2> DEFINE d == [row EXCEPT !.token = t]
  <2>2. d \in Doc /\ d.token = t /\ d.coins = row.coins /\ d.spent = row.spent
    BY <1>0 DEF Doc
  <2>3. doc' = [doc EXCEPT ![q] = d] /\ pc' = [pc EXCEPT ![q] = "save"] /\ UNCHANGED <<row, credits>>
    BY <1>12, <2>1 DEF LoadAlias, Loaded, counters
  <2> HIDE DEF d
  <2>4. Docs' /\ (doc \in [Requests -> Doc \cup {NoDoc}])'
    BY <2>1, <2>2, <2>3 DEF Docs, Funded, Known, TypeOK
  <2> QED
    BY <1>12, <2>1, <2>4 DEF LoadAlias, Loaded, Overlap, TypeOK, ban, counters
<1> QED
  BY <1>1, <1>2, <1>3, <1>4, <1>5, <1>6, <1>7, <1>8, <1>9, <1>10, <1>11, <1>12 DEF Next

\* The steps.
LEMMA StepsStep == IInv /\ [Next]_vars => Steps'
<1> SUFFICES ASSUME IInv, [Next]_vars PROVE Steps'
  OBVIOUS
<1> USE DEF IInv, TypeOK, Steps
<1>1. ASSUME NEW q \in Requests,
             LoadPurchase(q) \/ LoadLogout(q) \/ LoadOther(q) \/ LoadLogin(q) \/ LoadAlias(q) \/ LoadBan(q)
      PROVE  Steps'
  BY <1>1 DEF LoadPurchase, LoadLogout, LoadOther, LoadLogin, LoadAlias, LoadBan, Loaded
<1>2. ASSUME NEW q \in Requests, LoadUnban(q) PROVE Steps'
  BY <1>2 DEF LoadUnban, Loaded
<1>3. ASSUME NEW q \in Requests, CheckBan(q) \/ CheckFails(q) PROVE Steps'
  BY <1>3 DEF CheckBan, CheckFails, Admit
<1>4. ASSUME NEW q \in Requests, RejectBanned(q) \/ SaveFails(q) \/ SetAuth(q) \/ SetAuthFails(q)
      PROVE  Steps'
  BY <1>4 DEF RejectBanned, SaveFails, SetAuth, SetAuthFails, Concluded, Finish
<1>5. ASSUME NEW q \in Requests, Save(q) PROVE Steps'
  BY <1>5 DEF Save, Finish
<1>6. CASE Credit \/ UNCHANGED vars
  BY <1>6 DEF Credit, vars, request
<1> QED
  BY <1>1, <1>2, <1>3, <1>4, <1>5, <1>6 DEF Next

\* The ban.
LEMMA GateStep == IInv /\ [Next]_vars => Gate'
<1> SUFFICES ASSUME IInv, [Next]_vars, hasAuth', faults' = 0
             PROVE  /\ late' # {} => outlawed'
                    /\ outlawed' => auth' /\ \A p \in Requests : op'[p] # "unban"
                    /\ \A q \in late' : op'[q] = "login" /\ pc'[q] = "check"
  BY DEF Gate
<1> DEFINE Held == /\ late' # {} => outlawed'
                   /\ outlawed' => auth' /\ \A p \in Requests : op'[p] # "unban"
                   /\ \A q \in late' : op'[q] = "login" /\ pc'[q] = "check"
<1>1. hasAuth' = hasAuth /\ (faults' = faults \/ (faults' = faults + 1 /\ \E q \in Requests : Fault))
  BY DEF Next, vars, ban, counters, Credit, LoadPurchase, LoadLogout, LoadOther, LoadLogin, LoadAlias, CheckBan,
         RejectBanned, CheckFails, LoadBan, LoadUnban, SetAuth, SetAuthFails, Save, SaveFails, Fault
<1>2. hasAuth /\ faults = 0 /\ ~ \E q \in Requests : CheckFails(q) \/ SetAuthFails(q) \/ SaveFails(q)
  <2>1. faults \in Nat
    BY DEF IInv, TypeOK
  <2>2. hasAuth /\ faults = 0
    BY <1>1, <2>1
  <2> QED
    BY <2>2 DEF Fault, CheckFails, SetAuthFails, SaveFails
<1>3. /\ late # {} => outlawed
      /\ outlawed => auth /\ \A p \in Requests : op[p] # "unban"
      /\ \A q \in late : op[q] = "login" /\ pc[q] = "check"
  BY <1>2 DEF IInv, Gate
<1>4. /\ op \in [Requests -> {"none", "purchase", "logout", "other", "login", "alias", "ban", "unban"}]
      /\ pc \in [Requests -> {"idle", "check", "save", "auth"}] /\ late \subseteq Requests
  BY DEF IInv, TypeOK
<1>5. ASSUME NEW q \in Requests,
             LoadPurchase(q) \/ LoadLogout(q) \/ LoadOther(q) \/ LoadAlias(q) \/ LoadBan(q)
      PROVE  Held
  <2>1. PICK o \in {"purchase", "logout", "other", "alias", "ban"} :
           op' = [op EXCEPT ![q] = o] /\ pc[q] = "idle" /\ pc' = [pc EXCEPT ![q] = "save"]
    BY <1>5 DEF LoadPurchase, LoadLogout, LoadOther, LoadAlias, LoadBan, Loaded
  <2>2. UNCHANGED <<auth, outlawed, late>>
    BY <1>5 DEF LoadPurchase, LoadLogout, LoadOther, LoadAlias, LoadBan, ban
  <2> QED
    BY <1>3, <1>4, <2>1, <2>2
<1>6. ASSUME NEW q \in Requests, LoadLogin(q) PROVE Held
  BY <1>3, <1>4, <1>6 DEF LoadLogin, Loaded
<1>7. ASSUME NEW q \in Requests, CheckBan(q) PROVE Held
  BY <1>3, <1>4, <1>7 DEF CheckBan, Admit, ban
<1>8. ASSUME NEW q \in Requests, RejectBanned(q) PROVE Held
  BY <1>3, <1>4, <1>8 DEF RejectBanned, Finish
<1>9. ASSUME NEW q \in Requests, LoadUnban(q) PROVE Held
  BY <1>9 DEF LoadUnban
<1>10. ASSUME NEW q \in Requests, SetAuth(q) PROVE Held
  <2>1. q \notin late /\ late' = late
    BY <1>3, <1>10 DEF SetAuth
  <2>2. \A p \in Requests : op'[p] = (IF p = q THEN "none" ELSE op[p]) /\ (p # q => pc'[p] = pc[p])
    BY <1>4, <1>10 DEF SetAuth, Concluded, Finish
  <2>3. outlawed' = (op[q] = "ban" /\ \A p \in Requests : op[p] # "unban") /\ auth' = (op[q] = "ban")
    BY <1>2, <1>10 DEF SetAuth, Concluded
  <2>4. late # {} => outlawed'
    <3>1. op[q] \in {"ban", "unban"}
      BY <1>10 DEF SetAuth, IInv, Steps
    <3> QED
      BY <1>3, <2>3, <3>1
  <2> QED
    BY <1>3, <1>4, <2>1, <2>2, <2>3, <2>4
<1>11. ASSUME NEW q \in Requests, Save(q) PROVE Held
  BY <1>3, <1>4, <1>11 DEF Save, Finish
<1>12. CASE Credit
  BY <1>3, <1>12 DEF Credit, request, login, ban
<1>13. CASE UNCHANGED vars
  BY <1>3, <1>13 DEF vars, request, ban
<1> QED
  BY <1>2, <1>5, <1>6, <1>7, <1>8, <1>9, <1>10, <1>11, <1>12, <1>13 DEF Next

-----------------------------------------------------------------------------
(* The theorems.                                                           *)

\* Every step keeps it.
LEMMA NextIInv == IInv /\ [Next]_vars => IInv'
BY DocsStep, StepsStep, GateStep DEF IInv

\* It says what AccountsSound says.
LEMMA SoundFromIInv == IInv => AccountsSound
BY DEF IInv, Docs, Funded, Gate, AccountsSound, NoCoinMinted, BannedStaysOut

\* Every variable of the account store stays in its type: among others no balance,
\* in the row or in a copy of it, is ever negative.
THEOREM AccountTypes == Spec => []TypeOK
<1>1. IInv => TypeOK
  BY DEF IInv
<1> QED
  BY <1>1, InitIInv, NextIInv, PTL DEF Spec

\* In every order of requests, credits, bans and failures an account never has and has
\* spent more than it was given, and while the auth store answers nobody who comes to the
\* gate after a ban is complete gets past it.  The deprecated Login has no gate.
THEOREM AccountsAreSound == Spec => []AccountsSound
BY InitIInv, NextIInv, SoundFromIInv, PTL DEF Spec
-----------------------------------------------------------------------------
(* Until two requests overlap, the row is what the account promises.       *)

\* What the document of the one request in flight is to the row it will replace.
Due(o, step, d) ==
    CASE o = "purchase" -> step = "save" /\ row.token # NoToken /\ d = Purchase(row)
      [] o = "logout"   -> step = "save" /\ row.token # NoToken /\ d = [row EXCEPT !.token = NoToken]
      [] o = "other"    -> step = "save" /\ d = row
      [] o = "login"    -> /\ ~row.banned
                           /\ IF step = "check" THEN d = row
                              ELSE \E t \in Tokens \ {row.token} : d = [row EXCEPT !.token = t]
      [] o = "alias"    -> step = "save" /\ \E t \in Tokens \ {row.token} : d = [row EXCEPT !.token = t]
      [] o = "ban"      -> step = "save" /\ d = [row EXCEPT !.banned = TRUE]
      [] o = "unban"    -> step = "save" /\ d = [row EXCEPT !.banned = FALSE]
      [] OTHER          -> FALSE

\* One request at a time, and its document is due: the invariant of the refinement, which
\* holds until somebody starts while another has the document.
Alone ==
    ~overlapped =>
        \A q \in Requests :
            pc[q] # "idle" => /\ \A p \in Requests : pc[p] # "idle" => p = q
                              /\ pc[q] # "auth" => Due(op[q], pc[q], doc[q])

\* A request that loads while nobody else is under way is alone with what it loaded.
LEMMA AloneLoads ==
    ASSUME IInv, NEW q \in Requests, NEW o, NEW d, NEW step \in {"check", "save", "auth"},
           Loaded(q, o, d, step), UNCHANGED row, step # "auth" => Due(o, step, d)
    PROVE  Alone'
<1> SUFFICES ASSUME ~overlapped', NEW r \in Requests, pc'[r] # "idle"
             PROVE  /\ \A p \in Requests : pc'[p] # "idle" => p = r
                    /\ pc'[r] # "auth" => Due(op[r], pc[r], doc[r])'
  BY DEF Alone
<1>1. /\ op' = [op EXCEPT ![q] = o] /\ doc' = [doc EXCEPT ![q] = d] /\ pc' = [pc EXCEPT ![q] = step]
      /\ \A p \in Requests : pc[p] = "idle"
  BY DEF Loaded, Overlap
<1>2. r = q /\ op'[q] = o /\ doc'[q] = d /\ pc'[q] = step /\ \A p \in Requests : p # q => pc'[p] = "idle"
  BY <1>1 DEF IInv, TypeOK
<1>3. Due(op[r], pc[r], doc[r])' = Due(o, step, d)
  BY <1>2 DEF Due, Purchase
<1> QED
  BY <1>2, <1>3

\* Every step keeps the one request alone and its document due.
LEMMA AloneStep == IInv /\ Alone /\ [Next]_vars => Alone'
<1> SUFFICES ASSUME IInv, Alone, [Next]_vars PROVE Alone'
  OBVIOUS
<1>0. /\ op \in [Requests -> {"none", "purchase", "logout", "other", "login", "alias", "ban", "unban"}]
      /\ pc \in [Requests -> {"idle", "check", "save", "auth"}]
      /\ doc \in [Requests -> Doc \cup {NoDoc}] /\ row \in Doc
  BY DEF IInv, TypeOK
<1>1. ASSUME NEW q \in Requests, LoadPurchase(q) PROVE Alone'
  <2>1. /\ Loaded(q, "purchase", Purchase(row), "save") /\ UNCHANGED row
        /\ Due("purchase", "save", Purchase(row))
    BY <1>1 DEF LoadPurchase, Due
  <2> QED
    BY <2>1, AloneLoads
<1>2. ASSUME NEW q \in Requests, LoadLogout(q) PROVE Alone'
  <2>1. /\ Loaded(q, "logout", [row EXCEPT !.token = NoToken], "save") /\ UNCHANGED row
        /\ Due("logout", "save", [row EXCEPT !.token = NoToken])
    BY <1>2 DEF LoadLogout, Due
  <2> QED
    BY <2>1, AloneLoads
<1>3. ASSUME NEW q \in Requests, LoadOther(q) PROVE Alone'
  <2>1. Loaded(q, "other", row, "save") /\ UNCHANGED row /\ Due("other", "save", row)
    BY <1>3 DEF LoadOther, Due
  <2> QED
    BY <2>1, AloneLoads
<1>4. ASSUME NEW q \in Requests, LoadLogin(q) PROVE Alone'
  <2>1. Loaded(q, "login", row, "check") /\ UNCHANGED row /\ Due("login", "check", row)
    BY <1>4 DEF LoadLogin, Due
  <2> QED
    BY <2>1, AloneLoads
<1>5. ASSUME NEW q \in Requests, LoadBan(q) PROVE Alone'
  <2>1. /\ Loaded(q, "ban", [row EXCEPT !.banned = TRUE], "save") /\ UNCHANGED row
        /\ Due("ban", "save", [row EXCEPT !.banned = TRUE])
    BY <1>5 DEF LoadBan, Due
  <2> QED
    BY <2>1, AloneLoads
<1>6. ASSUME NEW q \in Requests, LoadUnban(q) PROVE Alone'
  <2> DEFINE step == IF row.banned THEN "save" ELSE "auth"
             d == [row EXCEPT !.banned = FALSE]
  <2>1. Loaded(q, "unban", d, step) /\ UNCHANGED row
    BY <1>6 DEF LoadUnban
  <2>2. step \in {"save", "auth"} /\ (step # "auth" => Due("unban", step, d))
    BY DEF Due
  <2> HIDE DEF step, d
  <2> QED
    BY <2>1, <2>2, AloneLoads
<1>7. ASSUME NEW q \in Requests, CheckBan(q) \/ CheckFails(q) PROVE Alone'
  <2>1. pc[q] = "check" /\ Admit(q) /\ UNCHANGED <<row, overlapped>>
    BY <1>7 DEF CheckBan, CheckFails
  <2>2. PICK t \in Tokens \ issued : /\ doc' = [doc EXCEPT ![q] = [@ EXCEPT !.token = t]]
                                     /\ pc' = [pc EXCEPT ![q] = "save"] /\ op' = op
    BY <2>1 DEF Admit
  <2> SUFFICES ASSUME ~overlapped, NEW r \in Requests, pc'[r] # "idle"
               PROVE  /\ \A p \in Requests : pc'[p] # "idle" => p = r
                      /\ pc'[r] # "auth" => Due(op[r], pc[r], doc[r])'
    BY <2>1 DEF Alone
  <2>3. (\A p \in Requests : pc[p] # "idle" => p = q) /\ Due(op[q], "check", doc[q])
    BY <2>1 DEF Alone
  <2>4. op[q] = "login" /\ ~row.banned /\ doc[q] = row
    BY <2>3 DEF Due
  <2>5. t # row.token
    <3>1. row.token \in issued \cup {NoToken}
      BY DEF IInv, Docs, Known
    <3> QED
      BY <3>1, AccountStoreAssumption
  <2>6. r = q /\ doc'[q] = [row EXCEPT !.token = t] /\ pc'[q] = "save" /\ op'[q] = "login" /\ row' = row
        /\ \A p \in Requests : p # q => pc'[p] = "idle"
    BY <1>0, <2>1, <2>2, <2>3, <2>4
  <2>7. Due(op[r], pc[r], doc[r])'
    BY <2>4, <2>5, <2>6 DEF Due
  <2> QED
    BY <2>6, <2>7
<1>8. ASSUME NEW q \in Requests, RejectBanned(q) \/ SaveFails(q) \/ SetAuth(q) \/ SetAuthFails(q)
      PROVE  Alone'
  <2>1. Finish(q) /\ UNCHANGED <<row, overlapped>> /\ pc[q] # "idle"
    BY <1>8 DEF RejectBanned, SaveFails, SetAuth, SetAuthFails, Concluded
  <2>2. pc'[q] = "idle" /\ \A p \in Requests : p # q => pc'[p] = pc[p]
    BY <1>0, <2>1 DEF Finish
  <2> QED
    BY <2>1, <2>2 DEF Alone
<1>9. ASSUME NEW q \in Requests, Save(q) PROVE Alone'
  <2>1. UNCHANGED overlapped /\ pc[q] = "save" /\ pc'[q] \in {"idle", "auth"}
        /\ \A p \in Requests : p # q => pc'[p] = pc[p]
    BY <1>0, <1>9 DEF Save, Finish
  <2> QED
    BY <2>1 DEF Alone
<1>10. CASE Credit
  <2>1. UNCHANGED <<op, doc, pc>> /\ overlapped' = (overlapped \/ \E q \in Requests : pc[q] # "idle")
    BY <1>10 DEF Credit, Overlap, request
  <2> QED
    BY <2>1 DEF Alone
<1>11. CASE UNCHANGED vars
  BY <1>11 DEF vars, request, Alone, Due, Purchase
<1>12. ASSUME NEW q \in Requests, LoadAlias(q) PROVE Alone'
  <2>1. PICK t \in Tokens \ issued : Loaded(q, "alias", [row EXCEPT !.token = t], "save")
    BY <1>12 DEF LoadAlias
  <2>2. t # row.token
    <3>1. row.token \in issued \cup {NoToken}
      BY DEF IInv, Docs, Known
    <3> QED
      BY <3>1, AccountStoreAssumption
  <2>3. UNCHANGED row /\ Due("alias", "save", [row EXCEPT !.token = t])
    BY <1>12, <2>2 DEF LoadAlias, Due
  <2> QED
    BY <2>1, <2>3, AloneLoads
<1> QED
  BY <1>1, <1>2, <1>3, <1>4, <1>5, <1>6, <1>7, <1>8, <1>9, <1>10, <1>11, <1>12 DEF Next

\* A save of a document that is due is a step of the account.
LEMMA DueIsAStep ==
    ASSUME IInv, NEW o, NEW d, Due(o, "save", d), row' = d,
           session' = CASE o \in {"login", "alias"} -> o [] o = "logout" -> "none" [] OTHER -> session
    PROVE  Player!AccountNext \/ UNCHANGED Player!accountVars
<1>0. row \in Doc /\ row.coins \in Nat /\ row.spent \in Nat /\ row.banned \in BOOLEAN /\ Price \in Nat
  BY AccountStoreAssumption DEF IInv, TypeOK, Doc
<1>a. /\ o \notin {"login", "alias", "logout"} => session' = session
      /\ o = "logout" => session' = "none"
      /\ o \in {"login", "alias"} => session' = o
  OBVIOUS
<1>1. CASE o = "purchase"
  <2>1. row.token # NoToken /\ row' = Purchase(row)
    BY <1>1 DEF Due
  <2>2. CASE row.coins >= Price
    <3>1. row' = [row EXCEPT !.coins = @ - Price, !.wallet = row.coins - Price, !.spent = @ + Price]
      BY <2>1, <2>2 DEF Purchase
    <3>2. /\ row'.coins = row.coins - Price /\ row'.spent = row.spent + Price
          /\ row'.token = row.token /\ row'.banned = row.banned
      BY <1>0, <3>1 DEF Doc
    <3> QED
      BY <1>1, <1>a, <2>1, <2>2, <3>2 DEF Player!AccountNext, Player!Purchase
  <2>3. CASE ~ (row.coins >= Price)
    <3>1. row' = [row EXCEPT !.wallet = row.coins]
      BY <2>1, <2>3 DEF Purchase
    <3> QED
      BY <1>0, <1>1, <1>a, <3>1 DEF Player!accountVars, Doc
  <2> QED
    BY <2>2, <2>3
<1>2. CASE o = "logout"
  <2>1. row.token # NoToken /\ row' = [row EXCEPT !.token = NoToken]
    BY <1>2 DEF Due
  <2> QED
    BY <1>0, <1>2, <1>a, <2>1 DEF Player!AccountNext, Player!Logout, Doc
<1>3. CASE o = "other"
  BY <1>3, <1>a DEF Due, Player!accountVars
<1>4. CASE o \in {"login", "alias"}
  <2>1. PICK t \in Tokens \ {row.token} : row' = [row EXCEPT !.token = t]
    BY <1>4 DEF Due
  <2>2. Player!Renew(o)
    BY <1>0, <1>4, <1>a, <2>1 DEF Player!Renew, Doc
  <2>3. o = "login" => ~row.banned
    BY <1>4 DEF Due
  <2> QED
    BY <1>4, <2>2, <2>3 DEF Player!AccountNext, Player!Login, Player!LoginAlias
<1>5. CASE o \in {"ban", "unban"}
  <2>1. PICK b \in BOOLEAN : row' = [row EXCEPT !.banned = b]
    BY <1>5 DEF Due
  <2>2. /\ row'.coins = row.coins /\ row'.spent = row.spent /\ row'.token = row.token
        /\ row'.banned = b
    BY <1>0, <2>1 DEF Doc
  <2> QED
    BY <1>0, <1>5, <1>a, <2>2 DEF Player!AccountNext, Player!SetBan, Player!accountVars
<1> QED
  BY <1>1, <1>2, <1>3, <1>4, <1>5 DEF Due

\* Every step but an overlap is a step of the account or leaves it as it is.
LEMMA AccountStepIs ==
    IInv /\ Alone /\ [Next]_vars => [Player!AccountNext \/ overlapped']_<<Player!accountVars, overlapped>>
<1> SUFFICES ASSUME IInv, Alone, [Next]_vars, ~overlapped'
             PROVE  Player!AccountNext \/ UNCHANGED <<Player!accountVars, overlapped>>
  OBVIOUS
<1> DEFINE Goal == Player!AccountNext \/ UNCHANGED <<Player!accountVars, overlapped>>
<1>1. overlapped \in BOOLEAN /\ overlapped' \in BOOLEAN /\ row \in Doc
  BY DocsStep DEF IInv, TypeOK
<1>2. ASSUME UNCHANGED <<row, session>>, Overlap \/ UNCHANGED overlapped PROVE Goal
  BY <1>1, <1>2 DEF Overlap, Player!accountVars
<1>3. ASSUME NEW q \in Requests, Save(q) PROVE Goal
  <2>1. pc[q] = "save" /\ row' = doc[q] /\ UNCHANGED overlapped
    BY <1>3 DEF Save
  <2>2. Due(op[q], "save", doc[q])
    BY <2>1 DEF Alone
  <2>3. session' = CASE op[q] \in {"login", "alias"} -> op[q] [] op[q] = "logout" -> "none" [] OTHER -> session
    BY <1>3 DEF Save
  <2> QED
    BY <2>1, <2>2, <2>3, DueIsAStep
<1>4. CASE Credit
  <2>1. row' = [row EXCEPT !.coins = @ + Prize]
    BY <1>4 DEF Credit
  <2>2. /\ row'.coins = row.coins + Prize /\ row'.spent = row.spent
        /\ row'.token = row.token /\ row'.banned = row.banned /\ session' = session
    BY <1>1, <1>4, <2>1 DEF Credit, login, Doc
  <2> QED
    BY <2>2 DEF Player!AccountNext, Player!Credit
<1>5. ASSUME NEW q \in Requests,
             \/ LoadPurchase(q) \/ LoadLogout(q) \/ LoadOther(q) \/ LoadLogin(q) \/ LoadAlias(q)
             \/ LoadBan(q) \/ LoadUnban(q)
      PROVE  Goal
  <2>1. UNCHANGED <<row, session>> /\ Overlap
    BY <1>5 DEF LoadPurchase, LoadLogout, LoadOther, LoadLogin, LoadAlias, LoadBan, LoadUnban, Loaded, login
  <2> QED
    BY <1>2, <2>1
<1>6. ASSUME NEW q \in Requests,
             CheckBan(q) \/ RejectBanned(q) \/ CheckFails(q) \/ SetAuth(q) \/ SetAuthFails(q) \/ SaveFails(q)
      PROVE  Goal
  <2>1. UNCHANGED <<row, session, overlapped>>
    BY <1>6 DEF CheckBan, RejectBanned, CheckFails, SetAuth, SetAuthFails, SaveFails, login
  <2> QED
    BY <1>2, <2>1
<1>7. CASE UNCHANGED vars
  BY <1>2, <1>7 DEF vars, login
<1> QED
  BY <1>3, <1>4, <1>5, <1>6, <1>7 DEF Next

\* Until somebody starts while another request has the document, every save and credit is
\* one step of the account the player expects: a login, by the gate only if not banned, a logout, a purchase that is paid,
\* a reward, a ban or its lifting, and nothing else moves the row.
THEOREM ImplementsAccountUntilOverlap == Spec => ImplementsAccount
<1>1. Init => Player!AccountInit /\ Alone
  BY DEF Init, Player!AccountInit, Alone
<1>2. IInv /\ [Next]_vars => IInv'
  BY NextIInv
<1>3. IInv /\ Alone /\ [Next]_vars => Alone'
  BY AloneStep
<1> QED
  BY <1>1, <1>2, <1>3, InitIInv, AccountStepIs, PTL DEF Spec, ImplementsAccount

-----------------------------------------------------------------------------
(* Sessions and presence, for any nodes, accounts and sockets, any number  *)
(* of AUTH frames on a socket, of bans and of failures.                    *)

Command == [op : {"set", "del"}, accounts : SUBSET Accounts]

\* What the await of an AUTH is in says of its socket: an AUTH past the token lookup
\* has an account, and its socket is open unless it was caught.
Kinds ==
    \A s \in Sockets :
        /\ conn[s] = "new" => awaiting[s] = "none" /\ entry[s] = Nobody
        /\ conn[s] # "new" => where[s] \in Nodes
        /\ awaiting[s] \in {"ban", "register"} => claims[s] \in Accounts
        /\ s \notin loose /\ awaiting[s] # "none" => conn[s] = "open"

\* A session is its socket's own, unless the socket is loose.
OfSocket ==
    \A n \in Nodes, a \in Accounts :
        LET s == sessions[n][a]
        IN  s # Nobody /\ s \notin loose =>
                conn[s] \in {"open", "dead"} /\ where[s] = n /\ entry[s] = a

SocketInv == GatewayTypeOK /\ Kinds /\ OfSocket /\ OneConnection

\* It holds at the start.
LEMMA SocketInit == GatewayInit => SocketInv
<1> SUFFICES ASSUME GatewayInit PROVE SocketInv
  OBVIOUS
<1> USE DEF GatewayInit
<1>1. GatewayTypeOK
  BY GatewayAssumption DEF GatewayTypeOK
<1>2. Kinds
  BY GatewayAssumption DEF Kinds
<1>3. OfSocket
  BY GatewayAssumption DEF OfSocket
<1>4. OneConnection
  BY GatewayAssumption DEF OneConnection
<1> QED
  BY <1>1, <1>2, <1>3, <1>4 DEF SocketInv

\* What a node sends, what Redis executes and what a crash loses keep the pipelines typed.
LEMMA Pipelines ==
    ASSUME NEW C, NEW f \in [Nodes -> Seq(C)], NEW n \in Nodes
    PROVE  /\ \A c \in C : [f EXCEPT ![n] = Append(@, c)] \in [Nodes -> Seq(C)]
           /\ f[n] # <<>> => [f EXCEPT ![n] = Tail(@)] \in [Nodes -> Seq(C)]
           /\ [f EXCEPT ![n] = <<>>] \in [Nodes -> Seq(C)]
<1>1. \A c \in C : Append(f[n], c) \in Seq(C)
  BY AppendProperties
<1>2. f[n] # <<>> => Tail(f[n]) \in Seq(C)
  BY HeadTailProperties
<1>3. <<>> \in Seq(C)
  BY EmptySeq
<1> QED
  BY <1>1, <1>2, <1>3

\* Every step keeps the types.
LEMMA TypeStep == GatewayTypeOK /\ Kinds /\ [GatewayNext]_gatewayVars => GatewayTypeOK'
<1> SUFFICES ASSUME GatewayTypeOK, Kinds, [GatewayNext]_gatewayVars PROVE GatewayTypeOK'
  OBVIOUS
<1> USE GatewayAssumption DEF GatewayTypeOK, Command
<1>1. CASE UNCHANGED gatewayVars
  BY <1>1 DEF gatewayVars, socketVars, history, banVars
<1>2. ASSUME NEW s \in Sockets, NEW n \in Nodes, Connect(s, n) PROVE GatewayTypeOK'
  BY <1>2 DEF Connect, history, banVars
<1>3. ASSUME NEW s \in Sockets, NEW a \in Accounts \cup {Nobody}, Auth(s, a) PROVE GatewayTypeOK'
  <2>1. auths' \in [Sockets -> 0..MaxAuths]
    BY <1>3 DEF Auth
  <2>2. awaiting' \in [Sockets -> {"none", "token", "ban", "register"}] /\ claims' \in [Sockets -> Accounts \cup {Nobody}]
    BY <1>3 DEF Auth
  <2> QED
    BY <1>3, <2>1, <2>2 DEF Auth, history, banVars
<1>4. ASSUME NEW s \in Sockets, Hangup(s) PROVE GatewayTypeOK'
  BY <1>4 DEF Hangup, Destroyed, Caught, history, banVars
<1>5. ASSUME NEW s \in Sockets, Destroy(s) PROVE GatewayTypeOK'
  BY <1>5 DEF Destroy, Destroyed, Caught
<1>6. ASSUME NEW s \in Sockets, Close(s) PROVE GatewayTypeOK'
  <2> DEFINE n == where[s]
             a == entry[s]
  <2>1. conn' \in [Sockets -> {"new", "open", "dead", "closed"}] /\ n \in Nodes
    BY <1>6 DEF Close, Kinds
  <2>2. CASE a # Nobody /\ sessions[n][a] = s
    <3>1. a \in Accounts
      BY <2>2
    <3>2. sessions' \in [Nodes -> [Accounts -> Sockets \cup {Nobody}]]
      <4>1. sessions' = [sessions EXCEPT ![n][a] = Nobody]
        BY <1>6, <2>2 DEF Close
      <4>2. sessions \in [Nodes -> [Accounts -> Sockets \cup {Nobody}]]
        OBVIOUS
      <4> HIDE DEF n, a
      <4> QED
        BY <2>1, <3>1, <4>1, <4>2
    <3>3. Offline(a) \in Command
      BY <3>1 DEF Offline
    <3>4. commands \in [Nodes -> Seq(Command)]
          /\ commands' = [commands EXCEPT ![n] = Append(@, Offline(a))]
      BY <1>6, <2>2 DEF Close, Send
    <3>5. commands' \in [Nodes -> Seq(Command)]
      <4> HIDE DEF Command
      <4> QED
        BY <2>1, <3>3, <3>4, Pipelines
    <3> QED
      BY <1>6, <2>1, <3>2, <3>5 DEF Close, history, banVars
  <2>3. CASE ~(a # Nobody /\ sessions[n][a] = s)
    BY <1>6, <2>1, <2>3 DEF Close, history, banVars
  <2> QED
    BY <2>2, <2>3
<1>7. ASSUME NEW s \in Sockets, TokenRead(s) PROVE GatewayTypeOK'
  BY <1>7 DEF TokenRead, Destroyed, history
<1>8. ASSUME NEW s \in Sockets, BanRead(s) PROVE GatewayTypeOK'
  BY <1>8 DEF BanRead, history
<1>9. ASSUME NEW s \in Sockets, Register(s) PROVE GatewayTypeOK'
  BY <1>9 DEF Register, Kinds, Destroyed, Registered, Caught, Send, Online, banVars
<1>10. ASSUME NEW s \in Sockets, TokenReadFails(s) PROVE GatewayTypeOK'
  <2>1. failures' \in 0..MaxFailures
    BY <1>10 DEF TokenReadFails, Failure
  <2>2. awaiting' \in [Sockets -> {"none", "token", "ban", "register"}]
    BY <1>10 DEF TokenReadFails
  <2> QED
    BY <1>10, <2>1, <2>2 DEF TokenReadFails, history, banVars
<1>11. ASSUME NEW s \in Sockets, BanReadFails(s) PROVE GatewayTypeOK'
  <2>1. failures' \in 0..MaxFailures
    BY <1>11 DEF BanReadFails, Failure
  <2>2. awaiting' \in [Sockets -> {"none", "token", "ban", "register"}]
    BY <1>11 DEF BanReadFails
  <2> QED
    BY <1>11, <2>1, <2>2 DEF BanReadFails, history, banVars
<1>12. ASSUME NEW n \in Nodes, Heartbeat(n) PROVE GatewayTypeOK'
  <2>1. commands' \in [Nodes -> Seq(Command)]
    <3>1. Online(Connected(n)) \in Command
      BY DEF Online, Connected
    <3>2. commands \in [Nodes -> Seq(Command)]
          /\ commands' = [commands EXCEPT ![n] = Append(@, Online(Connected(n)))]
      BY <1>12 DEF Heartbeat, Send
    <3> HIDE DEF Command
    <3> QED
      BY <3>1, <3>2, Pipelines
  <2> QED
    BY <1>12, <2>1 DEF Heartbeat, socketVars, history, banVars
<1>13. ASSUME NEW n \in Nodes, Execute(n) PROVE GatewayTypeOK'
  <2>1. commands' \in [Nodes -> Seq(Command)]
    <3> commands \in [Nodes -> Seq(Command)] /\ commands[n] # <<>>
          /\ commands' = [commands EXCEPT ![n] = Tail(@)]
      BY <1>13 DEF Execute
    <3> HIDE DEF Command
    <3> QED
      BY Pipelines
  <2>2. presence' \in [Accounts -> Nodes \cup {Nobody}]
    BY <1>13 DEF Execute
  <2> QED
    BY <1>13, <2>1, <2>2 DEF Execute, socketVars, history, banVars
<1>14. ASSUME NEW n \in Nodes, CommandFails(n) PROVE GatewayTypeOK'
  <2>1. commands' \in [Nodes -> Seq(Command)]
    <3> commands \in [Nodes -> Seq(Command)] /\ commands[n] # <<>>
          /\ commands' = [commands EXCEPT ![n] = Tail(@)]
      BY <1>14 DEF CommandFails
    <3> HIDE DEF Command
    <3> QED
      BY Pipelines
  <2>2. failures' \in 0..MaxFailures
    BY <1>14 DEF CommandFails, Failure
  <2> QED
    BY <1>14, <2>1, <2>2 DEF CommandFails, socketVars, history, banVars
<1>15. ASSUME NEW n \in Nodes, Crash(n) PROVE GatewayTypeOK'
  <2>1. failures' \in 0..MaxFailures
    BY <1>15 DEF Crash, Failure
  <2>2. /\ conn' \in [Sockets -> {"new", "open", "dead", "closed"}]
        /\ awaiting' \in [Sockets -> {"none", "token", "ban", "register"}]
        /\ kicks' \subseteq Sockets
    BY <1>15 DEF Crash
  <2>3. commands' \in [Nodes -> Seq(Command)]
    <3> commands \in [Nodes -> Seq(Command)] /\ commands' = [commands EXCEPT ![n] = <<>>]
      BY <1>15 DEF Crash
    <3> HIDE DEF Command
    <3> QED
      BY Pipelines
  <2>4. sessions' \in [Nodes -> [Accounts -> Sockets \cup {Nobody}]]
    BY <1>15 DEF Crash
  <2>5. revokes' \in [Nodes -> SUBSET Accounts]
    BY <1>15 DEF Crash
  <2> QED
    BY <1>15, <2>1, <2>2, <2>3, <2>4, <2>5 DEF Crash, history
<1>16. ASSUME NEW n \in Nodes, NEW a \in Accounts, Revoked(n, a) PROVE GatewayTypeOK'
  <2>1. revokes' \in [Nodes -> SUBSET Accounts]
    BY <1>16 DEF Revoked
  <2>2. kicks' \subseteq Sockets
    BY <1>16 DEF Revoked
  <2> QED
    BY <1>16, <2>1, <2>2 DEF Revoked, socketVars, history
<1>17. ASSUME NEW a \in Accounts, Expire(a) PROVE GatewayTypeOK'
  BY <1>17 DEF Expire, socketVars, history, banVars
<1>18. ASSUME NEW a \in Accounts, Ban(a) PROVE GatewayTypeOK'
  BY <1>18 DEF Ban, socketVars, history
<1> QED
  BY <1>1, <1>2, <1>3, <1>4, <1>5, <1>6, <1>7, <1>8, <1>9, <1>10, <1>11, <1>12, <1>13, <1>14,
     <1>15, <1>16, <1>17, <1>18 DEF GatewayNext, SocketStep

\* The sockets and the sessions, which no other step touches.
SocketState == <<conn, where, awaiting, claims, entry, loose, sessions>>

\* A step that leaves sockets and sessions alone keeps it.
LEMMA QuietSockets ==
    ASSUME Kinds, OfSocket, OneConnection, UNCHANGED SocketState
    PROVE  Kinds' /\ OfSocket' /\ OneConnection'
BY DEF Kinds, OfSocket, OneConnection, SocketState

\* Every step keeps it.
LEMMA SocketStepKeeps == SocketInv /\ [GatewayNext]_gatewayVars => SocketInv'
<1> SUFFICES ASSUME SocketInv, [GatewayNext]_gatewayVars PROVE Kinds' /\ OfSocket' /\ OneConnection'
  BY TypeStep DEF SocketInv
<1> USE GatewayAssumption DEF SocketInv
<1>1. ASSUME NEW s \in Sockets, NEW n \in Nodes, Connect(s, n)
     PROVE  Kinds' /\ OfSocket' /\ OneConnection'
  <2> USE <1>1 DEF GatewayTypeOK, Connect, history
  <2>1. Kinds'
    BY DEF Kinds
  <2>2. OfSocket'
    BY DEF Kinds, OfSocket
  <2>3. OneConnection'
    BY DEF Kinds, OneConnection
  <2> QED
    BY <2>1, <2>2, <2>3
<1>2. ASSUME NEW s \in Sockets, NEW a \in Accounts \cup {Nobody}, Auth(s, a)
     PROVE  Kinds' /\ OfSocket' /\ OneConnection'
  <2> USE <1>2 DEF GatewayTypeOK, Auth, history
  <2>1. Kinds'
    BY DEF Kinds
  <2>2. OfSocket'
    BY DEF Kinds, OfSocket
  <2>3. OneConnection'
    BY DEF Kinds, OneConnection
  <2> QED
    BY <2>1, <2>2, <2>3
<1>3. ASSUME NEW s \in Sockets, Hangup(s)
     PROVE  Kinds' /\ OfSocket' /\ OneConnection'
  <2> USE <1>3 DEF GatewayTypeOK, Hangup, Destroyed, Caught
  <2>1. Kinds'
    BY DEF Kinds
  <2>2. OfSocket'
    BY DEF Kinds, OfSocket
  <2>3. OneConnection'
    BY DEF Kinds, OneConnection
  <2> QED
    BY <2>1, <2>2, <2>3
<1>4. ASSUME NEW s \in Sockets, Destroy(s)
     PROVE  Kinds' /\ OfSocket' /\ OneConnection'
  <2> USE <1>4 DEF GatewayTypeOK, Destroy, Destroyed, Caught
  <2>1. Kinds'
    BY DEF Kinds
  <2>2. OfSocket'
    BY DEF Kinds, OfSocket
  <2>3. OneConnection'
    BY DEF Kinds, OneConnection
  <2> QED
    BY <2>1, <2>2, <2>3
<1>5. ASSUME NEW s \in Sockets, Close(s)
     PROVE  Kinds' /\ OfSocket' /\ OneConnection'
  <2>1. Kinds'
    BY <1>5 DEF Kinds, GatewayTypeOK, Close, history
  <2>2. where[s] \in Nodes
    BY <1>5 DEF Kinds, Close
  <2>3. \A m \in Nodes, b \in Accounts :
            sessions'[m][b] = IF sessions[m][b] = s /\ where[s] = m /\ entry[s] = b
                              THEN Nobody ELSE sessions[m][b]
    <3>1. CASE entry[s] # Nobody /\ sessions[where[s]][entry[s]] = s
      <4>1. entry[s] \in Accounts /\ sessions \in [Nodes -> [Accounts -> Sockets \cup {Nobody}]]
        BY <3>1 DEF GatewayTypeOK
      <4>2. sessions' = [sessions EXCEPT ![where[s]][entry[s]] = Nobody]
        BY <1>5, <3>1 DEF Close
      <4> QED
        BY <2>2, <3>1, <4>1, <4>2
    <3>2. CASE ~(entry[s] # Nobody /\ sessions[where[s]][entry[s]] = s)
      BY <1>5, <3>2 DEF Close
    <3> QED
      BY <3>1, <3>2
  <2>4. /\ conn' = [conn EXCEPT ![s] = "closed"] /\ conn[s] = "dead"
        /\ conn \in [Sockets -> {"new", "open", "dead", "closed"}]
        /\ entry \in [Sockets -> Accounts \cup {Nobody}]
        /\ UNCHANGED <<where, entry, loose>>
    BY <1>5 DEF Close, history, GatewayTypeOK
  <2>5. OfSocket'
    BY <2>3, <2>4 DEF OfSocket
  <2>6. OneConnection'
    BY <2>3, <2>4 DEF OneConnection, Kinds
  <2> QED
    BY <2>1, <2>5, <2>6
<1>6. ASSUME NEW s \in Sockets, TokenRead(s)
     PROVE  Kinds' /\ OfSocket' /\ OneConnection'
  <2> USE <1>6 DEF GatewayTypeOK, TokenRead, Destroyed, history
  <2>1. Kinds'
    BY DEF Kinds
  <2>2. OfSocket'
    BY DEF Kinds, OfSocket
  <2>3. OneConnection'
    BY DEF Kinds, OneConnection
  <2> QED
    BY <2>1, <2>2, <2>3
<1>7. ASSUME NEW s \in Sockets, BanRead(s)
     PROVE  Kinds' /\ OfSocket' /\ OneConnection'
  <2> USE <1>7 DEF GatewayTypeOK, BanRead, history
  <2>1. Kinds'
    BY DEF Kinds
  <2>2. OfSocket'
    BY DEF Kinds, OfSocket
  <2>3. OneConnection'
    BY DEF Kinds, OneConnection
  <2> QED
    BY <2>1, <2>2, <2>3
<1>8. ASSUME NEW s \in Sockets, Register(s)
     PROVE  Kinds' /\ OfSocket' /\ OneConnection'
  <2> USE <1>8 DEF GatewayTypeOK, Register, Destroyed, Registered, Caught
  <2>1. Kinds'
    BY DEF Kinds
  <2>2. OfSocket'
    BY DEF Kinds, OfSocket
  <2>3. OneConnection'
    BY DEF Kinds, OneConnection
  <2> QED
    BY <2>1, <2>2, <2>3
<1>9. ASSUME NEW s \in Sockets, TokenReadFails(s)
     PROVE  Kinds' /\ OfSocket' /\ OneConnection'
  <2> USE <1>9 DEF GatewayTypeOK, TokenReadFails, history
  <2>1. Kinds'
    BY DEF Kinds
  <2>2. OfSocket'
    BY DEF Kinds, OfSocket
  <2>3. OneConnection'
    BY DEF Kinds, OneConnection
  <2> QED
    BY <2>1, <2>2, <2>3
<1>10. ASSUME NEW s \in Sockets, BanReadFails(s)
     PROVE  Kinds' /\ OfSocket' /\ OneConnection'
  <2> USE <1>10 DEF GatewayTypeOK, BanReadFails, history
  <2>1. Kinds'
    BY DEF Kinds
  <2>2. OfSocket'
    BY DEF Kinds, OfSocket
  <2>3. OneConnection'
    BY DEF Kinds, OneConnection
  <2> QED
    BY <2>1, <2>2, <2>3
<1>11. ASSUME NEW n \in Nodes, Crash(n)
     PROVE  Kinds' /\ OfSocket' /\ OneConnection'
  <2> USE <1>11 DEF GatewayTypeOK, Crash, history
  <2>1. Kinds'
    BY DEF Kinds
  <2>2. OfSocket'
    BY DEF Kinds, OfSocket
  <2>3. OneConnection'
    BY DEF Kinds, OneConnection
  <2> QED
    BY <2>1, <2>2, <2>3
<1>12. ASSUME \/ UNCHANGED gatewayVars
              \/ \E n \in Nodes : \/ Heartbeat(n) \/ Execute(n) \/ CommandFails(n)
                                 \/ \E a \in Accounts : Revoked(n, a)
              \/ \E a \in Accounts : Expire(a) \/ Ban(a)
      PROVE  UNCHANGED SocketState
  BY <1>12 DEF SocketState, gatewayVars, socketVars, history, Heartbeat, Execute, CommandFails, Revoked,
               Expire, Ban
<1> QED
  BY <1>1, <1>2, <1>3, <1>4, <1>5, <1>6, <1>7, <1>8, <1>9, <1>10, <1>11, <1>12, QuietSockets
  DEF GatewayNext, SocketStep

-----------------------------------------------------------------------------
(* Presence.  What a node has told Redis or is about to tell it concerns   *)
(* only accounts that used the node; and the last that a node says of an   *)
(* account that used no other is whether it has a session.                 *)

Used ==
    \A a \in Accounts :
        /\ \A n \in Nodes : sessions[n][a] # Nobody => n \in used[a]
        /\ \A n \in Nodes : \A i \in 1..Len(commands[n]) :
               a \in commands[n][i].accounts => n \in used[a]
        /\ presence[a] # Nobody => presence[a] \in used[a]

About(n, a) == {i \in 1..Len(commands[n]) : a \in commands[n][i].accounts}

Agrees(n, a) ==
    /\ \A i \in About(n, a) : (\A j \in About(n, a) : j <= i) =>
           (commands[n][i].op = "set" <=> sessions[n][a] # Nobody)
    /\ About(n, a) = {} => (presence[a] # Nobody <=> sessions[n][a] # Nobody)

Follows == failures = 0 => \A n \in Nodes, a \in Accounts : used[a] \subseteq {n} => Agrees(n, a)

\* What a message put at the end of a queue leaves.
LEMMA SendIs ==
    ASSUME GatewayTypeOK, NEW n \in Nodes, NEW c \in Command, Send(n, c)
    PROVE  /\ Len(commands'[n]) = Len(commands[n]) + 1
           /\ \A i \in 1..Len(commands[n]) : commands'[n][i] = commands[n][i]
           /\ commands'[n][Len(commands[n]) + 1] = c
           /\ \A m \in Nodes \ {n} : commands'[m] = commands[m]
           /\ Len(commands[n]) \in Nat
<1>1. commands[n] \in Seq(Command) /\ commands \in [Nodes -> Seq(Command)]
  BY DEF GatewayTypeOK, Command
<1>2. commands'[n] = Append(commands[n], c) /\ \A m \in Nodes \ {n} : commands'[m] = commands[m]
  BY <1>1 DEF Send
<1> HIDE DEF Command
<1> QED
  BY <1>1, <1>2, AppendProperties, LenProperties

\* What is left of a queue once its first message is taken.
LEMMA TailIs ==
    ASSUME GatewayTypeOK, NEW n \in Nodes, commands[n] # <<>>,
           commands' = [commands EXCEPT ![n] = Tail(@)]
    PROVE  /\ Len(commands[n]) \in Nat \ {0} /\ Len(commands'[n]) = Len(commands[n]) - 1
           /\ \A i \in 1..Len(commands'[n]) : commands'[n][i] = commands[n][i + 1]
           /\ \A m \in Nodes \ {n} : commands'[m] = commands[m]
           /\ Head(commands[n]) = commands[n][1] /\ commands[n][1] \in Command
<1>1. commands[n] \in Seq(Command) /\ commands \in [Nodes -> Seq(Command)]
  BY DEF GatewayTypeOK, Command
<1>2. commands'[n] = Tail(commands[n]) /\ \A m \in Nodes \ {n} : commands'[m] = commands[m]
  BY <1>1
<1> HIDE DEF Command
<1>3. Len(commands[n]) \in Nat \ {0}
  BY <1>1, EmptySeq, LenProperties
<1>4. commands[n][1] \in Command /\ Head(commands[n]) = commands[n][1]
  BY <1>1, <1>3, ElementOfSeq
<1> QED
  BY <1>1, <1>2, <1>3, <1>4, HeadTailProperties

\* What a close sends, and what it sends it for.
LEMMA CloseIs ==
    ASSUME SocketInv, NEW s \in Sockets, Close(s)
    PROVE  LET n == where[s]
               a == entry[s]
           IN  \/ /\ n \in Nodes /\ a \in Accounts /\ sessions[n][a] = s
                  /\ Send(n, Offline(a)) /\ Offline(a) \in Command
                  /\ sessions'[n][a] = Nobody
                  /\ \A m \in Nodes, b \in Accounts :
                        m # n \/ b # a => sessions'[m][b] = sessions[m][b]
               \/ UNCHANGED <<commands, sessions>>
<1> USE DEF SocketInv
<1>1. CASE entry[s] # Nobody /\ sessions[where[s]][entry[s]] = s
  <2>1. entry[s] \in Accounts /\ where[s] \in Nodes
    BY <1>1 DEF GatewayTypeOK, Kinds, Close
  <2>2. sessions \in [Nodes -> [Accounts -> Sockets \cup {Nobody}]]
    BY DEF GatewayTypeOK
  <2>3. sessions' = [sessions EXCEPT ![where[s]][entry[s]] = Nobody]
    BY <1>1 DEF Close
  <2>4. Send(where[s], Offline(entry[s])) /\ Offline(entry[s]) \in Command
    BY <1>1, <2>1 DEF Close, Offline, Command
  <2> QED
    BY <1>1, <2>1, <2>2, <2>3, <2>4
<1>2. CASE ~(entry[s] # Nobody /\ sessions[where[s]][entry[s]] = s)
  BY <1>2 DEF Close
<1> QED
  BY <1>1, <1>2

\* What a registration changes and sends.
LEMMA RegisterIs ==
    ASSUME SocketInv, NEW s \in Sockets, Register(s)
    PROVE  LET n == where[s]
               a == claims[s]
           IN  /\ n \in Nodes /\ a \in Accounts
               /\ Send(n, Online({a})) /\ Online({a}) \in Command
               /\ sessions'[n][a] = s
               /\ \A m \in Nodes, b \in Accounts :
                     m # n \/ b # a => sessions'[m][b] = sessions[m][b]
               /\ used'[a] = used[a] \cup {n}
               /\ \A b \in Accounts \ {a} : used'[b] = used[b]
<1> USE DEF SocketInv
<1>1. where[s] \in Nodes /\ claims[s] \in Accounts
  BY DEF GatewayTypeOK, Kinds, Register
<1>2. /\ sessions \in [Nodes -> [Accounts -> Sockets \cup {Nobody}]]
      /\ used \in [Accounts -> SUBSET Nodes]
  BY DEF GatewayTypeOK
<1>3. /\ sessions' = [sessions EXCEPT ![where[s]][claims[s]] = s]
      /\ used' = [used EXCEPT ![claims[s]] = @ \cup {where[s]}]
      /\ Send(where[s], Online({claims[s]}))
  BY DEF Register, Registered
<1>4. Online({claims[s]}) \in Command
  BY <1>1 DEF Online, Command
<1> QED
  BY <1>1, <1>2, <1>3, <1>4

PresenceState == <<sessions, commands, presence, used>>

\* The steps that touch neither sessions nor presence; only failures count down.
LEMMA QuietPresence ==
    ASSUME GatewayTypeOK, [GatewayNext]_gatewayVars,
           ~ \E s \in Sockets : Close(s) \/ Register(s),
           ~ \E n \in Nodes : Heartbeat(n) \/ Execute(n) \/ CommandFails(n) \/ Crash(n),
           ~ \E a \in Accounts : Expire(a)
    PROVE  UNCHANGED PresenceState
BY DEF PresenceState, GatewayNext, SocketStep, gatewayVars, socketVars, history, Connect, Auth, Hangup, Destroy,
       TokenRead, BanRead, TokenReadFails, BanReadFails, Revoked, Ban

\* Faults are only added.
LEMMA FailuresGrow == [GatewayNext]_gatewayVars => failures' = failures \/ failures' = failures + 1
<1> SUFFICES ASSUME [GatewayNext]_gatewayVars PROVE failures' = failures \/ failures' = failures + 1
  OBVIOUS
<1>1. CASE UNCHANGED gatewayVars
  BY <1>1 DEF gatewayVars
<1>2. CASE \E s \in Sockets : \/ \E n \in Nodes : Connect(s, n)
                             \/ \E a \in Accounts \cup {Nobody} : Auth(s, a)
                             \/ Hangup(s) \/ SocketStep(s) \/ TokenReadFails(s) \/ BanReadFails(s)
  BY <1>2 DEF SocketStep, Connect, Auth, Hangup, Destroy, Close, TokenRead, BanRead, Register,
              TokenReadFails, BanReadFails, Failure
<1>3. CASE \E n \in Nodes : \/ Heartbeat(n) \/ Execute(n) \/ CommandFails(n) \/ Crash(n)
                           \/ \E a \in Accounts : Revoked(n, a)
  BY <1>3 DEF Heartbeat, Execute, CommandFails, Crash, Revoked, Failure
<1>4. CASE \E a \in Accounts : Expire(a) \/ Ban(a)
  BY <1>4 DEF Expire, Ban
<1> QED
  BY <1>1, <1>2, <1>3, <1>4 DEF GatewayNext

\* Every step keeps what is known of the jobs.
LEMMA UsedStep == SocketInv /\ Used /\ [GatewayNext]_gatewayVars => Used'
<1> SUFFICES ASSUME SocketInv, Used, [GatewayNext]_gatewayVars PROVE Used'
  OBVIOUS
<1>0. GatewayTypeOK /\ GatewayTypeOK'
  BY SocketStepKeeps DEF SocketInv
<1>1. ASSUME NEW s \in Sockets, Close(s) PROVE Used'
  <2>1. UNCHANGED <<used, presence>>
    BY <1>1 DEF Close, history
  <2>2. CASE UNCHANGED <<commands, sessions>>
    BY <2>1, <2>2 DEF Used
  <2>3. CASE ~ UNCHANGED <<commands, sessions>>
    <3> DEFINE n == where[s]
               a == entry[s]
    <3>1. /\ n \in Nodes /\ a \in Accounts /\ sessions[n][a] = s
          /\ Send(n, Offline(a)) /\ Offline(a) \in Command
          /\ sessions'[n][a] = Nobody
          /\ \A m \in Nodes, b \in Accounts : m # n \/ b # a => sessions'[m][b] = sessions[m][b]
      BY <1>1, <2>3, CloseIs
    <3>2. n \in used[a]
      BY <3>1, GatewayAssumption DEF Used
    <3>3. Offline(a).accounts = {a}
      BY DEF Offline
    <3> HIDE DEF n, a
    <3>4. /\ Len(commands'[n]) = Len(commands[n]) + 1
          /\ \A i \in 1..Len(commands[n]) : commands'[n][i] = commands[n][i]
          /\ commands'[n][Len(commands[n]) + 1] = Offline(a)
          /\ \A m \in Nodes \ {n} : commands'[m] = commands[m]
          /\ Len(commands[n]) \in Nat
      BY <1>0, <3>1, SendIs
    <3>5. ASSUME NEW b \in Accounts, NEW i \in 1..Len(commands'[n]), b \in commands'[n][i].accounts
          PROVE  n \in used[b]
      <4>1. CASE i = Len(commands[n]) + 1
        BY <3>2, <3>3, <3>4, <3>5, <4>1
      <4>2. CASE i # Len(commands[n]) + 1
        BY <3>1, <3>4, <3>5, <4>2 DEF Used
      <4> QED
        BY <4>1, <4>2
    <3> QED
      BY <2>1, <3>1, <3>4, <3>5 DEF Used
  <2> QED
    BY <2>2, <2>3
<1>2. ASSUME NEW s \in Sockets, Register(s) PROVE Used'
  <2> DEFINE n == where[s]
             a == claims[s]
  <2>1. /\ n \in Nodes /\ a \in Accounts
        /\ Send(n, Online({a})) /\ Online({a}) \in Command
        /\ \A m \in Nodes, b \in Accounts : m # n \/ b # a => sessions'[m][b] = sessions[m][b]
        /\ used'[a] = used[a] \cup {n}
        /\ \A b \in Accounts \ {a} : used'[b] = used[b]
    BY <1>2, RegisterIs
  <2>2. UNCHANGED presence
    BY <1>2 DEF Register
  <2>3. Online({a}).accounts = {a}
    BY DEF Online
  <2> HIDE DEF n, a
  <2>4. /\ Len(commands'[n]) = Len(commands[n]) + 1
        /\ \A i \in 1..Len(commands[n]) : commands'[n][i] = commands[n][i]
        /\ commands'[n][Len(commands[n]) + 1] = Online({a})
        /\ \A m \in Nodes \ {n} : commands'[m] = commands[m]
        /\ Len(commands[n]) \in Nat
    BY <1>0, <2>1, SendIs
  <2>5. ASSUME NEW b \in Accounts, NEW i \in 1..Len(commands'[n]), b \in commands'[n][i].accounts
        PROVE  n \in used'[b]
    <3>1. CASE i = Len(commands[n]) + 1
      BY <2>1, <2>3, <2>4, <2>5, <3>1
    <3>2. CASE i # Len(commands[n]) + 1
      BY <2>1, <2>4, <2>5, <3>2 DEF Used
    <3> QED
      BY <3>1, <3>2
  <2> QED
    BY <2>1, <2>2, <2>4, <2>5 DEF Used
<1>3. ASSUME NEW n \in Nodes, Heartbeat(n) PROVE Used'
  <2>1. UNCHANGED <<used, presence, sessions>>
    BY <1>3 DEF Heartbeat, socketVars, history
  <2>2. Online(Connected(n)) \in Command /\ Online(Connected(n)).accounts = Connected(n)
    BY DEF Online, Connected, Command
  <2>3. /\ Len(commands'[n]) = Len(commands[n]) + 1
        /\ \A i \in 1..Len(commands[n]) : commands'[n][i] = commands[n][i]
        /\ commands'[n][Len(commands[n]) + 1] = Online(Connected(n))
        /\ \A m \in Nodes \ {n} : commands'[m] = commands[m]
        /\ Len(commands[n]) \in Nat
    BY <1>0, <1>3, <2>2, SendIs DEF Heartbeat
  <2>4. ASSUME NEW b \in Accounts, NEW i \in 1..Len(commands'[n]), b \in commands'[n][i].accounts
        PROVE  n \in used[b]
    <3>1. CASE i = Len(commands[n]) + 1
      BY <2>2, <2>3, <2>4, <3>1 DEF Used, Connected
    <3>2. CASE i # Len(commands[n]) + 1
      BY <2>3, <2>4, <3>2 DEF Used
    <3> QED
      BY <3>1, <3>2
  <2> QED
    BY <2>1, <2>3, <2>4 DEF Used
<1>4. ASSUME NEW n \in Nodes, Execute(n) \/ CommandFails(n) PROVE Used'
  <2>1. UNCHANGED <<used, sessions>>
    BY <1>4 DEF Execute, CommandFails, socketVars, history
  <2>2. commands[n] # <<>> /\ commands' = [commands EXCEPT ![n] = Tail(@)]
    BY <1>4 DEF Execute, CommandFails
  <2>3. /\ Len(commands[n]) \in Nat \ {0} /\ Len(commands'[n]) = Len(commands[n]) - 1
        /\ \A i \in 1..Len(commands'[n]) : commands'[n][i] = commands[n][i + 1]
        /\ \A m \in Nodes \ {n} : commands'[m] = commands[m]
        /\ Head(commands[n]) = commands[n][1] /\ commands[n][1] \in Command
    BY <1>0, <2>2, TailIs
  <2>4. ASSUME NEW b \in Accounts, NEW m \in Nodes, NEW i \in 1..Len(commands'[m]),
               b \in commands'[m][i].accounts
        PROVE  m \in used[b]
    <3>1. CASE m = n
      <4>1. i + 1 \in 1..Len(commands[n]) /\ b \in commands[n][i + 1].accounts
        BY <2>3, <2>4, <3>1
      <4> QED
        BY <3>1, <4>1 DEF Used
    <3>2. CASE m # n
      BY <2>3, <2>4, <3>2 DEF Used
    <3> QED
      BY <3>1, <3>2
  <2>5. ASSUME NEW b \in Accounts, presence'[b] # Nobody PROVE presence'[b] \in used[b]
    <3>1. CASE CommandFails(n)
      BY <3>1, <2>5 DEF CommandFails, Used
    <3>2. CASE Execute(n)
      <4>1. presence'[b] = IF b \notin commands[n][1].accounts THEN presence[b]
                           ELSE IF commands[n][1].op = "del" THEN Nobody ELSE n
        BY <2>3, <3>2 DEF Execute
      <4>2. b \in commands[n][1].accounts => n \in used[b]
        BY <2>3 DEF Used
      <4> QED
        BY <2>5, <4>1, <4>2 DEF Used
    <3> QED
      BY <1>4, <3>1, <3>2
  <2> QED
    BY <2>1, <2>4, <2>5 DEF Used
<1>5. ASSUME NEW n \in Nodes, Crash(n) PROVE Used'
  <2>1. /\ \A m \in Nodes : commands'[m] = IF m = n THEN <<>> ELSE commands[m]
        /\ \A m \in Nodes, b \in Accounts :
              sessions'[m][b] = IF m = n THEN Nobody ELSE sessions[m][b]
        /\ UNCHANGED <<used, presence>>
    <3>1. /\ commands \in [Nodes -> Seq(Command)]
          /\ sessions \in [Nodes -> [Accounts -> Sockets \cup {Nobody}]]
      BY <1>0 DEF GatewayTypeOK, Command
    <3>2. /\ commands' = [commands EXCEPT ![n] = <<>>]
          /\ sessions' = [sessions EXCEPT ![n] = [b \in Accounts |-> Nobody]]
          /\ UNCHANGED <<used, presence>>
      BY <1>5 DEF Crash, history
    <3> QED
      BY <3>1, <3>2
  <2>2. Len(<<>>) = 0
    BY EmptySeq
  <2> QED
    BY <2>1, <2>2 DEF Used
<1>6. ASSUME NEW a \in Accounts, Expire(a) PROVE Used'
  BY <1>0, <1>6 DEF Expire, socketVars, history, Used, GatewayTypeOK
<1>7. ASSUME UNCHANGED PresenceState PROVE Used'
  BY <1>7 DEF PresenceState, Used
<1> QED
  BY <1>0, <1>1, <1>2, <1>3, <1>4, <1>5, <1>6, <1>7, QuietPresence

\* Presence follows an account that used no node but n, until a fault.
LEMMA FollowsStep == SocketInv /\ Used /\ Follows /\ [GatewayNext]_gatewayVars => Follows'
<1> SUFFICES ASSUME SocketInv, Used, Follows, [GatewayNext]_gatewayVars, failures' = 0,
                    NEW n \in Nodes, NEW a \in Accounts, used'[a] \subseteq {n}
             PROVE  Agrees(n, a)'
  BY DEF Follows
<1>0. GatewayTypeOK /\ GatewayTypeOK' /\ Used'
  BY SocketStepKeeps, UsedStep DEF SocketInv
<1>1. ASSUME used[a] \subseteq {n}, failures = 0 PROVE Agrees(n, a)
  BY <1>1 DEF Follows
\* A command that says what the sessions now say.
<1>2. ASSUME NEW c \in Command, Send(n, c), a \in c.accounts,
             c.op = "set" <=> sessions'[n][a] # Nobody
      PROVE  Agrees(n, a)'
  <2>1. /\ Len(commands'[n]) = Len(commands[n]) + 1
        /\ commands'[n][Len(commands[n]) + 1] = c
        /\ Len(commands[n]) \in Nat
    BY <1>0, <1>2, SendIs
  <2>2. Len(commands[n]) + 1 \in About(n, a)'
    BY <1>2, <2>1 DEF About
  <2>3. \A i \in About(n, a)' : (\A j \in About(n, a)' : j <= i) => i = Len(commands[n]) + 1
    BY <2>1, <2>2 DEF About
  <2> QED
    BY <1>2, <2>1, <2>2, <2>3 DEF Agrees
\* A command about others, or of another node.
<1>3. ASSUME Agrees(n, a), NEW m \in Nodes, NEW c \in Command, Send(m, c),
             m # n \/ a \notin c.accounts,
             presence'[a] = presence[a], sessions'[n][a] = sessions[n][a]
      PROVE  Agrees(n, a)'
  <2>1. /\ Len(commands'[m]) = Len(commands[m]) + 1
        /\ \A i \in 1..Len(commands[m]) : commands'[m][i] = commands[m][i]
        /\ commands'[m][Len(commands[m]) + 1] = c
        /\ \A k \in Nodes \ {m} : commands'[k] = commands[k]
        /\ Len(commands[m]) \in Nat
    BY <1>0, <1>3, SendIs
  <2>2. About(n, a)' = About(n, a)
    BY <1>3, <2>1 DEF About
  <2>3. \A i \in About(n, a) : commands'[n][i] = commands[n][i]
    BY <1>3, <2>1 DEF About
  <2> QED
    BY <1>3, <2>2, <2>3 DEF Agrees
<1>4. ASSUME NEW s \in Sockets, Close(s) PROVE Agrees(n, a)'
  <2>1. Agrees(n, a) /\ UNCHANGED presence
    BY <1>1, <1>4 DEF Close, history
  <2>2. CASE UNCHANGED <<commands, sessions>>
    BY <2>1, <2>2 DEF Agrees, About
  <2>3. CASE ~ UNCHANGED <<commands, sessions>>
    <3> DEFINE m == where[s]
               b == entry[s]
    <3>1. /\ m \in Nodes /\ b \in Accounts /\ sessions[m][b] = s
          /\ Send(m, Offline(b)) /\ Offline(b) \in Command
          /\ sessions'[m][b] = Nobody
          /\ \A k \in Nodes, d \in Accounts : k # m \/ d # b => sessions'[k][d] = sessions[k][d]
      BY <1>4, <2>3, CloseIs
    <3>2. Offline(b).accounts = {b} /\ Offline(b).op = "del"
      BY DEF Offline
    <3> HIDE DEF m, b
    <3>3. CASE m = n /\ b = a
      BY <1>2, <3>1, <3>2, <3>3
    <3>4. CASE m # n \/ b # a
      BY <1>3, <2>1, <3>1, <3>2, <3>4
    <3> QED
      BY <3>3, <3>4
  <2> QED
    BY <2>2, <2>3
<1>5. ASSUME NEW s \in Sockets, Register(s) PROVE Agrees(n, a)'
  <2> DEFINE m == where[s]
             b == claims[s]
  <2>1. /\ m \in Nodes /\ b \in Accounts
        /\ Send(m, Online({b})) /\ Online({b}) \in Command
        /\ sessions'[m][b] = s
        /\ \A k \in Nodes, d \in Accounts : k # m \/ d # b => sessions'[k][d] = sessions[k][d]
        /\ used'[b] = used[b] \cup {m}
        /\ \A d \in Accounts \ {b} : used'[d] = used[d]
    BY <1>5, RegisterIs
  <2>2. UNCHANGED <<presence, failures>> /\ s # Nobody
    BY <1>5, GatewayAssumption DEF Register
  <2>3. Online({b}).accounts = {b} /\ Online({b}).op = "set"
    BY DEF Online
  <2> HIDE DEF m, b
  <2>4. CASE b = a
    <3>1. m = n
      BY <2>1, <2>4
    <3> QED
      BY <1>2, <2>1, <2>2, <2>3, <2>4, <3>1
  <2>5. CASE b # a
    <3>1. Agrees(n, a)
      BY <1>1, <2>1, <2>2, <2>5
    <3> QED
      BY <1>3, <2>1, <2>2, <2>3, <2>5, <3>1
  <2> QED
    BY <2>4, <2>5
<1>6. ASSUME NEW m \in Nodes, Heartbeat(m) PROVE Agrees(n, a)'
  <2>1. Agrees(n, a) /\ UNCHANGED <<presence, sessions>> /\ Send(m, Online(Connected(m)))
    BY <1>1, <1>6 DEF Heartbeat, socketVars, history
  <2>2. /\ Online(Connected(m)) \in Command /\ Online(Connected(m)).accounts = Connected(m)
        /\ Online(Connected(m)).op = "set"
    BY DEF Online, Connected, Command
  <2>3. CASE m = n /\ a \in Connected(m)
    BY <1>2, <2>1, <2>2, <2>3 DEF Connected
  <2>4. CASE ~(m = n /\ a \in Connected(m))
    BY <1>3, <2>1, <2>2, <2>4
  <2> QED
    BY <2>3, <2>4
<1>7. ASSUME NEW m \in Nodes, Execute(m) PROVE Agrees(n, a)'
  <2>1. Agrees(n, a) /\ UNCHANGED <<sessions, used>>
    BY <1>1, <1>7 DEF Execute, socketVars, history
  <2>2. commands[m] # <<>> /\ commands' = [commands EXCEPT ![m] = Tail(@)]
    BY <1>7 DEF Execute
  <2>3. /\ Len(commands[m]) \in Nat \ {0} /\ Len(commands'[m]) = Len(commands[m]) - 1
        /\ \A i \in 1..Len(commands'[m]) : commands'[m][i] = commands[m][i + 1]
        /\ \A k \in Nodes \ {m} : commands'[k] = commands[k]
        /\ Head(commands[m]) = commands[m][1] /\ commands[m][1] \in Command
    BY <1>0, <2>2, TailIs
  <2>4. presence'[a] = IF a \notin commands[m][1].accounts THEN presence[a]
                       ELSE IF commands[m][1].op = "del" THEN Nobody ELSE m
    BY <1>7, <2>3 DEF Execute
  <2>5. CASE m # n
    <3>1. a \notin commands[m][1].accounts
      BY <1>0, <2>1, <2>3, <2>5 DEF Used
    <3> QED
      BY <2>1, <2>3, <2>4, <2>5, <3>1 DEF Agrees, About
  <2>6. CASE m = n
    <3>1. \A i : i \in About(n, a)' <=> i \in Nat \ {0} /\ i + 1 \in About(n, a)
      BY <2>3, <2>6 DEF About
    <3>2. \A i \in About(n, a)' : commands'[n][i] = commands[n][i + 1]
      BY <2>3, <2>6 DEF About
    <3>3. ASSUME NEW i \in About(n, a)', \A j \in About(n, a)' : j <= i
          PROVE  commands'[n][i].op = "set" <=> sessions'[n][a] # Nobody
      <4>1. i \in Nat \ {0} /\ i + 1 \in About(n, a)
        BY <3>1
      <4>2. ASSUME NEW j \in About(n, a) PROVE j <= i + 1
        <5>1. j \in Nat \ {0}
          BY DEF About
        <5>2. CASE j = 1
          BY <4>1, <5>2
        <5>3. CASE j # 1
          <6>1. j - 1 \in Nat \ {0} /\ (j - 1) + 1 = j
            BY <5>1, <5>3
          <6>2. j - 1 \in About(n, a)'
            BY <3>1, <6>1
          <6> QED
            BY <3>3, <4>1, <6>1, <6>2
        <5> QED
          BY <5>2, <5>3
      <4> QED
        BY <2>1, <3>2, <4>1, <4>2 DEF Agrees
    <3>4. ASSUME About(n, a)' = {}
          PROVE  presence'[a] # Nobody <=> sessions'[n][a] # Nobody
      <4>1. CASE a \in commands[n][1].accounts
        <5>1. 1 \in About(n, a)
          BY <2>3, <2>6, <4>1 DEF About
        <5>2. ASSUME NEW j \in About(n, a) PROVE j <= 1
          <6>1. j \in Nat \ {0}
            BY DEF About
          <6>2. CASE j # 1
            <7>1. j - 1 \in Nat \ {0} /\ (j - 1) + 1 = j
              BY <6>1, <6>2
            <7> QED
              BY <3>1, <3>4, <7>1
          <6> QED
            BY <6>1, <6>2
        <5>3. commands[n][1].op = "set" <=> sessions[n][a] # Nobody
          BY <2>1, <5>1, <5>2 DEF Agrees
        <5>4. commands[n][1].op \in {"set", "del"}
          BY <2>3, <2>6 DEF Command
        <5> QED
          BY <2>1, <2>4, <2>6, <4>1, <5>3, <5>4, GatewayAssumption
      <4>2. CASE a \notin commands[n][1].accounts
        <5>1. About(n, a) = {}
          <6> SUFFICES ASSUME NEW j \in About(n, a) PROVE FALSE
            OBVIOUS
          <6>1. j \in Nat \ {0} /\ j # 1
            BY <4>2 DEF About
          <6>2. j - 1 \in Nat \ {0} /\ (j - 1) + 1 = j
            BY <6>1
          <6> QED
            BY <3>1, <3>4, <6>2
        <5> QED
          BY <2>1, <2>4, <2>6, <4>2, <5>1 DEF Agrees
      <4> QED
        BY <4>1, <4>2
    <3> QED
      BY <3>3, <3>4 DEF Agrees
  <2> QED
    BY <2>5, <2>6
<1>8. ASSUME NEW m \in Nodes, CommandFails(m) \/ Crash(m) PROVE Agrees(n, a)'
  BY <1>0, <1>8 DEF CommandFails, Crash, Failure, GatewayTypeOK
<1>9. ASSUME NEW b \in Accounts, Expire(b) PROVE Agrees(n, a)'
  <2>1. Agrees(n, a) /\ UNCHANGED <<commands, sessions>>
    BY <1>1, <1>9 DEF Expire, socketVars, history
  <2>2. CASE a # b
    BY <1>9, <2>1, <2>2 DEF Expire, Agrees, About
  <2>3. CASE a = b
    <3>1. presence[a] = n /\ sessions[n][a] = Nobody /\ presence'[a] = Nobody
      BY <1>0, <1>1, <1>9, <2>3 DEF Expire, Connected, Used, GatewayTypeOK, socketVars, history
    <3>2. About(n, a) = {}
      <4>1. commands[n] \in Seq(Command)
        BY <1>0 DEF GatewayTypeOK, Command
      <4>2. DOMAIN commands[n] = 1..Len(commands[n])
        BY <4>1, LenProperties
      <4> QED
        BY <1>9, <2>3, <3>1, <4>2 DEF Expire, About
    <3> QED
      BY <2>1, <3>1, <3>2 DEF Agrees, About
  <2> QED
    BY <2>2, <2>3
<1>10. ASSUME UNCHANGED PresenceState PROVE Agrees(n, a)'
  <2>1. failures = 0
    BY <1>0, FailuresGrow DEF GatewayTypeOK
  <2> QED
    BY <1>1, <1>10, <2>1 DEF PresenceState, Agrees, About
<1> QED
  BY <1>0, <1>4, <1>5, <1>6, <1>7, <1>8, <1>9, <1>10, QuietPresence

-----------------------------------------------------------------------------

GatewayInv == SocketInv /\ Used /\ Follows

\* The invariant holds throughout.
LEMMA AlwaysIInv == GatewaySpec => []GatewayInv
<1>1. GatewayInit => GatewayInv
  <2> SUFFICES ASSUME GatewayInit PROVE GatewayInv
    OBVIOUS
  <2>1. Used
    <3>1. \A n \in Nodes : Len(commands[n]) = 0
      BY EmptySeq DEF GatewayInit
    <3> QED
      BY <3>1 DEF Used, GatewayInit
  <2>2. Follows
    <3>1. \A n \in Nodes : Len(commands[n]) = 0
      BY EmptySeq DEF GatewayInit
    <3> QED
      BY <3>1 DEF Follows, Agrees, About, GatewayInit
  <2> QED
    BY <2>1, <2>2, SocketInit DEF GatewayInv
<1>2. GatewayInv /\ [GatewayNext]_gatewayVars => GatewayInv'
  BY SocketStepKeeps, UsedStep, FollowsStep DEF GatewayInv
<1> QED
  BY <1>1, <1>2, PTL DEF GatewaySpec

\* Of an account that used one node, what presence says once Redis has executed all.
LEMMA PresenceIs == GatewayInv => PresenceFollows
<1> SUFFICES ASSUME GatewayInv, NEW a \in Accounts, failures = 0, Cardinality(used[a]) <= 1,
                    \A n \in Nodes : commands[n] = <<>>
             PROVE  presence[a] # Nobody <=> \E n \in Nodes : a \in Connected(n)
  BY DEF PresenceFollows
<1> USE DEF GatewayInv, SocketInv
<1>1. used[a] \subseteq Nodes
  BY DEF GatewayTypeOK
<1>2. IsFiniteSet(used[a])
  BY <1>1, FS_Subset, GatewayAssumption
<1>3. CASE used[a] = {}
  BY <1>3 DEF Used, Connected
<1>4. CASE used[a] # {}
  <2>1. Cardinality(used[a]) = 1
    BY <1>2, <1>4, FS_EmptySet, FS_CardinalityType
  <2>2. PICK n : used[a] = {n}
    BY <1>2, <2>1, FS_Singleton
  <2>3. n \in Nodes /\ Agrees(n, a)
    BY <1>1, <2>2 DEF Follows
  <2>4. About(n, a) = {}
    BY <2>3, EmptySeq DEF About
  <2> QED
    BY <2>2, <2>3, <2>4 DEF Agrees, Used, Connected
<1> QED
  BY <1>3, <1>4

\* The types of the gateways' state, whatever connects, bans, fails and crashes; among
\* them that a session is a socket and presence a node.
THEOREM GatewayTypes == GatewaySpec => []GatewayTypeOK
<1>1. GatewayInv => GatewayTypeOK
  BY DEF GatewayInv, SocketInv
<1> QED
  BY <1>1, AlwaysIInv, PTL

\* For any nodes, accounts and sockets, in every interleaving of AUTH, closes, kicks,
\* presence commands and failures: no session outlives its socket, the newest socket of an
\* account is the only one left open on a node, and presence names who has a session.
THEOREM SessionsAreSound == GatewaySpec => []SessionsFollowSockets
<1>1. GatewayInv => NoGhost
  BY DEF GatewayInv, SocketInv, OfSocket, NoGhost
<1>2. GatewayInv => OneConnection
  BY DEF GatewayInv, SocketInv
<1>3. GatewayInv => SessionsFollowSockets
  BY <1>1, <1>2, PresenceIs DEF SessionsFollowSockets
<1> QED
  BY <1>3, AlwaysIInv, PTL
=============================================================================
