---------------------------- MODULE ServiceProofs ----------------------------
(***************************************************************************)
(* The services of the lobby, for any number of requests that overlap and  *)
(* of steps: first logins, the shop, the boards and START of a custom      *)
(* room.                                                                   *)
(***************************************************************************)
EXTENDS Registration, ShopService, RankingService, RoomStart, TrafficProofs

-----------------------------------------------------------------------------
(* Sets of numbers.                                                        *)

Bounded(S) == \E n \in Nat : \A a \in S : a <= n

\* The largest of a bounded set of numbers.
LEMMA MaxIs ==
    ASSUME NEW S \in SUBSET Nat, S # {}, Bounded(S)
    PROVE  Max(S) \in S /\ \A a \in S : a <= Max(S)
<1> DEFINE U == {n \in Nat : \A a \in S : a <= n}
<1>1. U # {} /\ U \subseteq Nat
  BY DEF Bounded
<1>2. PICK m \in U : \A k \in U : <<k, m>> \notin OpToRel(<, Nat)
  BY <1>1, WFMin, NatLessThanWellFounded, Zenon
<1>3. \A k \in U : ~ (k < m)
  BY <1>1, <1>2 DEF OpToRel
<1>4. m \in S
  <2> SUFFICES ASSUME m \notin S PROVE FALSE
    OBVIOUS
  <2>1. \A a \in S : a <= m /\ a # m /\ a \in Nat
    BY DEF U
  <2>2. PICK b \in S : TRUE
    OBVIOUS
  <2>4. m \in Nat /\ b \in Nat /\ b < m
    BY <2>1, <2>2
  <2>5. m - 1 \in Nat /\ m - 1 < m
    BY <2>4
  <2>6. \A a \in S : a <= m - 1
    BY <2>1, <2>4
  <2>3. m - 1 \in U
    BY <2>5, <2>6
  <2> QED
    BY <1>3, <2>3, <2>5
<1>5. \A a \in S : m >= a
  OBVIOUS
<1>6. \E x \in S : \A y \in S : x >= y
  BY <1>4, <1>5
<1> HIDE DEF U
<1> QED
  BY <1>6 DEF Max

-----------------------------------------------------------------------------
(* The first login of an identity, for any number of requests that overlap *)
(* and fail.                                                               *)

RowsOfIdentity == [state : {"none", "empty", "doc"}, name : {"none", "default", "given"},
                   token : Requests \cup {"none"}]

RegistrationRequests == [pc : {"idle", "insert", "save"}, kind : {"none", "register", "login"},
                         doc : RowsOfIdentity, read : RowsOfIdentity]

\* What a request is about to save: a registration has the player's name, a login the name it
\* read.
AboutToSave(q) ==
    /\ q.pc = "insert" => q.kind = "register"
    /\ q.pc = "save" => /\ q.doc.state = "doc"
                        /\ q.kind = "register" => q.doc.name = "given"
                        /\ q.kind = "login" /\ q.read.state = "doc" => q.doc.name = q.read.name
                        /\ q.kind # "none"

RegistrationInv ==
    /\ RegistrationTypeOK /\ row \in RowsOfIdentity /\ request \in [Requests -> RegistrationRequests]
    /\ \A r \in Requests : AboutToSave(request[r])
    /\ RegistrationKept

\* It holds at the start.
LEMMA RegistrationStarts == RegistrationInit => RegistrationInv
<1> SUFFICES ASSUME RegistrationInit PROVE RegistrationInv
  OBVIOUS
<1>1. NoRequest \in RegistrationRequests /\ AboutToSave(NoRequest) /\ NoRow \in RowsOfIdentity
  BY DEF NoRequest, RegistrationRequests, RowsOfIdentity, NoRow, Row, AboutToSave
<1>2. /\ row \in RowsOfIdentity /\ request \in [Requests -> RegistrationRequests]
      /\ \A r \in Requests : AboutToSave(request[r])
  BY <1>1 DEF RegistrationInit
<1>3. {registered, stale} \subseteq BOOLEAN /\ registerFaults \in 0 .. MaxRegisterFaults /\ RegistrationKept
  <2>1. registered = FALSE /\ stale = FALSE /\ registerFaults = 0
    BY DEF RegistrationInit
  <2>2. registerFaults \in 0 .. MaxRegisterFaults
    BY <2>1, RegistrationAssumption
  <2> QED
    BY <2>1, <2>2 DEF RegistrationKept
<1> QED
  BY <1>2, <1>3 DEF RegistrationInv, RegistrationTypeOK, RowsOfIdentity, RegistrationRequests

\* One request goes on, and its next place keeps to the type.
LEMMA RequestGoesOn ==
    ASSUME RegistrationInv, NEW r \in Requests, NEW q \in RegistrationRequests, AboutToSave(q),
           request' = [request EXCEPT ![r] = q], row' \in RowsOfIdentity,
           registered' \in BOOLEAN, stale' \in BOOLEAN, registerFaults' \in 0 .. MaxRegisterFaults,
           RegistrationKept'
    PROVE  RegistrationInv'
<1>1. request' \in [Requests -> RegistrationRequests] /\ \A s \in Requests : AboutToSave(request'[s])
  BY DEF RegistrationInv
<1> QED
  BY <1>1 DEF RegistrationInv, RegistrationTypeOK, RowsOfIdentity, RegistrationRequests

\* A step of the requests keeps the invariant.
LEMMA RegistrationStep == RegistrationInv /\ [RegistrationNext]_registerVars => RegistrationInv'
<1> SUFFICES ASSUME RegistrationInv, [RegistrationNext]_registerVars PROVE RegistrationInv'
  OBVIOUS
<1>0. /\ row \in RowsOfIdentity /\ {registered, stale} \subseteq BOOLEAN /\ registerFaults \in 0 .. MaxRegisterFaults
      /\ LoadedDoc \in RowsOfIdentity
      /\ MaxRegisterFaults \in Nat
      /\ row.state # "none" => LoadedDoc.state = "doc"
      /\ row.state = "doc" => LoadedDoc = row
  BY RegistrationAssumption DEF RegistrationInv, RegistrationTypeOK, LoadedDoc, RowsOfIdentity, Row
<1>1. ASSUME NEW r \in Requests, RegisterLoad(r) PROVE RegistrationInv'
  <2> DEFINE q == IF row.state = "none" THEN [pc |-> "insert", kind |-> "register", doc |-> NoRow, read |-> NoRow]
                  ELSE [pc |-> "save", kind |-> "register", read |-> row, doc |-> [LoadedDoc EXCEPT !.name = "given"]]
  <2>1. q \in RegistrationRequests /\ AboutToSave(q)
    BY <1>0 DEF RegistrationRequests, RowsOfIdentity, AboutToSave, NoRow, Row
  <2>2. RegistrationKept' /\ UNCHANGED <<row, registered, stale, registerFaults>>
        /\ request' = [request EXCEPT ![r] = q]
    BY <1>1 DEF RegisterLoad, RegistrationInv, RegistrationKept
  <2> HIDE DEF q
  <2> QED
    BY <1>0, <2>1, <2>2, RequestGoesOn
<1>2. ASSUME NEW r \in Requests, RegisterInsert(r), row.state = "none" PROVE RegistrationInv'
  <2> DEFINE q == [request[r] EXCEPT !.pc = "save", !.read = Placeholder, !.doc = Row("doc", "given", "none")]
  <2>0. request[r] \in RegistrationRequests /\ request[r].kind = "register"
    BY <1>2 DEF RegistrationInv, AboutToSave, RegisterInsert
  <2>1. q \in RegistrationRequests /\ AboutToSave(q)
    BY <2>0 DEF RegistrationRequests, RowsOfIdentity, AboutToSave, Placeholder, Row
  <2>2. /\ UNCHANGED <<registered, stale, registerFaults>> /\ row' = Placeholder
        /\ request' = [request EXCEPT ![r] = q]
    BY <1>2 DEF RegisterInsert, RegistrationInv
  <2>3. RegistrationKept' /\ row' \in RowsOfIdentity
    BY <1>2, <2>2 DEF RegistrationInv, RegistrationKept, Placeholder, Row, RowsOfIdentity
  <2> HIDE DEF q
  <2> QED
    BY <1>0, <2>1, <2>2, <2>3, RequestGoesOn
<1>3. NoRequest \in RegistrationRequests /\ AboutToSave(NoRequest)
  BY DEF NoRequest, RegistrationRequests, RowsOfIdentity, NoRow, Row, AboutToSave
<1>4. ASSUME NEW r \in Requests, RegisterInsert(r), row.state # "none" PROVE RegistrationInv'
  <2>1. RegistrationKept' /\ UNCHANGED <<row, registered, stale, registerFaults>>
        /\ request' = [request EXCEPT ![r] = NoRequest]
    BY <1>4 DEF RegisterInsert, RegistrationInv, RegistrationKept
  <2> QED
    BY <1>0, <1>3, <2>1, RequestGoesOn
<1>5. ASSUME NEW r \in Requests, LoginLoad(r) PROVE RegistrationInv'
  <2> DEFINE q == [pc |-> "save", kind |-> "login", read |-> row, doc |-> [LoadedDoc EXCEPT !.token = r]]
  <2>1. q \in RegistrationRequests /\ AboutToSave(q)
    BY <1>0, <1>5 DEF RegistrationRequests, RowsOfIdentity, AboutToSave, LoginLoad
  <2>2. RegistrationKept' /\ UNCHANGED <<row, registered, stale, registerFaults>>
        /\ request' = [request EXCEPT ![r] = q]
    BY <1>5 DEF LoginLoad, RegistrationInv, RegistrationKept
  <2> HIDE DEF q
  <2> QED
    BY <1>0, <2>1, <2>2, RequestGoesOn
<1>6. ASSUME NEW r \in Requests, SaveDocument(r) PROVE RegistrationInv'
  <2>1. /\ request[r] \in RegistrationRequests /\ AboutToSave(request[r]) /\ request[r].pc = "save"
        /\ row' = request[r].doc /\ (registered' <=> (registered \/ request[r].kind = "register"))
        /\ (stale' <=> (stale \/ row # request[r].read)) /\ UNCHANGED registerFaults
        /\ request' = [request EXCEPT ![r] = NoRequest]
        /\ registered' \in BOOLEAN /\ stale' \in BOOLEAN
    BY <1>6 DEF SaveDocument, RegistrationInv
  <2>2. RegistrationKept'
    BY <2>1 DEF AboutToSave, RegistrationInv, RegistrationKept, RegistrationRequests
  <2>3. row' \in RowsOfIdentity
    BY <2>1 DEF RegistrationRequests
  <2> QED
    BY <1>0, <1>3, <2>1, <2>2, <2>3, RequestGoesOn
<1>7. ASSUME NEW r \in Requests, RequestFails(r) PROVE RegistrationInv'
  <2>1. RegistrationKept' /\ UNCHANGED <<row, registered, stale>> /\ registerFaults' \in 0 .. MaxRegisterFaults
        /\ request' = [request EXCEPT ![r] = NoRequest]
    BY <1>0, <1>7 DEF RequestFails, RegistrationInv, RegistrationKept
  <2> QED
    BY <1>0, <1>3, <2>1, RequestGoesOn
<1>8. CASE UNCHANGED registerVars
  BY <1>8 DEF registerVars, RegistrationInv, RegistrationTypeOK, RegistrationKept
<1> QED
  BY <1>1, <1>2, <1>4, <1>5, <1>6, <1>7, <1>8 DEF RegistrationNext

\* Once a registration is answered the row has the player's name, whichever requests of the
\* identity ran beside it, as long as none saved over another's save.
THEOREM RegistrationHolds == RegistrationInit /\ [][RegistrationNext]_registerVars => [](RegistrationTypeOK /\ RegistrationKept)
<1>1. RegistrationInv => RegistrationTypeOK /\ RegistrationKept
  BY DEF RegistrationInv
<1> QED
  BY <1>1, RegistrationStarts, RegistrationStep, PTL

-----------------------------------------------------------------------------
(* The shop, for any servers, items, prices, weights and edits.            *)

StoreEntries == [store : Int, item : Items, coins : Nat, gems : Nat]
StoreLists == {q \in Seq(StoreEntries) : \A i, j \in DOMAIN q : q[i].store = q[j].store => i = j}
PrizeEntries == [item : Items, weight : Int]
PrizeLists == {q \in Seq(PrizeEntries) : q # <<>>}
WheelEntries == [chest : Nat, currency : {"coins", "gems"}, once : Nat \ {0}, ten : Nat \ {0}, prizes : PrizeLists]
WheelLists == {q \in Seq(WheelEntries) : q # <<>> /\ \A i, j \in DOMAIN q : q[i].chest = q[j].chest => i = j}
Catalogues == [store : StoreLists, wheels : WheelLists]

Balances == [{"coins", "gems", "walletCoins", "walletGems"} -> Nat]

\* The file and every copy of it are sound; so is whatever is read or written of them.
ShopInv ==
    /\ file \in Catalogues /\ catalogue \in [Servers -> Catalogues]
    /\ balance \in Balances /\ backpack \subseteq Items
    /\ {edits, purchases, rewards} \subseteq Nat /\ WalletInSync

\* Prizes without a negative weight.
FairEntries == [item : Items, weight : Nat]
FairLists == {q \in Seq(FairEntries) : q # <<>>}

\* What such a weight counts is a number above 0.
LEMMA WeightCounts == ASSUME NEW q \in Seq(FairEntries) PROVE \A i \in 1 .. Len(q) : OrTen(q[i].weight) \in Nat \ {0}
<1>1. \A i \in 1 .. Len(q) : q[i] \in FairEntries
  BY ElementOfSeq
<1> QED
  BY <1>1 DEF FairEntries, OrTen

\* The recursive sum of the weights is a function.
LEMMA SumsExist ==
    ASSUME NEW q \in Seq(FairEntries)
    PROVE  /\ WeightTo(q) \in [0 .. Len(q) -> Nat] /\ WeightTo(q)[0] = 0
           /\ \A i \in DOMAIN q : WeightTo(q)[i] = WeightTo(q)[i - 1] + OrTen(q[i].weight)
<1> DEFINE Sum(g, n) == g \in [0 .. n -> Nat] /\ g[0] = 0 /\ \A i \in 1 .. n : g[i] = g[i - 1] + OrTen(q[i].weight)
           P == {n \in Nat : n <= Len(q) => \E g : Sum(g, n)}
           Is(f) == f = [i \in 0 .. Len(q) |-> IF i = 0 THEN 0 ELSE f[i - 1] + OrTen(q[i].weight)]
<1>1. Len(q) \in Nat /\ DOMAIN q = 1 .. Len(q) /\ \A i \in 1 .. Len(q) : OrTen(q[i].weight) \in Nat
  <2>1. Len(q) \in Nat /\ DOMAIN q = 1 .. Len(q)
    BY LenProperties
  <2> QED
    BY <2>1, WeightCounts
<1>2. 0 \in P
  <2> DEFINE z == [i \in 0 .. 0 |-> 0]
  <2>2. z \in [0 .. 0 -> Nat] /\ z[0] = 0
    OBVIOUS
  <2>1. Sum(z, 0)
    <3> HIDE DEF z
    <3> QED
      BY <2>2
  <2> QED
    BY <2>1
<1>3. ASSUME NEW n \in P PROVE n + 1 \in P
  <2>0. n \in Nat /\ n + 1 \in Nat
    OBVIOUS
  <2> SUFFICES ASSUME n + 1 <= Len(q) PROVE \E g : Sum(g, n + 1)
    <3> HIDE DEF Sum
    <3> QED
      BY <2>0
  <2>a. \E g : Sum(g, n)
    <3>1. n <= Len(q)
      BY <1>1, <2>0
    <3> HIDE DEF Sum
    <3> QED
      BY <3>1
  <2>1. PICK g : Sum(g, n)
    BY <2>a
  <2> DEFINE h == [i \in 0 .. n + 1 |-> IF i = n + 1 THEN g[n] + OrTen(q[n + 1].weight) ELSE g[i]]
  <2>2. g[n] \in Nat /\ OrTen(q[n + 1].weight) \in Nat
    BY <1>1, <2>1
  <2>3. h \in [0 .. n + 1 -> Nat] /\ h[0] = 0
    BY <2>1, <2>2
  <2>4. \A i \in 1 .. n + 1 : h[i] = h[i - 1] + OrTen(q[i].weight)
    BY <2>1, <2>2
  <2> QED
    BY <2>3, <2>4
<1>4. Len(q) \in P
  <2> HIDE DEF P
  <2>1. P \in SUBSET Nat
    BY DEF P
  <2> QED
    BY <1>1, <1>2, <1>3, <2>1, AllNat
<1>5. PICK g : Sum(g, Len(q))
  BY <1>1, <1>4
<1>6. Is(g)
  BY <1>1, <1>5
<1>7. WeightTo(q) = CHOOSE f : Is(f)
  BY DEF WeightTo
<1>8. Is(WeightTo(q))
  <2> HIDE DEF Is
  <2> QED
    BY <1>6, <1>7
<1>9. WeightTo(q) = g
  <2> DEFINE f == WeightTo(q)
             R == {n \in Nat : n <= Len(q) => f[n] = g[n]}
  <2>1. f = [i \in 0 .. Len(q) |-> IF i = 0 THEN 0 ELSE f[i - 1] + OrTen(q[i].weight)]
    BY <1>8
  <2> HIDE DEF f
  <2>2. 0 \in R
    BY <1>1, <1>5, <2>1
  <2>3. ASSUME NEW n \in R PROVE n + 1 \in R
    <3> SUFFICES ASSUME n + 1 <= Len(q) PROVE f[n + 1] = g[n + 1]
      OBVIOUS
    <3>1. f[n] = g[n] /\ n + 1 \in 1 .. Len(q) /\ (n + 1) - 1 = n
      BY <1>1
    <3>2. f[n + 1] = f[n] + OrTen(q[n + 1].weight)
      BY <2>1, <3>1
    <3>3. g[n + 1] = g[n] + OrTen(q[n + 1].weight)
      BY <1>5, <3>1
    <3> QED
      BY <3>1, <3>2, <3>3
  <2>4. \A n \in Nat : n \in R
    <3> HIDE DEF R
    <3>1. R \in SUBSET Nat
      BY DEF R
    <3> QED
      BY <2>2, <2>3, <3>1, AllNat
  <2>5. \A n \in 0 .. Len(q) : f[n] = g[n]
    BY <1>1, <2>4
  <2>6. f = [i \in 0 .. Len(q) |-> f[i]]
    BY <2>1
  <2>7. g = [i \in 0 .. Len(q) |-> g[i]]
    BY <1>5
  <2>8. f = g
    BY <2>5, <2>6, <2>7
  <2> QED
    BY <2>8 DEF f
<1> QED
  BY <1>1, <1>5, <1>9

\* Sums grow: a later prize's share of the numbers is past an earlier one's.
LEMMA SumsGrow ==
    ASSUME NEW q \in Seq(FairEntries), NEW i \in 0 .. Len(q), NEW j \in 0 .. Len(q), i <= j
    PROVE  WeightTo(q)[i] <= WeightTo(q)[j] /\ (i < j => WeightTo(q)[i] < WeightTo(q)[j])
<1> DEFINE f == WeightTo(q)
           P == {n \in Nat : i + n <= Len(q) => f[i] <= f[i + n] /\ (n > 0 => f[i] < f[i + n])}
<1>1. /\ Len(q) \in Nat /\ DOMAIN q = 1 .. Len(q) /\ \A k \in 1 .. Len(q) : OrTen(q[k].weight) \in Nat \ {0}
      /\ f \in [0 .. Len(q) -> Nat]
      /\ \A k \in 1 .. Len(q) : f[k] = f[k - 1] + OrTen(q[k].weight)
  <2>1. Len(q) \in Nat /\ DOMAIN q = 1 .. Len(q)
    BY LenProperties
  <2> QED
    BY <2>1, WeightCounts, SumsExist
<1> HIDE DEF f
<1>2. 0 \in P
  BY <1>1
<1>3. ASSUME NEW n \in P PROVE n + 1 \in P
  <2>0. n \in Nat /\ i \in Nat /\ n + 1 \in Nat
    BY <1>1
  <2> SUFFICES ASSUME i + (n + 1) <= Len(q) PROVE f[i] <= f[i + (n + 1)] /\ f[i] < f[i + (n + 1)]
    BY <2>0
  <2>1. i + n \in 0 .. Len(q) /\ i + (n + 1) \in 1 .. Len(q) /\ (i + (n + 1)) - 1 = i + n
    BY <2>0, <1>1
  <2>2. f[i] <= f[i + n]
    BY <2>1
  <2>3. f[i + (n + 1)] = f[i + n] + OrTen(q[i + (n + 1)].weight)
    BY <1>1, <2>1
  <2>4. f[i] \in Nat /\ f[i + n] \in Nat /\ OrTen(q[i + (n + 1)].weight) \in Nat \ {0}
    BY <1>1, <2>1
  <2> QED
    BY <2>2, <2>3, <2>4
<1>4. P \in SUBSET Nat
  OBVIOUS
<1>5. \A n \in Nat : n \in P
  <2> HIDE DEF P
  <2> QED
    BY <1>2, <1>3, <1>4, AllNat
<1>6. j - i \in Nat /\ i + (j - i) = j
  BY <1>1
<1>7. i + (j - i) <= Len(q) => f[i] <= f[i + (j - i)] /\ (j - i > 0 => f[i] < f[i + (j - i)])
  BY <1>5, <1>6
<1> QED
  BY <1>1, <1>6, <1>7 DEF f

\* A number is drawn for the prize in whose share it lies.
LEMMA DrawnFor ==
    ASSUME NEW q \in FairLists, NEW n \in Nat, NEW j \in DOMAIN q, WeightTo(q)[j - 1] <= n, n < WeightTo(q)[j]
    PROVE  PickedAt(q, n) = j
<1> DEFINE sum == WeightTo(q)
           fits == {i \in DOMAIN q : n - sum[i - 1] < OrTen(q[i].weight)}
<1>0. q \in Seq(FairEntries) /\ Len(q) \in Nat /\ DOMAIN q = 1 .. Len(q)
  BY LenProperties DEF FairLists
<1>1. /\ \A k \in 0 .. Len(q) : sum[k] \in Nat
      /\ \A k \in 1 .. Len(q) : sum[k] = sum[k - 1] + OrTen(q[k].weight) /\ OrTen(q[k].weight) \in Nat
  BY <1>0, WeightCounts, SumsExist
<1>2. \A i \in DOMAIN q : i < j => sum[i] <= sum[j - 1]
  <2> SUFFICES ASSUME NEW i \in DOMAIN q, i < j PROVE sum[i] <= sum[j - 1]
    OBVIOUS
  <2>1. i \in 0 .. Len(q) /\ j - 1 \in 0 .. Len(q) /\ i <= j - 1
    BY <1>0
  <2> QED
    BY <1>0, <2>1, SumsGrow
<1> HIDE DEF sum
<1>3. \A i \in DOMAIN q : i \in fits <=> n < sum[i]
  <2> SUFFICES ASSUME NEW i \in DOMAIN q PROVE n - sum[i - 1] < OrTen(q[i].weight) <=> n < sum[i]
    OBVIOUS
  <2>1. i - 1 \in 0 .. Len(q) /\ i \in 1 .. Len(q)
    BY <1>0
  <2>2. sum[i] = sum[i - 1] + OrTen(q[i].weight) /\ OrTen(q[i].weight) \in Nat /\ sum[i - 1] \in Nat
    BY <1>1, <2>1
  <2> QED
    BY <2>2
<1>4. j \in fits
  BY <1>3 DEF sum
<1>5. \A i \in fits : j <= i
  <2> SUFFICES ASSUME NEW i \in fits, i < j PROVE FALSE
    BY <1>0
  <2>1. sum[i] <= sum[j - 1] /\ n < sum[i] /\ sum[j - 1] <= n
    BY <1>2, <1>3 DEF sum
  <2>2. sum[i] \in Nat /\ sum[j - 1] \in Nat
    BY <1>0, <1>1
  <2> QED
    BY <2>1, <2>2
<1>6. Min(fits) = j
  <2>1. \A y \in fits : y \in Nat
    BY <1>0
  <2> HIDE DEF fits
  <2>2. \A x \in fits : (\A y \in fits : x <= y) => x = j
    BY <1>4, <1>5, <2>1
  <2> QED
    BY <1>4, <1>5, <2>2 DEF Min
<1> QED
  BY <1>4, <1>6 DEF PickedAt, sum

\* Every number is in the share of a prize.
LEMMA SomeShare ==
    ASSUME NEW q \in FairLists, NEW n \in 0 .. TotalWeight(q) - 1
    PROVE  /\ TotalWeight(q) \in Nat
           /\ \E j \in DOMAIN q : WeightTo(q)[j - 1] <= n /\ n < WeightTo(q)[j]
<1>0. q \in Seq(FairEntries) /\ Len(q) \in Nat /\ DOMAIN q = 1 .. Len(q)
  BY LenProperties DEF FairLists
<1>1. WeightTo(q) \in [0 .. Len(q) -> Nat] /\ WeightTo(q)[0] = 0
  BY <1>0, SumsExist
<1>2. TotalWeight(q) \in Nat /\ n \in Nat /\ n < WeightTo(q)[Len(q)]
  BY <1>0, <1>1 DEF TotalWeight
<1> DEFINE S == {i \in 0 .. Len(q) : n < WeightTo(q)[i]}
<1>3. S \subseteq Nat /\ Len(q) \in S
  BY <1>0, <1>2
<1>4. PICK j \in S : \A i \in S : j <= i
  <2> HIDE DEF S
  <2> QED
    BY <1>3, LeastNat
<1>5. j # 0
  BY <1>1, <1>2
<1>6. j \in 1 .. Len(q) /\ j - 1 \in 0 .. Len(q) /\ j - 1 \notin S
  BY <1>0, <1>4, <1>5
<1>7. WeightTo(q)[j - 1] <= n
  BY <1>1, <1>2, <1>6
<1> QED
  BY <1>0, <1>2, <1>4, <1>6, <1>7

\* A prize is drawn for exactly its weight of the numbers.
LEMMA DrawnByWeight ==
    ASSUME NEW q \in FairLists, NEW j \in DOMAIN q
    PROVE  OrTen(q[j].weight) = Cardinality({n \in RandInts(TotalWeight(q)) : PickedAt(q, n) = j})
<1> DEFINE sum == WeightTo(q)
           share == {n \in RandInts(TotalWeight(q)) : PickedAt(q, n) = j}
<1>0. q \in Seq(FairEntries) /\ Len(q) \in Nat /\ DOMAIN q = 1 .. Len(q)
  BY LenProperties DEF FairLists
<1>1. /\ sum \in [0 .. Len(q) -> Nat] /\ TotalWeight(q) = sum[Len(q)] /\ sum[0] = 0
      /\ sum[j] = sum[j - 1] + OrTen(q[j].weight)
  BY <1>0, SumsExist DEF TotalWeight
<1>2. OrTen(q[j].weight) \in Nat \ {0} /\ sum[j - 1] \in Nat /\ sum[j] \in Nat /\ sum[Len(q)] \in Nat
  <2>1. OrTen(q[j].weight) \in Nat \ {0}
    BY <1>0, WeightCounts
  <2>2. j - 1 \in 0 .. Len(q) /\ j \in 0 .. Len(q) /\ Len(q) \in 0 .. Len(q)
    BY <1>0
  <2> HIDE DEF sum
  <2> QED
    BY <1>1, <2>1, <2>2
<1>3. sum[j] <= sum[Len(q)]
  <2>1. j \in 0 .. Len(q) /\ Len(q) \in 0 .. Len(q) /\ j <= Len(q)
    BY <1>0
  <2> QED
    BY <1>0, <2>1, SumsGrow
<1>a. RandInts(TotalWeight(q)) = 0 .. TotalWeight(q) - 1
  <2> DEFINE all == sum[Len(q)]  w == OrTen(q[j].weight)  before == sum[j - 1]
  <2>1. w \in Nat \ {0} /\ before \in Nat /\ all \in Nat /\ before + w <= all /\ TotalWeight(q) = all
    BY <1>1, <1>2, <1>3
  <2> HIDE DEF all, w, before
  <2> QED
    BY <2>1 DEF RandInts
<1>4. ASSUME NEW n \in share PROVE n \in sum[j - 1] .. sum[j] - 1
  <2>1. n \in 0 .. TotalWeight(q) - 1 /\ PickedAt(q, n) = j
    BY <1>a
  <2>2. PICK k \in DOMAIN q : WeightTo(q)[k - 1] <= n /\ n < WeightTo(q)[k]
    BY <2>1, SomeShare
  <2>3. n \in Nat
    BY <1>1, <1>2, <2>1
  <2>4. PickedAt(q, n) = k
    BY <2>2, <2>3, DrawnFor
  <2>5. k = j
    BY <2>1, <2>4
  <2> QED
    BY <1>2, <2>2, <2>3, <2>5
<1>5. ASSUME NEW n \in sum[j - 1] .. sum[j] - 1 PROVE n \in share
  <2>1. n \in Nat /\ WeightTo(q)[j - 1] <= n /\ n < WeightTo(q)[j] /\ n \in 0 .. TotalWeight(q) - 1
    BY <1>1, <1>2, <1>3
  <2> QED
    BY <1>a, <2>1, DrawnFor
<1>6. share = sum[j - 1] .. sum[j] - 1
  <2> HIDE DEF share, sum
  <2> QED
    BY <1>4, <1>5
<1> HIDE DEF share, sum
<1>7. Cardinality(sum[j - 1] .. sum[j] - 1) = OrTen(q[j].weight)
  <2>1. sum[j - 1] \in Int /\ sum[j] - 1 \in Int
    BY <1>2
  <2>2. Cardinality(sum[j - 1] .. sum[j] - 1)
          = IF sum[j - 1] > sum[j] - 1 THEN 0 ELSE (sum[j] - 1) - sum[j - 1] + 1
    BY <2>1, FS_Interval
  <2> QED
    BY <1>1, <1>2, <2>2
<1> QED
  BY <1>6, <1>7 DEF share

\* The least of some numbers is one of them.
LEMMA MinIn == ASSUME NEW S, S \subseteq Nat, S # {} PROVE Min(S) \in S
<1>1. PICK x \in S : \A y \in S : x <= y
  BY LeastNat
<1> QED
  BY <1>1 DEF Min

\* Lists in which no two elements have the same key.
Keyed(S, key) == {q \in Seq(S) : \A i, j \in DOMAIN q : key[q[i]] = key[q[j]] => i = j}

\* One element more, of a new key, keeps the keys apart.
LEMMA KeyedLonger ==
    ASSUME NEW S, NEW key, NEW q \in Keyed(S, key), NEW e \in S, \A i \in DOMAIN q : key[q[i]] # key[e]
    PROVE  Append(q, e) \in Keyed(S, key) \ {<<>>}
<1>1. q \in Seq(S) /\ Len(q) \in Nat /\ DOMAIN q = 1 .. Len(q)
  BY LenProperties DEF Keyed
<1> DEFINE r == Append(q, e)
<1>2. r \in Seq(S)
  BY <1>1, AppendedIn
<1>3. DOMAIN r = 1 .. Len(q) + 1
  BY <1>1, <1>2, AppendedLen, LenProperties
<1>4. r[Len(q) + 1] = e
  BY <1>1, AppendedLast
<1>5. \A i \in 1 .. Len(q) : r[i] = q[i]
  BY <1>1, AppendedFirst
<1> HIDE DEF r
<1>6. \A i, j \in DOMAIN r : key[r[i]] = key[r[j]] => i = j
  <2> SUFFICES ASSUME NEW i \in DOMAIN r, NEW j \in DOMAIN r, key[r[i]] = key[r[j]] PROVE i = j
    OBVIOUS
  <2>1. CASE i = Len(q) + 1 \/ j = Len(q) + 1
    BY <1>1, <1>3, <1>4, <1>5, <2>1
  <2>2. CASE i \in 1 .. Len(q) /\ j \in 1 .. Len(q)
    BY <1>1, <1>5, <2>2 DEF Keyed
  <2> QED
    BY <1>1, <1>3, <2>1, <2>2
<1>7. r # <<>>
  <2>1. 1 \in DOMAIN r
    BY <1>1, <1>3
  <2> QED
    BY <2>1
<1>8. r \in Keyed(S, key) \ {<<>>}
  BY <1>2, <1>6, <1>7 DEF Keyed
<1> QED
  BY <1>8 DEF r

\* One element fewer keeps the keys apart.
LEMMA KeyedShorter ==
    ASSUME NEW S, NEW key, NEW q \in Keyed(S, key), NEW i \in DOMAIN q
    PROVE  RemoveAt(q, i) \in Keyed(S, key) /\ (Len(q) > 1 => RemoveAt(q, i) # <<>>)
<1> DEFINE r == RemoveAt(q, i)
<1>1. q \in Seq(S) /\ Len(q) \in Nat
  BY LenProperties DEF Keyed
<1>2. r \in Seq(S) /\ Len(r) = Len(q) - 1
  BY <1>1, RemovedAt
<1>3. \A k, m \in DOMAIN r : \E x, y \in DOMAIN q : r[k] = q[x] /\ r[m] = q[y] /\ (x = y => k = m)
  BY <1>1, RemovedApart
<1> HIDE DEF r
<1>4. r \in Keyed(S, key) /\ (Len(q) > 1 => r # <<>>)
  BY <1>1, <1>2, <1>3 DEF Keyed
<1> QED
  BY <1>4 DEF r

\* An element that changes and keeps its key keeps the keys apart.
LEMMA KeyedWith ==
    ASSUME NEW S, NEW key, NEW q \in Keyed(S, key), NEW i \in DOMAIN q, NEW e \in S, key[e] = key[q[i]]
    PROVE  [q EXCEPT ![i] = e] \in Keyed(S, key) \ {<<>>}
<1>1. q \in Seq(S)
  BY DEF Keyed
<1> DEFINE r == [q EXCEPT ![i] = e]
<1>2. r \in Seq(S) /\ DOMAIN r = DOMAIN q /\ r[i] = e /\ \A k \in DOMAIN q : k # i => r[k] = q[k]
  BY <1>1
<1> HIDE DEF r
<1>3. r \in Keyed(S, key) \ {<<>>}
  BY <1>2 DEF Keyed
<1> QED
  BY <1>3 DEF r

StoreKey == [e \in StoreEntries |-> e.store]
WheelKey == [e \in WheelEntries |-> e.chest]

\* The lists of the shop are such lists.
LEMMA ListsAre ==
    /\ StoreLists = Keyed(StoreEntries, StoreKey)
    /\ WheelLists = Keyed(WheelEntries, WheelKey) \ {<<>>}
<1>1. ASSUME NEW q \in Seq(StoreEntries), NEW i \in DOMAIN q PROVE StoreKey[q[i]] = q[i].store
  BY ElementOfSeq, LenProperties DEF StoreKey
<1>2. ASSUME NEW q \in Seq(WheelEntries), NEW i \in DOMAIN q PROVE WheelKey[q[i]] = q[i].chest
  BY ElementOfSeq, LenProperties DEF WheelKey
<1>3. StoreLists = Keyed(StoreEntries, StoreKey)
  BY <1>1 DEF StoreLists, Keyed
<1>4. WheelLists = Keyed(WheelEntries, WheelKey) \ {<<>>}
  BY <1>2 DEF WheelLists, Keyed
<1> QED
  BY <1>3, <1>4

\* The next store id is above every one.
LEMMA NextIsNew ==
    ASSUME NEW q \in StoreLists
    PROVE  NextStoreId(q) \in Nat /\ \A i \in DOMAIN q : q[i].store < NextStoreId(q)
<1> DEFINE P == {n \in Nat : n <= Len(q) => \E b \in Nat : \A i \in 1 .. n : q[i].store <= b}
           S == {100} \cup StoreIds(q)
           T == {a \in S : 100 <= a}
<1>1. Len(q) \in Nat /\ DOMAIN q = 1 .. Len(q) /\ \A i \in 1 .. Len(q) : q[i].store \in Int
  <2>1. q \in Seq(StoreEntries)
    BY DEF StoreLists
  <2>2. Len(q) \in Nat /\ DOMAIN q = 1 .. Len(q)
    BY <2>1, LenProperties
  <2>3. \A i \in 1 .. Len(q) : q[i] \in StoreEntries
    BY <2>1, ElementOfSeq
  <2> QED
    BY <2>2, <2>3 DEF StoreEntries
<1>2. 0 \in P
  OBVIOUS
<1>3. ASSUME NEW n \in P PROVE n + 1 \in P
  <2>0. n \in Nat /\ n + 1 \in Nat
    OBVIOUS
  <2> SUFFICES ASSUME n + 1 <= Len(q) PROVE \E b \in Nat : \A i \in 1 .. n + 1 : q[i].store <= b
    BY <2>0
  <2>a. n <= Len(q)
    BY <1>1, <2>0
  <2>1. PICK b \in Nat : \A i \in 1 .. n : q[i].store <= b
    BY <2>a
  <2>2. q[n + 1].store \in Int
    BY <1>1, <2>0
  <2> DEFINE top == IF q[n + 1].store <= b THEN b ELSE q[n + 1].store
  <2>3. top \in Nat /\ b <= top /\ q[n + 1].store <= top
    BY <2>2
  <2>4. \A i \in 1 .. n + 1 : q[i].store <= top
    <3>1. \A i \in 1 .. n + 1 : i \in 1 .. n \/ i = n + 1
      BY <2>0
    <3>2. \A i \in 1 .. n : q[i].store \in Int
      BY <1>1, <2>0
    <3> HIDE DEF top
    <3> QED
      BY <2>1, <2>3, <3>1, <3>2
  <2> QED
    BY <2>3, <2>4
<1>4. Len(q) \in P
  <2>1. P \in SUBSET Nat
    OBVIOUS
  <2> HIDE DEF P
  <2> QED
    BY <1>1, <1>2, <1>3, <2>1, AllNat
<1>5. PICK b \in Nat : \A i \in 1 .. Len(q) : q[i].store <= b
  BY <1>1, <1>4
<1>6. S \subseteq Int /\ 100 \in T /\ T \subseteq Nat /\ Bounded(T)
  <2>1. S \subseteq Int /\ 100 \in T
    BY <1>1 DEF StoreIds
  <2>2. \A a \in S : a <= 100 + b
    BY <1>1, <1>5 DEF StoreIds
  <2>3. 100 + b \in Nat
    OBVIOUS
  <2>4. T \subseteq Nat
    BY <2>1
  <2> QED
    BY <2>1, <2>2, <2>3, <2>4 DEF Bounded
<1>7. Max(T) \in T /\ \A a \in T : a <= Max(T)
  <2> HIDE DEF T
  <2> QED
    BY <1>6, MaxIs
<1>8. PICK m \in S : m \in Nat /\ \A a \in S : a <= m
  <2>1. \A a \in S : a \in T \/ a < 100
    BY <1>6
  <2>2. 100 <= Max(T) /\ Max(T) \in Nat /\ Max(T) \in S
    BY <1>6, <1>7
  <2>3. \A a \in S : a <= Max(T)
    <3> HIDE DEF T
    <3> QED
      BY <1>6, <1>7, <2>1, <2>2
  <2> HIDE DEF S, T
  <2> QED
    BY <2>2, <2>3
<1>9. Max(S) = m
  <2> HIDE DEF S
  <2>1. \A x \in S : (\A y \in S : x >= y) => x = m
    BY <1>6, <1>8
  <2>2. \A y \in S : m >= y
    BY <1>6, <1>8
  <2> QED
    BY <1>8, <2>1, <2>2 DEF Max
<1>10. NextStoreId(q) = 1 + m
  BY <1>9 DEF NextStoreId
<1>11. \A i \in DOMAIN q : q[i].store \in S
  BY DEF StoreIds
<1> HIDE DEF S
<1>12. \A i \in DOMAIN q : q[i].store \in Int /\ q[i].store <= m
  BY <1>1, <1>8, <1>11
<1> QED
  BY <1>8, <1>10, <1>12

\* What the code finds in a list is there and has the key; where it finds nothing nothing has it.
LEMMA FoundEntry ==
    ASSUME NEW q \in StoreLists, NEW id
    PROVE  EntryAt(q, id) # 0 => EntryAt(q, id) \in DOMAIN q
<1> DEFINE S == {i \in 1 .. Len(q) : q[i].store = id}
<1>1. EntryAt(q, id) = IF S # {} THEN Min(S) ELSE 0
  BY DEF EntryAt, SelectInSeq
<1>2. S # {} => Min(S) \in S
  <2>1. S \subseteq Nat
    OBVIOUS
  <2> HIDE DEF S
  <2> QED
    BY <2>1, MinIn
<1>3. DOMAIN q = 1 .. Len(q)
  BY LenProperties DEF StoreLists
<1> QED
  BY <1>1, <1>2, <1>3

\* What a purchase finds is there; what it finds nothing for no entry has.
LEMMA FoundToBuy ==
    ASSUME NEW q \in StoreLists, NEW id
    PROVE  IF EntryFor(q, id) # 0 THEN EntryFor(q, id) \in DOMAIN q ELSE id \notin StoreIds(q)
<1> DEFINE S == {i \in 1 .. Len(q) : q[i].store = id \/ q[i].item = id}
           f == EntryFor(q, id)
<1>1. f = IF S # {} THEN Min(S) ELSE 0
  BY DEF EntryFor, SelectInSeq
<1>2. S \subseteq Nat /\ S \subseteq 1 .. Len(q)
  OBVIOUS
<1>3. DOMAIN q = 1 .. Len(q) /\ Len(q) \in Nat
  BY LenProperties DEF StoreLists
<1>4. S = {} => id \notin StoreIds(q)
  BY <1>3 DEF StoreIds
<1> HIDE DEF S, f
<1>5. S # {} => Min(S) \in S
  BY <1>2, MinIn
<1>6. IF f # 0 THEN f \in DOMAIN q ELSE id \notin StoreIds(q)
  <2>1. CASE S = {}
    BY <1>1, <1>4, <2>1
  <2>2. CASE S # {}
    <3>1. f = Min(S) /\ Min(S) \in 1 .. Len(q)
      BY <1>1, <1>2, <1>5, <2>2
    <3> QED
      BY <1>3, <3>1
  <2> QED
    BY <2>1, <2>2
<1> QED
  BY <1>6 DEF f

\* The wheel of a chest is there, or no wheel has that chest.
LEMMA FoundWheel ==
    ASSUME ShopInv, NEW s \in Servers, NEW chest
    PROVE  LET q == catalogue[s].wheels IN
           IF WheelAt(s, chest) = 0 THEN \A i \in DOMAIN q : q[i].chest # chest
           ELSE WheelAt(s, chest) \in DOMAIN q /\ q[WheelAt(s, chest)].chest = chest
<1> DEFINE q == catalogue[s].wheels
           S == {i \in 1 .. Len(q) : q[i].chest = chest}
<1>1. WheelAt(s, chest) = IF S # {} THEN Min(S) ELSE 0
  BY DEF WheelAt, SelectInSeq
<1>2. q \in WheelLists
  BY DEF ShopInv, Catalogues
<1>3. DOMAIN q = 1 .. Len(q) /\ Len(q) \in Nat
  <2> HIDE DEF q
  <2> QED
    BY <1>2, LenProperties DEF WheelLists
<1> HIDE DEF q
<1>4. S \subseteq Nat /\ \A i \in S : i # 0 /\ i \in DOMAIN q /\ q[i].chest = chest
  BY <1>3
<1>5. S = {} => \A i \in DOMAIN q : q[i].chest # chest
  BY <1>3
<1> HIDE DEF S
<1>6. S # {} => Min(S) \in S
  BY <1>4, MinIn
<1>7. IF WheelAt(s, chest) = 0 THEN \A i \in DOMAIN q : q[i].chest # chest
      ELSE WheelAt(s, chest) \in DOMAIN q /\ q[WheelAt(s, chest)].chest = chest
  BY <1>1, <1>4, <1>5, <1>6
<1> QED
  BY <1>7 DEF q

\* The prize of an item is there, or no prize is that item.
LEMMA FoundPrize ==
    ASSUME NEW w \in WheelEntries, NEW item
    PROVE  IF PrizeAt(w, item) = 0 THEN \A i \in DOMAIN w.prizes : w.prizes[i].item # item
           ELSE PrizeAt(w, item) \in DOMAIN w.prizes
<1> DEFINE q == w.prizes
           S == {i \in 1 .. Len(q) : q[i].item = item}
<1>1. PrizeAt(w, item) = IF S # {} THEN Min(S) ELSE 0
  BY DEF PrizeAt, SelectInSeq
<1>2. q \in PrizeLists
  BY DEF WheelEntries
<1>3. DOMAIN q = 1 .. Len(q) /\ Len(q) \in Nat
  <2> HIDE DEF q
  <2> QED
    BY <1>2, LenProperties DEF PrizeLists
<1> HIDE DEF q
<1>4. S \subseteq Nat /\ \A i \in S : i # 0 /\ i \in DOMAIN q
  BY <1>3
<1>5. S = {} => \A i \in DOMAIN q : q[i].item # item
  BY <1>3
<1> HIDE DEF S
<1>6. S # {} => Min(S) \in S
  BY <1>4, MinIn
<1>7. IF PrizeAt(w, item) = 0 THEN \A i \in DOMAIN q : q[i].item # item ELSE PrizeAt(w, item) \in DOMAIN q
  BY <1>1, <1>4, <1>5, <1>6
<1> QED
  BY <1>7 DEF q
-----------------------------------------------------------------------------
\* Whatever a wheel draws is an item.
LEMMA DrawnIsItem == ASSUME NEW q \in PrizeLists, NEW n PROVE PickWeightedItem(q, n) \in Items
<1> DEFINE fits == {i \in DOMAIN q : n - WeightTo(q)[i - 1] < OrTen(q[i].weight)}
<1>1. /\ DOMAIN q = 1 .. Len(q) /\ Len(q) \in Nat \ {0} /\ \A i \in 1 .. Len(q) : q[i].item \in Items
  <2>1. q \in Seq(PrizeEntries) /\ q # <<>>
    BY DEF PrizeLists
  <2>2. DOMAIN q = 1 .. Len(q) /\ Len(q) \in Nat /\ Len(q) # 0
    BY <2>1, LenProperties, EmptySeq
  <2>3. \A i \in 1 .. Len(q) : q[i] \in PrizeEntries
    BY <2>1, ElementOfSeq
  <2> QED
    BY <2>2, <2>3 DEF PrizeEntries
<1>2. fits \subseteq Nat /\ fits \subseteq 1 .. Len(q)
  BY <1>1
<1>3. PickWeightedItem(q, n) = q[IF fits = {} THEN 1 ELSE Min(fits)].item
  BY DEF PickWeightedItem, PickedAt
<1> HIDE DEF fits
<1>4. fits # {} => Min(fits) \in fits
  BY <1>2, MinIn
<1>5. CASE fits = {}
  BY <1>1, <1>3, <1>5
<1>6. CASE fits # {}
  <2>1. Min(fits) \in 1 .. Len(q) /\ PickWeightedItem(q, n) = q[Min(fits)].item
    BY <1>2, <1>3, <1>4, <1>6
  <2> QED
    BY <1>1, <2>1
<1> QED
  BY <1>5, <1>6

\* An edit that leaves sound lists.
LEMMA EditStoreStep ==
    ASSUME ShopInv, NEW s \in Servers, NEW items \in StoreLists, EditStore(s, items)
    PROVE  ShopInv'
<1>1. /\ edits' = edits + 1 /\ UNCHANGED <<balance, backpack, purchases, rewards>>
      /\ catalogue' = [catalogue EXCEPT ![s].store = items]
      /\ file' \in {file, [file EXCEPT !.store = items]}
  BY DEF EditStore, Edit, Unsold
<1>2. file' \in Catalogues /\ catalogue' \in [Servers -> Catalogues]
  BY <1>1 DEF ShopInv, Catalogues
<1> QED
  BY <1>1, <1>2 DEF ShopInv, WalletInSync

\* The same of the wheels.
LEMMA EditWheelsStep ==
    ASSUME ShopInv, NEW s \in Servers, NEW wheels \in WheelLists, EditWheels(s, wheels)
    PROVE  ShopInv'
<1>1. /\ edits' = edits + 1 /\ UNCHANGED <<balance, backpack, purchases, rewards>>
      /\ catalogue' = [catalogue EXCEPT ![s].wheels = wheels]
      /\ file' \in {file, [file EXCEPT !.wheels = wheels]}
  BY DEF EditWheels, Edit, Unsold
<1>2. file' \in Catalogues /\ catalogue' \in [Servers -> Catalogues]
  BY <1>1 DEF ShopInv, Catalogues
<1> QED
  BY <1>1, <1>2 DEF ShopInv, WalletInSync

\* A purchase.
LEMMA SoldStep ==
    ASSUME ShopInv, NEW coins \in Nat, NEW gems \in Nat, NEW items \in SUBSET Items, Sold(coins, gems, items)
    PROVE  ShopInv'
<1>1. /\ purchases' = purchases + 1 /\ UNCHANGED <<file, catalogue, edits, rewards>>
      /\ balance' = Bought(balance, coins, gems) /\ backpack' = backpack \cup items
  BY DEF Sold
<1>2. balance.coins \in Nat /\ balance.gems \in Nat /\ rewards \in Nat
  BY DEF ShopInv, Balances
<1>3. Paid(balance.coins, coins) \in Nat /\ Paid(balance.gems, gems) \in Nat
  BY <1>2 DEF Paid
<1>4. balance' \in Balances /\ balance'.walletGems = balance'.gems /\ balance'.walletCoins = balance'.coins
      /\ balance'.coins \in Nat
  BY <1>1, <1>3 DEF Bought, Balances
<1>5. WalletInSync'
  BY <1>1, <1>2, <1>4 DEF WalletInSync
<1> QED
  BY <1>1, <1>4, <1>5 DEF ShopInv

\* The prices and weights of an edit are above their floors.
LEMMA AtLeastIs == /\ \A n \in Int : AtLeast(0, n) \in Nat /\ AtLeast(1, n) \in Nat \ {0}
                   /\ \A n \in Nat : AtLeast(1, n) = IF n = 0 THEN 1 ELSE n
  BY DEF AtLeast

\* The edits of the store.
LEMMA StoreEdited ==
    ASSUME ShopInv, NEW s \in Servers, NEW item \in Items, NEW price \in Prices,
           NEW asked \in Int, NEW id,
           AddStoreItem(s, item, asked, price, 0) \/ UpdateStoreItem(s, id, item, price)
    PROVE  ShopInv'
<1> DEFINE q == catalogue[s].store
<1>0. q \in StoreLists /\ q \in Seq(StoreEntries) /\ q \in Keyed(StoreEntries, StoreKey)
  BY ListsAre DEF ShopInv, Catalogues, StoreLists
<1>1. AtLeast(0, price) \in Nat /\ AtLeast(0, 0) \in Nat /\ price \in Int
  BY AtLeastIs, ShopAssumption
<1>2. ASSUME AddStoreItem(s, item, asked, price, 0) PROVE ShopInv'
  <2> DEFINE new == StoreId(q, asked)
             e == [store |-> new, item |-> item, coins |-> AtLeast(0, price), gems |-> AtLeast(0, 0)]
  <2>1. EditStore(s, Append(q, e))
    BY <1>2 DEF AddStoreItem
  <2> HIDE DEF q
  <2>2. new \in Int /\ \A i \in DOMAIN q : q[i].store # new
    <3>1. NextStoreId(q) \in Nat /\ \A i \in DOMAIN q : q[i].store < NextStoreId(q)
      BY <1>0, NextIsNew
    <3>2. \A i \in DOMAIN q : q[i].store \in Int
      <4>1. \A i \in DOMAIN q : q[i] \in StoreEntries
        BY <1>0, ElementOfSeq, LenProperties
      <4> QED
        BY <4>1 DEF StoreEntries
    <3>3. CASE asked = 0 \/ asked \in StoreIds(q)
      BY <3>1, <3>2, <3>3 DEF StoreId
    <3>4. CASE ~ (asked = 0 \/ asked \in StoreIds(q))
      BY <3>4 DEF StoreId, StoreIds
    <3> QED
      BY <3>3, <3>4
  <2>3. e \in StoreEntries /\ e.store = new
    <3> HIDE DEF new
    <3> QED
      BY <1>1, <2>2 DEF StoreEntries
  <2>4. \A i \in DOMAIN q : StoreKey[q[i]] # StoreKey[e]
    <3>1. \A i \in DOMAIN q : q[i] \in StoreEntries
      BY <1>0, ElementOfSeq, LenProperties
    <3> HIDE DEF e, new
    <3> QED
      BY <2>2, <2>3, <3>1 DEF StoreKey
  <2> HIDE DEF e
  <2>5. Append(q, e) \in StoreLists
    BY <1>0, <2>3, <2>4, KeyedLonger, ListsAre
  <2> QED
    BY <2>1, <2>5, EditStoreStep
<1>3. ASSUME UpdateStoreItem(s, id, item, price) PROVE ShopInv'
  <2> DEFINE found == EntryAt(q, id)
             e == [q[found] EXCEPT !.item = item, !.coins = AtLeast(0, price)]
  <2>1. found # 0 /\ EditStore(s, [q EXCEPT ![found].item = item, ![found].coins = AtLeast(0, price)])
    BY <1>3 DEF UpdateStoreItem
  <2>2. found \in DOMAIN q
    <3> HIDE DEF q
    <3> QED
      BY <1>0, <2>1, FoundEntry
  <2> HIDE DEF q, found
  <2>3. q[found] \in StoreEntries
    BY <1>0, <2>2, ElementOfSeq, LenProperties
  <2>4. e \in StoreEntries /\ e.store = q[found].store
    BY <1>1, <2>3 DEF StoreEntries
  <2>5. [q EXCEPT ![found].item = item, ![found].coins = AtLeast(0, price)] = [q EXCEPT ![found] = e]
    BY <2>2, <2>3
  <2>6. StoreKey[e] = StoreKey[q[found]]
    BY <2>3, <2>4 DEF StoreKey
  <2> HIDE DEF e
  <2>7. [q EXCEPT ![found] = e] \in StoreLists
    BY <1>0, <2>2, <2>4, <2>6, KeyedWith, ListsAre
  <2> QED
    BY <2>1, <2>5, <2>7, EditStoreStep
<1> QED
  BY <1>2, <1>3
\* An entry of the store deleted.
LEMMA StoreCut == ASSUME ShopInv, NEW s \in Servers, NEW id, DeleteStoreItem(s, id) PROVE ShopInv'
<1> DEFINE q == catalogue[s].store  found == EntryAt(q, id)
<1>1. q \in StoreLists /\ q \in Keyed(StoreEntries, StoreKey)
  BY ListsAre DEF ShopInv, Catalogues
<1>2. found # 0 /\ EditStore(s, RemoveAt(q, found))
  BY DEF DeleteStoreItem
<1>3. found \in DOMAIN q
  <2> HIDE DEF q
  <2> QED
    BY <1>1, <1>2, FoundEntry
<1> HIDE DEF q, found
<1>4. RemoveAt(q, found) \in StoreLists
  BY <1>1, <1>3, KeyedShorter, ListsAre
<1> QED
  BY <1>2, <1>4, EditStoreStep

\* The wheels of a server, and one of them.
LEMMA WheelsAre ==
    ASSUME ShopInv, NEW s \in Servers
    PROVE  /\ catalogue[s].wheels \in WheelLists /\ catalogue[s].wheels \in Seq(WheelEntries)
           /\ catalogue[s].wheels \in Keyed(WheelEntries, WheelKey)
           /\ \A i \in DOMAIN catalogue[s].wheels : catalogue[s].wheels[i] \in WheelEntries
<1> DEFINE q == catalogue[s].wheels
<1>1. q \in WheelLists
  BY DEF ShopInv, Catalogues
<1> HIDE DEF q
<1>2. q \in Seq(WheelEntries) /\ q \in Keyed(WheelEntries, WheelKey)
  BY <1>1, ListsAre DEF WheelLists
<1>3. \A i \in DOMAIN q : q[i] \in WheelEntries
  BY <1>2, ElementOfSeq, LenProperties
<1> QED
  BY <1>1, <1>2, <1>3 DEF q

\* A wheel that changes and keeps its chest.
LEMMA WheelChanged ==
    ASSUME ShopInv, NEW s \in Servers, NEW i \in DOMAIN catalogue[s].wheels, NEW w \in WheelEntries,
           w.chest = catalogue[s].wheels[i].chest, EditWheels(s, [catalogue[s].wheels EXCEPT ![i] = w])
    PROVE  ShopInv'
<1> DEFINE q == catalogue[s].wheels
<1>1. q \in WheelLists /\ q \in Keyed(WheelEntries, WheelKey) /\ q[i] \in WheelEntries /\ i \in DOMAIN q
  BY WheelsAre
<1>2. WheelKey[w] = WheelKey[q[i]]
  BY <1>1 DEF WheelKey
<1>3. EditWheels(s, [q EXCEPT ![i] = w])
  OBVIOUS
<1> HIDE DEF q
<1>4. [q EXCEPT ![i] = w] \in WheelLists
  BY <1>1, <1>2, KeyedWith, ListsAre
<1> QED
  BY <1>3, <1>4, EditWheelsStep

\* The pools a wheel may be added with.
NewPools == Pools \cup {DefaultPool(grand) : grand \in Grands}

\* A new wheel has prizes, sent or the two of the code.
LEMMA NewWheelIs ==
    ASSUME NEW chest \in Chests, NEW currency \in {"coins", "gems"}, NEW price \in Prices, NEW prizes \in NewPools
    PROVE  NewWheel(chest, currency, price, prizes) \in WheelEntries /\ NewWheel(chest, currency, price, prizes).chest = chest
<1>1. /\ chest \in Nat /\ {1, 3} \subseteq Items /\ price \in Int /\ 2 * price \in Int /\ Grands \subseteq Items \cup {0}
  BY ShopAssumption
<1>2. AtLeast(1, price) \in Nat \ {0} /\ AtLeast(1, 2 * price) \in Nat \ {0}
  BY <1>1, AtLeastIs
<1>3. ASSUME NEW grand \in Grands PROVE DefaultPool(grand) \in PrizeLists
  <2> DEFINE a == [item |-> IF grand = 0 THEN 3 ELSE grand, weight |-> 3]
             b == [item |-> 1, weight |-> 5]
  <2>1. a \in PrizeEntries /\ b \in PrizeEntries
    BY <1>1 DEF PrizeEntries
  <2>2. DefaultPool(grand) = <<a, b>>
    BY DEF DefaultPool
  <2> HIDE DEF a, b
  <2> QED
    BY <2>1, <2>2 DEF PrizeLists
<1>4. Pools \subseteq PrizeLists
  BY ShopAssumption DEF PrizeLists, PrizeEntries
<1>5. prizes \in PrizeLists
  BY <1>3, <1>4 DEF NewPools
<1> QED
  BY <1>1, <1>2, <1>5 DEF WheelEntries, NewWheel

\* The edits of the wheels.
LEMMA WheelsEdited ==
    ASSUME ShopInv, NEW s \in Servers, NEW chest \in Chests, NEW currency \in {"coins", "gems"}, NEW price \in Prices,
           \/ UpdateWheel(s, chest, currency, price)
           \/ \E prizes \in NewPools : AddWheel(s, chest, currency, price, prizes)
    PROVE  ShopInv'
<1> DEFINE q == catalogue[s].wheels  i == WheelAt(s, chest)
<1>0. /\ q \in WheelLists /\ q \in Keyed(WheelEntries, WheelKey) /\ \A k \in DOMAIN q : q[k] \in WheelEntries
      /\ IF i = 0 THEN \A k \in DOMAIN q : q[k].chest # chest ELSE i \in DOMAIN q
  BY WheelsAre, FoundWheel
<1>1. ASSUME NEW prizes \in NewPools, AddWheel(s, chest, currency, price, prizes) PROVE ShopInv'
  <2> DEFINE w == NewWheel(chest, currency, price, prizes)
  <2>1. i = 0 /\ EditWheels(s, Append(q, w))
    BY <1>1 DEF AddWheel
  <2>2. w \in WheelEntries /\ w.chest = chest
    BY NewWheelIs
  <2> HIDE DEF q, i, w
  <2>3. \A k \in DOMAIN q : WheelKey[q[k]] # WheelKey[w]
    BY <1>0, <2>1, <2>2 DEF WheelKey
  <2>4. Append(q, w) \in WheelLists
    BY <1>0, <2>2, <2>3, KeyedLonger, ListsAre
  <2> QED
    BY <2>1, <2>4, EditWheelsStep
<1>2. ASSUME UpdateWheel(s, chest, currency, price) PROVE ShopInv'
  <2> DEFINE w == [q[i] EXCEPT !.currency = currency, !.once = AtLeast(1, price), !.ten = AtLeast(1, 2 * price)]
  <2>1. i # 0 /\ EditWheels(s, [q EXCEPT ![i].currency = currency, ![i].once = AtLeast(1, price),
                                         ![i].ten = AtLeast(1, 2 * price)])
    BY <1>2 DEF UpdateWheel
  <2>2. AtLeast(1, price) \in Nat \ {0} /\ AtLeast(1, 2 * price) \in Nat \ {0}
    <3>1. price \in Int /\ 2 * price \in Int
      BY ShopAssumption
    <3> QED
      BY <3>1, AtLeastIs
  <2>3. q[i] \in WheelEntries /\ i \in DOMAIN q
    BY <1>0, <2>1
  <2>4. w \in WheelEntries /\ w.chest = q[i].chest
    <3> HIDE DEF q, i
    <3> QED
      BY <2>2, <2>3 DEF WheelEntries
  <2>5. [q EXCEPT ![i].currency = currency, ![i].once = AtLeast(1, price), ![i].ten = AtLeast(1, 2 * price)]
          = [q EXCEPT ![i] = w]
    <3> HIDE DEF q, i
    <3> QED
      BY <2>3
  <2> HIDE DEF i, w
  <2> QED
    BY <2>1, <2>3, <2>4, <2>5, WheelChanged
<1> QED
  BY <1>1, <1>2

\* A wheel deleted, not the last.
LEMMA WheelCut == ASSUME ShopInv, NEW s \in Servers, NEW chest \in Chests, DeleteWheel(s, chest) PROVE ShopInv'
<1> DEFINE q == catalogue[s].wheels  i == WheelAt(s, chest)
<1>1. i # 0 /\ Len(q) > 1 /\ EditWheels(s, RemoveAt(q, i))
  BY DEF DeleteWheel
<1>2. q \in Keyed(WheelEntries, WheelKey) /\ i \in DOMAIN q
  BY <1>1, WheelsAre, FoundWheel
<1> HIDE DEF q, i
<1>3. RemoveAt(q, i) \in WheelLists
  BY <1>1, <1>2, KeyedShorter, ListsAre
<1> QED
  BY <1>1, <1>3, EditWheelsStep

\* The wheel of a chest and its prizes, and where one of them stands.
LEMMA WheelIs ==
    ASSUME ShopInv, NEW s \in Servers, NEW chest \in Chests, NEW item, WheelAt(s, chest) # 0
    PROVE  LET i == WheelAt(s, chest)
               w == catalogue[s].wheels[i]
               j == PrizeAt(w, item) IN
           /\ i \in DOMAIN catalogue[s].wheels /\ w \in WheelEntries
           /\ IF j = 0 THEN \A k \in DOMAIN w.prizes : w.prizes[k].item # item ELSE j \in DOMAIN w.prizes
           /\ w.prizes \in PrizeLists /\ w.prizes \in Seq(PrizeEntries)
           /\ \A k \in DOMAIN w.prizes : w.prizes[k] \in PrizeEntries
<1> DEFINE i == WheelAt(s, chest)  w == catalogue[s].wheels[i]  p == w.prizes  j == PrizeAt(w, item)
<1>1. i \in DOMAIN catalogue[s].wheels /\ w \in WheelEntries
  BY WheelsAre, FoundWheel
<1>2. IF j = 0 THEN \A k \in DOMAIN p : p[k].item # item ELSE j \in DOMAIN p
  BY <1>1, FoundPrize
<1>3. p \in PrizeLists
  <2> HIDE DEF w
  <2> QED
    BY <1>1 DEF WheelEntries
<1>4. p \in Seq(PrizeEntries) /\ \A k \in DOMAIN p : p[k] \in PrizeEntries
  <2> HIDE DEF p
  <2>1. p \in Seq(PrizeEntries)
    BY <1>3 DEF PrizeLists
  <2> QED
    BY <2>1, ElementOfSeq, LenProperties
<1> QED
  BY <1>1, <1>2, <1>3, <1>4

\* A wheel with other prizes.
LEMMA PrizesWith ==
    ASSUME ShopInv, NEW s \in Servers, NEW i \in DOMAIN catalogue[s].wheels, NEW r \in PrizeLists,
           EditWheels(s, [catalogue[s].wheels EXCEPT ![i].prizes = r])
    PROVE  ShopInv'
<1> DEFINE q == catalogue[s].wheels  w == q[i]  v == [w EXCEPT !.prizes = r]
<1>1. w \in WheelEntries
  BY WheelsAre
<1>2. v \in WheelEntries /\ v.chest = w.chest
  <2> HIDE DEF w
  <2> QED
    BY <1>1 DEF WheelEntries
<1>3. [q EXCEPT ![i].prizes = r] = [q EXCEPT ![i] = v]
  OBVIOUS
<1>4. EditWheels(s, [q EXCEPT ![i] = v])
  BY <1>3
<1> HIDE DEF v
<1> QED
  BY <1>2, <1>4, WheelChanged

\* The edits of a wheel's prizes.
LEMMA PrizesEdited ==
    ASSUME ShopInv, NEW s \in Servers, NEW chest \in Chests, NEW item \in Items, NEW weight \in Weights,
           AddWheelReward(s, chest, item, weight) \/ UpdateWheelReward(s, chest, item, weight)
    PROVE  ShopInv'
<1> DEFINE q == catalogue[s].wheels  i == WheelAt(s, chest)  w == q[i]  p == w.prizes  j == PrizeAt(w, item)
<1>1. /\ i \in DOMAIN q /\ w \in WheelEntries
      /\ IF j = 0 THEN \A k \in DOMAIN p : p[k].item # item ELSE j \in DOMAIN p
      /\ p \in PrizeLists /\ p \in Seq(PrizeEntries) /\ \A k \in DOMAIN p : p[k] \in PrizeEntries
  <2>1. i # 0
    BY DEF AddWheelReward, UpdateWheelReward
  <2> QED
    BY <2>1, WheelIs
<1>2. AtLeast(1, weight) \in Int /\ [item |-> item, weight |-> AtLeast(1, OrTen(weight))] \in PrizeEntries
  <2>1. AtLeast(1, weight) \in Int /\ AtLeast(1, OrTen(weight)) \in Int
    BY ShopAssumption DEF AtLeast, OrTen
  <2> QED
    BY <2>1 DEF PrizeEntries
<1>4. ASSUME AddWheelReward(s, chest, item, weight) PROVE ShopInv'
  <2> DEFINE e == [item |-> item, weight |-> AtLeast(1, OrTen(weight))]
  <2>1. j = 0 /\ EditWheels(s, [q EXCEPT ![i].prizes = Append(p, e)])
    BY <1>4 DEF AddWheelReward
  <2>2. Append(p, e) \in PrizeLists
    <3> HIDE DEF p, e
    <3>1. Append(p, e) \in Seq(PrizeEntries) /\ Len(Append(p, e)) = Len(p) + 1 /\ Len(p) \in Nat
      BY <1>1, <1>2, AppendedIn, AppendedLen, LenProperties DEF e
    <3>2. Append(p, e) # <<>>
      BY <3>1, EmptySeq
    <3> QED
      BY <3>1, <3>2 DEF PrizeLists
  <2> DEFINE r == Append(p, e)
  <2>3. r \in PrizeLists /\ EditWheels(s, [q EXCEPT ![i].prizes = r])
    BY <2>1, <2>2
  <2> HIDE DEF r
  <2> QED
    BY <1>1, <2>3, PrizesWith
<1>5. ASSUME UpdateWheelReward(s, chest, item, weight) PROVE ShopInv'
  <2> DEFINE e == [p[j] EXCEPT !.weight = AtLeast(1, weight)]
             r == [p EXCEPT ![j] = e]
  <2>1. j # 0 /\ EditWheels(s, [q EXCEPT ![i].prizes[j].weight = AtLeast(1, weight)])
    BY <1>5 DEF UpdateWheelReward
  <2>2. j \in DOMAIN p /\ p[j] \in PrizeEntries
    BY <1>1, <2>1
  <2>3. e \in PrizeEntries
    <3> HIDE DEF p, j
    <3> QED
      BY <1>2, <2>2 DEF PrizeEntries
  <2>4. r \in PrizeLists
    <3> HIDE DEF p, j, e
    <3>1. r \in Seq(PrizeEntries) /\ r[j] = e /\ j \in DOMAIN r
      BY <1>1, <2>2, <2>3
    <3>2. r # <<>>
      BY <3>1
    <3> QED
      BY <3>1, <3>2 DEF PrizeLists
  <2>5. [q EXCEPT ![i].prizes[j].weight = AtLeast(1, weight)] = [q EXCEPT ![i].prizes = r]
    <3> HIDE DEF q, i, j
    <3> QED
      OBVIOUS
  <2>6. EditWheels(s, [q EXCEPT ![i].prizes = r])
    BY <2>1, <2>5
  <2> HIDE DEF r
  <2> QED
    BY <1>1, <2>4, <2>6, PrizesWith
<1> QED
  BY <1>4, <1>5

\* A prize deleted, not the last.
LEMMA PrizeCut ==
    ASSUME ShopInv, NEW s \in Servers, NEW chest \in Chests, NEW item, DeleteWheelReward(s, chest, item)
    PROVE  ShopInv'
<1> DEFINE q == catalogue[s].wheels  i == WheelAt(s, chest)  w == q[i]  p == w.prizes  j == PrizeAt(w, item)
           r == RemoveAt(p, j)
<1>1. i # 0 /\ j # 0 /\ Len(p) > 1 /\ EditWheels(s, [q EXCEPT ![i].prizes = r])
  BY DEF DeleteWheelReward
<1>2. i \in DOMAIN q /\ j \in DOMAIN p /\ p \in Seq(PrizeEntries)
  BY <1>1, WheelIs
<1>3. r \in PrizeLists
  <2>1. Len(p) > 1
    BY <1>1
  <2> HIDE DEF p, j
  <2>2. r \in Seq(PrizeEntries) /\ Len(r) = Len(p) - 1 /\ Len(p) \in Nat
    BY <1>2, RemovedAt, LenProperties
  <2>3. r # <<>>
    BY <2>1, <2>2, EmptySeq
  <2> QED
    BY <2>2, <2>3 DEF PrizeLists
<1> HIDE DEF r, i
<1> QED
  BY <1>1, <1>2, <1>3, PrizesWith

\* The defaults are sound.
LEMMA DefaultsAre == Defaults \in Catalogues
<1> DEFINE a == [store |-> 101, item |-> 1, coins |-> 0, gems |-> 2]
           b == [store |-> 102, item |-> 2, coins |-> 2, gems |-> 0]
           p == [item |-> 2, weight |-> 1]
           r == [item |-> 3, weight |-> 3]
           q == <<p, r>>
           w == [chest |-> 1001, currency |-> "gems", once |-> 1, ten |-> 2, prizes |-> q]
<1>0. {1, 2, 3} \subseteq Items
  BY ShopAssumption
<1>1. <<a, b>> \in StoreLists
  <2>1. a \in StoreEntries /\ b \in StoreEntries /\ a.store # b.store
    BY <1>0 DEF StoreEntries
  <2> HIDE DEF a, b
  <2>2. <<a, b>> \in Seq(StoreEntries)
    BY <2>1
  <2>3. \A i, j \in DOMAIN <<a, b>> : <<a, b>>[i].store = <<a, b>>[j].store => i = j
    BY <2>1
  <2> QED
    BY <2>2, <2>3 DEF StoreLists
<1>2. q \in PrizeLists
  <2>1. p \in PrizeEntries /\ r \in PrizeEntries
    BY <1>0 DEF PrizeEntries
  <2> HIDE DEF p, r
  <2>2. q \in Seq(PrizeEntries) /\ q # <<>>
    BY <2>1
  <2> HIDE DEF q
  <2> QED
    BY <2>2 DEF PrizeLists
<1>3. <<w>> \in WheelLists
  <2> HIDE DEF q
  <2>1. w \in WheelEntries
    BY <1>2 DEF WheelEntries
  <2> HIDE DEF w
  <2>2. <<w>> \in Seq(WheelEntries) /\ <<w>> # <<>>
    BY <2>1
  <2>3. \A i, j \in DOMAIN <<w>> : <<w>>[i].chest = <<w>>[j].chest => i = j
    OBVIOUS
  <2> QED
    BY <2>2, <2>3 DEF WheelLists
<1>4. DefaultStore = <<a, b>>
  BY DEF DefaultStore
<1>5. DefaultWheels = <<w>>
  BY DEF DefaultWheels
<1> QED
  BY <1>1, <1>3, <1>4, <1>5 DEF Defaults, Catalogues

\* The shop starts sound.
LEMMA ShopStarts == ASSUME ShopInit PROVE ShopInv
<1>1. file \in Catalogues /\ catalogue \in [Servers -> Catalogues]
  BY DefaultsAre DEF ShopInit
<1>2. StartCoins \in Nat
  BY ShopAssumption
<1>3. balance \in Balances /\ WalletInSync
  BY <1>2 DEF ShopInit, Balances, WalletInSync
<1> QED
  BY <1>1, <1>3 DEF ShopInit, ShopInv

\* A process starts, or the store is reset.
LEMMA LoadStep == ASSUME ShopInv, NEW s \in Servers, LoadData(s) \/ ResetShopCatalog(s) PROVE ShopInv'
<1>0. DefaultStore \in StoreLists /\ DefaultWheels \in WheelLists
  BY DefaultsAre DEF Defaults, Catalogues
<1>1. ASSUME LoadData(s) PROVE ShopInv'
  <2>1. /\ edits' = edits + 1 /\ UNCHANGED <<file, balance, backpack, purchases, rewards>>
        /\ \E c \in [store : {file.store, DefaultStore}, wheels : {file.wheels, DefaultWheels}] :
               catalogue' = [catalogue EXCEPT ![s] = c]
    BY <1>1 DEF LoadData, Edit, Unsold
  <2>2. catalogue' \in [Servers -> Catalogues]
    <3>1. [store : {file.store, DefaultStore}, wheels : {file.wheels, DefaultWheels}] \subseteq Catalogues
      BY <1>0 DEF ShopInv, Catalogues
    <3> QED
      BY <2>1, <3>1 DEF ShopInv
  <2> QED
    BY <2>1, <2>2 DEF ShopInv, WalletInSync
<1>2. ASSUME ResetShopCatalog(s) PROVE ShopInv'
  BY <1>0, <1>2, EditStoreStep DEF ResetShopCatalog
<1> QED
  BY <1>1, <1>2

\* A purchase: the item of an entry found, or the item asked for.
LEMMA PurchaseStep ==
    ASSUME ShopInv, NEW s \in Servers, NEW id, id \in Items \/ id \in StoreIds(catalogue[s].store), NEW count \in 1 .. 2,
           Purchase(s, id, count)
    PROVE  ShopInv'
<1> DEFINE q == catalogue[s].store  found == EntryFor(q, id)
<1>1. q \in StoreLists
  BY DEF ShopInv, Catalogues
<1>2. IF found # 0 THEN found \in DOMAIN q ELSE id \notin StoreIds(q)
  <2> HIDE DEF q
  <2> QED
    BY <1>1, FoundToBuy
<1>3. IF found = 0 THEN Sold(0, 0, {id} \ {0})
      ELSE Sold(q[found].coins * count, q[found].gems * count, {q[found].item} \ {0})
  BY DEF Purchase
<1>4. id \in Items \/ id \in StoreIds(q)
  OBVIOUS
<1> HIDE DEF q, found
<1>5. CASE found = 0
  <2>1. ({id} \ {0}) \in SUBSET Items /\ 0 \in Nat /\ Sold(0, 0, {id} \ {0})
    BY <1>2, <1>3, <1>4, <1>5
  <2> QED
    BY <2>1, SoldStep
<1>6. CASE found # 0
  <2>1. q[found] \in StoreEntries
    BY <1>1, <1>2, <1>6, ElementOfSeq, LenProperties DEF StoreLists
  <2>2. q[found].coins \in Nat /\ q[found].gems \in Nat /\ ({q[found].item} \ {0}) \in SUBSET Items /\ count \in {1, 2}
    BY <2>1 DEF StoreEntries
  <2> DEFINE c == q[found].coins  g == q[found].gems
  <2>3. c * count \in Nat /\ g * count \in Nat
    <3> HIDE DEF c, g
    <3>1. c \in Nat /\ g \in Nat
      BY <2>2 DEF c, g
    <3>2. CASE count = 1
      BY <3>1, <3>2
    <3>3. CASE count = 2
      BY <3>1, <3>3
    <3> QED
      BY <2>2, <3>2, <3>3
  <2>4. Sold(c * count, g * count, {q[found].item} \ {0})
    BY <1>3, <1>6
  <2> HIDE DEF c, g
  <2> QED
    BY <2>2, <2>3, <2>4, SoldStep
<1> QED
  BY <1>5, <1>6

\* A pull, or ten.
LEMMA GachaStep ==
    ASSUME ShopInv, NEW s \in Servers, NEW chest, NEW multi \in BOOLEAN, PurchaseGacha(s, chest, multi)
    PROVE  ShopInv'
<1> DEFINE q == catalogue[s].wheels  i == AtLeast(1, WheelAt(s, chest))  w == q[i]
           price == IF multi THEN w.ten ELSE w.once
           numbers == RandInts(TotalWeight(w.prizes))
           drawable == {PickWeightedItem(w.prizes, n) : n \in numbers}
<1>1. w \in WheelEntries
  <2>1. /\ q \in WheelLists /\ \A k \in DOMAIN q : q[k] \in WheelEntries
        /\ WheelAt(s, chest) = 0 \/ WheelAt(s, chest) \in DOMAIN q
    BY WheelsAre, FoundWheel
  <2> DEFINE spot == WheelAt(s, chest)
  <2>2. i = AtLeast(1, spot) /\ (spot = 0 \/ spot \in DOMAIN q)
    BY <2>1
  <2> HIDE DEF q, i, spot
  <2>3. Len(q) \in Nat \ {0} /\ DOMAIN q = 1 .. Len(q)
    BY <2>1, LenProperties, EmptySeq DEF WheelLists
  <2>4. i \in DOMAIN q
    <3>1. spot \in Nat
      BY <2>2, <2>3
    <3>2. i = IF spot = 0 THEN 1 ELSE spot
      BY <2>2, <3>1, AtLeastIs
    <3> QED
      BY <2>2, <2>3, <3>2
  <2> QED
    BY <2>1, <2>4
<1>2. w.prizes \in PrizeLists /\ w.ten \in Nat /\ w.once \in Nat
  <2> HIDE DEF w
  <2> QED
    BY <1>1 DEF WheelEntries
<1>3. price \in Nat
  BY <1>2
<1>4. drawable \subseteq Items
  <2> HIDE DEF w, numbers
  <2> QED
    BY <1>2, DrawnIsItem
<1>5. PICK drawn \in SUBSET drawable : IF w.currency = "coins" THEN Sold(price, 0, drawn) ELSE Sold(0, price, drawn)
  BY DEF PurchaseGacha
<1> HIDE DEF w, price, drawable
<1>6. drawn \in SUBSET Items /\ 0 \in Nat /\ (Sold(price, 0, drawn) \/ Sold(0, price, drawn))
  BY <1>4, <1>5
<1> QED
  BY <1>3, <1>6, SoldStep

\* The reward of a match.
LEMMA RewardStep == ASSUME ShopInv, MatchReward PROVE ShopInv'
<1>1. /\ rewards' = rewards + 1 /\ UNCHANGED <<file, catalogue, backpack, edits, purchases>>
      /\ balance' = [balance EXCEPT !.coins = @ + 1]
  BY DEF MatchReward
<1>2. balance.coins \in Nat /\ balance.walletCoins \in Nat /\ rewards \in Nat /\ balance \in Balances
  BY DEF ShopInv, Balances
<1>3. /\ balance' \in Balances /\ balance'.coins = balance.coins + 1 /\ balance'.walletCoins = balance.walletCoins
      /\ balance'.gems = balance.gems /\ balance'.walletGems = balance.walletGems
  BY <1>1, <1>2 DEF Balances
<1>4. WalletInSync'
  BY <1>1, <1>2, <1>3 DEF WalletInSync, ShopInv
<1> QED
  BY <1>1, <1>3, <1>4 DEF ShopInv

\* Every step of the shop.
LEMMA ShopStep == ASSUME ShopInv, [ShopNext]_shopVars PROVE ShopInv'
<1>1. CASE UNCHANGED shopVars
  BY <1>1 DEF shopVars, ShopInv, WalletInSync
<1>2. CASE MatchReward
  BY <1>2, RewardStep
<1>3. ASSUME NEW s \in Servers, LoadData(s) \/ ResetShopCatalog(s) PROVE ShopInv'
  BY <1>3, LoadStep
<1>4. ASSUME NEW s \in Servers, NEW item \in Items, NEW price \in Prices,
             \/ \E asked \in AskedIds : AddStoreItem(s, item, asked, price, 0)
             \/ \E id \in StoreIds(catalogue[s].store) : UpdateStoreItem(s, id, item, price)
      PROVE ShopInv'
  <2>1. ASSUME NEW asked \in AskedIds, AddStoreItem(s, item, asked, price, 0) PROVE ShopInv'
    <3>1. asked \in Int
      BY ShopAssumption
    <3> QED
      BY <2>1, <3>1, StoreEdited
  <2>2. ASSUME NEW id, UpdateStoreItem(s, id, item, price) PROVE ShopInv'
    <3>1. 0 \in Int
      OBVIOUS
    <3> QED
      BY <2>2, <3>1, StoreEdited
  <2> QED
    BY <1>4, <2>1, <2>2
<1>5. ASSUME NEW s \in Servers, NEW id \in StoreIds(catalogue[s].store),
             DeleteStoreItem(s, id) \/ \E count \in 1 .. 2 : Purchase(s, id, count)
      PROVE ShopInv'
  BY <1>5, StoreCut, PurchaseStep
<1>6. ASSUME NEW s \in Servers, NEW item \in Items, Purchase(s, item, 1) PROVE ShopInv'
  <2>1. 1 \in 1 .. 2
    OBVIOUS
  <2> QED
    BY <1>6, <2>1, PurchaseStep
<1>7. ASSUME NEW s \in Servers, NEW chest \in Chests,
             \/ \E currency \in {"coins", "gems"}, price \in Prices :
                    \/ UpdateWheel(s, chest, currency, price)
                    \/ \E prizes \in NewPools : AddWheel(s, chest, currency, price, prizes)
             \/ DeleteWheel(s, chest)
      PROVE ShopInv'
  BY <1>7, WheelsEdited, WheelCut
<1>8. ASSUME NEW s \in Servers, NEW chest \in Chests, NEW item \in Items,
             \/ DeleteWheelReward(s, chest, item)
             \/ \E weight \in Weights :
                    AddWheelReward(s, chest, item, weight) \/ UpdateWheelReward(s, chest, item, weight)
      PROVE ShopInv'
  BY <1>8, PrizesEdited, PrizeCut
<1>9. ASSUME NEW s \in Servers, NEW chest \in Chests, NEW multi \in BOOLEAN, PurchaseGacha(s, chest, multi)
      PROVE ShopInv'
  BY <1>9, GachaStep
<1>10. CASE ShopNext
  BY <1>2, <1>3, <1>4, <1>5, <1>6, <1>7, <1>8, <1>9, <1>10 DEF ShopNext, NewPools
<1> QED
  BY <1>1, <1>10

\* A sound catalogue says what CatalogueSound and the type invariant say of it.
LEMMA CatalogueIs ==
    ASSUME NEW c \in Catalogues
    PROVE  /\ \A i \in DOMAIN c.store : c.store[i].item \in Items /\ {c.store[i].coins, c.store[i].gems} \subseteq Nat
           /\ \A i, j \in DOMAIN c.store : c.store[i].store = c.store[j].store => i = j
           /\ c.wheels # <<>> /\ \A i, j \in DOMAIN c.wheels : c.wheels[i].chest = c.wheels[j].chest => i = j
           /\ \A i \in DOMAIN c.wheels :
                  /\ {c.wheels[i].once, c.wheels[i].ten} \subseteq Nat \ {0}
                  /\ c.wheels[i].prizes \in PrizeLists
<1>1. c.store \in StoreLists /\ c.wheels \in WheelLists
  BY DEF Catalogues
<1>2. \A i \in DOMAIN c.store : c.store[i] \in StoreEntries
  <2> DEFINE q == c.store
  <2> HIDE DEF q
  <2>1. q \in StoreLists
    BY <1>1 DEF q
  <2>2. \A i \in DOMAIN q : q[i] \in StoreEntries
    BY <2>1, ElementOfSeq, LenProperties DEF StoreLists
  <2> QED
    BY <2>2 DEF q
<1>3. \A i \in DOMAIN c.wheels : c.wheels[i] \in WheelEntries
  <2> DEFINE q == c.wheels
  <2> HIDE DEF q
  <2>1. q \in WheelLists
    BY <1>1 DEF q
  <2>2. \A i \in DOMAIN q : q[i] \in WheelEntries
    BY <2>1, ElementOfSeq, LenProperties DEF WheelLists
  <2> QED
    BY <2>2 DEF q
<1>4. \A i \in DOMAIN c.store : c.store[i].item \in Items /\ {c.store[i].coins, c.store[i].gems} \subseteq Nat
  BY <1>2 DEF StoreEntries
<1>5. \A i \in DOMAIN c.wheels : {c.wheels[i].once, c.wheels[i].ten} \subseteq Nat \ {0} /\ c.wheels[i].prizes \in PrizeLists
  BY <1>3 DEF WheelEntries
<1> QED
  BY <1>1, <1>4, <1>5 DEF StoreLists, WheelLists

\* The prizes of a list of prizes; without a negative weight among them it is a fair one.
LEMMA PrizesAre ==
    ASSUME NEW q \in PrizeLists
    PROVE  /\ q # <<>> /\ \A j \in DOMAIN q : q[j].item \in Items /\ q[j].weight \in Int
           /\ (\A j \in DOMAIN q : q[j].weight >= 0) => q \in FairLists
<1>1. q \in Seq(PrizeEntries) /\ DOMAIN q = 1 .. Len(q) /\ Len(q) \in Nat /\ \A j \in DOMAIN q : q[j] \in PrizeEntries
  BY ElementOfSeq, LenProperties DEF PrizeLists
<1>2. ASSUME \A j \in DOMAIN q : q[j].weight >= 0 PROVE q \in FairLists
  <2>1. \A j \in 1 .. Len(q) : q[j] \in FairEntries
    BY <1>1, <1>2 DEF PrizeEntries, FairEntries
  <2>2. q \in Seq(FairEntries)
    BY <1>1, <2>1, SeqDef
  <2> QED
    BY <2>2 DEF PrizeLists, FairLists
<1> QED
  BY <1>1, <1>2 DEF PrizeLists, PrizeEntries

\* What the invariant says of the shop.
LEMMA ShopIs == ASSUME ShopInv PROVE ShopTypeOK /\ CatalogueSound /\ WalletInSync
<1> DEFINE all == {file} \cup {catalogue[s] : s \in Servers}
<1>1. \A c \in all : c \in Catalogues
  BY DEF ShopInv
<1>2. balance \in [{"coins", "gems", "walletCoins", "walletGems"} -> Nat] /\ backpack \subseteq Items /\ WalletInSync
  BY DEF ShopInv, Balances
<1> HIDE DEF all
<1>3. ASSUME NEW c \in all
      PROVE  /\ \A i \in DOMAIN c.store :
                    c.store[i].item \in Items /\ {c.store[i].coins, c.store[i].gems} \subseteq Nat
             /\ \A i \in DOMAIN c.wheels :
                    /\ {c.wheels[i].once, c.wheels[i].ten} \subseteq Nat \ {0}
                    /\ \A j \in DOMAIN c.wheels[i].prizes :
                           c.wheels[i].prizes[j].item \in Items /\ c.wheels[i].prizes[j].weight \in Int
  BY <1>1, CatalogueIs, PrizesAre
<1>4. ASSUME NEW c \in all
      PROVE  /\ Distinct(c.store, LAMBDA it : it.store)
             /\ c.wheels # <<>> /\ Distinct(c.wheels, LAMBDA w : w.chest)
  BY <1>1, CatalogueIs DEF Distinct
<1>5. ASSUME NEW c \in all, NEW i \in DOMAIN c.wheels
      PROVE  LET prizes == c.wheels[i].prizes IN
             /\ prizes # <<>>
             /\ (\A j \in DOMAIN prizes : prizes[j].weight >= 0) =>
                    \A j \in DOMAIN prizes :
                        OrTen(prizes[j].weight) =
                            Cardinality({n \in RandInts(TotalWeight(prizes)) : PickedAt(prizes, n) = j})
  <2> DEFINE q == c.wheels[i].prizes
  <2>1. q \in PrizeLists
    BY <1>1, CatalogueIs
  <2> HIDE DEF q
  <2>2. q # <<>>
    BY <2>1, PrizesAre
  <2>3. ASSUME \A j \in DOMAIN q : q[j].weight >= 0
        PROVE  \A j \in DOMAIN q :
                   OrTen(q[j].weight) = Cardinality({n \in RandInts(TotalWeight(q)) : PickedAt(q, n) = j})
    BY <2>1, <2>3, PrizesAre, DrawnByWeight
  <2> QED
    BY <2>2, <2>3 DEF q
<1>6. CatalogueSound
  BY <1>4, <1>5 DEF CatalogueSound, all
<1>7. ShopTypeOK
  BY <1>2, <1>3 DEF ShopTypeOK, all
<1> QED
  BY <1>2, <1>6, <1>7

\* However the processes edit, load and reset the catalogue and whatever is bought meanwhile:
\* store ids and chests stay apart, there is a wheel and each has a prize, each place of a pool
\* in which no weight is negative is drawn for its weight of the numbers, and the wallet shows
\* the balance.
THEOREM ShopStaysSound ==
    ShopInit /\ [][ShopNext]_shopVars => [](ShopTypeOK /\ CatalogueSound /\ WalletInSync)
<1>1. ShopInit => ShopInv
  BY ShopStarts
<1>2. ShopInv /\ [ShopNext]_shopVars => ShopInv'
  BY ShopStep
<1>3. ShopInv => ShopTypeOK /\ CatalogueSound /\ WalletInSync
  BY ShopIs
<1> QED
  BY <1>1, <1>2, <1>3, PTL

-----------------------------------------------------------------------------
(* The records of matches, for any players, kills and matches.             *)

Stats == [points : Int, rank : 1 .. 7, maxRank : 0 .. 7, kills : Nat, wins : Nat, games : Nat]

Profiles == [region : Regions, level : Nat, bermuda : Stats, clash_squad : Stats]

\* A record of a mode, and the best tier that was stored in it.
RecordSound(mode, s, b) ==
    /\ s.points >= Floor[mode] /\ s.wins <= s.games
    /\ \A i \in 1 .. 6 : s.rank > i <=> s.points >= Thresholds[mode][i]
    /\ b \in 1 .. 7 /\ (IF s.maxRank = 0 THEN b = 1 ELSE b = s.maxRank)

RankingInv ==
    /\ profile \in [Players -> Profiles] /\ best \in [Players -> [Modes -> 1 .. 7]] /\ matches \in 0 .. MaxMatches
    /\ \A p \in Players, mode \in Modes : RecordSound(mode, profile[p][mode], best[p][mode])

\* The tier of some points is one more than the thresholds they have reached.
LEMMA TierIs ==
    ASSUME NEW mode \in Modes, NEW points \in Int
    PROVE  /\ Tier(mode, points) \in 1 .. 7
           /\ \A i \in 1 .. 6 : Tier(mode, points) > i <=> points >= Thresholds[mode][i]
<1> DEFINE reached == {i \in 1 .. 6 : points >= Thresholds[mode][i]}
<1>1. \A i \in 1 .. 6 : Thresholds[mode][i] \in Int
  BY DEF Thresholds, Modes
<1>2. \A i, j \in 1 .. 6 : i <= j => Thresholds[mode][i] <= Thresholds[mode][j]
  BY DEF Thresholds, Modes
<1>3. PICK k \in 0 .. 6 : reached = 1 .. k
  <2>1. CASE reached = {}
    BY <2>1
  <2>2. CASE reached # {}
    <3>1. \A i, j \in 1 .. 6 : i <= j /\ j \in reached => i \in reached
      BY <1>1, <1>2
    <3>2. \E k \in reached : \A i \in reached : i <= k
      BY <2>2
    <3> QED
      BY <3>1, <3>2
  <2> QED
    BY <2>1, <2>2
<1>4. Cardinality(1 .. k) = k
  <2>1. 1 \in Int /\ k \in Int
    OBVIOUS
  <2>2. Cardinality(1 .. k) = IF 1 > k THEN 0 ELSE k - 1 + 1
    BY <2>1, FS_Interval
  <2> QED
    BY <2>2
<1>5. Tier(mode, points) = 1 + k
  BY <1>3, <1>4 DEF Tier
<1>6. \A i \in 1 .. 6 : points >= Thresholds[mode][i] <=> i <= k
  BY <1>3
<1> QED
  BY <1>5, <1>6

\* A match leaves a record that is sound.
LEMMA RecordedIs ==
    ASSUME NEW mode \in Modes, NEW s \in Stats, NEW b \in 1 .. 7, RecordSound(mode, s, b),
           NEW kills \in Nat, NEW win \in BOOLEAN, NEW delta \in Int
    PROVE  /\ Recorded(mode, s, kills, win, delta) \in Stats
           /\ Larger(b, Recorded(mode, s, kills, win, delta).rank) \in 1 .. 7
           /\ RecordSound(mode, Recorded(mode, s, kills, win, delta),
                          Larger(b, Recorded(mode, s, kills, win, delta).rank))
<1> DEFINE points == Larger(Floor[mode], s.points + delta)
           t == Tier(mode, points)
           won == s.wins + (IF win THEN 1 ELSE 0)
           rec == Recorded(mode, s, kills, win, delta)
<1>1. points \in Int /\ points >= Floor[mode]
  BY DEF Larger, Floor, Modes, Stats
<1>2. t \in 1 .. 7 /\ \A i \in 1 .. 6 : t > i <=> points >= Thresholds[mode][i]
  <2> HIDE DEF points
  <2> QED
    BY <1>1, TierIs
<1>3. won \in Nat /\ won <= s.games + 1 /\ s.games + 1 \in Nat /\ s.kills + kills \in Nat
  BY DEF Stats, RecordSound
<1>4. rec = [points |-> points, rank |-> t, maxRank |-> Larger(Larger(s.maxRank, 1), t), kills |-> s.kills + kills,
             wins |-> won, games |-> s.games + 1]
  BY DEF Recorded, Stat
<1>5. /\ Larger(Larger(s.maxRank, 1), t) \in 1 .. 7 /\ Larger(b, t) = Larger(Larger(s.maxRank, 1), t)
  <2> HIDE DEF t
  <2> QED
    BY <1>2 DEF Larger, RecordSound, Stats
<1> HIDE DEF points, t, won, rec
<1>6. rec \in Stats
  BY <1>1, <1>2, <1>3, <1>4, <1>5 DEF Stats
<1>7. rec.rank = t
  BY <1>4
<1>8. RecordSound(mode, rec, Larger(b, t))
  BY <1>1, <1>2, <1>3, <1>4, <1>5 DEF RecordSound
<1> QED
  BY <1>5, <1>6, <1>7, <1>8 DEF rec

\* A new record is sound.
LEMMA StatIs ==
    ASSUME NEW mode \in Modes, NEW points \in Int, points >= Floor[mode], NEW kills \in Nat, NEW wins \in Nat,
           NEW games \in Nat, wins <= games, NEW m \in {0, 1}
    PROVE  Stat(mode, points, kills, wins, games, m) \in Stats
           /\ RecordSound(mode, Stat(mode, points, kills, wins, games, m), 1)
<1>1. Tier(mode, points) \in 1 .. 7
      /\ \A i \in 1 .. 6 : Tier(mode, points) > i <=> points >= Thresholds[mode][i]
  BY TierIs
<1> QED
  BY <1>1 DEF Stat, Stats, RecordSound

\* It holds at the start.
LEMMA RankingStarts == RankingInit => RankingInv
<1> SUFFICES ASSUME RankingInit PROVE RankingInv
  OBVIOUS
<1>1. /\ Stat("bermuda", 1000, 0, 0, 0, 1) \in Stats /\ RecordSound("bermuda", Stat("bermuda", 1000, 0, 0, 0, 1), 1)
      /\ Stat("clash_squad", 0, 0, 0, 0, 1) \in Stats
      /\ RecordSound("clash_squad", Stat("clash_squad", 0, 0, 0, 0, 1), 1)
  BY StatIs DEF Modes, Floor
<1>2. /\ Stat("bermuda", 3990, 20, 3, 6, 0) \in Stats /\ RecordSound("bermuda", Stat("bermuda", 3990, 20, 3, 6, 0), 1)
      /\ Stat("clash_squad", 79, 30, 4, 5, 0) \in Stats
      /\ RecordSound("clash_squad", Stat("clash_squad", 79, 30, 4, 5, 0), 1)
  BY StatIs DEF Modes, Floor
<1>3. PICK home \in [Players -> Regions] : profile = [p \in Players |-> IF p \in Seeded THEN SeedProfile(home[p])
                                                                      ELSE NewProfile(home[p], 100)]
  BY DEF RankingInit
<1>4. \A p \in Players : /\ profile[p] \in Profiles
                         /\ RecordSound("bermuda", profile[p]["bermuda"], 1)
                         /\ RecordSound("clash_squad", profile[p]["clash_squad"], 1)
  BY <1>1, <1>2, <1>3 DEF SeedProfile, NewProfile, Profiles
<1>5. profile \in [Players -> Profiles]
  BY <1>3, <1>4
<1>6. best \in [Players -> [Modes -> 1 .. 7]] /\ \A p \in Players, mode \in Modes : best[p][mode] = 1
  BY DEF RankingInit
<1>7. matches \in 0 .. MaxMatches
  BY RankingAssumption DEF RankingInit
<1>8. \A p \in Players, mode \in Modes : RecordSound(mode, profile[p][mode], best[p][mode])
  BY <1>4, <1>6 DEF Modes
<1> QED
  BY <1>5, <1>6, <1>7, <1>8 DEF RankingInv

\* A match that is recorded keeps the invariant.
LEMMA RankingStep == RankingInv /\ [RankingNext]_rankingVars => RankingInv'
<1> SUFFICES ASSUME RankingInv, [RankingNext]_rankingVars PROVE RankingInv'
  OBVIOUS
<1>1. CASE UNCHANGED rankingVars
  BY <1>1 DEF rankingVars, RankingInv
<1>2. ASSUME NEW p \in Players, NEW mode \in Modes, NEW kills \in KillCounts, NEW win \in BOOLEAN,
             NEW granted \in {0, 650, -700}, RecordMatchResult(p, mode, kills, win, granted)
      PROVE  RankingInv'
  <2> DEFINE delta == IF granted = 0 THEN Delta(mode, kills, win) ELSE granted
             s == profile[p][mode]
             stat == Recorded(mode, s, kills, win, delta)
             top == Larger(best[p][mode], stat.rank)
  <2>1. kills \in Nat /\ delta \in Int
    BY RankingAssumption DEF Delta, Larger
  <2>2. s \in Stats /\ best[p][mode] \in 1 .. 7 /\ RecordSound(mode, s, best[p][mode])
    <3>1. profile[p] \in Profiles
      BY DEF RankingInv
    <3> QED
      BY <3>1 DEF RankingInv, Profiles, Modes
  <2>3. stat \in Stats /\ top \in 1 .. 7 /\ RecordSound(mode, stat, top)
    <3> HIDE DEF delta, s
    <3> QED
      BY <2>1, <2>2, RecordedIs
  <2>4. /\ matches < MaxMatches /\ matches' = matches + 1 /\ profile' = [profile EXCEPT ![p][mode] = stat]
        /\ best' = [best EXCEPT ![p][mode] = top]
    BY <1>2 DEF RecordMatchResult
  <2> HIDE DEF delta, s, stat, top
  <2>5. matches' \in 0 .. MaxMatches
    BY <2>4, RankingAssumption DEF RankingInv
  <2>6. best' \in [Players -> [Modes -> 1 .. 7]] /\ best'[p][mode] = top
        /\ \A q \in Players, m \in Modes : ~ (q = p /\ m = mode) => best'[q][m] = best[q][m]
    BY <2>3, <2>4 DEF RankingInv
  <2>7. profile' \in [Players -> Profiles] /\ profile'[p][mode] = stat
        /\ \A q \in Players, m \in Modes : ~ (q = p /\ m = mode) => profile'[q][m] = profile[q][m]
    <3>1. CASE mode = "bermuda"
      BY <2>3, <2>4, <3>1 DEF RankingInv, Profiles, Modes
    <3>2. CASE mode = "clash_squad"
      BY <2>3, <2>4, <3>2 DEF RankingInv, Profiles, Modes
    <3> QED
      BY <3>1, <3>2 DEF Modes
  <2>8. \A q \in Players, m \in Modes : RecordSound(m, profile'[q][m], best'[q][m])
    <3> SUFFICES ASSUME NEW q \in Players, NEW m \in Modes PROVE RecordSound(m, profile'[q][m], best'[q][m])
      OBVIOUS
    <3>1. RecordSound(m, profile[q][m], best[q][m])
      BY DEF RankingInv
    <3> QED
      BY <2>3, <2>6, <2>7, <3>1
  <2> QED
    BY <2>5, <2>6, <2>7, <2>8 DEF RankingInv
<1> QED
  BY <1>1, <1>2 DEF RankingNext

\* What the invariant says of the records.
LEMMA RecordsAre == ASSUME RankingInv PROVE RankingTypeOK /\ RecordsAgree
<1>1. RankingTypeOK
  BY DEF RankingInv, RankingTypeOK, Profiles
<1>2. RecordsAgree
  BY DEF RankingInv, RecordsAgree, RecordSound
<1> QED
  BY <1>1, <1>2

\* a is larger than b at the first place where they differ.
Exceeds(a, b) == \E i \in DOMAIN a : a[i] > b[i] /\ \A j \in 1 .. i - 1 : a[j] = b[j]

\* Of two different lists of numbers one exceeds the other.
LEMMA ExceedsTotal ==
    ASSUME NEW n \in Nat, NEW a \in [1 .. n -> Int], NEW b \in [1 .. n -> Int], a # b
    PROVE  Exceeds(a, b) \/ Exceeds(b, a)
<1> DEFINE S == {i \in 1 .. n : a[i] # b[i]}
<1>1. S # {} /\ S \subseteq Nat
  OBVIOUS
<1>2. PICK i \in S : \A j \in S : i <= j
  <2> HIDE DEF S
  <2> QED
    BY <1>1, LeastNat
<1>3. i \in 1 .. n /\ a[i] # b[i] /\ \A j \in 1 .. i - 1 : a[j] = b[j]
  BY <1>2
<1>4. a[i] \in Int /\ b[i] \in Int /\ (a[i] > b[i] \/ b[i] > a[i])
  BY <1>3
<1> QED
  BY <1>3, <1>4 DEF Exceeds

\* What exceeds something exceeds what that exceeds.
LEMMA ExceedsOn ==
    ASSUME NEW n \in Nat, NEW a \in [1 .. n -> Int], NEW b \in [1 .. n -> Int], NEW c \in [1 .. n -> Int],
           Exceeds(a, b), Exceeds(b, c)
    PROVE  Exceeds(a, c)
<1>1. PICK i \in 1 .. n : a[i] > b[i] /\ \A j \in 1 .. i - 1 : a[j] = b[j]
  BY DEF Exceeds
<1>2. PICK k \in 1 .. n : b[k] > c[k] /\ \A j \in 1 .. k - 1 : b[j] = c[j]
  BY DEF Exceeds
<1>3. \A j \in 1 .. n : a[j] \in Int /\ b[j] \in Int /\ c[j] \in Int
  OBVIOUS
<1>4. CASE i < k
  <2>1. b[i] = c[i] /\ \A j \in 1 .. i - 1 : b[j] = c[j]
    BY <1>2, <1>4
  <2> QED
    BY <1>1, <2>1 DEF Exceeds
<1>5. CASE k < i
  <2>1. a[k] = b[k] /\ \A j \in 1 .. k - 1 : a[j] = b[j]
    BY <1>1, <1>5
  <2> QED
    BY <1>2, <2>1 DEF Exceeds
<1>6. CASE i = k
  <2>1. a[i] > c[i]
    BY <1>1, <1>2, <1>3, <1>6
  <2> QED
    BY <1>1, <1>2, <1>6, <2>1 DEF Exceeds
<1> QED
  BY <1>4, <1>5, <1>6

\* One number more at the end of some.
LEMMA OneMore ==
    ASSUME NEW q \in Seq(Int), q # <<>>, NEW y \in Int
    PROVE  q \o <<y>> \in Seq(Int) \ {<<>>} /\ Len(q \o <<y>>) = Len(q) + 1 /\ (q \o <<y>>)[1] = q[1]
<1>1. <<y>> \in Seq(Int) /\ Len(<<y>>) = 1 /\ Len(q) \in Nat \ {0}
  BY LenProperties, EmptySeq
<1>2. /\ q \o <<y>> \in Seq(Int) /\ Len(q \o <<y>>) = Len(q) + Len(<<y>>)
      /\ \A i \in 1 .. Len(q) + Len(<<y>>) : (q \o <<y>>)[i] = IF i <= Len(q) THEN q[i] ELSE <<y>>[i - Len(q)]
  BY <1>1, ConcatProperties
<1> DEFINE r == q \o <<y>>
<1> HIDE DEF r
<1>3. r \in Seq(Int) /\ Len(r) = Len(q) + 1 /\ r[1] = q[1]
  BY <1>1, <1>2 DEF r
<1>4. r # <<>>
  BY <1>1, <1>3
<1> QED
  BY <1>3, <1>4 DEF r

\* What a row is compared by: three or four numbers, the one the board shows first.
LEMMA KeysAre ==
    ASSUME RankingInv, NEW p \in Players, NEW mode \in Modes, NEW metric \in Metrics
    PROVE  /\ Keys(p, mode, metric) \in [1 .. IF metric = "score" THEN 4 ELSE 3 -> Int]
           /\ Keys(p, mode, metric)[1] = Value(p, mode, metric)
<1> DEFINE s == profile[p][mode]  level == profile[p].level
<1>1. s \in Stats /\ level \in Nat
  <2>1. profile[p] \in Profiles
    BY DEF RankingInv
  <2> QED
    BY <2>1 DEF Profiles, Modes
<1>2. s.points \in Int /\ s.kills \in Int /\ s.wins \in Int /\ level \in Int
  <2> HIDE DEF s, level
  <2> QED
    BY <1>1 DEF Stats
<1> DEFINE Numbers(q, n, x) == q \in Seq(Int) \ {<<>>} /\ Len(q) = n /\ q[1] = x
<1>3. \A x \in Int : Numbers(<<x>>, 1, x)
  OBVIOUS
<1>4. ASSUME NEW q, NEW n \in Nat, NEW x, NEW y \in Int, Numbers(q, n, x) PROVE Numbers(q \o <<y>>, n + 1, x)
  BY <1>4, OneMore
<1>5. ASSUME NEW q, NEW n, NEW x, Numbers(q, n, x) PROVE q \o <<>> = q /\ q \in [1 .. n -> Int] /\ q[1] = x
  <2>1. q \in Seq(Int) /\ Len(q) = n
    BY <1>5
  <2>2. q \in [1 .. Len(q) -> Int]
    BY <2>1, LenProperties, ElementOfSeq
  <2> QED
    BY <1>5, <2>1, <2>2, ConcatEmptySeq
<1>6. CASE metric = "score"
  <2> DEFINE a == <<s.points>>  b == a \o <<s.kills>>  c == b \o <<s.wins>>  d == c \o <<level>>
  <2>1. Keys(p, mode, metric) = d /\ Value(p, mode, metric) = s.points
    BY <1>6 DEF Keys, Value
  <2> HIDE DEF s, level, Numbers
  <2>2. Numbers(a, 1, s.points)
    BY <1>2, <1>3
  <2>3. Numbers(b, 2, s.points)
    <3> HIDE DEF a
    <3>1. 1 \in Nat /\ 1 + 1 = 2 /\ s.kills \in Int
      BY <1>2
    <3>2. Numbers(a \o <<s.kills>>, 1 + 1, s.points)
      BY <1>4, <2>2, <3>1
    <3> QED
      BY <3>1, <3>2
  <2>4. Numbers(c, 3, s.points)
    BY <1>2, <1>4, <2>3
  <2>5. Numbers(d, 4, s.points)
    <3> HIDE DEF c
    <3>1. 3 \in Nat /\ 3 + 1 = 4 /\ level \in Int
      BY <1>2
    <3>2. Numbers(c \o <<level>>, 3 + 1, s.points)
      BY <1>4, <2>4, <3>1
    <3> QED
      BY <3>1, <3>2
  <2> HIDE DEF d
  <2> QED
    BY <1>5, <1>6, <2>1, <2>5
<1>7. CASE metric = "kills"
  <2> DEFINE a == <<s.kills>>  b == a \o <<>>  c == b \o <<s.wins>>  d == c \o <<level>>
  <2>1. Keys(p, mode, metric) = d /\ Value(p, mode, metric) = s.kills
    BY <1>7 DEF Keys, Value
  <2> HIDE DEF s, level, Numbers
  <2>2. Numbers(a, 1, s.kills)
    BY <1>2, <1>3
  <2>3. Numbers(b, 1, s.kills)
    BY <1>5, <2>2
  <2>4. Numbers(c, 2, s.kills)
    BY <1>2, <1>4, <2>3
  <2>5. Numbers(d, 3, s.kills)
    BY <1>2, <1>4, <2>4
  <2> HIDE DEF d
  <2> QED
    BY <1>5, <1>7, <2>1, <2>5
<1>8. CASE metric = "wins"
  <2> DEFINE a == <<s.wins>>  b == a \o <<s.kills>>  c == b \o <<>>  d == c \o <<level>>
  <2>1. Keys(p, mode, metric) = d /\ Value(p, mode, metric) = s.wins
    BY <1>8 DEF Keys, Value
  <2> HIDE DEF s, level, Numbers
  <2>2. Numbers(a, 1, s.wins)
    BY <1>2, <1>3
  <2>3. Numbers(b, 2, s.wins)
    BY <1>2, <1>4, <2>2
  <2>4. Numbers(c, 2, s.wins)
    BY <1>5, <2>3
  <2>5. Numbers(d, 3, s.wins)
    BY <1>2, <1>4, <2>4
  <2> HIDE DEF d
  <2> QED
    BY <1>5, <1>8, <2>1, <2>5
<1> QED
  BY <1>6, <1>7, <1>8 DEF Metrics

\* The order of a board is total, and what stands before shows no less.
LEMMA BeforeOrders ==
    ASSUME RankingInv, NEW mode \in Modes, NEW metric \in Metrics
    PROVE  /\ \A p, q \in Players : p # q => Before(p, q, mode, metric) \/ Before(q, p, mode, metric)
           /\ \A p, q, r \in Players :
                  Before(p, q, mode, metric) /\ Before(q, r, mode, metric) => Before(p, r, mode, metric)
           /\ \A p, q \in Players : Before(p, q, mode, metric) => Value(p, mode, metric) >= Value(q, mode, metric)
<1> DEFINE n == IF metric = "score" THEN 4 ELSE 3
           K(p) == Keys(p, mode, metric)
<1>1. \A p \in Players : K(p) \in [1 .. n -> Int] /\ K(p)[1] = Value(p, mode, metric)
  BY KeysAre
<1>2. n \in Nat /\ n > 0
  OBVIOUS
<1>3. \A p, q \in Players : Before(p, q, mode, metric) <=> Exceeds(K(p), K(q)) \/ (K(p) = K(q) /\ p < q)
  BY DEF Before, Exceeds
<1>4. Players \subseteq Nat
  BY RankingAssumption
<1> HIDE DEF n, K
<1>5. ASSUME NEW p \in Players, NEW q \in Players, p # q
      PROVE  Before(p, q, mode, metric) \/ Before(q, p, mode, metric)
  <2>1. K(p) # K(q) => Exceeds(K(p), K(q)) \/ Exceeds(K(q), K(p))
    BY <1>1, <1>2, ExceedsTotal
  <2>2. p < q \/ q < p
    BY <1>4, <1>5
  <2> QED
    BY <1>3, <2>1, <2>2
<1>6. ASSUME NEW p \in Players, NEW q \in Players, NEW r \in Players,
             Before(p, q, mode, metric), Before(q, r, mode, metric)
      PROVE  Before(p, r, mode, metric)
  <2>1. Exceeds(K(p), K(q)) /\ Exceeds(K(q), K(r)) => Exceeds(K(p), K(r))
    BY <1>1, <1>2, ExceedsOn
  <2>2. p < q /\ q < r => p < r
    BY <1>4
  <2> QED
    BY <1>3, <1>6, <2>1, <2>2
<1>7. ASSUME NEW p \in Players, NEW q \in Players, Before(p, q, mode, metric)
      PROVE  Value(p, mode, metric) >= Value(q, mode, metric)
  <2>1. 1 \in 1 .. n /\ K(p)[1] \in Int /\ K(q)[1] \in Int
    BY <1>1, <1>2
  <2>2. K(p)[1] >= K(q)[1]
    <3>1. CASE K(p) = K(q)
      BY <2>1, <3>1
    <3>2. CASE Exceeds(K(p), K(q))
      <4>1. PICK i \in 1 .. n : K(p)[i] > K(q)[i] /\ \A j \in 1 .. i - 1 : K(p)[j] = K(q)[j]
        BY <1>1, <3>2 DEF Exceeds
      <4> QED
        BY <1>2, <2>1, <4>1
    <3> QED
      BY <1>3, <1>7, <3>1, <3>2
  <2> QED
    BY <1>1, <2>2
<1> QED
  BY <1>5, <1>6, <1>7

\* Of some players one stands after all the others.
LEMMA LastOfThem ==
    ASSUME RankingInv, NEW mode \in Modes, NEW metric \in Metrics,
           NEW T \in SUBSET Players, T # {}
    PROVE  \E m \in T : \A x \in T \ {m} : Before(x, m, mode, metric)
<1> DEFINE IsLast(m, S) == m \in S /\ \A x \in S \ {m} : Before(x, m, mode, metric)
           P == {n \in Nat : \A S \in SUBSET Players : S # {} /\ Cardinality(S) = n => \E m : IsLast(m, S)}
<1>0. \A S \in SUBSET Players : IsFiniteSet(S) /\ Cardinality(S) \in Nat
  BY RankingAssumption, FS_Subset, FS_CardinalityType
<1>1. 0 \in P
  <2>1. \A S \in SUBSET Players : Cardinality(S) = 0 => S = {}
    BY <1>0, FS_EmptySet
  <2> QED
    BY <2>1
<1>2. ASSUME NEW n \in P PROVE n + 1 \in P
  <2> SUFFICES ASSUME NEW S \in SUBSET Players, S # {}, Cardinality(S) = n + 1 PROVE \E m : IsLast(m, S)
    <3> HIDE DEF IsLast
    <3> QED
      OBVIOUS
  <2>1. PICK y \in S : TRUE
    OBVIOUS
  <2> DEFINE R == S \ {y}
  <2>2. R \in SUBSET Players /\ Cardinality(R) = n
    <3>1. Cardinality(S \ {y}) = Cardinality(S) - 1
      BY <1>0, <2>1, FS_RemoveElement
    <3> QED
      BY <3>1
  <2>3. CASE R = {}
    BY <2>1, <2>3
  <2>4. CASE R # {}
    <3>1. PICK m : IsLast(m, R)
      <4> HIDE DEF IsLast, R
      <4> QED
        BY <2>2, <2>4
    <3>2. m \in Players /\ y \in Players /\ m # y /\ m \in S
      BY <2>2, <3>1
    <3>3. CASE Before(m, y, mode, metric)
      <4>1. \A x \in R : Before(x, y, mode, metric)
        BY <3>1, <3>2, <3>3, BeforeOrders
      <4> QED
        BY <2>1, <4>1
    <3>4. CASE Before(y, m, mode, metric)
      BY <3>1, <3>2, <3>4
    <3> QED
      BY <3>2, <3>3, <3>4, BeforeOrders
  <2> QED
    BY <2>3, <2>4
<1>3. Cardinality(T) \in P
  <2>1. P \in SUBSET Nat
    OBVIOUS
  <2> HIDE DEF P
  <2> QED
    BY <1>0, <1>1, <1>2, <2>1, AllNat
<1> QED
  BY <1>3

\* Some players in the order of a board.
Sorted(f, S, mode, metric) ==
    f \in SetToSeqs(S) /\ \A i, j \in DOMAIN f : i < j => Before(f[i], f[j], mode, metric)

\* There is such an order.
LEMMA SortedExists ==
    ASSUME RankingInv, NEW mode \in Modes, NEW metric \in Metrics, NEW T \in SUBSET Players
    PROVE  \E f : Sorted(f, T, mode, metric)
<1> DEFINE P == {n \in Nat : \A S \in SUBSET Players : Cardinality(S) = n => \E f : Sorted(f, S, mode, metric)}
<1>0. \A S \in SUBSET Players : IsFiniteSet(S) /\ Cardinality(S) \in Nat
  BY RankingAssumption, FS_Subset, FS_CardinalityType
<1>1. 0 \in P
  <2> SUFFICES ASSUME NEW S \in SUBSET Players, Cardinality(S) = 0 PROVE \E f : Sorted(f, S, mode, metric)
    OBVIOUS
  <2>1. S = {}
    BY <1>0, FS_EmptySet
  <2> DEFINE f == [i \in 1 .. 0 |-> 0]
  <2>2. f \in [1 .. Cardinality(S) -> S] /\ DOMAIN f = {}
    BY <2>1
  <2> HIDE DEF f
  <2>3. Sorted(f, S, mode, metric)
    BY <2>2 DEF Sorted, SetToSeqs
  <2> QED
    BY <2>3
<1>2. ASSUME NEW n \in P PROVE n + 1 \in P
  <2>0. n \in Nat
    OBVIOUS
  <2> SUFFICES ASSUME NEW S \in SUBSET Players, Cardinality(S) = n + 1 PROVE \E f : Sorted(f, S, mode, metric)
    BY <2>0
  <2>1. S # {}
    BY <2>0, FS_EmptySet
  <2>2. PICK m \in S : \A x \in S \ {m} : Before(x, m, mode, metric)
    BY <2>1, LastOfThem
  <2> DEFINE R == S \ {m}
  <2>3. R \in SUBSET Players /\ Cardinality(R) = n
    <3>1. Cardinality(S \ {m}) = Cardinality(S) - 1
      BY <1>0, FS_RemoveElement
    <3> QED
      BY <2>0, <3>1
  <2>4. PICK g : Sorted(g, R, mode, metric)
    <3> HIDE DEF R
    <3> QED
      BY <2>3
  <2>5. /\ g \in [1 .. n -> R] /\ \A i, j \in 1 .. n : i # j => g[i] # g[j]
        /\ \A i, j \in 1 .. n : i < j => Before(g[i], g[j], mode, metric)
    <3> HIDE DEF R
    <3> QED
      BY <2>3, <2>4 DEF Sorted, SetToSeqs
  <2> DEFINE f == [i \in 1 .. n + 1 |-> IF i = n + 1 THEN m ELSE g[i]]
  <2>6. /\ f \in [1 .. n + 1 -> S] /\ f[n + 1] = m
        /\ \A i \in 1 .. n : f[i] = g[i] /\ g[i] \in S \ {m}
    BY <2>0, <2>5
  <2> HIDE DEF f
  <2>7. \A i \in 1 .. n + 1 : i \in 1 .. n \/ i = n + 1
    BY <2>0
  <2>8. \A i, j \in 1 .. n + 1 : i # j => f[i] # f[j]
    BY <2>5, <2>6, <2>7
  <2>9. \A i, j \in 1 .. n + 1 : i < j => Before(f[i], f[j], mode, metric)
    <3> SUFFICES ASSUME NEW i \in 1 .. n + 1, NEW j \in 1 .. n + 1, i < j PROVE Before(f[i], f[j], mode, metric)
      OBVIOUS
    <3>1. i \in 1 .. n
      BY <2>0
    <3>2. CASE j = n + 1
      BY <2>2, <2>6, <3>1, <3>2
    <3>3. CASE j \in 1 .. n
      BY <2>5, <2>6, <3>1, <3>3
    <3> QED
      BY <2>7, <3>2, <3>3
  <2>10. Sorted(f, S, mode, metric)
    BY <2>6, <2>8, <2>9 DEF Sorted, SetToSeqs
  <2> QED
    BY <2>10
<1>3. Cardinality(T) \in P
  <2>1. P \in SUBSET Nat
    OBVIOUS
  <2> HIDE DEF P
  <2> QED
    BY <1>0, <1>1, <1>2, <2>1, AllNat
<1> QED
  BY <1>3

\* A board is the players of its region in its order.
LEMMA RankedIs ==
    ASSUME RankingInv, NEW mode \in Modes, NEW metric \in Metrics, NEW region
    PROVE  /\ Sorted(AllRanked(mode, metric, region), InRegion(region), mode, metric)
           /\ AllRanked(mode, metric, region) \in Seq(Players)
<1> DEFINE S == InRegion(region)  ranked == AllRanked(mode, metric, region)
<1>1. S \in SUBSET Players
  BY DEF InRegion
<1>2. ranked = CHOOSE f \in SetToSeqs(S) : \A i, j \in DOMAIN f : i < j => Before(f[i], f[j], mode, metric)
  BY DEF AllRanked
<1>3. \E f \in SetToSeqs(S) : \A i, j \in DOMAIN f : i < j => Before(f[i], f[j], mode, metric)
  <2> HIDE DEF S
  <2> QED
    BY <1>1, SortedExists DEF Sorted
<1>4. Sorted(ranked, S, mode, metric)
  <2> HIDE DEF S, ranked
  <2> QED
    BY <1>2, <1>3 DEF Sorted
<1>5. ranked \in Seq(Players)
  <2> HIDE DEF ranked, S
  <2>1. Cardinality(S) \in Nat
    BY <1>1, RankingAssumption, FS_Subset, FS_CardinalityType
  <2>2. ranked \in [1 .. Cardinality(S) -> Players]
    BY <1>1, <1>4 DEF Sorted, SetToSeqs
  <2> QED
    BY <2>1, <2>2
<1> QED
  BY <1>4, <1>5

\* A sequence cut in two and put together again.
LEMMA CutAndJoined ==
    ASSUME NEW S, NEW q \in Seq(S), NEW m \in Nat, NEW n \in Nat, m <= n, n <= Len(q)
    PROVE  /\ SubSeq(q, 1, m) \o SubSeq(q, m + 1, n) = SubSeq(q, 1, n) /\ SubSeq(q, 1, Len(q)) = q
           /\ SubSeq(q, 1, m) \in Seq(S) /\ SubSeq(q, m + 1, n) \in Seq(S)
<1> DEFINE a == SubSeq(q, 1, m)  b == SubSeq(q, m + 1, n)  c == SubSeq(q, 1, n)
<1>0. Len(q) \in Nat /\ \A i \in 1 .. Len(q) : q[i] \in S
  BY LenProperties, ElementOfSeq
<1>1. ASSUME NEW k \in Nat, k <= Len(q)
      PROVE  SubSeq(q, 1, k) \in Seq(S) /\ Len(SubSeq(q, 1, k)) = k /\ \A i \in 1 .. k : SubSeq(q, 1, k)[i] = q[i]
  <2>1. 1 \in Int /\ k \in Int /\ \A i \in 1 .. k : q[i] \in S
    BY <1>0, <1>1
  <2>2. /\ SubSeq(q, 1, k) \in Seq(S) /\ Len(SubSeq(q, 1, k)) = IF 1 <= k THEN k - 1 + 1 ELSE 0
        /\ \A i \in 1 .. k - 1 + 1 : SubSeq(q, 1, k)[i] = q[1 + i - 1]
    BY <2>1, SubSeqProperties
  <2>3. k - 1 + 1 = k /\ \A i \in 1 .. k : 1 + i - 1 = i
    OBVIOUS
  <2> QED
    BY <2>2, <2>3
<1>2. b \in Seq(S) /\ Len(b) = n - m /\ \A i \in 1 .. n - m : b[i] = q[m + i]
  <2>1. m + 1 \in Int /\ n \in Int /\ \A i \in m + 1 .. n : q[i] \in S
    BY <1>0
  <2>2. /\ b \in Seq(S) /\ Len(b) = IF m + 1 <= n THEN n - (m + 1) + 1 ELSE 0
        /\ \A i \in 1 .. n - (m + 1) + 1 : b[i] = q[(m + 1) + i - 1]
    BY <2>1, SubSeqProperties
  <2>3. n - (m + 1) + 1 = n - m /\ \A i \in 1 .. n - m : (m + 1) + i - 1 = m + i
    OBVIOUS
  <2> HIDE DEF b
  <2>4. Len(b) = n - m
    BY <2>2, <2>3
  <2> QED
    BY <2>2, <2>3, <2>4
<1>3. a \in Seq(S) /\ Len(a) = m /\ \A i \in 1 .. m : a[i] = q[i]
  <2>1. m <= Len(q)
    BY <1>0
  <2> QED
    BY <1>1, <2>1
<1>4. c \in Seq(S) /\ Len(c) = n /\ \A i \in 1 .. n : c[i] = q[i]
  BY <1>1
<1>5. SubSeq(q, 1, Len(q)) = q
  <2> DEFINE d == SubSeq(q, 1, Len(q))
  <2>1. d \in Seq(S) /\ Len(d) = Len(q) /\ \A i \in 1 .. Len(q) : d[i] = q[i]
    BY <1>0, <1>1
  <2> HIDE DEF d
  <2>2. d = q
    BY <2>1, SeqEqual
  <2> QED
    BY <2>2 DEF d
<1> HIDE DEF a, b, c
<1>6. /\ a \o b \in Seq(S) /\ Len(a \o b) = Len(a) + Len(b)
      /\ \A i \in 1 .. Len(a) + Len(b) : (a \o b)[i] = IF i <= Len(a) THEN a[i] ELSE b[i - Len(a)]
  BY Zenon, <1>2, <1>3, ConcatProperties
<1> DEFINE d == a \o b
<1>7. d \in Seq(S) /\ Len(d) = n /\ \A i \in 1 .. n : d[i] = IF i <= m THEN a[i] ELSE b[i - m]
  <2>1. Len(a) + Len(b) = n
    BY <1>2, <1>3
  <2> QED
    BY <1>3, <1>6, <2>1
<1>8. \A i \in 1 .. n : d[i] = c[i]
  <2> HIDE DEF d
  <2> SUFFICES ASSUME NEW i \in 1 .. n PROVE d[i] = c[i]
    OBVIOUS
  <2>1. CASE i <= m
    <3>1. i \in 1 .. m
      BY <2>1
    <3> QED
      BY <1>3, <1>4, <1>7, <2>1, <3>1
  <2>2. CASE i > m
    <3>1. i - m \in 1 .. n - m /\ m + (i - m) = i /\ ~ (i <= m)
      BY <2>2
    <3>2. d[i] = b[i - m]
      BY <1>7, <3>1
    <3> QED
      BY <1>2, <1>4, <3>1, <3>2
  <2> QED
    BY <2>1, <2>2
<1>9. d = c
  <2> HIDE DEF d
  <2> QED
    BY <1>4, <1>7, <1>8, SeqEqual
<1> QED
  BY <1>2, <1>3, <1>5, <1>9 DEF a, b, c

\* f has the beginnings of what some sequences are together: the first, the first two, ...
Beginnings(f, seqs, n) == f[1] = seqs[1] /\ \A i \in 2 .. n : f[i] = f[i - 1] \o seqs[i]

\* What the concatenation of some sequences is, from what each of its beginnings is.
LEMMA Flattened ==
    ASSUME NEW n \in Nat \ {0}, NEW seqs, Len(seqs) = n, NEW W, NEW f \in [1 .. n -> W], Beginnings(f, seqs, n)
    PROVE  FlattenSeq(seqs) = f[n]
<1> DEFINE Is(g) == g = [i \in 1 .. n |-> IF i = 1 THEN seqs[i] ELSE g[i - 1] \o seqs[i]]
           flat == CHOOSE g : Is(g)
<1>0. f[1] = seqs[1] /\ \A i \in 2 .. n : f[i] = f[i - 1] \o seqs[i]
  BY DEF Beginnings
<1>1. FlattenSeq(seqs) = flat[n]
  BY DEF FlattenSeq
<1>2. Is(f)
  <2>1. \A i \in 1 .. n : f[i] = IF i = 1 THEN seqs[i] ELSE f[i - 1] \o seqs[i]
    <3> SUFFICES ASSUME NEW i \in 1 .. n, i # 1 PROVE f[i] = f[i - 1] \o seqs[i]
      BY <1>0
    <3>1. i \in 2 .. n
      OBVIOUS
    <3> QED
      BY <1>0, <3>1
  <2> QED
    BY <1>0, <2>1
<1>3. Is(flat)
  <2> HIDE DEF Is
  <2> QED
    BY <1>2
<1> DEFINE P == {k \in Nat : k + 1 <= n => flat[k + 1] = f[k + 1]}
<1>4. 0 \in P
  <2>1. flat[1] = seqs[1]
    <3> HIDE DEF flat
    <3>1. 1 \in 1 .. n
      OBVIOUS
    <3> QED
      BY <1>3, <3>1
  <2> HIDE DEF flat
  <2> QED
    BY <1>0, <2>1
<1>5. ASSUME NEW k \in P PROVE k + 1 \in P
  <2> HIDE DEF flat
  <2> SUFFICES ASSUME k + 2 <= n PROVE flat[k + 2] = f[k + 2]
    OBVIOUS
  <2>1. k \in Nat /\ flat[k + 1] = f[k + 1]
    OBVIOUS
  <2>2. k + 2 \in 2 .. n /\ k + 2 \in 1 .. n /\ k + 2 # 1 /\ (k + 2) - 1 = k + 1
    BY <2>1
  <2>3. flat[k + 2] = flat[k + 1] \o seqs[k + 2]
    BY <1>3, <2>2
  <2> QED
    BY <1>0, <2>1, <2>2, <2>3
<1>6. n - 1 \in P
  <2>1. P \in SUBSET Nat /\ n - 1 \in Nat
    OBVIOUS
  <2> HIDE DEF P
  <2> QED
    BY <1>4, <1>5, <2>1, AllNat
<1>7. flat[n] = f[n]
  <2> HIDE DEF flat
  <2>1. (n - 1) + 1 = n
    OBVIOUS
  <2> QED
    BY <1>6, <2>1
<1> QED
  BY <1>1, <1>7

\* The pages of a board.
LEMMA PagesJoin ==
    ASSUME NEW S, NEW ranked \in Seq(S), NEW limit \in Nat \ {0}
    PROVE  FlattenSeq([n \in 1 .. TotalPages(ranked, limit) |-> Page(ranked, n, limit)]) = ranked
<1> DEFINE L == Len(ranked)
           T == TotalPages(ranked, limit)
           pages == [n \in 1 .. T |-> Page(ranked, n, limit)]
           End(n) == IF n * limit < L THEN n * limit ELSE L
           f == [n \in 1 .. T |-> SubSeq(ranked, 1, End(n))]
<1>1. L \in Nat
  BY LenProperties
<1>2. T \in Nat /\ limit * T <= L + limit - 1 /\ L + limit - 1 < limit * T + limit
  <2> DEFINE a == L + limit - 1
  <2>1. a \in Nat
    BY <1>1
  <2>2. T = a \div limit
    BY DEF TotalPages
  <2> HIDE DEF a, T
  <2>3. limit * (a \div limit) <= a /\ a < limit * (a \div limit) + limit /\ a \div limit \in Nat
    BY <2>1
  <2> QED
    BY <2>2, <2>3 DEF a
<1> HIDE DEF L, T
<1>3. T * limit >= L /\ \A n \in 1 .. T : (n - 1) * limit < L /\ (n - 1) * limit \in Nat /\ n * limit \in Nat
                                            /\ (n - 1) * limit + limit = n * limit
  <2>1. T * limit = limit * T
    BY <1>2
  <2>2. ASSUME NEW n \in 1 .. T PROVE (n - 1) * limit <= (T - 1) * limit
    BY <1>2
  <2>3. ASSUME NEW n \in 1 .. T PROVE (n - 1) * limit \in Nat /\ n * limit \in Nat /\ (n - 1) * limit + limit = n * limit
    BY <1>2
  <2>4. (T - 1) * limit = limit * T - limit
    BY <1>2
  <2>5. limit * T \in Int
    BY <1>2
  <2>6. T * limit >= L
    BY <1>1, <1>2, <2>1, <2>5
  <2>7. ASSUME NEW n \in 1 .. T PROVE (n - 1) * limit < L
    BY <1>1, <1>2, <2>2, <2>3, <2>4, <2>5
  <2> QED
    BY <2>3, <2>6, <2>7
<1>4. ASSUME NEW n \in 1 .. T
      PROVE  /\ pages[n] = SubSeq(ranked, (n - 1) * limit + 1, End(n)) /\ pages[n] \in Seq(S)
             /\ End(n) \in Nat /\ (n - 1) * limit <= End(n) /\ End(n) <= Len(ranked)
  <2>1. pages[n] = SubSeq(ranked, (n - 1) * limit + 1, End(n))
    <3>1. Page(ranked, n, limit) = SubSeq(ranked, (n - 1) * limit + 1,
                                          IF (n - 1) * limit + limit < L THEN (n - 1) * limit + limit ELSE L)
      BY DEF Page, L
    <3> QED
      BY <1>3, <3>1
  <2>2. End(n) \in Nat /\ (n - 1) * limit <= End(n) /\ End(n) <= Len(ranked)
    <3> DEFINE x == (n - 1) * limit  y == n * limit
    <3>1. x \in Nat /\ y \in Nat /\ x + limit = y /\ x < L
      BY <1>3
    <3> HIDE DEF x, y
    <3>2. (IF y < L THEN y ELSE L) \in Nat /\ x <= (IF y < L THEN y ELSE L) /\ (IF y < L THEN y ELSE L) <= L
      BY <1>1, <3>1
    <3> QED
      BY <3>2 DEF x, y, L
  <2>3. pages[n] \in Seq(S)
    <3> HIDE DEF pages, End
    <3>1. (n - 1) * limit \in Nat
      BY <1>3
    <3> QED
      BY <2>1, <2>2, <3>1, CutAndJoined
  <2> QED
    BY <2>1, <2>2, <2>3
<1>5. pages \in Seq(Seq(S)) /\ Len(pages) = T
  <2>1. pages \in [1 .. T -> Seq(S)]
    BY <1>4
  <2> HIDE DEF pages
  <2> QED
    BY <1>2, <2>1
<1>6. CASE T = 0
  <2>1. L = 0
    BY <1>1, <1>3, <1>6
  <2>2. ranked = <<>>
    BY <2>1, EmptySeq DEF L
  <2>3. pages = <<>>
    <3> HIDE DEF pages
    <3> QED
      BY <1>5, <1>6, EmptySeq
  <2>4. FlattenSeq(pages) = pages
    <3> HIDE DEF pages
    <3> QED
      BY <1>5, <1>6 DEF FlattenSeq
  <2> QED
    BY <2>2, <2>3, <2>4 DEF T
<1>7. CASE T # 0
  <2>1. f \in [1 .. T -> Seq(S)]
    <3> SUFFICES ASSUME NEW n \in 1 .. T PROVE SubSeq(ranked, 1, End(n)) \in Seq(S)
      OBVIOUS
    <3> DEFINE e == End(n)
    <3>1. e \in Nat /\ e <= Len(ranked)
      BY <1>4
    <3> HIDE DEF e
    <3>2. SubSeq(ranked, 1, e) \in Seq(S)
      BY <3>1, CutAndJoined
    <3> QED
      BY <3>2 DEF e
  <2>2. f[1] = pages[1]
    <3>1. 1 \in 1 .. T /\ (1 - 1) * limit + 1 = 1
      BY <1>2, <1>7
    <3>2. pages[1] = SubSeq(ranked, (1 - 1) * limit + 1, End(1))
      BY <1>4, <3>1
    <3> QED
      BY <3>1, <3>2
  <2>3. ASSUME NEW n \in 2 .. T PROVE f[n] = f[n - 1] \o pages[n]
    <3> DEFINE x == (n - 1) * limit
    <3>0. n \in 1 .. T /\ n - 1 \in 1 .. T
      BY <1>2
    <3>1. End(n - 1) = x /\ x \in Nat
      BY <1>3, <3>0
    <3>2. f[n - 1] = SubSeq(ranked, 1, x) /\ f[n] = SubSeq(ranked, 1, End(n))
      BY <3>0, <3>1
    <3>3. pages[n] = SubSeq(ranked, x + 1, End(n)) /\ End(n) \in Nat /\ x <= End(n) /\ End(n) <= Len(ranked)
      BY <1>4, <3>0
    <3> DEFINE e == End(n)
    <3>4. e \in Nat /\ x <= e /\ e <= Len(ranked)
      BY <3>3
    <3> HIDE DEF x, e
    <3>5. SubSeq(ranked, 1, x) \o SubSeq(ranked, x + 1, e) = SubSeq(ranked, 1, e)
      BY <3>1, <3>4, CutAndJoined
    <3> HIDE DEF f, pages
    <3> QED
      BY <3>2, <3>3, <3>5 DEF e
  <2>4. f[T] = ranked
    <3>1. End(T) = Len(ranked) /\ T \in 1 .. T
      <4> DEFINE y == T * limit
      <4>1. y >= L /\ y \in Nat /\ T \in 1 .. T
        BY <1>2, <1>3, <1>7
      <4> HIDE DEF y
      <4>2. ~ (y < L)
        BY <1>1, <4>1
      <4> QED
        BY <4>1, <4>2 DEF y, L
    <3>2. f[T] = SubSeq(ranked, 1, Len(ranked))
      BY <3>1
    <3>3. 0 \in Nat /\ 0 <= Len(ranked) /\ Len(ranked) \in Nat /\ Len(ranked) <= Len(ranked)
      BY <1>1 DEF L
    <3>4. SubSeq(ranked, 1, Len(ranked)) = ranked
      BY <3>3, CutAndJoined
    <3> QED
      BY <3>2, <3>4
  <2>5. T \in Nat \ {0} /\ Len(pages) = T
    BY <1>2, <1>5, <1>7
  <2> HIDE DEF f, pages
  <2>6. Beginnings(f, pages, T)
    BY <2>2, <2>3 DEF Beginnings
  <2>7. FlattenSeq(pages) = f[T]
    BY <2>1, <2>5, <2>6, Flattened, Zenon
  <2> QED
    BY <2>4, <2>7 DEF pages, T
<1> QED
  BY <1>6, <1>7

\* The boards of sound records.
LEMMA BoardsAre == ASSUME RankingInv PROVE BoardsSound
<1> SUFFICES ASSUME NEW mode \in Modes, NEW metric \in Metrics, NEW region \in Regions \cup {"GLOBAL"}
             PROVE  LET ranked == AllRanked(mode, metric, region) IN
                    /\ \A i, j \in DOMAIN ranked :
                           i < j => Value(ranked[i], mode, metric) >= Value(ranked[j], mode, metric)
                    /\ \A limit \in 1 .. Cardinality(Players) :
                           LET pages == [n \in 1 .. TotalPages(ranked, limit) |-> Page(ranked, n, limit)] IN
                           FlattenSeq(pages) = ranked
  BY DEF BoardsSound
<1> DEFINE ranked == AllRanked(mode, metric, region)
<1>1. Sorted(ranked, InRegion(region), mode, metric) /\ ranked \in Seq(Players)
  BY RankedIs
<1> HIDE DEF ranked
<1>2. \A i \in DOMAIN ranked : ranked[i] \in Players
  BY <1>1, ElementOfSeq, LenProperties
<1>3. \A i, j \in DOMAIN ranked : i < j => Value(ranked[i], mode, metric) >= Value(ranked[j], mode, metric)
  BY <1>1, <1>2, BeforeOrders DEF Sorted
<1>4. \A limit \in 1 .. Cardinality(Players) :
          FlattenSeq([n \in 1 .. TotalPages(ranked, limit) |-> Page(ranked, n, limit)]) = ranked
  <2> SUFFICES ASSUME NEW limit \in 1 .. Cardinality(Players)
               PROVE  FlattenSeq([n \in 1 .. TotalPages(ranked, limit) |-> Page(ranked, n, limit)]) = ranked
    OBVIOUS
  <2>1. limit \in Nat \ {0}
    BY RankingAssumption, FS_CardinalityType
  <2> QED
    BY <1>1, <2>1, PagesJoin
<1> QED
  BY <1>3, <1>4 DEF ranked

\* However many matches are recorded, points keep to their floor, the stored rank is the tier of
\* the points, max_rank the best tier stored so far, wins are games, and the pages of every
\* board, whatever their size, are its sorted rows.
THEOREM RankingHolds == RankingSpec => [](RankingTypeOK /\ RecordsAgree /\ BoardsSound)
<1>1. RankingInv => RankingTypeOK /\ RecordsAgree /\ BoardsSound
  BY RecordsAre, BoardsAre
<1> QED
  BY <1>1, RankingStarts, RankingStep, PTL DEF RankingSpec

-----------------------------------------------------------------------------
(* START, for any members, STARTs and changes of the room between them.    *)

Rosters == {q \in Seq(Seated) : \A i, j \in DOMAIN q : q[i] = q[j] => i = j}

LobbyRooms ==
    [state : {"waiting", "ingame"}, members : Rosters, team : [Seated -> 1 .. 2], edition : 0 .. MaxChanges]

Begun ==
    [at : {"id", "write", "tell", "done"}, match : 0 .. MaxStarts, room : LobbyRooms, left : Rosters,
     failed : BOOLEAN]

Handoffs == [match : 1 .. MaxStarts, team : 1 .. 2]

StartTyped ==
    /\ lobby \in LobbyRooms /\ lobby.edition <= changes /\ changes \in 0 .. MaxChanges
    /\ starts \in [1 .. MaxStarts -> Begun \cup {NotBegun}]
    /\ stored \in [1 .. MaxStarts -> Unwritten .. MaxChanges]
    /\ played \in [1 .. MaxStarts -> Unplayed .. MaxChanges]
    /\ unread \subseteq 1 .. MaxStarts
    /\ suss \in [Seated -> Seq(Handoffs)] /\ crossed \in BOOLEAN

\* Each START that has a match has one of its own, the ids so far.
Numbered ==
    /\ nextMatch = Cardinality({s \in 1 .. MaxStarts : starts[s].match # 0})
    /\ \A s \in 1 .. MaxStarts :
           /\ starts[s].match <= nextMatch
           /\ starts[s].at \in {"none", "id"} => starts[s].match = 0
           /\ starts[s].at \in {"write", "tell"} => starts[s].match # 0
    /\ \A r, s \in 1 .. MaxStarts : starts[r].match = starts[s].match /\ starts[r].match # 0 => r = s

\* What a match has in the store, and is played by.
PlayedFrom(s) ==
    LET i == starts[s].match IN
    i # 0 =>
        /\ starts[s].at = "write" => stored[i] = Unwritten /\ played[i] = Unplayed
        /\ \/ stored[i] = starts[s].room.edition
           \/ stored[i] = Unwritten /\ (starts[s].at = "write" \/ starts[s].failed)
        /\ \/ played[i] = Unplayed \/ played[i] = starts[s].room.edition
           \/ played[i] = Unwritten /\ (starts[s].failed \/ i \in unread)

SettingsKept ==
    /\ \A s \in 1 .. MaxStarts : PlayedFrom(s)
    /\ \A i \in 1 .. MaxStarts : i > nextMatch => stored[i] = Unwritten /\ played[i] = Unplayed
    /\ \A i \in 1 .. MaxStarts : played[i] # Unplayed => \E s \in 1 .. MaxStarts : starts[s].match = i

\* A member's handoff is of a START that has it no longer before it.
HandedBy(m, h, s) ==
    /\ starts[s].match = h.match /\ starts[s].at \in {"tell", "done"}
    /\ h.team = starts[s].room.team[m] /\ m \notin ToSet(starts[s].left)

Handed ==
    \A m \in Seated :
        /\ \A j \in DOMAIN suss[m] : \E s \in 1 .. MaxStarts : HandedBy(m, suss[m][j], s)
        /\ \A j, k \in DOMAIN suss[m] : suss[m][j].match = suss[m][k].match => j = k

\* STARTs come in order, and as long as nobody's return crosses one, one after the other.
InTurn ==
    /\ \A s \in 1 .. MaxStarts : starts[s].at # "none" => \A r \in 1 .. s - 1 : starts[r].at # "none"
    /\ ~ crossed => \A s \in 1 .. MaxStarts : starts[s].at # "none" => \A r \in 1 .. s - 1 : starts[r].at = "done"
    /\ ~ crossed /\ lobby.state = "waiting" => \A s \in 1 .. MaxStarts : ~ UnderWay(s)

LeftOf(s) ==
    /\ starts[s].at \in {"id", "write"} => starts[s].left = starts[s].room.members
    /\ starts[s].at = "done" => starts[s].left = <<>>

LatestStart(s) == starts[s].at # "none" /\ \A r \in s + 1 .. MaxStarts : starts[r].at = "none"
LastIs(m, i) == suss[m] # <<>> /\ suss[m][Len(suss[m])].match = i

LatestTold(s) ==
    ~ crossed /\ LatestStart(s) /\ ~ starts[s].failed =>
        \A m \in ToSet(starts[s].room.members) :
            m \in ToSet(starts[s].left) \/ LastIs(m, starts[s].match)

StartInv ==
    /\ StartTyped /\ Numbered /\ SettingsKept /\ Handed /\ InTurn
    /\ \A s \in 1 .. MaxStarts : LeftOf(s) /\ LatestTold(s)

\* A roster without its first.
LEMMA RosterTail ==
    ASSUME NEW q \in Rosters, q # <<>>
    PROVE  /\ Head(q) \in Seated /\ Tail(q) \in Rosters
           /\ ToSet(Tail(q)) = ToSet(q) \ {Head(q)} /\ Head(q) \in ToSet(q)
<1>1. q \in Seq(Seated) /\ \A i, j \in DOMAIN q : q[i] = q[j] => i = j
  BY DEF Rosters
<1>2. Head(q) \in Seated /\ Tail(q) \in Seq(Seated) /\ Len(Tail(q)) = Len(q) - 1
      /\ \A i \in 1 .. Len(Tail(q)) : Tail(q)[i] = q[i + 1]
  BY <1>1, HeadTailProperties
<1>3. Len(q) \in Nat /\ Len(q) # 0 /\ DOMAIN q = 1 .. Len(q) /\ DOMAIN Tail(q) = 1 .. Len(q) - 1 /\ Head(q) = q[1]
  BY <1>1, <1>2, LenProperties, EmptySeq
<1> DEFINE t == Tail(q)  h == Head(q)
<1>4. t \in Seq(Seated) /\ DOMAIN t = 1 .. Len(q) - 1 /\ h = q[1] /\ \A i \in 1 .. Len(q) - 1 : t[i] = q[i + 1]
  BY <1>2, <1>3
<1> HIDE DEF t, h
<1>5. t \in Rosters
  <2>1. \A i, j \in 1 .. Len(q) - 1 : t[i] = t[j] => i + 1 = j + 1
    BY <1>1, <1>3, <1>4
  <2>2. \A i, j \in DOMAIN t : t[i] = t[j] => i = j
    BY <1>4, <2>1
  <2> QED
    BY <1>4, <2>2 DEF Rosters
<1>6. \A i \in 1 .. Len(q) - 1 : t[i] \in ToSet(q) /\ t[i] # h
  BY <1>1, <1>3, <1>4 DEF ToSet
<1>7. \A i \in 1 .. Len(q) : q[i] # h => i # 1 /\ i - 1 \in 1 .. Len(q) - 1 /\ t[i - 1] = q[i]
  BY <1>3, <1>4
<1>8. ToSet(t) = ToSet(q) \ {h}
  <2>1. ToSet(t) \subseteq ToSet(q) \ {h}
    BY <1>4, <1>6 DEF ToSet
  <2>2. ToSet(q) \ {h} \subseteq ToSet(t)
    BY <1>3, <1>4, <1>7 DEF ToSet
  <2> QED
    BY <2>1, <2>2
<1>9. h \in ToSet(q)
  BY <1>3, <1>4 DEF ToSet
<1> QED
  BY <1>2, <1>5, <1>8, <1>9 DEF t, h

\* A roster without one of its members.
LEMMA RosterWithout ==
    ASSUME NEW q \in Rosters, NEW i \in DOMAIN q
    PROVE  RemoveAt(q, i) \in Rosters
<1> DEFINE r == RemoveAt(q, i)
<1>1. q \in Seq(Seated) /\ \A j, k \in DOMAIN q : q[j] = q[k] => j = k
  BY DEF Rosters
<1>2. r \in Seq(Seated)
  BY <1>1, RemovedAt
<1>3. \A j, k \in DOMAIN r : \E x, y \in DOMAIN q : r[j] = q[x] /\ r[k] = q[y] /\ (x = y => j = k)
  BY <1>1, RemovedApart
<1> HIDE DEF r
<1>4. \A j, k \in DOMAIN r : r[j] = r[k] => j = k
  BY <1>1, <1>3
<1> QED
  BY <1>2, <1>4 DEF Rosters, r

\* The START of a match is the one that has its id.
LEMMA MatchIs ==
    ASSUME StartInv, NEW s \in 1 .. MaxStarts, starts[s].match # 0
    PROVE  Match(starts[s].match) = s
<1>1. DOMAIN starts = 1 .. MaxStarts
  BY DEF StartInv, StartTyped
<1>2. \A r \in 1 .. MaxStarts : starts[r].match = starts[s].match => r = s
  BY DEF StartInv, Numbered
<1> QED
  BY <1>1, <1>2 DEF Match

\* No more matches than STARTs.
LEMMA IdsCounted ==
    ASSUME StartInv
    PROVE  LET with == {s \in 1 .. MaxStarts : starts[s].match # 0} IN
           IsFiniteSet(with) /\ Cardinality(with) = nextMatch /\ nextMatch \in 0 .. MaxStarts
<1> DEFINE with == {s \in 1 .. MaxStarts : starts[s].match # 0}
<1>1. MaxStarts \in Nat /\ 1 \in Nat
  BY StartAssumption
<1>2. IsFiniteSet(1 .. MaxStarts) /\ Cardinality(1 .. MaxStarts) = MaxStarts
  <2>1. 1 \in Int /\ MaxStarts \in Int
    BY <1>1
  <2>2. /\ IsFiniteSet(1 .. MaxStarts)
        /\ Cardinality(1 .. MaxStarts) = IF 1 > MaxStarts THEN 0 ELSE MaxStarts - 1 + 1
    BY <2>1, FS_Interval
  <2> QED
    BY <1>1, <2>2
<1>3. IsFiniteSet(with) /\ Cardinality(with) <= Cardinality(1 .. MaxStarts)
  BY <1>2, FS_Subset
<1>4. Cardinality(with) \in Nat
  BY <1>3, FS_CardinalityType
<1>5. Cardinality(with) = nextMatch
  BY DEF StartInv, Numbered
<1> QED
  BY <1>1, <1>2, <1>3, <1>4, <1>5

\* What is said of START follows.
LEMMA StartIs == ASSUME StartInv PROVE StartTypeOK /\ PlayedAsStarted /\ ToldOneMatch /\ TogetherInLast
<1>1. DOMAIN starts = 1 .. MaxStarts /\ \A s \in 1 .. MaxStarts : starts[s] \in Begun \cup {NotBegun}
  BY DEF StartInv, StartTyped
<1>2. StartTypeOK
  <2>1. lobby.state \in {"waiting", "ingame"} /\ lobby.members \in Seq(Seated)
    BY DEF StartInv, StartTyped, LobbyRooms, Rosters
  <2>2. ToSet(lobby.members) \subseteq Seated
    BY <2>1, LenProperties, ElementOfSeq DEF ToSet
  <2>3. nextMatch \in 0 .. MaxStarts
    BY IdsCounted
  <2>4. \A i \in 1 .. MaxStarts : stored[i] \in Unwritten .. MaxChanges /\ played[i] \in Unplayed .. MaxChanges
    BY DEF StartInv, StartTyped
  <2>6. unread \subseteq 1 .. MaxStarts
    BY DEF StartInv, StartTyped
  <2>5. \A s \in DOMAIN starts : starts[s].at \in {"none", "id", "write", "tell", "done"}
    BY <1>1 DEF Begun, NotBegun
  <2> QED
    BY <2>1, <2>2, <2>3, <2>4, <2>5, <2>6 DEF StartTypeOK
<1>3. PlayedAsStarted
  <2> SUFFICES ASSUME NEW i \in 1 .. MaxStarts, played[i] # Unplayed
               PROVE  \/ played[i] = starts[Match(i)].room.edition
                      \/ played[i] = Unwritten /\ (starts[Match(i)].failed \/ i \in unread)
    BY DEF PlayedAsStarted
  <2>1. PICK s \in 1 .. MaxStarts : starts[s].match = i
    BY DEF StartInv, SettingsKept
  <2>2. Match(i) = s
    BY <2>1, MatchIs
  <2>3. PlayedFrom(s)
    BY DEF StartInv, SettingsKept
  <2> QED
    BY <2>1, <2>2, <2>3 DEF PlayedFrom
<1>4. ToldOneMatch
  <2> SUFFICES ASSUME NEW m \in Seated, NEW j \in DOMAIN suss[m]
               PROVE  /\ suss[m][j].team = starts[Match(suss[m][j].match)].room.team[m]
                      /\ \A k \in DOMAIN suss[m] : k # j => suss[m][k].match # suss[m][j].match
    BY DEF ToldOneMatch
  <2>1. PICK s \in 1 .. MaxStarts : HandedBy(m, suss[m][j], s)
    BY DEF StartInv, Handed
  <2>2. starts[s].match # 0
    <3>1. starts[s].match = suss[m][j].match
      BY <2>1 DEF HandedBy
    <3>2. suss[m] \in Seq(Handoffs)
      BY DEF StartInv, StartTyped
    <3>3. suss[m][j] \in Handoffs
      BY <3>2, LenProperties, ElementOfSeq
    <3> QED
      BY <3>1, <3>3 DEF Handoffs
  <2>3. Match(suss[m][j].match) = s
    BY <2>1, <2>2, MatchIs DEF HandedBy
  <2> QED
    BY <2>1, <2>3 DEF HandedBy, StartInv, Handed
<1>5. TogetherInLast
  <2> DEFINE begun == {s \in DOMAIN starts : starts[s].at # "none"}
             last == CHOOSE s \in begun : \A r \in begun : r <= s
  <2> SUFFICES ASSUME begun # {}, \A s \in begun : starts[s].at = "done" /\ ~ starts[s].failed, ~ crossed,
                      NEW m \in ToSet(starts[last].room.members)
               PROVE  suss[m] # <<>> /\ suss[m][Len(suss[m])].match = starts[last].match
    BY DEF TogetherInLast
  <2>1. \E s \in begun : \A r \in begun : r <= s
    <3>1. begun \subseteq 1 .. MaxStarts /\ MaxStarts \in Nat
      BY <1>1, StartAssumption
    <3> HIDE DEF begun
    <3>2. {MaxStarts - r : r \in begun} \subseteq Nat /\ {MaxStarts - r : r \in begun} # {}
      <4>1. \A r \in begun : MaxStarts - r \in Nat
        BY <3>1
      <4>2. PICK r \in begun : TRUE
        OBVIOUS
      <4> QED
        BY <4>1, <4>2
    <3>3. PICK x \in {MaxStarts - r : r \in begun} : \A y \in {MaxStarts - r : r \in begun} : x <= y
      BY <3>2, LeastNat
    <3>4. PICK s \in begun : x = MaxStarts - s
      BY <3>3
    <3>5. \A r \in begun : MaxStarts - s <= MaxStarts - r
      BY <3>3, <3>4
    <3>6. \A r \in begun : r <= s
      BY <3>1, <3>5
    <3> QED
      BY <3>6
  <2>2. last \in begun /\ \A r \in begun : r <= last
    BY <2>1
  <2> HIDE DEF last
  <2>3. last \in 1 .. MaxStarts /\ starts[last].at = "done" /\ ~ starts[last].failed
    BY <1>1, <2>2
  <2>4. LatestStart(last)
    BY <1>1, <2>2, <2>3, StartAssumption DEF LatestStart
  <2>5. LeftOf(last) /\ LatestTold(last)
    BY <2>3 DEF StartInv
  <2>6. starts[last].left = <<>>
    BY <2>3, <2>5 DEF LeftOf
  <2>7. ToSet(<<>>) = {}
    BY DEF ToSet
  <2>8. m \in ToSet(starts[last].left) \/ LastIs(m, starts[last].match)
    BY <2>3, <2>4, <2>5 DEF LatestTold
  <2> QED
    BY <2>6, <2>7, <2>8 DEF LastIs
<1> QED
  BY <1>2, <1>3, <1>4, <1>5

\* At first the members are in the room, in some order.
LEMMA StartStarts == StartInit => StartInv
<1> SUFFICES ASSUME StartInit PROVE StartInv
  OBVIOUS
<1>1. DOMAIN starts = 1 .. MaxStarts /\ \A s \in 1 .. MaxStarts : starts[s] = NotBegun
  BY DEF StartInit
<1>2. lobby \in LobbyRooms
  <2>1. \E f \in [1 .. Cardinality(Seated) -> Seated] : IsInjective(f)
    <3>1. Cardinality(Seated) \in Nat /\ ExistsBijection(1 .. Cardinality(Seated), Seated)
      BY StartAssumption, FS_CardinalityType
    <3>2. PICK f \in Bijection(1 .. Cardinality(Seated), Seated) : TRUE
      BY <3>1 DEF ExistsBijection
    <3> QED
      BY <3>2 DEF Bijection, Injection, IsInjective
  <2>2. SetToSeq(Seated) \in [1 .. Cardinality(Seated) -> Seated] /\ IsInjective(SetToSeq(Seated))
    BY <2>1 DEF SetToSeq
  <2>3. Cardinality(Seated) \in Nat
    BY StartAssumption, FS_CardinalityType
  <2>4. SetToSeq(Seated) \in Seq(Seated)
    BY <2>2, <2>3
  <2>5. SetToSeq(Seated) \in Rosters
    BY <2>2, <2>4 DEF Rosters, IsInjective
  <2> QED
    BY <2>5, StartAssumption DEF StartInit, LobbyRooms
<1>3. StartTyped
  <2>1. starts \in [1 .. MaxStarts -> Begun \cup {NotBegun}]
    BY DEF StartInit
  <2>2. stored \in [1 .. MaxStarts -> Unwritten .. MaxChanges] /\ played \in [1 .. MaxStarts -> Unplayed .. MaxChanges]
    BY StartAssumption DEF StartInit, Unwritten, Unplayed
  <2>3. suss \in [Seated -> Seq(Handoffs)] /\ unread \subseteq 1 .. MaxStarts
    BY DEF StartInit
  <2>4. lobby.edition <= changes /\ changes \in 0 .. MaxChanges /\ crossed \in BOOLEAN
    <3>1. lobby.edition = 0
      BY Zenon DEF StartInit
    <3>2. changes = 0
      BY Zenon DEF StartInit
    <3>3. crossed \in BOOLEAN
      BY Zenon DEF StartInit
    <3>4. 0 \in 0 .. MaxChanges
      BY StartAssumption
    <3> QED
      BY <3>1, <3>2, <3>3, <3>4
  <2> QED
    BY <1>2, <2>1, <2>2, <2>3, <2>4 DEF StartTyped
<1>4. Numbered
  <2>1. {s \in 1 .. MaxStarts : starts[s].match # 0} = {}
    BY <1>1 DEF NotBegun
  <2>2. Cardinality({}) = 0
    BY FS_EmptySet
  <2>3. nextMatch = 0 /\ NotBegun.match = 0 /\ NotBegun.at = "none"
    BY DEF StartInit, NotBegun
  <2> QED
    <3>1. nextMatch = Cardinality({s \in 1 .. MaxStarts : starts[s].match # 0})
      BY <2>1, <2>2, <2>3, Zenon
    <3>2. \A s \in 1 .. MaxStarts : starts[s].match = 0 /\ starts[s].at = "none"
      BY <1>1, <2>3
    <3>3. \A s \in 1 .. MaxStarts :
              /\ starts[s].match <= nextMatch
              /\ starts[s].at \in {"none", "id"} => starts[s].match = 0
              /\ starts[s].at \in {"write", "tell"} => starts[s].match # 0
      BY <2>3, <3>2
    <3>4. \A r, s \in 1 .. MaxStarts : starts[r].match = starts[s].match /\ starts[r].match # 0 => r = s
      BY <3>2
    <3> QED
      BY <3>1, <3>3, <3>4, Zenon DEF Numbered
<1>5. SettingsKept
  BY <1>1 DEF SettingsKept, PlayedFrom, NotBegun, StartInit
<1>6. Handed
  BY DEF Handed, StartInit
<1>7. InTurn
  BY <1>1 DEF InTurn, NotBegun, UnderWay
<1>8. \A s \in 1 .. MaxStarts : LeftOf(s) /\ LatestTold(s)
  BY <1>1 DEF LeftOf, LatestTold, LatestStart, NotBegun
<1> QED
  BY <1>3, <1>4, <1>5, <1>6, <1>7, <1>8 DEF StartInv

\* A change of the record changes nothing of what was started; one that opens the room crosses
\* the STARTs under way.
LEMMA LobbyChanged ==
    ASSUME StartInv, UNCHANGED <<starts, stored, suss, played, unread, nextMatch>>,
           lobby' \in LobbyRooms, lobby'.edition <= changes', changes' \in 0 .. MaxChanges, crossed' \in BOOLEAN,
           crossed => crossed',
           lobby'.state = "waiting" /\ lobby.state = "ingame" =>
               (~ crossed' => \A s \in 1 .. MaxStarts : ~ UnderWay(s))
    PROVE  StartInv'
<1>1. StartTyped'
  BY DEF StartInv, StartTyped
<1>2. Numbered' /\ SettingsKept' /\ Handed'
  BY DEF StartInv, Numbered, SettingsKept, PlayedFrom, Handed, HandedBy
<1>3. InTurn'
  <2>1. lobby.state \in {"waiting", "ingame"} /\ crossed \in BOOLEAN
    BY DEF StartInv, StartTyped, LobbyRooms
  <2> QED
    BY <2>1 DEF StartInv, InTurn, UnderWay
<1>4. \A s \in 1 .. MaxStarts : LeftOf(s)' /\ LatestTold(s)'
  BY DEF StartInv, LeftOf, LatestTold, LatestStart, LastIs
<1> QED
  BY <1>1, <1>2, <1>3, <1>4 DEF StartInv

\* The changes there are.
LEMMA ChangeStep ==
    ASSUME StartInv, ChangeSettings \/ Reenter \/ \E m \in Seated : SwitchTeam(m) \/ GoAway(m)
    PROVE  StartInv'
<1>1. /\ lobby \in LobbyRooms /\ lobby.edition <= changes /\ changes \in 0 .. MaxChanges /\ crossed \in BOOLEAN
      /\ starts \in [1 .. MaxStarts -> Begun \cup {NotBegun}] /\ MaxChanges \in Nat
  BY StartAssumption DEF StartInv, StartTyped
<1>2. CASE ChangeSettings
  <2>1. lobby' \in LobbyRooms /\ lobby'.edition <= changes' /\ lobby'.state = lobby.state /\ lobby.state # "ingame"
    BY <1>1, <1>2 DEF ChangeSettings, Change, LobbyRooms
  <2> QED
    BY <1>1, <1>2, <2>1, LobbyChanged DEF ChangeSettings, Change
<1>3. CASE Reenter
  <2>1. lobby' \in LobbyRooms /\ lobby'.edition <= changes'
    BY <1>1, <1>3 DEF Reenter, Change, LobbyRooms
  <2>2. ~ crossed' => \A s \in 1 .. MaxStarts : ~ UnderWay(s)
    BY <1>1, <1>3 DEF Reenter
  <2> QED
    BY <1>1, <1>3, <2>1, <2>2, LobbyChanged DEF Reenter, Change
<1>4. ASSUME NEW m \in Seated, SwitchTeam(m) PROVE StartInv'
  <2>1. lobby' \in LobbyRooms /\ lobby'.edition <= changes' /\ lobby'.state = lobby.state /\ lobby.state # "ingame"
    BY <1>1, <1>4 DEF SwitchTeam, Change, LobbyRooms
  <2> QED
    BY <1>1, <1>4, <2>1, LobbyChanged DEF SwitchTeam, Change
<1>5. ASSUME NEW m \in Seated, GoAway(m) PROVE StartInv'
  <2>1. PICK i \in DOMAIN lobby.members : lobby' = [lobby EXCEPT !.members = RemoveAt(@, i)]
    BY <1>5 DEF GoAway
  <2>2. RemoveAt(lobby.members, i) \in Rosters
    BY <1>1, RosterWithout DEF LobbyRooms
  <2>3. lobby' \in LobbyRooms /\ lobby'.edition <= changes' /\ lobby'.state = lobby.state
    BY <1>1, <1>5, <2>1, <2>2 DEF GoAway, Change, LobbyRooms
  <2>4. lobby.state \in {"waiting", "ingame"}
    BY <1>1 DEF LobbyRooms
  <2> QED
    BY <1>1, <1>5, <2>3, <2>4, LobbyChanged DEF GoAway, Change
<1> QED
  BY StartAssumption, <1>2, <1>3, <1>4, <1>5

\* Which STARTs have a match, when one moves on.
LEMMA NumbersKept ==
    ASSUME StartInv, NEW s \in 1 .. MaxStarts, NEW n \in Begun, starts' = [starts EXCEPT ![s] = n],
           n.match = starts[s].match, UNCHANGED nextMatch,
           n.at = "id" => n.match = 0, n.at \in {"write", "tell"} => n.match # 0
    PROVE  Numbered'
<1>1. starts' \in [1 .. MaxStarts -> Begun \cup {NotBegun}] /\ \A r \in 1 .. MaxStarts : starts'[r] = IF r = s THEN n ELSE starts[r]
  BY DEF StartInv, StartTyped
<1>2. \A r \in 1 .. MaxStarts : starts'[r].match = starts[r].match
  BY <1>1
<1>3. {r \in 1 .. MaxStarts : starts[r].match # 0}' = {r \in 1 .. MaxStarts : starts[r].match # 0}
  BY <1>2
<1>4. nextMatch' = Cardinality({r \in 1 .. MaxStarts : starts'[r].match # 0})
  BY <1>3 DEF StartInv, Numbered
<1>5. n.at # "none"
  BY DEF Begun
<1>6. \A r \in 1 .. MaxStarts :
          /\ starts'[r].match <= nextMatch'
          /\ starts'[r].at \in {"none", "id"} => starts'[r].match = 0
          /\ starts'[r].at \in {"write", "tell"} => starts'[r].match # 0
  BY <1>1, <1>2, <1>5 DEF StartInv, Numbered
<1>7. \A q, r \in 1 .. MaxStarts : starts'[q].match = starts'[r].match /\ starts'[q].match # 0 => q = r
  BY <1>2 DEF StartInv, Numbered
<1> QED
  BY <1>4, <1>6, <1>7, Zenon DEF Numbered

\* A START that was begun keeps its place when it moves on.
LEMMA TurnKept ==
    ASSUME StartInv, NEW s \in 1 .. MaxStarts, NEW n \in Begun, starts' = [starts EXCEPT ![s] = n],
           starts[s].at \notin {"none", "done"}, UNCHANGED <<lobby, crossed>>
    PROVE  InTurn' /\ \A r \in 1 .. MaxStarts : LatestStart(r)' <=> LatestStart(r)
<1>1. starts' \in [1 .. MaxStarts -> Begun \cup {NotBegun}] /\ \A r \in 1 .. MaxStarts : starts'[r] = IF r = s THEN n ELSE starts[r]
  BY DEF StartInv, StartTyped
<1>2. n.at # "none" /\ UnderWay(s)
  BY DEF Begun, UnderWay
<1>3. \A r \in 1 .. MaxStarts : (starts'[r].at = "none" <=> starts[r].at = "none") /\ (starts[r].at = "done" => starts'[r].at = "done")
  BY <1>1, <1>2
<1>4. \A r \in 1 .. MaxStarts : starts[r].at # "none" => \A q \in 1 .. r - 1 : q \in 1 .. MaxStarts /\ starts[q].at # "none"
  BY StartAssumption DEF StartInv, InTurn
<1>5. ~ crossed => \A r \in 1 .. MaxStarts : starts[r].at # "none" => \A q \in 1 .. r - 1 : starts[q].at = "done"
  BY DEF StartInv, InTurn
<1>6. ~ (~ crossed /\ lobby.state = "waiting")
  BY <1>2 DEF StartInv, InTurn
<1>7. InTurn'
  BY <1>3, <1>4, <1>5, <1>6 DEF InTurn
<1>8. \A r \in 1 .. MaxStarts : LatestStart(r)' <=> LatestStart(r)
  <2> SUFFICES ASSUME NEW r \in 1 .. MaxStarts PROVE LatestStart(r)' <=> LatestStart(r)
    OBVIOUS
  <2>1. \A q \in r + 1 .. MaxStarts : q \in 1 .. MaxStarts
    BY StartAssumption
  <2> QED
    BY <1>3, <2>1 DEF LatestStart
<1> QED
  BY <1>7, <1>8

\* A step of START that tells nobody and writes nothing.
LEMMA StartGoesOn ==
    ASSUME StartInv, NEW s \in 1 .. MaxStarts, NEW n \in Begun, starts' = [starts EXCEPT ![s] = n],
           starts[s].at \notin {"none", "done"}, UNCHANGED <<lobby, stored, suss, played, unread, nextMatch, crossed, changes>>,
           n.match = starts[s].match, n.room = starts[s].room, ToSet(n.left) \subseteq ToSet(starts[s].left),
           n.failed \/ (~ starts[s].failed /\ n.left = starts[s].left),
           \/ n.at = "done" /\ starts[s].at = "id" /\ n.left = <<>>
           \/ n.at = "tell" /\ starts[s].at \in {"write", "tell"} /\ (starts[s].at = "write" => n.failed)
           \/ n.at = "done" /\ starts[s].at = "tell" /\ n.left = <<>>
    PROVE  StartInv'
<1>1. starts \in [1 .. MaxStarts -> Begun \cup {NotBegun}] /\ \A r \in 1 .. MaxStarts : starts'[r] = IF r = s THEN n ELSE starts[r]
  BY DEF StartInv, StartTyped
<1>2. StartTyped'
  BY <1>1 DEF StartInv, StartTyped
<1>3. Numbered'
  <2>1. n.at \in {"write", "tell"} => n.match # 0
    BY DEF StartInv, Numbered
  <2>2. n.at # "id"
    OBVIOUS
  <2> QED
    BY <2>1, <2>2, NumbersKept
<1>4. InTurn' /\ \A r \in 1 .. MaxStarts : LatestStart(r)' <=> LatestStart(r)
  BY TurnKept
<1>a. starts[s] \in Begun /\ n.failed \in BOOLEAN /\ starts[s].failed \in BOOLEAN
  BY <1>1 DEF Begun, NotBegun
<1>5. SettingsKept'
  <2>1. \A r \in 1 .. MaxStarts : starts'[r].match = starts[r].match
    BY <1>1
  <2>2. PlayedFrom(s)'
    <3>1. PlayedFrom(s)
      BY DEF StartInv, SettingsKept
    <3>2. starts[s].failed => n.failed
      BY <1>a
    <3>3. starts'[s] = n /\ n.at # "write"
      BY <1>1
    <3>4. starts[s].at = "write" => n.failed
      OBVIOUS
    <3> QED
      BY <3>1, <3>2, <3>3, <3>4 DEF PlayedFrom
  <2>3. ASSUME NEW r \in 1 .. MaxStarts, r # s PROVE PlayedFrom(r)'
    <3>1. PlayedFrom(r) /\ starts'[r] = starts[r]
      BY <1>1, <2>3 DEF StartInv, SettingsKept
    <3> QED
      BY <3>1 DEF PlayedFrom
  <2> QED
    BY <2>1, <2>2, <2>3 DEF StartInv, SettingsKept
<1>6. Handed'
  <2>1. \A m \in Seated : \A j \in DOMAIN suss[m], r \in 1 .. MaxStarts :
            HandedBy(m, suss[m][j], r) => HandedBy(m, suss[m][j], r)'
    BY <1>1 DEF HandedBy
  <2> QED
    BY <2>1 DEF StartInv, Handed
<1>7. ASSUME NEW r \in 1 .. MaxStarts PROVE LeftOf(r)'
  <2>1. LeftOf(r)
    BY DEF StartInv
  <2>2. CASE r = s
    BY <1>1, <2>2 DEF LeftOf
  <2>3. CASE r # s
    BY <1>1, <2>1, <2>3 DEF LeftOf
  <2> QED
    BY <2>2, <2>3
<1>8. ASSUME NEW r \in 1 .. MaxStarts PROVE LatestTold(r)'
  <2>1. LatestTold(r)
    BY DEF StartInv
  <2>2. CASE r = s
    <3>1. ~ n.failed => ~ starts[s].failed /\ n.left = starts[s].left
      OBVIOUS
    <3>2. starts'[s] = n
      BY <1>1
    <3> QED
      BY <1>4, <2>1, <2>2, <3>1, <3>2 DEF LatestTold, LastIs
  <2>3. CASE r # s
    BY <1>1, <1>4, <2>1, <2>3 DEF LatestTold, LastIs
  <2> QED
    BY <2>2, <2>3
<1> QED
  BY <1>2, <1>3, <1>4, <1>5, <1>6, <1>7, <1>8 DEF StartInv

\* A START that has begun with some room.
LEMMA BegunAt ==
    ASSUME NEW q \in LobbyRooms
    PROVE  LET n == [NotBegun EXCEPT !.at = "id", !.room = q, !.left = q.members] IN
           /\ n \in Begun /\ n.at = "id" /\ n.match = 0 /\ n.room = q /\ n.left = q.members /\ ~ n.failed
<1> DEFINE m == NotBegun
<1> DEFINE Wider == [at : {"none", "id"}, match : {0}, room : {NotBegun.room, q}, left : {<<>>, q.members}, failed : BOOLEAN]
<1>1. m \in Wider /\ ~ m.failed
  BY DEF NotBegun
<1> HIDE DEF m
<1> DEFINE n == [m EXCEPT !.at = "id", !.room = q, !.left = q.members]
<1>2. n \in Wider /\ n.at = "id" /\ n.match = 0 /\ n.room = q /\ n.left = q.members /\ n.failed = m.failed
  BY <1>1
<1> HIDE DEF n
<1>3. q.members \in Rosters /\ 0 \in 0 .. MaxStarts
  BY StartAssumption DEF LobbyRooms
<1>4. n \in Begun /\ n.at = "id" /\ n.match = 0 /\ n.room = q /\ n.left = q.members /\ ~ n.failed
  BY <1>1, <1>2, <1>3 DEF Begun
<1> QED
  BY <1>4 DEF n, m

\* And one that has its id.
LEMMA NumberedWith ==
    ASSUME NEW b \in Begun, NEW k \in 0 .. MaxStarts
    PROVE  LET n == [b EXCEPT !.at = "write", !.match = k] IN
           /\ n \in Begun /\ n.at = "write" /\ n.match = k /\ n.room = b.room /\ n.left = b.left
           /\ n.failed = b.failed
  BY DEF Begun

\* START flips the record.
LEMMA StartMatchStep == ASSUME StartInv, NEW s \in 1 .. MaxStarts, StartMatch(s) PROVE StartInv'
<1> DEFINE n == [NotBegun EXCEPT !.at = "id", !.room = lobby, !.left = lobby.members]
<1>1. /\ lobby \in LobbyRooms /\ lobby.members \in Rosters /\ lobby.state = "waiting" /\ starts[s].at = "none"
      /\ starts' = [starts EXCEPT ![s] = n] /\ lobby' = [lobby EXCEPT !.state = "ingame"]
      /\ \A r \in 1 .. s - 1 : starts[r].at # "none"
      /\ UNCHANGED <<stored, suss, played, unread, nextMatch, crossed, changes>>
  BY DEF StartMatch, Move, StartInv, StartTyped, LobbyRooms
<1>2. /\ n \in Begun /\ n.at = "id" /\ n.match = 0 /\ n.room = lobby /\ n.left = lobby.members /\ ~ n.failed
  BY Zenon, <1>1, BegunAt
<1> HIDE DEF n
<1>3. starts \in [1 .. MaxStarts -> Begun \cup {NotBegun}] /\ \A r \in 1 .. MaxStarts : starts'[r] = IF r = s THEN n ELSE starts[r]
  BY <1>1 DEF StartInv, StartTyped
<1>4. starts[s].match = 0
  BY <1>1 DEF StartInv, Numbered
<1>5. StartTyped'
  <2>1. lobby' \in LobbyRooms /\ lobby'.edition = lobby.edition
    BY <1>1 DEF LobbyRooms
  <2> QED
    BY <1>1, <1>2, <1>3, <2>1 DEF StartInv, StartTyped
<1>6. Numbered'
  BY <1>1, <1>2, <1>4, NumbersKept
<1>7. SettingsKept'
  <2>1. \A r \in 1 .. MaxStarts : starts'[r].match = starts[r].match
    BY <1>2, <1>3, <1>4
  <2>2. ASSUME NEW r \in 1 .. MaxStarts PROVE PlayedFrom(r)'
    <3>1. CASE r = s
      BY <1>2, <1>3, <3>1 DEF PlayedFrom
    <3>2. CASE r # s
      <4>1. PlayedFrom(r) /\ starts'[r] = starts[r]
        BY <1>3, <3>2 DEF StartInv, SettingsKept
      <4> QED
        BY <1>1, <4>1 DEF PlayedFrom
    <3> QED
      BY <3>1, <3>2
  <2> QED
    BY <1>1, <2>1, <2>2 DEF StartInv, SettingsKept
<1>8. Handed'
  <2>1. \A m \in Seated : \A j \in DOMAIN suss[m], r \in 1 .. MaxStarts :
            HandedBy(m, suss[m][j], r) => HandedBy(m, suss[m][j], r)'
    BY <1>1, <1>3 DEF HandedBy
  <2> QED
    BY <1>1, <2>1 DEF StartInv, Handed
<1>9. InTurn'
  <2>1. ~ crossed => \A r \in 1 .. MaxStarts : ~ UnderWay(r)
    BY <1>1 DEF StartInv, InTurn
  <2>2. \A r \in 1 .. s - 1 : r \in 1 .. MaxStarts /\ r # s
    BY StartAssumption
  <2>3. ~ crossed => \A r \in 1 .. s - 1 : starts[r].at = "done"
    BY <1>1, <2>1, <2>2 DEF UnderWay
  <2>4. \A r \in 1 .. MaxStarts : starts[r].at # "none" => \A q \in 1 .. r - 1 : q \in 1 .. MaxStarts /\ starts[q].at # "none" /\ q # s
    BY <1>1, StartAssumption DEF StartInv, InTurn
  <2>5. \A r \in 1 .. MaxStarts : starts'[r].at # "none" => \A q \in 1 .. r - 1 : starts'[q].at # "none"
    BY <1>1, <1>2, <1>3, <2>2, <2>4
  <2>6. ~ crossed => \A r \in 1 .. MaxStarts : starts[r].at # "none" => \A q \in 1 .. r - 1 : starts[q].at = "done"
    BY DEF StartInv, InTurn
  <2>7. ~ crossed => \A r \in 1 .. MaxStarts : starts'[r].at # "none" => \A q \in 1 .. r - 1 : starts'[q].at = "done"
    BY <1>1, <1>2, <1>3, <2>2, <2>3, <2>4, <2>6
  <2>8. lobby'.state # "waiting"
    BY <1>1 DEF LobbyRooms
  <2> QED
    BY <1>1, <2>5, <2>7, <2>8 DEF InTurn
<1>10. ASSUME NEW r \in 1 .. MaxStarts PROVE LeftOf(r)' /\ LatestTold(r)'
  <2>1. LeftOf(r) /\ LatestTold(r)
    BY DEF StartInv
  <2>2. CASE r = s
    BY <1>2, <1>3, <2>2 DEF LeftOf, LatestTold
  <2>3. CASE r # s
    <3>1. starts'[r] = starts[r]
      BY <1>3, <2>3
    <3>2. LatestStart(r)' /\ r < s => s \in r + 1 .. MaxStarts
      BY StartAssumption
    <3>3. LatestStart(r)' => ~ (r < s)
      <4> SUFFICES ASSUME LatestStart(r)', r < s PROVE FALSE
        OBVIOUS
      <4>1. starts'[s].at = "none"
        BY <3>2 DEF LatestStart
      <4> QED
        BY <1>2, <1>3, <4>1
    <3>4. LatestStart(r)' => LatestStart(r)
      <4> SUFFICES ASSUME LatestStart(r)', NEW q \in r + 1 .. MaxStarts PROVE starts[q].at = "none"
        BY <3>1 DEF LatestStart
      <4>1. q \in 1 .. MaxStarts
        BY StartAssumption
      <4>2. starts'[q].at = "none"
        BY DEF LatestStart
      <4> QED
        BY <1>1, <1>3, <4>1, <4>2
    <3> QED
      BY <1>1, <2>1, <3>1, <3>4 DEF LeftOf, LatestTold, LastIs
  <2> QED
    BY <2>2, <2>3
<1> QED
  BY <1>5, <1>6, <1>7, <1>8, <1>9, <1>10 DEF StartInv

\* It takes the next id.
LEMMA NextIdStep == ASSUME StartInv, NEW s \in 1 .. MaxStarts, NextMatchId(s) PROVE StartInv'
<1> DEFINE n == [starts[s] EXCEPT !.at = "write", !.match = nextMatch + 1]
           with == {r \in 1 .. MaxStarts : starts[r].match # 0}
<1>1. /\ starts \in [1 .. MaxStarts -> Begun \cup {NotBegun}] /\ starts[s].at = "id"
      /\ starts' = [starts EXCEPT ![s] = n] /\ nextMatch' = nextMatch + 1
      /\ UNCHANGED <<lobby, stored, suss, played, unread, crossed, changes>>
  BY DEF NextMatchId, Move, StartInv, StartTyped
<1>2. IsFiniteSet(with) /\ Cardinality(with) = nextMatch /\ nextMatch \in 0 .. MaxStarts
  BY IdsCounted
<1>3. starts[s] \in Begun /\ starts[s].match = 0
  BY <1>1 DEF Begun, NotBegun, StartInv, Numbered
<1>4. \A r \in 1 .. MaxStarts : starts'[r] = IF r = s THEN n ELSE starts[r]
  BY <1>1
<1>5. n.match = nextMatch + 1 /\ nextMatch + 1 # 0 /\ nextMatch \in Nat
  BY <1>2, <1>3 DEF Begun
<1>6. {r \in 1 .. MaxStarts : starts'[r].match # 0} = with \cup {s}
  BY <1>4, <1>5
<1>7. Cardinality(with \cup {s}) = nextMatch + 1
  <2>1. s \notin with
    BY <1>3
  <2> HIDE DEF with
  <2>2. Cardinality(with \cup {s}) = IF s \in with THEN Cardinality(with) ELSE Cardinality(with) + 1
    BY <1>2, FS_AddElement
  <2> QED
    BY <1>2, <2>1, <2>2
<1>8. nextMatch + 1 <= MaxStarts
  <2>1. with \cup {s} \subseteq 1 .. MaxStarts
    OBVIOUS
  <2> HIDE DEF with
  <2>2. 1 \in Int /\ MaxStarts \in Int /\ MaxStarts \in Nat
    BY StartAssumption
  <2>3. IsFiniteSet(1 .. MaxStarts) /\ Cardinality(1 .. MaxStarts) = IF 1 > MaxStarts THEN 0 ELSE MaxStarts - 1 + 1
    BY <2>2, FS_Interval
  <2>4. Cardinality(with \cup {s}) <= Cardinality(1 .. MaxStarts)
    BY <2>1, <2>3, FS_Subset
  <2> QED
    BY <1>5, <1>7, <2>2, <2>3, <2>4
<1>9. n \in Begun /\ n.at = "write" /\ n.room = starts[s].room /\ n.left = starts[s].left /\ n.failed = starts[s].failed
  <2>1. nextMatch + 1 \in 0 .. MaxStarts
    BY <1>5, <1>8, StartAssumption
  <2> QED
    BY Zenon, <1>3, <2>1, NumberedWith
<1> HIDE DEF n, with
<1>10. StartTyped'
  BY <1>1, <1>4, <1>9 DEF StartInv, StartTyped
<1>11. Numbered'
  <2>1. nextMatch' = Cardinality({r \in 1 .. MaxStarts : starts'[r].match # 0})
    BY <1>1, <1>6, <1>7
  <2>2. \A r \in 1 .. MaxStarts : starts[r].match <= nextMatch /\ starts[r].match \in Nat
    BY <1>1 DEF StartInv, Numbered, Begun, NotBegun
  <2>3. \A r \in 1 .. MaxStarts :
          /\ starts'[r].match <= nextMatch'
          /\ starts'[r].at \in {"none", "id"} => starts'[r].match = 0
          /\ starts'[r].at \in {"write", "tell"} => starts'[r].match # 0
    BY <1>1, <1>4, <1>5, <1>9, <2>2 DEF StartInv, Numbered
  <2>4. \A q, r \in 1 .. MaxStarts : starts'[q].match = starts'[r].match /\ starts'[q].match # 0 => q = r
    BY <1>4, <1>5, <2>2 DEF StartInv, Numbered
  <2> QED
    BY <2>1, <2>3, <2>4, Zenon DEF Numbered
<1>12. InTurn' /\ \A r \in 1 .. MaxStarts : LatestStart(r)' <=> LatestStart(r)
  BY <1>1, <1>9, TurnKept
<1>13. SettingsKept'
  <2>1. stored[n.match] = Unwritten /\ played[n.match] = Unplayed
    BY <1>5, <1>8 DEF StartInv, SettingsKept
  <2>2. PlayedFrom(s)'
    BY <1>1, <1>4, <1>9, <2>1 DEF PlayedFrom
  <2>3. ASSUME NEW r \in 1 .. MaxStarts, r # s PROVE PlayedFrom(r)'
    <3>1. PlayedFrom(r) /\ starts'[r] = starts[r]
      BY <1>4, <2>3 DEF StartInv, SettingsKept
    <3> QED
      BY <1>1, <3>1 DEF PlayedFrom
  <2>4. \A i \in 1 .. MaxStarts : i > nextMatch' => stored'[i] = Unwritten /\ played'[i] = Unplayed
    BY <1>1, <1>5 DEF StartInv, SettingsKept
  <2>5. \A i \in 1 .. MaxStarts : played'[i] # Unplayed => \E r \in 1 .. MaxStarts : starts'[r].match = i
    <3> SUFFICES ASSUME NEW i \in 1 .. MaxStarts, played[i] # Unplayed PROVE \E r \in 1 .. MaxStarts : starts'[r].match = i
      BY <1>1
    <3>1. PICK r \in 1 .. MaxStarts : starts[r].match = i
      BY DEF StartInv, SettingsKept
    <3> QED
      BY <1>3, <1>4, <3>1
  <2> QED
    BY <2>2, <2>3, <2>4, <2>5 DEF SettingsKept
<1>14. Handed'
  <2>1. \A m \in Seated : \A j \in DOMAIN suss[m], r \in 1 .. MaxStarts :
            HandedBy(m, suss[m][j], r) => HandedBy(m, suss[m][j], r)'
    BY <1>1, <1>4 DEF HandedBy
  <2> QED
    BY <1>1, <2>1 DEF StartInv, Handed
<1>15. ASSUME NEW r \in 1 .. MaxStarts PROVE LeftOf(r)' /\ LatestTold(r)'
  <2>1. LeftOf(r) /\ LatestTold(r)
    BY DEF StartInv
  <2>2. CASE r = s
    <3>1. n.left = n.room.members
      BY <1>1, <1>9, <2>1, <2>2 DEF LeftOf
    <3> QED
      BY <1>4, <1>9, <2>2, <3>1 DEF LeftOf, LatestTold
  <2>3. CASE r # s
    BY <1>1, <1>4, <1>12, <2>1, <2>3 DEF LeftOf, LatestTold, LastIs
  <2> QED
    BY <2>2, <2>3
<1> QED
  BY <1>10, <1>11, <1>12, <1>13, <1>14, <1>15 DEF StartInv

\* What a START becomes when it moves on.
LEMMA MovedWith ==
    ASSUME NEW b \in Begun, NEW a \in {"tell", "done"}
    PROVE  LET n == [b EXCEPT !.at = a]
               f == [b EXCEPT !.at = a, !.failed = TRUE]
               g == [b EXCEPT !.at = a, !.failed = TRUE, !.left = <<>>]
           IN  /\ n \in Begun /\ n.at = a /\ n.match = b.match /\ n.room = b.room /\ n.left = b.left /\ n.failed = b.failed
               /\ f \in Begun /\ f.at = a /\ f.match = b.match /\ f.room = b.room /\ f.left = b.left /\ f.failed
               /\ g \in Begun /\ g.at = a /\ g.match = b.match /\ g.room = b.room /\ g.left = <<>> /\ g.failed
<1>1. <<>> \in Rosters
  BY EmptySeq DEF Rosters
<1> QED
  BY <1>1 DEF Begun

\* And when it has told one more.
LEMMA LeftWith ==
    ASSUME NEW b \in Begun, NEW q \in Rosters
    PROVE  LET n == [b EXCEPT !.left = q]
               f == [b EXCEPT !.left = q, !.failed = TRUE]
           IN  /\ n \in Begun /\ n.at = b.at /\ n.match = b.match /\ n.room = b.room /\ n.left = q /\ n.failed = b.failed
               /\ f \in Begun /\ f.at = b.at /\ f.match = b.match /\ f.room = b.room /\ f.left = q /\ f.failed
  BY DEF Begun

\* A START is under way as one that has begun.
LEMMA UnderWayIs ==
    ASSUME StartInv, NEW s \in 1 .. MaxStarts, starts[s].at # "none"
    PROVE  starts[s] \in Begun
<1>1. starts[s] \in Begun \cup {NotBegun}
  BY DEF StartInv, StartTyped
<1> QED
  BY <1>1 DEF NotBegun

\* The steps that tell nobody and write nothing.
LEMMA QuietStep ==
    ASSUME StartInv, NEW s \in 1 .. MaxStarts, NextMatchIdFails(s) \/ WriteFails(s) \/ TellSkips(s) \/ StartDone(s)
    PROVE  StartInv'
<1>1. CASE NextMatchIdFails(s)
  <2> DEFINE n == [starts[s] EXCEPT !.at = "done", !.failed = TRUE, !.left = <<>>]
  <2>1. /\ starts[s].at = "id" /\ starts' = [starts EXCEPT ![s] = n]
        /\ UNCHANGED <<lobby, stored, suss, played, unread, nextMatch, crossed, changes>>
    BY <1>1 DEF NextMatchIdFails, Move
  <2>2. n \in Begun /\ n.at = "done" /\ n.match = starts[s].match /\ n.room = starts[s].room /\ n.left = <<>> /\ n.failed
    BY Zenon, <2>1, UnderWayIs, MovedWith
  <2>3. ToSet(<<>>) = {}
    BY DEF ToSet
  <2> HIDE DEF n
  <2> QED
    BY <2>1, <2>2, <2>3, StartGoesOn
<1>2. CASE WriteFails(s)
  <2> DEFINE n == [starts[s] EXCEPT !.at = "tell", !.failed = TRUE]
  <2>1. /\ starts[s].at = "write" /\ starts' = [starts EXCEPT ![s] = n]
        /\ UNCHANGED <<lobby, stored, suss, played, unread, nextMatch, crossed, changes>>
    BY <1>2 DEF WriteFails, Move
  <2>2. n \in Begun /\ n.at = "tell" /\ n.match = starts[s].match /\ n.room = starts[s].room /\ n.left = starts[s].left /\ n.failed
    BY Zenon, <2>1, UnderWayIs, MovedWith
  <2> HIDE DEF n
  <2> QED
    BY <2>1, <2>2, StartGoesOn
<1>3. CASE TellSkips(s)
  <2> DEFINE n == [starts[s] EXCEPT !.left = Tail(starts[s].left), !.failed = TRUE]
  <2>0. /\ starts[s].at = "tell" /\ starts[s].left # <<>>
        /\ starts' = [starts EXCEPT ![s].left = Tail(@), ![s].failed = TRUE]
        /\ UNCHANGED <<lobby, stored, suss, played, unread, nextMatch, crossed, changes>>
    BY <1>3 DEF TellSkips
  <2>1. starts' = [starts EXCEPT ![s] = n]
    BY <2>0 DEF StartInv, StartTyped
  <2>2. starts[s] \in Begun /\ starts[s].left \in Rosters
    BY <2>0, UnderWayIs DEF Begun
  <2>3. Tail(starts[s].left) \in Rosters /\ ToSet(Tail(starts[s].left)) \subseteq ToSet(starts[s].left)
    BY <2>0, <2>2, RosterTail
  <2>4. n \in Begun /\ n.at = "tell" /\ n.match = starts[s].match /\ n.room = starts[s].room
        /\ n.left = Tail(starts[s].left) /\ n.failed
    BY Zenon, <2>0, <2>2, <2>3, LeftWith
  <2> HIDE DEF n
  <2> QED
    BY <2>0, <2>1, <2>3, <2>4, StartGoesOn
<1>4. CASE StartDone(s)
  <2> DEFINE n == [starts[s] EXCEPT !.at = "done"]
  <2>1. /\ starts[s].at = "tell" /\ starts[s].left = <<>> /\ starts' = [starts EXCEPT ![s] = n]
        /\ UNCHANGED <<lobby, stored, suss, played, unread, nextMatch, crossed, changes>>
    BY <1>4 DEF StartDone, Move
  <2>2. n \in Begun /\ n.at = "done" /\ n.match = starts[s].match /\ n.room = starts[s].room /\ n.left = starts[s].left
        /\ n.failed = starts[s].failed /\ starts[s] \in Begun
    BY Zenon, <2>1, UnderWayIs, MovedWith
  <2>3. n.failed \in BOOLEAN
    BY <2>2 DEF Begun
  <2> HIDE DEF n
  <2> QED
    BY <2>1, <2>2, <2>3, StartGoesOn
<1> QED
  BY <1>1, <1>2, <1>3, <1>4

\* The settings of the room as it was started.
LEMMA WriteStep == ASSUME StartInv, NEW s \in 1 .. MaxStarts, WriteSettings(s) PROVE StartInv'
<1> DEFINE n == [starts[s] EXCEPT !.at = "tell"]  i == starts[s].match
<1>1. /\ starts \in [1 .. MaxStarts -> Begun \cup {NotBegun}] /\ starts[s].at = "write"
      /\ starts' = [starts EXCEPT ![s] = n] /\ stored' = [stored EXCEPT ![i] = starts[s].room.edition]
      /\ UNCHANGED <<lobby, suss, played, unread, nextMatch, crossed, changes>>
  BY DEF WriteSettings, Move, StartInv, StartTyped
<1>2. n \in Begun /\ n.at = "tell" /\ n.match = i /\ n.room = starts[s].room /\ n.left = starts[s].left
      /\ n.failed = starts[s].failed /\ starts[s] \in Begun
  BY Zenon, <1>1, UnderWayIs, MovedWith
<1>3. i # 0 /\ i \in 1 .. MaxStarts /\ i <= nextMatch /\ starts[s].room.edition \in 0 .. MaxChanges
  BY <1>1, <1>2, StartAssumption DEF StartInv, Numbered, Begun, LobbyRooms
<1>4. \A r \in 1 .. MaxStarts : starts'[r] = IF r = s THEN n ELSE starts[r]
  BY <1>1
<1>5. \A r \in 1 .. MaxStarts : r # s => starts[r].match # i
  BY <1>3 DEF StartInv, Numbered
<1> HIDE DEF n, i
<1>6. \A k \in 1 .. MaxStarts : stored'[k] = IF k = i THEN starts[s].room.edition ELSE stored[k]
  BY <1>1 DEF StartInv, StartTyped
<1>7. StartTyped'
  <2>1. stored' \in [1 .. MaxStarts -> Unwritten .. MaxChanges]
    BY <1>1, <1>3, StartAssumption DEF StartInv, StartTyped, Unwritten
  <2> QED
    BY <1>1, <1>2, <1>4, <2>1 DEF StartInv, StartTyped
<1>8. Numbered'
  BY <1>1, <1>2, <1>3, NumbersKept DEF i
<1>9. InTurn' /\ \A r \in 1 .. MaxStarts : LatestStart(r)' <=> LatestStart(r)
  BY <1>1, <1>2, TurnKept
<1>10. SettingsKept'
  <2>0. starts[s].match = i
    BY DEF i
  <2>1. PlayedFrom(s) /\ played[i] = Unplayed
    BY <1>1, <1>3, <2>0 DEF StartInv, SettingsKept, PlayedFrom
  <2>2. PlayedFrom(s)'
    BY <1>1, <1>2, <1>3, <1>4, <1>6, <2>1 DEF PlayedFrom
  <2>3. ASSUME NEW r \in 1 .. MaxStarts, r # s PROVE PlayedFrom(r)'
    <3>1. PlayedFrom(r) /\ starts'[r] = starts[r] /\ starts[r].match # i /\ starts[r].match \in 0 .. MaxStarts
      BY <1>1, <1>4, <1>5, <2>3, StartAssumption DEF StartInv, SettingsKept, Begun, NotBegun
    <3>2. starts[r].match # 0 => stored'[starts[r].match] = stored[starts[r].match]
      BY <1>6, <3>1, StartAssumption
    <3> QED
      BY <1>1, <3>1, <3>2 DEF PlayedFrom
  <2>4. \A k \in 1 .. MaxStarts : k > nextMatch => k # i
    BY <1>3, IdsCounted
  <2>5. \A k \in 1 .. MaxStarts : k > nextMatch' => stored'[k] = Unwritten /\ played'[k] = Unplayed
    BY <1>1, <1>6, <2>4 DEF StartInv, SettingsKept
  <2>6. \A r \in 1 .. MaxStarts : starts'[r].match = starts[r].match
    BY <1>2, <1>4, <2>0
  <2>7. \A k \in 1 .. MaxStarts : played'[k] # Unplayed => \E r \in 1 .. MaxStarts : starts'[r].match = k
    BY <1>1, <2>6 DEF StartInv, SettingsKept
  <2> QED
    BY <2>2, <2>3, <2>5, <2>7 DEF SettingsKept
<1>11. Handed'
  <2>1. \A m \in Seated : \A j \in DOMAIN suss[m], r \in 1 .. MaxStarts :
            HandedBy(m, suss[m][j], r) => HandedBy(m, suss[m][j], r)'
    BY <1>1, <1>4 DEF HandedBy
  <2> QED
    BY <1>1, <2>1 DEF StartInv, Handed
<1>12. ASSUME NEW r \in 1 .. MaxStarts PROVE LeftOf(r)' /\ LatestTold(r)'
  <2>1. LeftOf(r) /\ LatestTold(r)
    BY DEF StartInv
  <2>2. CASE r = s
    <3>1. starts'[s] = n /\ starts[s].match = i
      BY <1>4 DEF i
    <3>2. LeftOf(s)'
      BY <1>2, <3>1 DEF LeftOf
    <3>3. LatestTold(s)'
      BY <1>1, <1>2, <1>9, <2>1, <2>2, <3>1 DEF LatestTold, LastIs
    <3> QED
      BY <2>2, <3>2, <3>3
  <2>3. CASE r # s
    BY <1>1, <1>4, <1>9, <2>1, <2>3 DEF LeftOf, LatestTold, LastIs
  <2> QED
    BY <2>2, <2>3
<1> QED
  BY <1>7, <1>8, <1>9, <1>10, <1>11, <1>12 DEF StartInv

\* The next member is handed the match.
LEMMA TellStep == ASSUME StartInv, NEW s \in 1 .. MaxStarts, Tell(s) PROVE StartInv'
<1> DEFINE q == starts[s].left
           n == [starts[s] EXCEPT !.left = Tail(q)]
<1>a. /\ starts \in [1 .. MaxStarts -> Begun \cup {NotBegun}] /\ starts[s].at = "tell" /\ q # <<>>
      /\ starts' = [starts EXCEPT ![s] = n] /\ suss' = [suss EXCEPT ![Head(q)] = Append(@, Told(s, Head(q)))]
      /\ suss \in [Seated -> Seq(Handoffs)]
      /\ UNCHANGED <<lobby, stored, played, unread, nextMatch, crossed, changes>>
  BY DEF Tell, StartInv, StartTyped
<1>2. starts[s] \in Begun /\ q \in Rosters /\ starts[s].match # 0
  BY <1>a, UnderWayIs DEF Begun, StartInv, Numbered
<1>b. Head(q) \in Seated /\ Tail(q) \in Rosters /\ ToSet(Tail(q)) = ToSet(q) \ {Head(q)} /\ Head(q) \in ToSet(q)
  BY <1>a, <1>2, RosterTail
<1>c. PICK m \in Seated : m = Head(q)
  BY <1>b
<1>3. Tail(q) \in Rosters /\ ToSet(Tail(q)) = ToSet(q) \ {m} /\ m \in ToSet(q)
  BY <1>b, <1>c
<1>d. Told(s, m) \in Handoffs /\ Told(s, m).match = starts[s].match /\ Told(s, m).team = starts[s].room.team[m]
  BY <1>2, StartAssumption DEF Told, Handoffs, Begun, LobbyRooms
<1>e. PICK h \in Handoffs : h = Told(s, m)
  BY <1>d
<1>5. h.match = starts[s].match /\ h.team = starts[s].room.team[m]
  BY <1>d, <1>e
<1>6. starts[s].left = q
  OBVIOUS
<1>4. n \in Begun /\ n.at = "tell" /\ n.match = starts[s].match /\ n.room = starts[s].room /\ n.left = Tail(q)
      /\ n.failed = starts[s].failed
  <2> HIDE DEF q
  <2>1. n \in Begun /\ n.at = starts[s].at /\ n.match = starts[s].match /\ n.room = starts[s].room /\ n.left = Tail(q)
        /\ n.failed = starts[s].failed
    BY Zenon, <1>2, <1>3, LeftWith
  <2> QED
    BY <1>a, <2>1
<1>1. /\ starts \in [1 .. MaxStarts -> Begun \cup {NotBegun}] /\ starts[s].at = "tell" /\ q # <<>>
      /\ starts' = [starts EXCEPT ![s] = n] /\ suss' = [suss EXCEPT ![m] = Append(@, h)]
      /\ suss \in [Seated -> Seq(Handoffs)]
      /\ UNCHANGED <<lobby, stored, played, unread, nextMatch, crossed, changes>>
  BY <1>a, <1>c, <1>e
<1> HIDE DEF q, n
<1>7. \A r \in 1 .. MaxStarts : starts'[r] = IF r = s THEN n ELSE starts[r]
  BY <1>1
<1>8. /\ suss' \in [Seated -> Seq(Handoffs)]
      /\ \A x \in Seated : x # m => suss'[x] = suss[x]
      /\ suss'[m] = Append(suss[m], h)
  <2>1. Append(suss[m], h) \in Seq(Handoffs)
    BY <1>1, AppendedIn
  <2> QED
    BY <1>1, <1>3, <2>1
<1>9. /\ DOMAIN suss[m] = 1 .. Len(suss[m]) /\ Len(suss[m]) \in Nat
      /\ DOMAIN suss'[m] = 1 .. Len(suss[m]) + 1 /\ Len(suss'[m]) = Len(suss[m]) + 1
      /\ suss'[m][Len(suss[m]) + 1] = h /\ \A j \in 1 .. Len(suss[m]) : suss'[m][j] = suss[m][j]
  <2>1. suss[m] \in Seq(Handoffs)
    BY <1>1, <1>3
  <2>2. DOMAIN suss[m] = 1 .. Len(suss[m]) /\ Len(suss[m]) \in Nat
    BY <2>1, LenProperties
  <2>3. Append(suss[m], h) \in Seq(Handoffs) /\ Len(Append(suss[m], h)) = Len(suss[m]) + 1
    BY <1>5, <2>1, AppendedIn, AppendedLen
  <2>4. DOMAIN Append(suss[m], h) = 1 .. Len(suss[m]) + 1
    BY <2>3, LenProperties
  <2>5. Append(suss[m], h)[Len(suss[m]) + 1] = h
    BY <1>5, <2>1, AppendedLast
  <2>6. \A j \in 1 .. Len(suss[m]) : Append(suss[m], h)[j] = suss[m][j]
    BY <1>5, <2>1, AppendedFirst
  <2> QED
    BY <1>8, <2>2, <2>3, <2>4, <2>5, <2>6
<1>10. StartTyped'
  BY <1>1, <1>4, <1>7, <1>8 DEF StartInv, StartTyped
<1>11. Numbered'
  BY <1>1, <1>2, <1>4, NumbersKept
<1>12. InTurn' /\ \A r \in 1 .. MaxStarts : LatestStart(r)' <=> LatestStart(r)
  BY <1>1, <1>4, TurnKept
<1>13. \A r \in 1 .. MaxStarts : starts'[r].match = starts[r].match /\ starts'[r].room = starts[r].room
                               /\ starts'[r].at = starts[r].at /\ starts'[r].failed = starts[r].failed
  BY <1>1, <1>4, <1>7
<1>14. SettingsKept'
  <2>1. \A r \in 1 .. MaxStarts : PlayedFrom(r) => PlayedFrom(r)'
    BY <1>1, <1>13 DEF PlayedFrom
  <2> QED
    BY <1>1, <1>13, <2>1 DEF StartInv, SettingsKept
<1>15. \A x \in Seated, t \in Handoffs, r \in 1 .. MaxStarts : HandedBy(x, t, r) => HandedBy(x, t, r)'
  BY <1>3, <1>4, <1>6, <1>7, <1>13 DEF HandedBy
<1>16. Handed'
  <2>1. \A x \in Seated : \A j \in DOMAIN suss[x] : suss[x][j] \in Handoffs /\ \E r \in 1 .. MaxStarts : HandedBy(x, suss[x][j], r)
    BY <1>1, LenProperties, ElementOfSeq DEF StartInv, Handed
  <2>2. \A j \in 1 .. Len(suss[m]) : suss[m][j].match # h.match
    <3> SUFFICES ASSUME NEW j \in 1 .. Len(suss[m]), suss[m][j].match = h.match PROVE FALSE
      OBVIOUS
    <3>1. PICK r \in 1 .. MaxStarts : HandedBy(m, suss[m][j], r)
      BY <1>3, <1>9, <2>1
    <3>2. starts[r].match = starts[s].match
      BY <1>5, <3>1 DEF HandedBy
    <3>3. r = s
      BY <1>2, <3>2 DEF StartInv, Numbered
    <3> QED
      BY <1>3, <1>6, <3>1, <3>3 DEF HandedBy
  <2>3. HandedBy(m, h, s)'
    BY <1>1, <1>3, <1>4, <1>5, <1>7, <1>13 DEF HandedBy
  <2>4. ASSUME NEW x \in Seated, NEW j \in DOMAIN suss'[x], NEW t, t = suss'[x][j]
        PROVE  \E r \in 1 .. MaxStarts : HandedBy(x, t, r)'
    <3>1. CASE x = m /\ j = Len(suss[m]) + 1
      BY <1>9, <2>3, <2>4, <3>1
    <3>2. CASE ~ (x = m /\ j = Len(suss[m]) + 1)
      <4>1. j \in DOMAIN suss[x] /\ suss'[x][j] = suss[x][j]
        BY <1>8, <1>9, <2>4, <3>2
      <4> QED
        BY <1>15, <2>1, <2>4, <4>1
    <3> QED
      BY <3>1, <3>2
  <2>5. ASSUME NEW x \in Seated, NEW j \in DOMAIN suss'[x], NEW k \in DOMAIN suss'[x], suss'[x][j].match = suss'[x][k].match
        PROVE  j = k
    <3>1. \A y, z \in DOMAIN suss[x] : suss[x][y].match = suss[x][z].match => y = z
      BY DEF StartInv, Handed
    <3>2. CASE x # m
      BY <1>8, <2>5, <3>1, <3>2
    <3>3. CASE x = m
      <4>1. j \in 1 .. Len(suss[m]) + 1 /\ k \in 1 .. Len(suss[m]) + 1
        BY <1>9, <3>3
      <4> QED
        <5>1. CASE j \in 1 .. Len(suss[m]) /\ k \in 1 .. Len(suss[m])
          BY <1>9, <2>5, <3>1, <3>3, <5>1
        <5>2. CASE j \in 1 .. Len(suss[m]) /\ k = Len(suss[m]) + 1
          BY <1>9, <2>2, <2>5, <3>3, <5>2
        <5>3. CASE j = Len(suss[m]) + 1 /\ k \in 1 .. Len(suss[m])
          BY <1>9, <2>2, <2>5, <3>3, <5>3
        <5> QED
          BY <1>9, <4>1, <5>1, <5>2, <5>3
    <3> QED
      BY <3>2, <3>3
  <2> QED
    <3>1. \A x \in Seated : \A j \in DOMAIN suss'[x] : \E r \in 1 .. MaxStarts : HandedBy(x, suss[x][j], r)'
      BY <2>4 DEF HandedBy
    <3>2. \A x \in Seated : \A j, k \in DOMAIN suss'[x] : suss'[x][j].match = suss'[x][k].match => j = k
      BY <2>5
    <3> QED
      BY <3>1, <3>2 DEF Handed
<1>17. ASSUME NEW r \in 1 .. MaxStarts PROVE LeftOf(r)' /\ LatestTold(r)'
  <2>1. LeftOf(r) /\ LatestTold(r)
    BY DEF StartInv
  <2>2. LeftOf(r)'
    <3>1. r # s => starts'[r] = starts[r]
      BY <1>7
    <3> QED
      BY <1>1, <1>13, <2>1, <3>1 DEF LeftOf
  <2>3. LatestTold(r)'
    <3> SUFFICES ASSUME ~ crossed, LatestStart(r), ~ starts[r].failed, NEW x \in ToSet(starts[r].room.members)
                 PROVE  x \in ToSet(starts'[r].left) \/ LastIs(x, starts[r].match)'
      BY <1>1, <1>12, <1>13 DEF LatestTold
    <3>1. x \in ToSet(starts[r].left) \/ LastIs(x, starts[r].match)
      BY <2>1 DEF LatestTold
    <3>2. r = s
      <4>1. \A p \in 1 .. MaxStarts : starts[p].at # "none" => \A t \in 1 .. p - 1 : starts[t].at = "done"
        BY DEF StartInv, InTurn
      <4>2. r < s => s \in r + 1 .. MaxStarts
        BY StartAssumption
      <4>3. s < r => s \in 1 .. r - 1
        BY StartAssumption
      <4>4. ~ (r < s) /\ ~ (s < r)
        BY <1>1, <4>1, <4>2, <4>3 DEF LatestStart
      <4> QED
        BY <4>4
    <3>3. CASE x = m
      <4>1. suss'[m] # <<>> /\ suss'[m][Len(suss'[m])].match = starts[s].match
        BY <1>5, <1>8, <1>9, EmptySeq
      <4> QED
        BY <1>13, <3>2, <3>3, <4>1 DEF LastIs
    <3>4. CASE x # m
      <4>1. x \in ToSet(starts[r].left) => x \in ToSet(starts'[r].left)
        BY <1>3, <1>4, <1>6, <1>7, <3>2, <3>4
      <4>2. x \in Seated
        <5>1. starts[s].room.members \in Seq(Seated)
          BY <1>2 DEF Begun, LobbyRooms, Rosters
        <5> QED
          BY <3>2, <5>1, LenProperties, ElementOfSeq DEF ToSet
      <4>3. LastIs(x, starts[r].match) => LastIs(x, starts[r].match)'
        BY <1>8, <1>13, <3>4, <4>2 DEF LastIs
      <4> QED
        BY <3>1, <4>1, <4>3
    <3> QED
      BY <3>3, <3>4
  <2> QED
    BY <2>2, <2>3
<1> QED
  BY <1>10, <1>11, <1>12, <1>14, <1>16, <1>17 DEF StartInv

\* The first of a match to join has its settings read.
LEMMA JoinStep == ASSUME StartInv, NEW m \in Seated, Join(m) PROVE StartInv'
<1> DEFINE h == suss[m][Len(suss[m])]  i == h.match
<1>1. /\ suss[m] # <<>>
      /\ \/ played' = [played EXCEPT ![i] = stored[i]] /\ unread' = unread \ {i}
         \/ played' = [played EXCEPT ![i] = Unwritten] /\ unread' = unread \cup {i}
      /\ UNCHANGED <<lobby, starts, stored, suss, nextMatch, crossed, changes>>
  BY DEF Join, Last
<1>2. suss[m] \in Seq(Handoffs) /\ Len(suss[m]) \in DOMAIN suss[m]
  <2>1. suss[m] \in Seq(Handoffs)
    BY DEF StartInv, StartTyped
  <2> QED
    BY <1>1, <2>1, LenProperties, EmptySeq
<1>3. h \in Handoffs
  BY <1>2, LenProperties, ElementOfSeq
<1>4. PICK s \in 1 .. MaxStarts : HandedBy(m, h, s)
  BY <1>2 DEF StartInv, Handed
<1> HIDE DEF h
<1>5. i \in 1 .. MaxStarts /\ starts[s].match = i /\ starts[s].at \in {"tell", "done"}
  BY <1>3, <1>4 DEF Handoffs, HandedBy
<1> HIDE DEF i
<1>6. /\ \A k \in 1 .. MaxStarts : k # i => played'[k] = played[k] /\ (k \in unread' <=> k \in unread)
      /\ \/ played'[i] = stored[i]
         \/ played'[i] = Unwritten /\ i \in unread'
  BY <1>1, <1>5 DEF StartInv, StartTyped
<1>7. StartTyped'
  <2>1. played' \in [1 .. MaxStarts -> Unplayed .. MaxChanges] /\ unread' \subseteq 1 .. MaxStarts
    <3>1. stored[i] \in Unwritten .. MaxChanges
      BY <1>5 DEF StartInv, StartTyped
    <3>2. stored[i] \in Unplayed .. MaxChanges /\ Unwritten \in Unplayed .. MaxChanges
      BY <3>1, StartAssumption DEF Unwritten, Unplayed
    <3>3. played \in [1 .. MaxStarts -> Unplayed .. MaxChanges] /\ unread \subseteq 1 .. MaxStarts
      BY DEF StartInv, StartTyped
    <3>4. unread' \subseteq 1 .. MaxStarts
      BY <1>1, <1>5, <3>3
    <3>5. CASE played' = [played EXCEPT ![i] = stored[i]]
      BY <1>5, <3>2, <3>3, <3>4, <3>5
    <3>6. CASE played' = [played EXCEPT ![i] = Unwritten]
      BY <1>5, <3>2, <3>3, <3>4, <3>6
    <3> QED
      BY <1>1, <3>5, <3>6
  <2> QED
    BY <1>1, <2>1 DEF StartInv, StartTyped
<1>8. Numbered' /\ Handed' /\ InTurn'
  BY <1>1 DEF StartInv, Numbered, Handed, HandedBy, InTurn, UnderWay
<1>9. SettingsKept'
  <2>1. i <= nextMatch /\ nextMatch \in Nat /\ i # 0
    BY <1>5, IdsCounted DEF StartInv, Numbered
  <2>2. ASSUME NEW r \in 1 .. MaxStarts PROVE PlayedFrom(r)'
    <3>1. PlayedFrom(r)
      BY DEF StartInv, SettingsKept
    <3>2. CASE starts[r].match = i
      <4>1. r = s
        BY <1>5, <2>1, <3>2 DEF StartInv, Numbered
      <4> QED
        BY <1>1, <1>5, <1>6, <3>1, <3>2, <4>1 DEF PlayedFrom
    <3>3. CASE starts[r].match # i
      <4>1. starts[r].match \in 0 .. MaxStarts
        BY StartAssumption DEF StartInv, StartTyped, Begun, NotBegun
      <4>2. starts[r].match # 0 => /\ played'[starts[r].match] = played[starts[r].match]
                                   /\ starts[r].match \in unread' <=> starts[r].match \in unread
        BY <1>6, <3>3, <4>1, StartAssumption
      <4> QED
        BY <1>1, <3>1, <4>2 DEF PlayedFrom
    <3> QED
      BY <3>2, <3>3
  <2>3. \A k \in 1 .. MaxStarts : k > nextMatch => k # i
    BY <2>1
  <2>4. \A k \in 1 .. MaxStarts : k > nextMatch' => stored'[k] = Unwritten /\ played'[k] = Unplayed
    BY <1>1, <1>6, <2>3 DEF StartInv, SettingsKept
  <2>5. \A k \in 1 .. MaxStarts : played'[k] # Unplayed => \E r \in 1 .. MaxStarts : starts'[r].match = k
    BY <1>1, <1>5, <1>6 DEF StartInv, SettingsKept
  <2> QED
    BY <2>2, <2>4, <2>5 DEF SettingsKept
<1>10. \A r \in 1 .. MaxStarts : LeftOf(r)' /\ LatestTold(r)'
  BY <1>1 DEF StartInv, LeftOf, LatestTold, LatestStart, LastIs
<1> QED
  BY <1>7, <1>8, <1>9, <1>10 DEF StartInv

\* Every step of START keeps its invariant.
LEMMA StartStep == ASSUME StartInv, [StartNext]_startVars PROVE StartInv'
<1>1. CASE UNCHANGED startVars
  <2>1. UNCHANGED <<lobby, starts, stored, suss, played, unread, nextMatch, crossed, changes>>
    BY <1>1 DEF startVars
  <2>2. /\ lobby \in LobbyRooms /\ lobby.edition <= changes /\ changes \in 0 .. MaxChanges /\ crossed \in BOOLEAN
        /\ lobby.state = "waiting" => lobby.state # "ingame"
    BY DEF StartInv, StartTyped
  <2> QED
    BY <2>1, <2>2, LobbyChanged
<1>2. ASSUME NEW m \in Seated, SwitchTeam(m) \/ GoAway(m) PROVE StartInv'
  BY <1>2, ChangeStep
<1>3. CASE ChangeSettings \/ Reenter
  BY <1>3, ChangeStep
<1>4. ASSUME NEW s \in 1 .. MaxStarts, NextMatchIdFails(s) \/ WriteFails(s) \/ TellSkips(s) \/ StartDone(s)
      PROVE  StartInv'
  BY <1>4, QuietStep
<1> QED
  BY <1>1, <1>2, <1>3, <1>4, JoinStep, StartMatchStep, NextIdStep, WriteStep, TellStep DEF StartNext

\* However the members change settings, teams and places around them, however many STARTs there
\* are and whatever fails: a match is played by the settings its first member's was started
\* with, or the default ones where they were not written or read, the members a
\* START tells are in one match on the teams they had then, each is told of it once, and they
\* end up in the match of the last START.
THEOREM StartHolds ==
    StartInit /\ [][StartNext]_startVars => [](StartTypeOK /\ PlayedAsStarted /\ ToldOneMatch /\ TogetherInLast)
<1>1. StartInv /\ [StartNext]_startVars => StartInv'
  BY StartStep
<1>2. StartInv => StartTypeOK /\ PlayedAsStarted /\ ToldOneMatch /\ TogetherInLast
  BY StartIs
<1> QED
  BY <1>1, <1>2, StartStarts, PTL
=============================================================================
