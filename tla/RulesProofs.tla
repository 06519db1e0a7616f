---------------------------- MODULE RulesProofs ----------------------------
(***************************************************************************)
(* What the players of a match hold (MatchItems), earn (MatchCoins) and    *)
(* heal (MatchVitals), for any players, prices, rounds and numbers of      *)
(* handlers run; and the three beside each other (MCRules).                *)
(***************************************************************************)
EXTENDS MCRules, FiniteSetTheorems, SequenceTheorems, WellFoundedInduction, TLAPS

-----------------------------------------------------------------------------
(* Induction, sets of pairs and sums.                                      *)

\* A non-empty set of naturals has a least element.
LEMMA LeastNat ==
    ASSUME NEW S, S \subseteq Nat, S # {}
    PROVE  \E x \in S : \A y \in S : x <= y
<1> DEFINE R == OpToRel(<, Nat)
<1>1. IsWellFoundedOn(R, Nat)
  BY NatLessThanWellFounded
<1>2. PICK x \in S : \A y \in S : <<y, x>> \notin R
  <2> HIDE DEF R
  <2> QED BY <1>1, WFMin
<1>3. \A y \in S : ~(y < x)
  BY <1>2 DEF OpToRel
<1> HIDE DEF R
<1>4. \A y \in S : x <= y
  BY <1>3
<1>5. QED
  BY <1>4

\* Induction over the natural numbers: a set of them that has 0 and with each number the next.
LEMMA AllNat ==
    ASSUME NEW P \in SUBSET Nat, 0 \in P, \A n \in P : n + 1 \in P
    PROVE  \A n \in Nat : n \in P
<1> SUFFICES ASSUME Nat \ P # {} PROVE FALSE
  OBVIOUS
<1>1. PICK x \in Nat \ P : \A y \in Nat \ P : x <= y
  BY LeastNat
<1>2. x # 0 /\ x - 1 \in Nat
  BY <1>1
<1>3. x - 1 \in P
  BY <1>1, <1>2
<1>4. (x - 1) + 1 \in P
  BY <1>3
<1> QED
  BY <1>1, <1>4

-----------------------------------------------------------------------------
(* Coins: what a balance is, is told by the story of the match.  CoinsInv  *)
(* says it of every rival at every moment; the sums over purchases and     *)
(* deaths are functions on prefixes, and what they return is proved by     *)
(* induction as the least counterexample.                                  *)

-----------------------------------------------------------------------------
(* Counting along a sequence.                                              *)

\* How many elements of q are in K.
CountIn(q, K) == Cardinality({i \in DOMAIN q : q[i] \in K})

\* A count is a number.
LEMMA CountIs ==
    ASSUME NEW S, NEW q \in Seq(S), NEW K
    PROVE  IsFiniteSet({i \in DOMAIN q : q[i] \in K}) /\ CountIn(q, K) \in Nat
<1>1. DOMAIN q = 1 .. Len(q) /\ Len(q) \in Int
  BY LenProperties
<1>2. IsFiniteSet(1 .. Len(q))
  BY <1>1, FS_Interval
<1>3. {i \in DOMAIN q : q[i] \in K} \in SUBSET (1 .. Len(q))
  BY <1>1
<1>4. IsFiniteSet({i \in DOMAIN q : q[i] \in K})
  BY <1>2, <1>3, FS_Subset
<1> QED
  BY <1>4, FS_CardinalityType DEF CountIn

\* What two sequences have of K one after the other is what each has.
LEMMA CountJoined ==
    ASSUME NEW S, NEW a \in Seq(S), NEW b \in Seq(S), NEW K
    PROVE  CountIn(a \o b, K) = CountIn(a, K) + CountIn(b, K)
<1> DEFINE A == {i \in DOMAIN a : a[i] \in K}
           B == {i \in DOMAIN b : b[i] \in K}
           C == {i \in DOMAIN (a \o b) : (a \o b)[i] \in K}
           m == Len(a)
           n == Len(b)
           D == {i \in C : i > m}
           move == [i \in B |-> m + i]
           c == a \o b
<1>1. m \in Nat /\ n \in Nat /\ DOMAIN a = 1 .. m /\ DOMAIN b = 1 .. n
  BY LenProperties
<1>2. c \in Seq(S) /\ Len(c) = m + n /\ \A i \in 1 .. m + n : c[i] = IF i <= m THEN a[i] ELSE b[i - m]
  BY ConcatProperties
<1>3. DOMAIN c = 1 .. m + n
  BY <1>2, LenProperties
<1>4. IsFiniteSet(A) /\ IsFiniteSet(B) /\ Cardinality(A) \in Nat /\ Cardinality(B) \in Nat
  BY CountIs, FS_CardinalityType
<1> HIDE DEF m, n, c
<1>a. A = {i \in 1 .. m : a[i] \in K} /\ B = {i \in 1 .. n : b[i] \in K} /\ C = {i \in 1 .. m + n : c[i] \in K}
  BY <1>1, <1>3 DEF c
<1>b. D = {i \in C : i > m} /\ move = [i \in B |-> m + i]
  OBVIOUS
<1>d. Cardinality(A) = CountIn(a, K) /\ Cardinality(B) = CountIn(b, K) /\ Cardinality(C) = CountIn(c, K)
  BY DEF CountIn, c
<1> HIDE DEF A, B, C, D, move
<1>5. move \in Bijection(B, D)
  <2>1. move \in [B -> D]
    <3> SUFFICES ASSUME NEW i \in B PROVE m + i \in D
      BY <1>b
    <3>1. i \in 1 .. n /\ b[i] \in K
      BY <1>a
    <3>2. m + i \in 1 .. m + n /\ ~ (m + i <= m) /\ (m + i) - m = i /\ m + i > m
      BY <1>1, <3>1
    <3> QED
      BY <1>2, <1>a, <1>b, <3>1, <3>2
  <2>2. \A x, y \in B : move[x] = move[y] => x = y
    BY <1>1, <1>a, <1>b
  <2>3. \A y \in D : \E x \in B : move[x] = y
    <3> SUFFICES ASSUME NEW y \in D PROVE \E x \in B : move[x] = y
      OBVIOUS
    <3>1. y \in 1 .. m + n /\ c[y] \in K /\ y > m
      BY <1>a, <1>b
    <3>2. y - m \in 1 .. n /\ ~ (y <= m) /\ m + (y - m) = y
      BY <1>1, <3>1
    <3>3. y - m \in B
      BY <1>2, <1>a, <3>1, <3>2
    <3> QED
      BY <1>b, <3>2, <3>3
  <2>4. DOMAIN move = B
    BY <1>b
  <2> QED
    BY <2>1, <2>2, <2>3, <2>4 DEF Bijection, Injection, Surjection, IsInjective
<1>6. IsFiniteSet(D) /\ Cardinality(D) = Cardinality(B)
  BY <1>4, <1>5, FS_Bijection DEF ExistsBijection
<1>7. C = A \cup D /\ A \cap D = {}
  <2>1. \A i \in 1 .. m : i \in 1 .. m + n /\ i <= m /\ ~ (i > m)
    BY <1>1
  <2>2. \A i \in 1 .. m + n : i <= m => i \in 1 .. m
    BY <1>1
  <2>3. \A i \in 1 .. m + n : i <= m \/ i > m
    BY <1>1
  <2> QED
    BY <1>2, <1>a, <1>b, <2>1, <2>2, <2>3
<1>8. Cardinality(A \cup D) = Cardinality(A) + Cardinality(D) - Cardinality(A \cap D) /\ Cardinality({}) = 0
  BY <1>4, <1>6, FS_Union, FS_EmptySet
<1>9. Cardinality(C) = Cardinality(A) + Cardinality(B)
  <2>1. Cardinality(C) = Cardinality(A) + Cardinality(D) - Cardinality({})
    BY <1>7, <1>8, Zenon
  <2> QED
    BY <1>4, <1>6, <1>8, <2>1
<1> QED
  BY <1>9, <1>d DEF c

\* Of one more element.
LEMMA CountOne ==
    ASSUME NEW S, NEW e \in S, NEW K
    PROVE  CountIn(<<e>>, K) = IF e \in K THEN 1 ELSE 0
<1>1. DOMAIN <<e>> = {1} /\ <<e>>[1] = e
  OBVIOUS
<1>2. {i \in DOMAIN <<e>> : <<e>>[i] \in K} = IF e \in K THEN {1} ELSE {}
  BY <1>1
<1>3. Cardinality({1}) = 1 /\ Cardinality({}) = 0
  BY FS_Singleton, FS_EmptySet
<1> QED
  BY <1>2, <1>3 DEF CountIn

-----------------------------------------------------------------------------
(* The coins of a match, for any rivals, prices and rounds.                *)

DeathRecords == [victim : Rivals, killer : Rivals \cup {0}]
Sales == [by : Rivals, price : Nat]
Cuts == [is : {"alive", "knocked", "dead"}, by : Rivals \cup {0}]

\* The deaths that are paid: across the teams.
PaidIn(ds) == {i \in DOMAIN ds : ds[i].killer # 0 /\ TeamIn(ds[i].killer) # TeamIn(ds[i].victim)}

\* Who drew first blood is the killer of the first of them.
FirstIs(p, ds) ==
    \/ p = 0 /\ PaidIn(ds) = {}
    \/ \E i \in PaidIn(ds) : p = ds[i].killer /\ \A j \in PaidIn(ds) : i <= j

CoinsTyped ==
    /\ coins \in [Rivals -> Nat] /\ award \in [Rivals -> Nat] /\ roundKills \in [Rivals -> Nat]
    /\ firstBlood \in Rivals \cup {0}
    /\ lossStreak \in [1 .. 2 -> Nat] /\ score \in [1 .. 2 -> Nat]
    /\ cut \in [Rivals -> Cuts]
    /\ round \in 1 .. MaxRound /\ stage \in {"fight", "banner", "ended"}
    /\ buys \in Seq(Sales) /\ deaths \in Seq(DeathRecords) /\ story \in Seq(1 .. 2)
    /\ owed \in [Rivals -> Nat]

\* The kills, the streaks and the first blood are those of the deaths and rounds so far, and the
\* round is the one after those that were paid, until its fight is over.
CoinsInv ==
    /\ CoinsTyped
    /\ \A p \in Rivals : roundKills[p] = KillsOf(deaths, p)
    /\ FirstIs(firstBlood, deaths)
    /\ \A t \in 1 .. 2 : lossStreak[t] = LostInARow(story, t)
    /\ round = Len(story) + (IF stage = "fight" THEN 1 ELSE 0)
    /\ stage = "banner" => round < MaxRound
    /\ BalanceFollowsStory

\* Who is up again or dead is somebody's state.
LEMMA DeadIsCut == Dead \in Cuts /\ Alive \in Cuts
  BY DEF Dead, Alive, Cuts

\* Kills are counted along the deaths.
LEMMA KillsJoined ==
    ASSUME NEW a \in Seq(DeathRecords), NEW b \in Seq(DeathRecords), NEW p \in Rivals
    PROVE  /\ KillsOf(a, p) \in Nat /\ KillsOf(a \o b, p) = KillsOf(a, p) + KillsOf(b, p)
           /\ KillsOf(b, p) = Cardinality({i \in PaidIn(b) : b[i].killer = p})
<1> DEFINE K == {d \in DeathRecords : d.killer = p /\ TeamIn(d.victim) # TeamIn(p)}
<1>1. ASSUME NEW ds \in Seq(DeathRecords) PROVE KillsOf(ds, p) = CountIn(ds, K)
  <2>1. \A i \in DOMAIN ds : ds[i] \in DeathRecords
    BY LenProperties, ElementOfSeq
  <2>2. {i \in DOMAIN ds : ds[i].killer = p /\ TeamIn(ds[i].victim) # TeamIn(p)} = {i \in DOMAIN ds : ds[i] \in K}
    BY <2>1
  <2> HIDE DEF K
  <2> QED
    BY <2>2 DEF KillsOf, CountIn
<1>2. p # 0
  BY MatchCoinsAssumption
<1>3. {i \in DOMAIN b : b[i].killer = p /\ TeamIn(b[i].victim) # TeamIn(p)} = {i \in PaidIn(b) : b[i].killer = p}
  BY <1>2 DEF PaidIn
<1>4. a \o b \in Seq(DeathRecords)
  BY ConcatProperties
<1> HIDE DEF K
<1>5. CountIn(a, K) \in Nat /\ CountIn(a \o b, K) = CountIn(a, K) + CountIn(b, K)
  BY CountIs, CountJoined
<1>6. KillsOf(b, p) = Cardinality({i \in PaidIn(b) : b[i].killer = p})
  BY <1>3 DEF KillsOf
<1> QED
  BY <1>1, <1>4, <1>5, <1>6

\* Who drew first blood did when more died, and if nobody had, it is the first of these.
LEMMA FirstJoined ==
    ASSUME NEW a \in Seq(DeathRecords), NEW b \in Seq(DeathRecords), NEW p \in Rivals \cup {0}, FirstIs(p, a)
    PROVE  /\ FirstIs(IF p = 0 /\ PaidIn(b) # {} THEN b[Min(PaidIn(b))].killer ELSE p, a \o b)
           /\ (IF p = 0 /\ PaidIn(b) # {} THEN b[Min(PaidIn(b))].killer ELSE p) \in Rivals \cup {0}
<1> DEFINE c == a \o b
           m == Len(a)
           n == Len(b)
<1>1. m \in Nat /\ n \in Nat /\ DOMAIN a = 1 .. m /\ DOMAIN b = 1 .. n
  BY LenProperties
<1>2. c \in Seq(DeathRecords) /\ Len(c) = m + n /\ \A i \in 1 .. m + n : c[i] = IF i <= m THEN a[i] ELSE b[i - m]
  BY ConcatProperties
<1>3. DOMAIN c = 1 .. m + n
  BY <1>2, LenProperties
<1>4. (\A i \in 1 .. m : a[i] \in DeathRecords) /\ (\A i \in 1 .. n : b[i] \in DeathRecords)
  BY <1>1, ElementOfSeq
<1> HIDE DEF c, m, n
<1>5. PaidIn(a) \subseteq 1 .. m /\ PaidIn(b) \subseteq 1 .. n /\ PaidIn(c) \subseteq 1 .. m + n
  BY <1>1, <1>3 DEF PaidIn
<1>6. \A i \in 1 .. m : i \in PaidIn(c) <=> i \in PaidIn(a)
  <2>1. \A i \in 1 .. m : i \in 1 .. m + n /\ i <= m
    BY <1>1
  <2> QED
    BY <1>1, <1>2, <1>3, <2>1 DEF PaidIn
<1>7. \A i \in 1 .. n : m + i \in PaidIn(c) <=> i \in PaidIn(b)
  <2>1. \A i \in 1 .. n : m + i \in 1 .. m + n /\ ~ (m + i <= m) /\ (m + i) - m = i
    BY <1>1
  <2>2. \A i \in 1 .. n : c[m + i] = b[i]
    BY <1>2, <2>1
  <2> QED
    BY <1>1, <1>3, <2>1, <2>2 DEF PaidIn
<1>8. \A i \in 1 .. m + n : i \in 1 .. m \/ (i - m \in 1 .. n /\ m + (i - m) = i /\ i > m)
  BY <1>1
<1>9. CASE PaidIn(a) # {}
  <2>1. \A x \in PaidIn(a) : a[x].killer # 0
    BY DEF PaidIn
  <2>2. PICK i \in PaidIn(a) : p = a[i].killer /\ \A j \in PaidIn(a) : i <= j
    BY <1>9 DEF FirstIs
  <2>3. p # 0 /\ i \in 1 .. m /\ i \in 1 .. m + n /\ i <= m
    BY <1>1, <1>5, <2>1, <2>2
  <2>4. i \in PaidIn(c) /\ c[i].killer = p
    BY <1>2, <1>6, <2>2, <2>3
  <2>5. \A j \in PaidIn(c) : i <= j
    <3> SUFFICES ASSUME NEW j \in PaidIn(c) PROVE i <= j
      OBVIOUS
    <3>1. CASE j \in 1 .. m
      BY <1>6, <2>2, <3>1
    <3>2. CASE j \in 1 .. m + n /\ j > m
      BY <1>1, <2>3, <3>2
    <3> QED
      BY <1>5, <1>8, <3>1, <3>2
  <2>6. FirstIs(p, c)
    BY <2>4, <2>5 DEF FirstIs
  <2> QED
    BY <2>3, <2>6 DEF c
<1>10. CASE PaidIn(a) = {} /\ PaidIn(b) = {}
  <2>1. p = 0
    BY <1>10 DEF FirstIs
  <2>2. PaidIn(c) = {}
    BY <1>5, <1>6, <1>7, <1>8, <1>10
  <2>3. FirstIs(p, c)
    BY <2>1, <2>2 DEF FirstIs
  <2> QED
    BY <1>10, <2>3 DEF c
<1>11. CASE PaidIn(a) = {} /\ PaidIn(b) # {}
  <2>1. p = 0
    BY <1>11 DEF FirstIs
  <2>2. PaidIn(b) \subseteq Nat
    BY <1>5
  <2>3. \E i \in PaidIn(b) : \A j \in PaidIn(b) : i <= j
    BY <1>11, <2>2, LeastNat
  <2> DEFINE i == Min(PaidIn(b))
  <2>4. i \in PaidIn(b) /\ \A j \in PaidIn(b) : i <= j
    BY <2>3 DEF Min
  <2> HIDE DEF i
  <2>5. i \in 1 .. n /\ m + i \in 1 .. m + n /\ ~ (m + i <= m) /\ (m + i) - m = i
    BY <1>1, <1>5, <2>4
  <2>6. m + i \in PaidIn(c) /\ c[m + i] = b[i]
    BY <1>2, <1>7, <2>4, <2>5
  <2>7. \A j \in PaidIn(c) : m + i <= j
    <3> SUFFICES ASSUME NEW j \in PaidIn(c) PROVE m + i <= j
      OBVIOUS
    <3>1. j - m \in 1 .. n /\ m + (j - m) = j
      BY <1>5, <1>6, <1>8, <1>11
    <3>2. j - m \in PaidIn(b)
      BY <1>7, <3>1
    <3>3. i <= j - m
      BY <2>4, <3>2
    <3> QED
      BY <1>1, <2>5, <3>1, <3>3
  <2>8. FirstIs(b[i].killer, c) /\ b[i].killer \in Rivals \cup {0}
    BY <1>4, <2>5, <2>6, <2>7 DEF FirstIs, DeathRecords
  <2> QED
    BY <1>11, <2>1, <2>8 DEF c, i
<1> QED
  BY <1>9, <1>10, <1>11

\* The killer of the first paid death drew first blood, as the story tells it, and nobody else.
LEMMA FirstDrew ==
    ASSUME NEW ds \in Seq(DeathRecords), NEW q \in Rivals \cup {0}, FirstIs(q, ds), NEW p \in Rivals
    PROVE  p = q <=> DrewFirstBlood(ds, p)
<1>1. p # 0 /\ DOMAIN ds = 1 .. Len(ds) /\ Len(ds) \in Nat
  BY LenProperties, MatchCoinsAssumption
<1>2. PaidIn(ds) \subseteq 1 .. Len(ds) /\ \A i \in 1 .. Len(ds) :
          i \in PaidIn(ds) <=> ~ (ds[i].killer = 0 \/ TeamIn(ds[i].victim) = TeamIn(ds[i].killer))
  BY <1>1 DEF PaidIn
<1>3. ASSUME p = q PROVE DrewFirstBlood(ds, p)
  <2>1. PICK i \in PaidIn(ds) : p = ds[i].killer /\ \A j \in PaidIn(ds) : i <= j
    BY <1>1, <1>3 DEF FirstIs
  <2>2. i \in 1 .. Len(ds) /\ TeamIn(ds[i].victim) # TeamIn(p)
    BY <1>2, <2>1 DEF PaidIn
  <2>3. ASSUME NEW j \in 1 .. (i - 1) PROVE ds[j].killer = 0 \/ TeamIn(ds[j].victim) = TeamIn(ds[j].killer)
    <3>1. j \in 1 .. Len(ds) /\ ~ (i <= j)
      BY <1>1, <2>2
    <3> QED
      BY <1>2, <2>1, <3>1
  <2> QED
    BY <1>1, <2>1, <2>2, <2>3 DEF DrewFirstBlood
<1>4. ASSUME DrewFirstBlood(ds, p) PROVE p = q
  <2>1. PICK i \in 1 .. Len(ds) :
            /\ ds[i].killer = p /\ TeamIn(ds[i].victim) # TeamIn(p)
            /\ \A j \in 1 .. (i - 1) : ds[j].killer = 0 \/ TeamIn(ds[j].victim) = TeamIn(ds[j].killer)
    BY <1>1, <1>4 DEF DrewFirstBlood
  <2>2. i \in PaidIn(ds)
    BY <1>1, <2>1 DEF PaidIn
  <2>3. PICK k \in PaidIn(ds) : q = ds[k].killer /\ \A j \in PaidIn(ds) : k <= j
    BY <2>2 DEF FirstIs
  <2>4. k \in 1 .. Len(ds) /\ k <= i
    BY <1>2, <2>2, <2>3
  <2>5. ~ (k \in 1 .. (i - 1))
    BY <1>2, <2>1, <2>3, <2>4
  <2>6. k = i
    BY <1>1, <2>4, <2>5
  <2> QED
    BY <2>1, <2>3, <2>6
<1> QED
  BY <1>3, <1>4

\* A round more that is lost makes the streak longer, one that is won ends it.
LEMMA StreakGoesOn ==
    ASSUME NEW wins \in Seq(1 .. 2), NEW w \in 1 .. 2, NEW t \in 1 .. 2
    PROVE  /\ LostInARow(wins, t) \in Nat
           /\ LostInARow(Append(wins, w), t) = IF w = t THEN 0 ELSE LostInARow(wins, t) + 1
<1> DEFINE n == Len(wins)
           c == Append(wins, w)
           A == {i \in 1 .. n : \A j \in i .. n : wins[j] # t}
           B == {i \in 1 .. n + 1 : \A j \in i .. n + 1 : c[j] # t}
<1>1. n \in Nat /\ DOMAIN wins = 1 .. n
  BY LenProperties
<1>2. c \in Seq(1 .. 2) /\ Len(c) = n + 1 /\ c[n + 1] = w /\ \A i \in 1 .. n : c[i] = wins[i]
  BY AppendProperties
<1>3. DOMAIN c = 1 .. n + 1
  BY <1>2, LenProperties
<1>4. LostInARow(wins, t) = Cardinality(A) /\ LostInARow(c, t) = Cardinality(B)
  BY <1>1, <1>2, <1>3 DEF LostInARow
<1>5. IsFiniteSet(A) /\ Cardinality(A) \in Nat
  <2>1. A \in SUBSET (1 .. n) /\ IsFiniteSet(1 .. n)
    BY <1>1, FS_Interval
  <2> HIDE DEF A
  <2>2. IsFiniteSet(A)
    BY <2>1, FS_Subset
  <2> QED
    BY <2>2, FS_CardinalityType
<1> HIDE DEF n, c
<1>6. CASE w = t
  <2>1. B = {}
    <3> SUFFICES ASSUME NEW i \in B PROVE FALSE
      OBVIOUS
    <3>1. n + 1 \in i .. n + 1
      BY <1>1
    <3> QED
      BY <1>2, <1>6, <3>1
  <2> HIDE DEF A, B
  <2> QED
    BY <1>4, <1>5, <1>6, <2>1, FS_EmptySet DEF c
<1>7. CASE w # t
  <2>1. B = A \cup {n + 1}
    <3>1. ASSUME NEW i \in B, i # n + 1 PROVE i \in A
      <4>1. i \in 1 .. n /\ \A j \in i .. n : j \in i .. n + 1 /\ j \in 1 .. n
        BY <1>1, <3>1
      <4> QED
        BY <1>2, <4>1
    <3>2. ASSUME NEW i \in A PROVE i \in B
      <4>1. i \in 1 .. n + 1 /\ \A j \in i .. n + 1 : j = n + 1 \/ (j \in i .. n /\ j \in 1 .. n)
        BY <1>1
      <4> QED
        BY <1>2, <1>7, <4>1
    <3>3. n + 1 \in B
      <4>1. n + 1 \in 1 .. n + 1 /\ \A j \in n + 1 .. n + 1 : j = n + 1
        BY <1>1
      <4> QED
        BY <1>2, <1>7, <4>1
    <3> HIDE DEF A, B
    <3> QED
      BY <3>1, <3>2, <3>3
  <2>2. n + 1 \notin A
    BY <1>1
  <2> HIDE DEF A, B
  <2>3. Cardinality(A \cup {n + 1}) = Cardinality(A) + 1
    BY <1>5, <2>2, FS_AddElement
  <2> QED
    BY <1>4, <1>5, <1>7, <2>1, <2>3 DEF c
<1> QED
  BY <1>6, <1>7

\* What p has paid for among these sales.
SpentIn(b, p) ==
    LET sum[n \in 0 .. Len(b)] ==
            IF n = 0 THEN 0 ELSE sum[n - 1] + (IF b[n].by = p THEN b[n].price ELSE 0)
    IN  sum[Len(b)]

\* What one sale costs p.
CostTo(d, p) == IF d.by = p THEN d.price ELSE 0

SumsOf(f, b, p) ==
    f \in [0 .. Len(b) -> Nat] /\ f[0] = 0 /\ \A i \in 1 .. Len(b) : f[i] = f[i - 1] + CostTo(b[i], p)

\* The recursive sum is the one function with these values.
LEMMA SpentIs ==
    ASSUME NEW b \in Seq(Sales), NEW p
    PROVE  \E f : SumsOf(f, b, p) /\ SpentIn(b, p) = f[Len(b)]
<1> DEFINE v(i) == CostTo(b[i], p)
           Sum(g, n) == g \in [0 .. n -> Nat] /\ g[0] = 0 /\ \A i \in 1 .. n : g[i] = g[i - 1] + v(i)
           P == {n \in Nat : n <= Len(b) => \E g : Sum(g, n)}
           Is(f) == f = [n \in 0 .. Len(b) |->
                           IF n = 0 THEN 0 ELSE f[n - 1] + (IF b[n].by = p THEN b[n].price ELSE 0)]
<1>1. Len(b) \in Nat /\ \A i \in 1 .. Len(b) : v(i) \in Nat
  <2>1. Len(b) \in Nat
    BY LenProperties
  <2>2. \A i \in 1 .. Len(b) : b[i] \in Sales
    BY ElementOfSeq
  <2> QED
    BY <2>1, <2>2 DEF Sales, CostTo
<1> HIDE DEF v
<1>2. 0 \in P
  <2> DEFINE z == [i \in 0 .. 0 |-> 0]
  <2>2. z \in [0 .. 0 -> Nat] /\ z[0] = 0
    OBVIOUS
  <2>1. Sum(z, 0)
    <3> HIDE DEF z
    <3> QED
      BY <2>2
  <2> QED
    BY <2>1
<1>3. ASSUME NEW n \in P PROVE n + 1 \in P
  <2>0. n \in Nat /\ n + 1 \in Nat
    OBVIOUS
  <2> SUFFICES ASSUME n + 1 <= Len(b) PROVE \E g : Sum(g, n + 1)
    <3> HIDE DEF Sum
    <3> QED
      BY <2>0
  <2>a. \E g : Sum(g, n)
    <3>1. n <= Len(b)
      BY <1>1, <2>0
    <3> HIDE DEF Sum
    <3> QED
      BY <3>1
  <2>1. PICK g : Sum(g, n)
    BY <2>a
  <2> DEFINE h == [i \in 0 .. n + 1 |-> IF i = n + 1 THEN g[n] + v(n + 1) ELSE g[i]]
  <2>2. g[n] \in Nat /\ v(n + 1) \in Nat
    BY <1>1, <2>1
  <2>3. h \in [0 .. n + 1 -> Nat] /\ h[0] = 0
    BY <2>1, <2>2
  <2>4. \A i \in 1 .. n + 1 : h[i] = h[i - 1] + v(i)
    BY <2>1, <2>2
  <2> QED
    BY <2>3, <2>4
<1>4. Len(b) \in P
  <2> HIDE DEF P
  <2>1. P \in SUBSET Nat
    BY DEF P
  <2> QED
    BY <1>1, <1>2, <1>3, <2>1, AllNat
<1>5. PICK g : Sum(g, Len(b))
  BY <1>1, <1>4
<1>6. Is(g)
  <2>1. \A n \in 1 .. Len(b) : v(n) = IF b[n].by = p THEN b[n].price ELSE 0
    BY DEF v, CostTo
  <2> QED
    BY <1>1, <1>5, <2>1
<1>7. SpentIn(b, p) = (CHOOSE f : Is(f))[Len(b)]
  BY DEF SpentIn
<1>8. PICK f : Is(f) /\ SpentIn(b, p) = f[Len(b)]
  <2> HIDE DEF Is
  <2>1. Is(CHOOSE f : Is(f))
    BY <1>6
  <2> QED
    BY <1>7, <2>1
<1>9. \A n \in 0 .. Len(b) : f[n] = g[n]
  <2> DEFINE R == {n \in Nat : n <= Len(b) => f[n] = g[n]}
  <2>0. \A n \in 1 .. Len(b) : v(n) = IF b[n].by = p THEN b[n].price ELSE 0
    BY DEF v, CostTo
  <2>1. f[0] = 0 /\ \A n \in 1 .. Len(b) : f[n] = f[n - 1] + v(n)
    BY <1>1, <1>8, <2>0
  <2>2. 0 \in R
    BY <1>5, <2>1
  <2>3. ASSUME NEW n \in R PROVE n + 1 \in R
    <3> SUFFICES ASSUME n + 1 <= Len(b) PROVE f[n + 1] = g[n + 1]
      OBVIOUS
    <3>1. f[n] = g[n] /\ n + 1 \in 1 .. Len(b) /\ (n + 1) - 1 = n
      BY <1>1
    <3>2. f[n + 1] = f[n] + v(n + 1)
      BY <2>1, <3>1
    <3>3. g[n + 1] = g[n] + v(n + 1)
      BY <1>5, <3>1
    <3> QED
      BY <3>1, <3>2, <3>3
  <2>4. \A n \in Nat : n \in R
    <3> HIDE DEF R
    <3>1. R \in SUBSET Nat
      BY DEF R
    <3> QED
      BY <2>2, <2>3, <3>1, AllNat
  <2> QED
    BY <1>1, <2>4
<1>10. SumsOf(g, b, p) /\ SpentIn(b, p) = g[Len(b)]
  BY <1>1, <1>5, <1>8, <1>9 DEF SumsOf, v
<1> QED
  BY <1>10

\* Two sums of the same sales are the same as far as they go.
LEMMA SumsAgree ==
    ASSUME NEW a \in Seq(Sales), NEW b \in Seq(Sales), NEW p, NEW f, NEW g, SumsOf(f, a, p), SumsOf(g, b, p),
           Len(a) <= Len(b), \A i \in 1 .. Len(a) : a[i] = b[i]
    PROVE  f[Len(a)] = g[Len(a)]
<1> DEFINE R == {n \in Nat : n <= Len(a) => f[n] = g[n]}
<1>1. Len(a) \in Nat /\ Len(b) \in Nat
  BY LenProperties
<1>2. 0 \in R
  BY DEF SumsOf
<1>3. ASSUME NEW n \in R PROVE n + 1 \in R
  <2> SUFFICES ASSUME n + 1 <= Len(a) PROVE f[n + 1] = g[n + 1]
    OBVIOUS
  <2>1. f[n] = g[n] /\ n + 1 \in 1 .. Len(a) /\ n + 1 \in 1 .. Len(b) /\ (n + 1) - 1 = n
    BY <1>1
  <2>2. f[n + 1] = f[n] + CostTo(a[n + 1], p) /\ g[n + 1] = g[n] + CostTo(b[n + 1], p)
    BY <2>1 DEF SumsOf
  <2> QED
    BY <2>1, <2>2
<1>4. \A n \in Nat : n \in R
  <2> HIDE DEF R
  <2>1. R \in SUBSET Nat
    BY DEF R
  <2> QED
    BY <1>2, <1>3, <2>1, AllNat
<1> QED
  BY <1>1, <1>4

\* A sale more costs its buyer its price, and nobody else anything.
LEMMA SpentMore ==
    ASSUME NEW b \in Seq(Sales), NEW d \in Sales, NEW p
    PROVE  /\ SpentIn(<<>>, p) = 0 /\ SpentIn(b, p) \in Nat
           /\ SpentIn(Append(b, d), p) = SpentIn(b, p) + CostTo(d, p)
<1> DEFINE c == Append(b, d)
<1>1. c \in Seq(Sales) /\ Len(c) = Len(b) + 1 /\ c[Len(b) + 1] = d /\ (\A i \in 1 .. Len(b) : c[i] = b[i])
  BY AppendProperties
<1>2. Len(b) \in Nat /\ <<>> \in Seq(Sales) /\ Len(<<>>) = 0
  BY LenProperties, EmptySeq
<1> HIDE DEF c
<1>3. PICK f : SumsOf(f, b, p) /\ SpentIn(b, p) = f[Len(b)]
  BY SpentIs
<1>4. PICK g : SumsOf(g, c, p) /\ SpentIn(c, p) = g[Len(c)]
  BY <1>1, SpentIs
<1>5. PICK z : SumsOf(z, <<>>, p) /\ SpentIn(<<>>, p) = z[Len(<<>>)]
  BY <1>2, SpentIs
<1>6. Len(b) <= Len(c) /\ \A i \in 1 .. Len(b) : b[i] = c[i]
  BY <1>1, <1>2
<1>7. f[Len(b)] = g[Len(b)]
  BY <1>1, <1>3, <1>4, <1>6, SumsAgree
<1>8. Len(c) \in 1 .. Len(c) /\ Len(c) - 1 = Len(b)
  BY <1>1, <1>2
<1>9. g[Len(c)] = g[Len(b)] + CostTo(d, p)
  BY <1>1, <1>4, <1>8 DEF SumsOf
<1>10. SpentIn(b, p) \in Nat /\ SpentIn(<<>>, p) = 0
  BY <1>2, <1>3, <1>5 DEF SumsOf
<1> QED
  BY <1>3, <1>4, <1>7, <1>9, <1>10 DEF c

\* What the end of a fight pays is a number, and it is what the story says was earned.
LEMMA AwardIsEarned ==
    ASSUME CoinsInv, stage = "fight", NEW w \in 1 .. 2, NEW p \in Rivals
    PROVE  RoundAward(p, w) = Earned(p, Append(story, w), deaths) /\ RoundAward(p, w) \in Nat
<1> DEFINE t == TeamIn(p)
           n == LostInARow(story, t)
           c == Append(story, w)
           k == KillsOf(deaths, p)
<1>1. t \in 1 .. 2 /\ story \in Seq(1 .. 2) /\ deaths \in Seq(DeathRecords) /\ <<>> \in Seq(DeathRecords)
  BY EmptySeq DEF CoinsInv, CoinsTyped, TeamIn
<1>2. n \in Nat /\ LostInARow(c, t) = (IF w = t THEN 0 ELSE n + 1) /\ lossStreak[t] = n
  BY <1>1, StreakGoesOn DEF CoinsInv
<1>3. roundKills[p] = k /\ k \in Nat
  BY <1>1, KillsJoined DEF CoinsInv
<1>4. p = firstBlood <=> DrewFirstBlood(deaths, p)
  BY <1>1, FirstDrew DEF CoinsInv, CoinsTyped
<1>5. round = Len(c) /\ round \in Nat \ {0}
  <2>1. Len(c) = Len(story) + 1 /\ Len(story) \in Nat
    BY <1>1, AppendProperties, LenProperties
  <2> QED
    BY <2>1 DEF CoinsInv
<1>6. CsRoundIncome(round) \in Nat
  <2>1. Len(CsRoundBaseCoins) = 7 /\ \A i \in 1 .. 7 : CsRoundBaseCoins[i] \in Nat
    BY DEF CsRoundBaseCoins
  <2>2. Last(CsRoundBaseCoins) \in Nat
    BY <2>1 DEF Last
  <2>3. round < 7 => round + 1 \in 1 .. 7
    BY <1>5
  <2> QED
    BY <1>5, <2>1, <2>2, <2>3 DEF CsRoundIncome
<1>7. Events.perKill = 2 /\ Events.winRound = 5 /\ Events.firstBlood = 1 /\ Events.lossRound = 2
      /\ Events.lossStreak2 = 9 /\ Events.lossStreak3 = 15
  BY DEF Events
<1> DEFINE paid == IF w = t THEN 5 ELSE LossBonus(lossStreak[t] + 1)
           due == (CASE LostInARow(c, t) = 0 -> 5
                     [] LostInARow(c, t) = 1 -> 2
                     [] LostInARow(c, t) = 2 -> 11
                     [] OTHER -> 17)
           first == IF p = firstBlood THEN 1 ELSE 0
<1>8. paid = due /\ paid \in Nat
  <2> HIDE DEF n, t
  <2>1. CASE w = t
    BY <1>2, <2>1
  <2>2. CASE w # t /\ n = 0
    <3>1. LossBonus(lossStreak[t] + 1) = 2
      BY <1>2, <1>7, <2>2 DEF LossBonus
    <3> QED
      BY <1>2, <2>2, <3>1
  <2>3. CASE w # t /\ n = 1
    <3>1. LossBonus(lossStreak[t] + 1) = 11
      BY <1>2, <1>7, <2>3 DEF LossBonus
    <3> QED
      BY <1>2, <2>3, <3>1
  <2>4. CASE w # t /\ n > 1
    <3>1. LossBonus(lossStreak[t] + 1) = 17
      BY <1>2, <1>7, <2>4 DEF LossBonus
    <3> QED
      BY <1>2, <2>4, <3>1
  <2> QED
    BY <1>2, <2>1, <2>2, <2>3, <2>4
<1>9. RoundAward(p, w) = CsRoundIncome(round) + 2 * roundKills[p] + paid + first
  <2> HIDE DEF n, due, c, k
  <2> QED
    BY <1>7 DEF RoundAward
<1>10. Earned(p, c, deaths) = CsRoundIncome(Len(c)) + 2 * k + (IF DrewFirstBlood(deaths, p) THEN 1 ELSE 0) + due
  BY DEF Earned
<1> HIDE DEF c, k, due, paid, n, t
<1>11. RoundAward(p, w) = CsRoundIncome(round) + 2 * k + paid + first
  BY <1>3, <1>9
<1>12. Earned(p, c, deaths) = CsRoundIncome(round) + 2 * k + first + due
  BY <1>4, <1>5, <1>10
<1>13. first \in Nat /\ 2 * k \in Nat
  BY <1>3
<1> HIDE DEF first
<1>14. RoundAward(p, w) = Earned(p, c, deaths) /\ RoundAward(p, w) \in Nat
  BY <1>6, <1>8, <1>11, <1>12, <1>13
<1> QED
  BY <1>14 DEF c

\* Deaths that are credited are counted.
LEMMA CreditCounts ==
    ASSUME CoinsInv, NEW ds \in Seq(DeathRecords), CreditDeaths(ds)
    PROVE  /\ deaths' \in Seq(DeathRecords) /\ roundKills' \in [Rivals -> Nat] /\ firstBlood' \in Rivals \cup {0}
           /\ (\A p \in Rivals : roundKills'[p] = KillsOf(deaths', p)) /\ FirstIs(firstBlood', deaths')
<1>1. deaths \in Seq(DeathRecords) /\ firstBlood \in Rivals \cup {0} /\ FirstIs(firstBlood, deaths)
  BY DEF CoinsInv, CoinsTyped
<1>2. deaths' = deaths \o ds
      /\ roundKills' = [p \in Rivals |-> roundKills[p] + Cardinality({i \in PaidIn(ds) : ds[i].killer = p})]
      /\ firstBlood' = IF firstBlood = 0 /\ PaidIn(ds) # {} THEN ds[Min(PaidIn(ds))].killer ELSE firstBlood
  BY DEF CreditDeaths, PaidIn
<1>3. deaths \o ds \in Seq(DeathRecords)
  BY <1>1, ConcatProperties
<1>4. ASSUME NEW p \in Rivals PROVE roundKills'[p] = KillsOf(deaths', p) /\ roundKills'[p] \in Nat
  <2>1. KillsOf(deaths, p) \in Nat /\ KillsOf(deaths \o ds, p) = KillsOf(deaths, p) + KillsOf(ds, p)
        /\ KillsOf(ds, p) = Cardinality({i \in PaidIn(ds) : ds[i].killer = p}) /\ KillsOf(ds, p) \in Nat
    BY <1>1, KillsJoined
  <2>2. roundKills'[p] = roundKills[p] + Cardinality({i \in PaidIn(ds) : ds[i].killer = p})
    BY <1>2
  <2>3. roundKills[p] = KillsOf(deaths, p)
    BY DEF CoinsInv
  <2>4. roundKills'[p] = KillsOf(deaths, p) + KillsOf(ds, p)
    BY <2>1, <2>2, <2>3, Zenon
  <2> QED
    BY <1>2, <2>1, <2>4
<1>5. FirstIs(firstBlood', deaths') /\ firstBlood' \in Rivals \cup {0}
  BY <1>1, <1>2, FirstJoined
<1>6. roundKills' \in [Rivals -> Nat]
  <2>1. \A p \in Rivals : roundKills'[p] \in Nat
    BY <1>4
  <2>2. roundKills' = [p \in Rivals |-> roundKills'[p]]
    BY <1>2
  <2> QED
    BY <2>1, <2>2
<1> QED
  BY <1>2, <1>3, <1>4, <1>5, <1>6

\* Somebody falls or bleeds out: the balances are not touched.
LEMMA DeathStep ==
    ASSUME CoinsInv, NEW p \in Rivals, BleedOut(p) \/ (\E killer \in Shooters : Fall(p, killer))
    PROVE  CoinsInv'
<1>0. CoinsTyped
  BY DEF CoinsInv
<1>1. UNCHANGED <<coins, buys, played>>
  BY DEF BleedOut, Fall
<1>2. /\ cut' \in [Rivals -> Cuts]
      /\ \/ UNCHANGED <<roundKills, firstBlood, deaths>>
         \/ \E ds \in Seq(DeathRecords) : CreditDeaths(ds)
  <2>1. CASE BleedOut(p)
    <3>1. cut[p].by \in Rivals \cup {0}
      BY <1>0 DEF CoinsTyped, Cuts
    <3> DEFINE d == [victim |-> p, killer |-> cut[p].by]
    <3>2. d \in DeathRecords
      BY <3>1 DEF DeathRecords
    <3> HIDE DEF d
    <3>3. <<d>> \in Seq(DeathRecords)
      BY <3>2
    <3>4. cut' = [cut EXCEPT ![p] = Dead] /\ CreditDeaths(<<d>>)
      BY <2>1 DEF BleedOut, d
    <3>5. cut' \in [Rivals -> Cuts]
      BY <1>0, <3>4, Zenon, DeadIsCut DEF CoinsTyped
    <3> QED
      BY <3>3, <3>4, <3>5
  <2>2. CASE \E killer \in Shooters : Fall(p, killer)
    <3>1. PICK killer \in Shooters : Fall(p, killer)
      BY <2>2
    <3>2. killer \in Rivals \cup {0}
      BY MatchCoinsAssumption
    <3> DEFINE down == {q \in SideOf(TeamIn(p)) : cut[q].is = "knocked"}
               S == down \cup {p}
    <3>3. \/ cut' = [cut EXCEPT ![p] = [is |-> "knocked", by |-> killer]] /\ UNCHANGED <<roundKills, firstBlood, deaths>>
          \/ \E order \in SetToSeqs(S) :
                /\ cut' = [q \in Rivals |-> IF q \in S THEN Dead ELSE cut[q]]
                /\ CreditDeaths([i \in DOMAIN order |->
                       [victim |-> order[i], killer |-> IF order[i] = p THEN killer ELSE cut[order[i]].by]])
      BY <3>1 DEF Fall
    <3>4. S \subseteq Rivals
      BY DEF SideOf
    <3> HIDE DEF S
    <3>5. CASE cut' = [cut EXCEPT ![p] = [is |-> "knocked", by |-> killer]] /\ UNCHANGED <<roundKills, firstBlood, deaths>>
      <4>1. [is |-> "knocked", by |-> killer] \in Cuts
        BY <3>2 DEF Cuts
      <4> QED
        BY <1>0, <3>5, <4>1 DEF CoinsTyped
    <3>6. CASE \E order \in SetToSeqs(S) :
                /\ cut' = [q \in Rivals |-> IF q \in S THEN Dead ELSE cut[q]]
                /\ CreditDeaths([i \in DOMAIN order |->
                       [victim |-> order[i], killer |-> IF order[i] = p THEN killer ELSE cut[order[i]].by]])
      <4>1. PICK order \in SetToSeqs(S) :
                /\ cut' = [q \in Rivals |-> IF q \in S THEN Dead ELSE cut[q]]
                /\ CreditDeaths([i \in DOMAIN order |->
                       [victim |-> order[i], killer |-> IF order[i] = p THEN killer ELSE cut[order[i]].by]])
        BY <3>6
      <4>2. Cardinality(S) \in Nat
        BY <3>4, FS_Subset, FS_CardinalityType, MatchCoinsAssumption
      <4>3. order \in [1 .. Cardinality(S) -> S]
        BY DEF SetToSeqs
      <4> DEFINE n == Cardinality(S)
                 d(i) == [victim |-> order[i], killer |-> IF order[i] = p THEN killer ELSE cut[order[i]].by]
      <4> HIDE DEF n
      <4>4. \A i \in 1 .. n : d(i) \in DeathRecords
        <5>1. \A q \in Rivals : cut[q].by \in Rivals \cup {0}
          BY <1>0 DEF CoinsTyped, Cuts
        <5>2. \A i \in 1 .. n : order[i] \in Rivals
          BY <3>4, <4>3 DEF n
        <5> QED
          BY <3>2, <5>1, <5>2 DEF DeathRecords
      <4>5. DOMAIN order = 1 .. n /\ n \in Nat
        BY <4>2, <4>3 DEF n
      <4>6. CreditDeaths([i \in 1 .. n |-> d(i)])
        BY <4>1, <4>5
      <4> HIDE DEF d
      <4>7. [i \in 1 .. n |-> d(i)] \in Seq(DeathRecords)
        BY <4>4, <4>5
      <4>8. cut' \in [Rivals -> Cuts]
        BY <1>0, <4>1, DeadIsCut DEF CoinsTyped
      <4> QED
        BY <4>6, <4>7, <4>8
    <3> QED
      BY <3>3, <3>5, <3>6
  <2> QED
    BY <2>1, <2>2
<1>3. /\ deaths' \in Seq(DeathRecords) /\ roundKills' \in [Rivals -> Nat] /\ firstBlood' \in Rivals \cup {0}
      /\ (\A q \in Rivals : roundKills'[q] = KillsOf(deaths', q)) /\ FirstIs(firstBlood', deaths')
  <2>1. CASE UNCHANGED <<roundKills, firstBlood, deaths>>
    BY <2>1 DEF CoinsInv, CoinsTyped
  <2>2. CASE \E ds \in Seq(DeathRecords) : CreditDeaths(ds)
    BY <2>2, CreditCounts
  <2> QED
    BY <1>2, <2>1, <2>2
<1>4. CoinsTyped'
  BY <1>0, <1>1, <1>2, <1>3 DEF CoinsTyped, played
<1>5. BalanceFollowsStory'
  BY <1>1 DEF CoinsInv, BalanceFollowsStory, Spent, played
<1> QED
  BY <1>1, <1>3, <1>4, <1>5 DEF CoinsInv, played

\* A purchase leaves what the rounds earned and the purchases so far left, less its price.
LEMMA PurchaseStep == ASSUME CoinsInv, NEW p \in Spenders, PurchaseCharged(p) PROVE CoinsInv'
<1>1. CoinsTyped /\ p \in Rivals
  BY MatchCoinsAssumption DEF CoinsInv
<1>2. PICK price \in ItemPrices :
          /\ coins[p] >= price /\ coins' = [coins EXCEPT ![p] = @ - price]
          /\ buys' = Append(buys, [by |-> p, price |-> price])
  BY DEF PurchaseCharged
<1>3. UNCHANGED <<roundKills, firstBlood, cut, deaths, played>> /\ price \in Nat
  BY MatchCoinsAssumption DEF PurchaseCharged
<1> DEFINE d == [by |-> p, price |-> price]
<1>4. d \in Sales /\ d.by = p /\ d.price = price
  BY <1>1, <1>3 DEF Sales
<1> HIDE DEF d
<1>5. buys \in Seq(Sales) /\ buys' = Append(buys, d) /\ buys' \in Seq(Sales)
  BY <1>1, <1>2, <1>4, AppendProperties DEF CoinsTyped, d
<1>6. coins \in [Rivals -> Nat] /\ coins' \in [Rivals -> Nat]
  <2>1. coins \in [Rivals -> Nat]
    BY <1>1 DEF CoinsTyped
  <2>2. coins[p] - price \in Nat
    <3>1. coins[p] \in Nat
      BY <1>1, <2>1
    <3> QED
      BY <1>2, <1>3, <3>1
  <2>3. coins' = [coins EXCEPT ![p] = coins[p] - price]
    BY <1>2
  <2> QED
    BY <2>1, <2>2, <2>3
<1>7. CoinsTyped'
  BY <1>1, <1>3, <1>5, <1>6 DEF CoinsTyped, played
<1>8. ASSUME NEW q \in Rivals PROVE coins'[q] = 5 + owed'[q] - Spent(q)'
  <2>1. Spent(q)' = SpentIn(buys', q) /\ Spent(q) = SpentIn(buys, q)
    BY DEF Spent, SpentIn
  <2>2. SpentIn(buys', q) = SpentIn(buys, q) + CostTo(d, q) /\ SpentIn(buys, q) \in Nat
    BY <1>4, <1>5, SpentMore
  <2>3. coins[q] = 5 + owed[q] - Spent(q) /\ owed'[q] = owed[q] /\ owed[q] \in Nat
    BY <1>1, <1>3 DEF CoinsInv, CoinsTyped, BalanceFollowsStory, played
  <2>4. CostTo(d, q) = (IF q = p THEN price ELSE 0)
    BY <1>4 DEF CostTo
  <2>5. coins'[q] = coins[q] - (IF q = p THEN price ELSE 0)
    BY <1>2, <1>3, <1>6
  <2> QED
    BY <1>3, <2>1, <2>2, <2>3, <2>4, <2>5
<1>9. BalanceFollowsStory'
  BY <1>8 DEF BalanceFollowsStory
<1> QED
  BY <1>3, <1>7, <1>9 DEF CoinsInv, played

\* The end of a fight pays everybody what the round earned.
LEMMA EndFightStep == ASSUME CoinsInv, EndFight PROVE CoinsInv'
<1> DEFINE w == IF Standing(1) # {} THEN 1 ELSE 2
<1>1. CoinsTyped /\ stage = "fight" /\ w \in 1 .. 2
  BY DEF CoinsInv, EndFight
<1>2. /\ score' = [score EXCEPT ![w] = @ + 1]
      /\ lossStreak' = [lossStreak EXCEPT ![w] = 0, ![3 - w] = @ + 1]
      /\ award' = [p \in Rivals |-> RoundAward(p, w)]
      /\ story' = Append(story, w)
      /\ owed' = [p \in Rivals |-> owed[p] + Earned(p, story', deaths)]
      /\ stage' = IF score'[w] >= RoundsToWin \/ round >= MaxRound THEN "ended" ELSE "banner"
  BY DEF EndFight
<1>3. /\ coins' = [p \in Rivals |-> coins[p] + award'[p]] /\ roundKills' = [p \in Rivals |-> 0]
      /\ firstBlood' = 0 /\ deaths' = <<>> /\ UNCHANGED <<cut, round, buys>>
  BY DEF EndFight
<1> HIDE DEF w
<1>4. ASSUME NEW p \in Rivals
      PROVE  award'[p] = Earned(p, story', deaths) /\ award'[p] \in Nat /\ owed'[p] = owed[p] + award'[p]
             /\ coins'[p] = coins[p] + award'[p]
  <2>1. RoundAward(p, w) = Earned(p, story', deaths) /\ RoundAward(p, w) \in Nat
    BY <1>1, <1>2, AwardIsEarned
  <2>2. award'[p] = RoundAward(p, w)
    BY <1>2
  <2>3. owed'[p] = owed[p] + Earned(p, story', deaths) /\ coins'[p] = coins[p] + award'[p]
    BY <1>2, <1>3
  <2> QED
    BY <2>1, <2>2, <2>3
<1>5. coins \in [Rivals -> Nat] /\ owed \in [Rivals -> Nat]
  BY <1>1 DEF CoinsTyped
<1>6. coins' \in [Rivals -> Nat] /\ owed' \in [Rivals -> Nat] /\ award' \in [Rivals -> Nat]
  <2>1. award' = [p \in Rivals |-> award'[p]] /\ owed' = [p \in Rivals |-> owed'[p]] /\ coins' = [p \in Rivals |-> coins'[p]]
    BY <1>2, <1>3
  <2>2. \A p \in Rivals : award'[p] \in Nat /\ owed'[p] \in Nat /\ coins'[p] \in Nat
    BY <1>4, <1>5
  <2> QED
    BY <2>1, <2>2
<1>7. story \in Seq(1 .. 2) /\ story' \in Seq(1 .. 2) /\ Len(story') = Len(story) + 1
  BY <1>1, <1>2, AppendProperties DEF CoinsTyped
<1>8. <<>> \in Seq(DeathRecords)
  BY EmptySeq
<1>9. lossStreak' \in [1 .. 2 -> Nat] /\ score' \in [1 .. 2 -> Nat]
  <2>1. lossStreak \in [1 .. 2 -> Nat] /\ score \in [1 .. 2 -> Nat]
    BY <1>1 DEF CoinsTyped
  <2>2. score' \in [1 .. 2 -> Nat]
    BY <1>1, <1>2, <2>1
  <2>3. \A t \in 1 .. 2 : lossStreak'[t] = IF t = w THEN 0 ELSE lossStreak[t] + 1
    BY <1>1, <1>2, <2>1
  <2>4. \A t \in 1 .. 2 : lossStreak'[t] \in Nat
    BY <2>1, <2>3
  <2>5. lossStreak' = [t \in 1 .. 2 |-> lossStreak'[t]]
    BY <1>2, <2>1
  <2> QED
    BY <2>2, <2>4, <2>5
<1>10. \A t \in 1 .. 2 : lossStreak'[t] = LostInARow(story', t)
  <2> SUFFICES ASSUME NEW t \in 1 .. 2 PROVE lossStreak'[t] = LostInARow(story', t)
    OBVIOUS
  <2>1. LostInARow(story', t) = IF w = t THEN 0 ELSE lossStreak[t] + 1
    BY <1>1, <1>2, <1>7, StreakGoesOn DEF CoinsInv
  <2>2. w = t \/ 3 - w = t
    BY <1>1
  <2>3. lossStreak'[t] = IF w = t THEN 0 ELSE lossStreak[t] + 1
    BY <1>1, <1>2, <2>2 DEF CoinsTyped
  <2> QED
    BY <2>1, <2>3
<1>11. stage' \in {"ended", "banner"} /\ (stage' = "banner" => round' < MaxRound)
  <2>1. round \in Nat /\ MaxRound \in Nat
    BY <1>1, MatchCoinsAssumption DEF CoinsTyped
  <2> QED
    BY <1>2, <1>3, <2>1
<1>12. round = Len(story) + 1 /\ round' = Len(story') + (IF stage' = "fight" THEN 1 ELSE 0)
  <2>1. round = Len(story) + 1 /\ Len(story) \in Nat
    BY <1>1, <1>7, LenProperties DEF CoinsInv
  <2> QED
    BY <1>3, <1>7, <1>11, <2>1
<1>13. CoinsTyped'
  BY <1>1, <1>3, <1>6, <1>7, <1>8, <1>9, <1>11 DEF CoinsTyped
<1>14. PaidIn(<<>>) = {} /\ \A p \in Rivals : KillsOf(<<>>, p) = 0
  <2>1. DOMAIN <<>> = {}
    OBVIOUS
  <2>2. PaidIn(<<>>) = {}
    BY <2>1 DEF PaidIn
  <2>3. \A p \in Rivals : {i \in DOMAIN <<>> : <<>>[i].killer = p /\ TeamIn(<<>>[i].victim) # TeamIn(p)} = {}
    BY <2>1
  <2>4. \A p \in Rivals : KillsOf(<<>>, p) = Cardinality({})
    BY <2>3 DEF KillsOf
  <2> QED
    BY <2>2, <2>4, FS_EmptySet
<1>15. FirstIs(firstBlood', deaths') /\ \A p \in Rivals : roundKills'[p] = KillsOf(deaths', p)
  BY <1>3, <1>14 DEF FirstIs
<1>16. BalanceFollowsStory'
  <2> SUFFICES ASSUME NEW p \in Rivals PROVE coins'[p] = 5 + owed'[p] - Spent(p)'
    BY DEF BalanceFollowsStory
  <2>1. Spent(p)' = Spent(p) /\ Spent(p) = SpentIn(buys, p)
    BY <1>3 DEF Spent, SpentIn
  <2>2. SpentIn(buys, p) \in Nat
    <3>1. buys \in Seq(Sales)
      BY <1>1 DEF CoinsTyped
    <3>2. PICK f : SumsOf(f, buys, p) /\ SpentIn(buys, p) = f[Len(buys)]
      BY <3>1, SpentIs
    <3>3. Len(buys) \in Nat
      BY <3>1, LenProperties
    <3> QED
      BY <3>2, <3>3 DEF SumsOf
  <2>3. coins[p] = 5 + owed[p] - Spent(p)
    BY DEF CoinsInv, BalanceFollowsStory
  <2>4. owed[p] \in Nat
    BY <1>5
  <2> QED
    BY <1>4, <2>1, <2>2, <2>3, <2>4
<1> QED
  BY <1>10, <1>11, <1>12, <1>13, <1>15, <1>16 DEF CoinsInv

\* The next round starts; the round's number is one more, below the last.
LEMMA NextFightStep == ASSUME CoinsInv, NextFight PROVE CoinsInv'
<1>1. CoinsTyped /\ round < MaxRound /\ round = Len(story)
  BY DEF CoinsInv, NextFight
<1>2. stage' = "fight" /\ round' = round + 1 /\ cut' = [p \in Rivals |-> Alive]
      /\ UNCHANGED <<coins, award, roundKills, firstBlood, lossStreak, score, buys, deaths, story, owed>>
  BY DEF NextFight
<1>3. round' \in 1 .. MaxRound /\ cut' \in [Rivals -> Cuts]
  <2>1. round \in 1 .. MaxRound /\ MaxRound \in Nat
    BY <1>1, MatchCoinsAssumption DEF CoinsTyped
  <2> QED
    BY <1>1, <1>2, <2>1, DeadIsCut
<1>4. CoinsTyped'
  BY <1>1, <1>2, <1>3 DEF CoinsTyped
<1>5. BalanceFollowsStory'
  BY <1>2 DEF CoinsInv, BalanceFollowsStory, Spent
<1>6. round' = Len(story') + (IF stage' = "fight" THEN 1 ELSE 0) /\ (stage' = "banner" => round' < MaxRound)
  BY <1>1, <1>2
<1> QED
  BY <1>2, <1>4, <1>5, <1>6 DEF CoinsInv

\* No purchase, death, award or reset breaks the coins' invariant.
LEMMA CoinsStep == CoinsInv /\ [CoinsNext]_coinVars => CoinsInv'
<1> SUFFICES ASSUME CoinsInv, [CoinsNext]_coinVars PROVE CoinsInv'
  OBVIOUS
<1>1. CASE UNCHANGED coinVars
  <2>1. UNCHANGED <<coins, award, roundKills, firstBlood, lossStreak, score, cut, round, stage, buys, deaths, story, owed>>
    BY <1>1 DEF coinVars
  <2>2. BalanceFollowsStory'
    BY <2>1 DEF CoinsInv, BalanceFollowsStory, Spent
  <2>3. CoinsTyped'
    BY <2>1 DEF CoinsInv, CoinsTyped
  <2> QED
    BY <2>1, <2>2, <2>3 DEF CoinsInv
<1>2. CASE CoinsNext
  BY <1>2, PurchaseStep, DeathStep, EndFightStep, NextFightStep DEF CoinsNext
<1> QED
  BY <1>1, <1>2

\* Everybody starts with the table's first entry, and nothing has happened.
LEMMA CoinsStart == CoinsInit => CoinsInv
<1> SUFFICES ASSUME CoinsInit PROVE CoinsInv
  OBVIOUS
<1>1. Head(CsRoundBaseCoins) = 5
  BY DEF CsRoundBaseCoins
<1>2. <<>> \in Seq(Sales) /\ <<>> \in Seq(DeathRecords) /\ <<>> \in Seq(1 .. 2) /\ Len(<<>>) = 0 /\ DOMAIN <<>> = {}
  BY EmptySeq
<1>3. CoinsTyped
  BY <1>1, <1>2, DeadIsCut, MatchCoinsAssumption DEF CoinsTyped, CoinsInit
<1>4. PaidIn(<<>>) = {}
  BY <1>2 DEF PaidIn
<1>5. \A p \in Rivals : KillsOf(<<>>, p) = 0
  <2>1. \A p \in Rivals : {i \in DOMAIN <<>> : <<>>[i].killer = p /\ TeamIn(<<>>[i].victim) # TeamIn(p)} = {}
    BY <1>2
  <2>2. \A p \in Rivals : KillsOf(<<>>, p) = Cardinality({})
    BY <2>1 DEF KillsOf
  <2> QED
    BY <2>2, FS_EmptySet
<1>6. \A t \in 1 .. 2 : LostInARow(<<>>, t) = 0
  <2>1. \A t \in 1 .. 2 : {i \in DOMAIN <<>> : \A j \in i .. Len(<<>>) : <<>>[j] # t} = {}
    BY <1>2
  <2>2. \A t \in 1 .. 2 : LostInARow(<<>>, t) = Cardinality({})
    BY <2>1 DEF LostInARow
  <2> QED
    BY <2>2, FS_EmptySet
<1>7. BalanceFollowsStory
  <2> SUFFICES ASSUME NEW p \in Rivals PROVE coins[p] = 5 + owed[p] - Spent(p)
    BY DEF BalanceFollowsStory
  <2> DEFINE d == [by |-> p, price |-> 0]
  <2>1. d \in Sales
    BY DEF Sales
  <2>2. SpentIn(<<>>, p) = 0
    BY <1>2, <2>1, SpentMore
  <2>3. Spent(p) = SpentIn(<<>>, p)
    BY DEF Spent, SpentIn, CoinsInit
  <2> QED
    BY <1>1, <2>2, <2>3 DEF CoinsInit
<1>8. (\A p \in Rivals : roundKills[p] = KillsOf(deaths, p)) /\ FirstIs(firstBlood, deaths)
      /\ \A t \in 1 .. 2 : lossStreak[t] = LostInARow(story, t)
  BY <1>4, <1>5, <1>6 DEF CoinsInit, FirstIs
<1> QED
  BY <1>2, <1>3, <1>7, <1>8 DEF CoinsInv, CoinsInit

\* The invariant says what the runs check.
LEMMA CoinsAre == CoinsInv => CoinsTypeOK /\ BalanceFollowsStory
  BY DEF CoinsInv, CoinsTyped, CoinsTypeOK

\* For any rivals, prices and rounds, and kills credited in any order and however late: a balance
\* is what the rounds so far earned, each kill, win, streak and first blood paid once, less the
\* purchases.
THEOREM CoinsHold == CoinsInit /\ [][CoinsNext]_coinVars => [](CoinsTypeOK /\ BalanceFollowsStory)
<1> QED
  BY CoinsStart, CoinsStep, CoinsAre, PTL

-----------------------------------------------------------------------------
(* Items.  Typed says what a loadout is made of, Sound what its tables say *)
(* of each other whatever items have met under a number, and Faithful what *)
(* they say until two have.  Guns are counted as pairs of a holder and a   *)
(* number, so that what moves a gun moves one pair.  Each change of one    *)
(* loadout has a lemma of its own (...Is, ...Typed, ...Sound), then each   *)
(* handler (...Step).                                                      *)

-----------------------------------------------------------------------------
(* Counting what several hold.                                             *)

\* Who has what: the pairs of one of A and one of what it has by F.
PairsOf(A, F) == UNION {{a} \X F[a] : a \in A}

\* Finitely many, if each has finitely many; and one's share can be taken off.
LEMMA PairsSplit ==
    ASSUME NEW A, IsFiniteSet(A), NEW F, \A a \in A : IsFiniteSet(F[a]), NEW b \in A
    PROVE  /\ IsFiniteSet(PairsOf(A, F)) /\ IsFiniteSet(PairsOf(A \ {b}, F))
           /\ Cardinality(PairsOf(A, F)) = Cardinality(PairsOf(A \ {b}, F)) + Cardinality(F[b])
           /\ Cardinality(F[b]) \in Nat /\ Cardinality(PairsOf(A \ {b}, F)) \in Nat
<1> DEFINE share(a) == {a} \X F[a]
           Shares == {share(a) : a \in A}
           f == [a \in A |-> share(a)]
           g == [x \in F[b] |-> <<b, x>>]
           P == PairsOf(A, F)
           R == PairsOf(A \ {b}, F)
<1>1. IsFiniteSet(Shares)
  <2>1. f \in [A -> Shares] /\ \A y \in Shares : \E x \in A : f[x] = y
    <3> HIDE DEF share
    <3> QED
      OBVIOUS
  <2>2. f \in Surjection(A, Shares)
    <3> HIDE DEF f, Shares
    <3> QED
      BY <2>1 DEF Surjection
  <2> QED
    <3> HIDE DEF f, Shares
    <3> QED
      BY <2>2, FS_Surjection
<1>2. \A s \in Shares : IsFiniteSet(s)
  <2> SUFFICES ASSUME NEW a \in A PROVE IsFiniteSet({a} \X F[a])
    OBVIOUS
  <2>1. IsFiniteSet({a}) /\ IsFiniteSet(F[a])
    BY FS_Singleton
  <2> QED
    BY <2>1, FS_Product
<1>3. IsFiniteSet(P)
  <2>1. P = UNION Shares
    BY DEF PairsOf
  <2> QED
    <3> HIDE DEF Shares, P
    <3> QED
      BY <1>1, <1>2, <2>1, FS_UNION
<1>4. IsFiniteSet(F[b]) /\ Cardinality(F[b]) \in Nat
  BY FS_CardinalityType
<1>5. R \in SUBSET P
  BY DEF PairsOf
<1>6. IsFiniteSet(R) /\ Cardinality(R) \in Nat
  <2> HIDE DEF R, P
  <2> QED
    BY <1>3, <1>5, FS_Subset, FS_CardinalityType
<1>7. IsFiniteSet(share(b)) /\ Cardinality(share(b)) = Cardinality(F[b])
  <2>1. g \in [F[b] -> share(b)] /\ \A y \in share(b) : \E x \in F[b] : g[x] = y
    OBVIOUS
  <2>2. \A x, y \in F[b] : g[x] = g[y] => x = y
    OBVIOUS
  <2>3. DOMAIN g = F[b]
    OBVIOUS
  <2>4. g \in Bijection(F[b], share(b))
    <3> HIDE DEF g, share
    <3> QED
      BY <2>1, <2>2, <2>3 DEF Bijection, Injection, Surjection, IsInjective
  <2> HIDE DEF g, share
  <2> QED
    BY <1>4, <2>4, FS_Bijection DEF ExistsBijection
<1>8. P = R \cup share(b)
  BY DEF PairsOf
<1>9. R \cap share(b) = {}
  BY DEF PairsOf
<1> HIDE DEF P, R, share
<1>10. Cardinality(R \cup share(b)) = Cardinality(R) + Cardinality(share(b)) - Cardinality(R \cap share(b))
  BY <1>6, <1>7, FS_Union
<1>11. Cardinality(P) = Cardinality(R) + Cardinality(F[b]) - Cardinality({})
  BY <1>7, <1>8, <1>9, <1>10, Zenon
<1>12. Cardinality(P) = Cardinality(R) + Cardinality(F[b])
  BY <1>4, <1>6, <1>11, FS_EmptySet
<1> QED
  BY <1>3, <1>4, <1>6, <1>12 DEF P, R

\* What one has more or less, all of them together have more or less.
LEMMA PairsChange ==
    ASSUME NEW A, IsFiniteSet(A), NEW F, NEW G, NEW b \in A,
           \A a \in A : IsFiniteSet(F[a]) /\ IsFiniteSet(G[a]), \A a \in A \ {b} : F[a] = G[a]
    PROVE  /\ Cardinality(PairsOf(A, F)) \in Nat /\ Cardinality(PairsOf(A, G)) \in Nat
           /\ Cardinality(F[b]) \in Nat /\ Cardinality(G[b]) \in Nat
           /\ Cardinality(PairsOf(A, G)) - Cardinality(PairsOf(A, F)) = Cardinality(G[b]) - Cardinality(F[b])
<1>1. PairsOf(A \ {b}, F) = PairsOf(A \ {b}, G)
  BY DEF PairsOf
<1>2. /\ Cardinality(PairsOf(A, F)) = Cardinality(PairsOf(A \ {b}, F)) + Cardinality(F[b])
      /\ Cardinality(F[b]) \in Nat /\ Cardinality(PairsOf(A \ {b}, F)) \in Nat
  BY PairsSplit
<1>3. /\ Cardinality(PairsOf(A, G)) = Cardinality(PairsOf(A \ {b}, G)) + Cardinality(G[b])
      /\ Cardinality(G[b]) \in Nat /\ Cardinality(PairsOf(A \ {b}, G)) \in Nat
  BY PairsSplit
<1> QED
  BY <1>1, <1>2, <1>3

-----------------------------------------------------------------------------
(* Guns.                                                                   *)

\* An item; the kinds of them.
Numbers == 1 .. MaxUnique
Kinds == {"rifle", "pistol", "groza", "gloo", "grenade", "vest", "kit", "medkit", "magazine", "rifle rounds", "pistol rounds"}
ItemRecords == [unique : Numbers, data : Kinds, count : Nat \ {0}]
GunItems == {it \in ItemRecords : it.data \in Guns}

\* The numbers under which a loadout has guns; the places of a box where one lies.
GunNumbers(l) == {u \in DOMAIN l.items : l.items[u].data \in Guns}
GunPlaces(q) == {i \in DOMAIN q : q[i] \in GunItems}
Boxes == [1 .. MaxBoxes -> Seq(ItemRecords)]

\* The guns of some players.
LEMMA HeldIsPairs ==
    ASSUME NEW S PROVE GunsHeld(S) = Cardinality(PairsOf(S, [p \in S |-> GunNumbers(loadout[p])]))
<1>1. UNION {{p} \X {u \in DOMAIN loadout[p].items : loadout[p].items[u].data \in Guns} : p \in S}
        = PairsOf(S, [p \in S |-> GunNumbers(loadout[p])])
  BY DEF PairsOf, GunNumbers
<1> QED
  BY <1>1 DEF GunsHeld

\* The guns on the ground.
LEMMA InIsPairs ==
    ASSUME NEW bs \in Boxes
    PROVE  GunsIn(bs) = Cardinality(PairsOf(1 .. MaxBoxes, [b \in 1 .. MaxBoxes |-> GunPlaces(bs[b])]))
<1>1. DOMAIN bs = 1 .. MaxBoxes /\ \A b \in 1 .. MaxBoxes : bs[b] \in Seq(ItemRecords)
  BY DEF Boxes
<1>2. \A b \in 1 .. MaxBoxes : \A i \in DOMAIN bs[b] : bs[b][i] \in ItemRecords
  BY <1>1, ElementOfSeq, LenProperties
<1>3. \A b \in 1 .. MaxBoxes : {i \in DOMAIN bs[b] : bs[b][i].data \in Guns} = GunPlaces(bs[b])
  BY <1>2 DEF GunPlaces, GunItems
<1>4. UNION {{b} \X {i \in DOMAIN bs[b] : bs[b][i].data \in Guns} : b \in DOMAIN bs}
        = PairsOf(1 .. MaxBoxes, [b \in 1 .. MaxBoxes |-> GunPlaces(bs[b])])
  BY <1>1, <1>3 DEF PairsOf
<1> QED
  BY <1>4 DEF GunsIn

\* One box changes: what lies on the ground changes by as much.
LEMMA BoxChange ==
    ASSUME NEW bs \in Boxes, NEW b \in 1 .. MaxBoxes, NEW q \in Seq(ItemRecords)
    PROVE  /\ [bs EXCEPT ![b] = q] \in Boxes /\ GunsIn([bs EXCEPT ![b] = q]) \in Nat /\ GunsIn(bs) \in Nat
           /\ CountIn(q, GunItems) \in Nat /\ CountIn(bs[b], GunItems) \in Nat
           /\ GunsIn([bs EXCEPT ![b] = q]) - GunsIn(bs) = CountIn(q, GunItems) - CountIn(bs[b], GunItems)
<1> DEFINE A == 1 .. MaxBoxes
           cs == [bs EXCEPT ![b] = q]
           F == [c \in A |-> GunPlaces(bs[c])]
           G == [c \in A |-> GunPlaces(cs[c])]
<1>1. cs \in Boxes
  BY DEF Boxes
<1>2. /\ \A c \in A : bs[c] \in Seq(ItemRecords) /\ cs[c] \in Seq(ItemRecords)
      /\ \A c \in A \ {b} : bs[c] = cs[c]
      /\ cs[b] = q
  BY DEF Boxes
<1> HIDE DEF cs
<1>3. \A c \in A : IsFiniteSet(GunPlaces(bs[c])) /\ IsFiniteSet(GunPlaces(cs[c]))
  BY <1>2, CountIs DEF GunPlaces
<1>4. /\ \A c \in A : IsFiniteSet(F[c]) /\ IsFiniteSet(G[c])
      /\ \A c \in A \ {b} : F[c] = G[c]
  BY <1>2, <1>3
<1>10. F[b] = GunPlaces(bs[b]) /\ G[b] = GunPlaces(q)
  BY <1>2
<1>5. GunsIn(bs) = Cardinality(PairsOf(A, F)) /\ GunsIn(cs) = Cardinality(PairsOf(A, G))
  BY <1>1, InIsPairs
<1>6. IsFiniteSet(A)
  BY FS_Interval, MatchItemsAssumption
<1> HIDE DEF F, G, A
<1>7. b \in A
  BY DEF A
<1>8. /\ Cardinality(PairsOf(A, F)) \in Nat /\ Cardinality(PairsOf(A, G)) \in Nat
      /\ Cardinality(F[b]) \in Nat /\ Cardinality(G[b]) \in Nat
      /\ Cardinality(PairsOf(A, G)) - Cardinality(PairsOf(A, F)) = Cardinality(G[b]) - Cardinality(F[b])
  BY <1>4, <1>6, <1>7, PairsChange
<1>9. Cardinality(GunPlaces(bs[b])) = CountIn(bs[b], GunItems) /\ Cardinality(GunPlaces(q)) = CountIn(q, GunItems)
  BY DEF CountIn, GunPlaces
<1> QED
  BY <1>1, <1>5, <1>8, <1>9, <1>10 DEF cs

\* An item that is dropped lies on the ground, and all that lay there still does.
LEMMA DropIs ==
    ASSUME NEW bs \in Boxes, NEW it \in ItemRecords, NEW emptied \in SUBSET (1 .. MaxBoxes),
           NEW cs \in DropToGround(bs, it, emptied)
    PROVE  /\ cs \in Boxes /\ GunsIn(bs) \in Nat
           /\ GunsIn(cs) = GunsIn(bs) + (IF it.data \in Guns THEN 1 ELSE 0)
<1> DEFINE there == {b \in DOMAIN bs : bs[b] # <<>>} \cup emptied
           free == DOMAIN bs \ there
           first == CHOOSE b \in free : \A c \in free : b <= c
           new == IF free = {} THEN {} ELSE {first}
<1>1. DOMAIN bs = 1 .. MaxBoxes /\ \A b \in 1 .. MaxBoxes : bs[b] \in Seq(ItemRecords)
  BY DEF Boxes
<1>2. free \subseteq Nat /\ free \subseteq 1 .. MaxBoxes
  BY <1>1
<1>3. new \subseteq 1 .. MaxBoxes
  <2>1. CASE free = {}
    BY <2>1
  <2>2. CASE free # {}
    <3>1. \E b \in free : \A c \in free : b <= c
      <4> HIDE DEF free
      <4> QED
        BY <1>2, <2>2, LeastNat
    <3>2. first \in free
      <4> HIDE DEF free
      <4> QED
        BY <3>1
    <3> QED
      BY <1>2, <3>2
  <2> QED
    BY <2>1, <2>2
<1>4. PICK b \in 1 .. MaxBoxes : cs = [bs EXCEPT ![b] = Append(@, it)]
  <2>1. there \subseteq 1 .. MaxBoxes
    BY <1>1
  <2>2. cs \in {[bs EXCEPT ![b] = Append(@, it)] : b \in there \cup new}
    BY DEF DropToGround
  <2> HIDE DEF there, new
  <2> QED
    BY <1>3, <2>1, <2>2
<1>5. /\ Append(bs[b], it) \in Seq(ItemRecords) /\ Append(bs[b], it) = bs[b] \o <<it>>
      /\ <<it>> \in Seq(ItemRecords)
  BY <1>1, AppendProperties, AppendIsConcat
<1>6. CountIn(bs[b] \o <<it>>, GunItems) = CountIn(bs[b], GunItems) + CountIn(<<it>>, GunItems)
  BY <1>1, <1>5, CountJoined
<1>7. CountIn(<<it>>, GunItems) = IF it.data \in Guns THEN 1 ELSE 0
  BY CountOne DEF GunItems
<1>8. /\ cs \in Boxes /\ GunsIn(cs) \in Nat /\ GunsIn(bs) \in Nat
      /\ CountIn(Append(bs[b], it), GunItems) \in Nat /\ CountIn(bs[b], GunItems) \in Nat
      /\ GunsIn(cs) - GunsIn(bs) = CountIn(Append(bs[b], it), GunItems) - CountIn(bs[b], GunItems)
  BY <1>4, <1>5, BoxChange
<1> QED
  BY <1>5, <1>6, <1>7, <1>8

\* The prefixes of a box without the items of a number.
LeftOf(f, q, u) ==
    /\ f \in [0 .. Len(q) -> Seq(ItemRecords)] /\ f[0] = <<>>
    /\ \A i \in 1 .. Len(q) : f[i] = IF q[i].unique = u THEN f[i - 1] ELSE Append(f[i - 1], q[i])

\* What is left of a box without a number is the last of its prefixes.
LEMMA LeftIs ==
    ASSUME NEW q \in Seq(ItemRecords), NEW u
    PROVE  \E f : LeftOf(f, q, u) /\ WithoutNumber(q, u) = f[Len(q)]
<1> DEFINE N == Len(q)
           next(s, i) == IF q[i].unique = u THEN s ELSE Append(s, q[i])
           Left(g, n) == g \in [0 .. n -> Seq(ItemRecords)] /\ g[0] = <<>> /\ \A i \in 1 .. n : g[i] = next(g[i - 1], i)
           P == {n \in Nat : n <= N => \E g : Left(g, n)}
           Is(f) == f = [n \in 0 .. N |->
                           IF n = 0 THEN <<>>
                           ELSE IF q[n].unique = u THEN f[n - 1] ELSE Append(f[n - 1], q[n])]
<1>1. N \in Nat /\ (\A i \in 1 .. N : q[i] \in ItemRecords) /\ <<>> \in Seq(ItemRecords)
  BY LenProperties, ElementOfSeq, EmptySeq
<1>2. \A s \in Seq(ItemRecords), i \in 1 .. N : next(s, i) \in Seq(ItemRecords)
  BY <1>1, AppendProperties
<1> HIDE DEF N
<1>3. 0 \in P
  <2> DEFINE z == [i \in 0 .. 0 |-> <<>>]
  <2>1. z \in [0 .. 0 -> Seq(ItemRecords)] /\ z[0] = <<>> /\ \A i \in 1 .. 0 : FALSE
    BY <1>1
  <2> HIDE DEF z, next
  <2>2. Left(z, 0)
    BY <2>1
  <2> QED
    BY <2>2
<1>4. ASSUME NEW n \in P PROVE n + 1 \in P
  <2> HIDE DEF next
  <2>0. n \in Nat /\ n + 1 \in Nat
    OBVIOUS
  <2> SUFFICES ASSUME n + 1 <= N PROVE \E g : Left(g, n + 1)
    <3> HIDE DEF Left
    <3> QED
      BY <2>0
  <2>a. \E g : Left(g, n)
    <3>1. n <= N
      BY <1>1, <2>0
    <3> HIDE DEF Left
    <3> QED
      BY <3>1
  <2>1. PICK g : Left(g, n)
    BY <2>a
  <2> DEFINE h == [i \in 0 .. n + 1 |-> IF i = n + 1 THEN next(g[n], n + 1) ELSE g[i]]
  <2>2. g[n] \in Seq(ItemRecords) /\ n + 1 \in 1 .. N
    BY <1>1, <2>0, <2>1
  <2>b. next(g[n], n + 1) \in Seq(ItemRecords)
    BY <1>2, <2>2
  <2>3. h \in [0 .. n + 1 -> Seq(ItemRecords)] /\ h[0] = <<>>
    BY <2>0, <2>1, <2>b
  <2>4. ASSUME NEW i \in 1 .. n + 1 PROVE h[i] = next(h[i - 1], i)
    <3>1. CASE i = n + 1
      <4>1. h[i] = next(g[n], i) /\ i - 1 = n /\ n \in 0 .. n + 1 /\ n # n + 1
        BY <2>0, <3>1
      <4>2. h[n] = g[n]
        BY <4>1
      <4> QED
        BY <4>1, <4>2
    <3>2. CASE i # n + 1
      <4>1. i \in 1 .. n /\ i \in 0 .. n + 1 /\ i - 1 \in 0 .. n + 1 /\ i - 1 # n + 1
        BY <2>0, <3>2
      <4>2. h[i] = g[i] /\ h[i - 1] = g[i - 1]
        BY <3>2, <4>1
      <4>3. g[i] = next(g[i - 1], i)
        BY <2>1, <4>1
      <4> QED
        BY <4>2, <4>3
    <3> QED
      BY <3>1, <3>2
  <2> HIDE DEF h
  <2> QED
    BY <2>3, <2>4
<1>5. N \in P
  <2> HIDE DEF P
  <2>1. P \in SUBSET Nat
    BY DEF P
  <2> QED
    BY <1>1, <1>3, <1>4, <2>1, AllNat
<1>6. PICK g : Left(g, N)
  <2> HIDE DEF Left
  <2> QED
    BY <1>1, <1>5
<1>7. Is(g)
  <2>1. g = [n \in 0 .. N |-> g[n]] /\ g[0] = <<>>
    BY <1>6
  <2>2. \A n \in 1 .. N : g[n] = IF q[n].unique = u THEN g[n - 1] ELSE Append(g[n - 1], q[n])
    BY <1>6
  <2>3. \A n \in 0 .. N : n = 0 \/ n \in 1 .. N
    BY <1>1
  <2>4. \A n \in 0 .. N : g[n] = IF n = 0 THEN <<>>
                                 ELSE IF q[n].unique = u THEN g[n - 1] ELSE Append(g[n - 1], q[n])
    BY <2>1, <2>2, <2>3
  <2> HIDE DEF Left
  <2> QED
    BY <2>1, <2>4
<1>8. WithoutNumber(q, u) = (CHOOSE f : Is(f))[N]
  BY DEF WithoutNumber, N
<1>9. PICK f : Is(f) /\ WithoutNumber(q, u) = f[N]
  <2> HIDE DEF Is
  <2>1. Is(CHOOSE f : Is(f))
    BY <1>7
  <2> QED
    BY <1>8, <2>1
<1>10. f[0] = <<>> /\ (\A n \in 1 .. N : f[n] = next(f[n - 1], n)) /\ DOMAIN f = 0 .. N
       /\ f = [n \in 0 .. N |-> f[n]]
  <2>1. f = [n \in 0 .. N |-> IF n = 0 THEN <<>>
                             ELSE IF q[n].unique = u THEN f[n - 1] ELSE Append(f[n - 1], q[n])]
    BY <1>9
  <2>2. 0 \in 0 .. N /\ \A n \in 1 .. N : n \in 0 .. N /\ n # 0
    BY <1>1
  <2>3. DOMAIN f = 0 .. N /\ f = [n \in 0 .. N |-> f[n]]
    BY <2>1
  <2>4. \A n \in 0 .. N : f[n] = IF n = 0 THEN <<>>
                                 ELSE IF q[n].unique = u THEN f[n - 1] ELSE Append(f[n - 1], q[n])
    BY <2>1
  <2> HIDE DEF Is
  <2> QED
    BY <2>2, <2>3, <2>4
<1>11. \A n \in 0 .. N : f[n] \in Seq(ItemRecords)
  <2> DEFINE R == {n \in Nat : n <= N => f[n] \in Seq(ItemRecords)}
  <2> HIDE DEF next, Is
  <2>1. 0 \in R
    BY <1>1, <1>10
  <2>2. ASSUME NEW n \in R PROVE n + 1 \in R
    <3> SUFFICES ASSUME n + 1 <= N PROVE f[n + 1] \in Seq(ItemRecords)
      OBVIOUS
    <3>1. f[n] \in Seq(ItemRecords) /\ n + 1 \in 1 .. N /\ (n + 1) - 1 = n
      BY <1>1
    <3>2. f[n + 1] = next(f[n], n + 1)
      BY <1>10, <3>1
    <3> QED
      BY <1>2, <3>1, <3>2
  <2>3. \A n \in Nat : n \in R
    <3>1. R \in SUBSET Nat
      OBVIOUS
    <3> HIDE DEF R
    <3> QED
      BY <2>1, <2>2, <3>1, AllNat
  <2> QED
    BY <1>1, <2>3
<1>12. LeftOf(f, q, u)
  <2>1. f \in [0 .. N -> Seq(ItemRecords)]
    <3> HIDE DEF Is
    <3> QED
      BY <1>10, <1>11
  <2> QED
    BY <1>10, <2>1 DEF LeftOf, N
<1> QED
  BY <1>9, <1>12 DEF N

\* One more element counts, or not.
LEMMA CountNext ==
    ASSUME NEW S, NEW s \in Seq(S), NEW e \in S, NEW K
    PROVE  CountIn(Append(s, e), K) = CountIn(s, K) + (IF e \in K THEN 1 ELSE 0)
<1>1. Append(s, e) = s \o <<e>> /\ <<e>> \in Seq(S)
  BY AppendIsConcat
<1>2. CountIn(s \o <<e>>, K) = CountIn(s, K) + CountIn(<<e>>, K)
  BY <1>1, CountJoined
<1> QED
  BY <1>1, <1>2, CountOne

\* What leaves a box and what stays is what was in it.
LEMMA LeftCounts ==
    ASSUME NEW q \in Seq(ItemRecords), NEW u, NEW K
    PROVE  /\ WithoutNumber(q, u) \in Seq(ItemRecords)
           /\ CountIn(WithoutNumber(q, u), K) + CountIn(q, {it \in K : it.unique = u}) = CountIn(q, K)
<1> DEFINE N == Len(q)
           Ku == {it \in K : it.unique = u}
           pre(n) == SubSeq(q, 1, n)
<1>1. N \in Nat /\ \A i \in 1 .. N : q[i] \in ItemRecords
  BY LenProperties, ElementOfSeq
<1>2. PICK f : LeftOf(f, q, u) /\ WithoutNumber(q, u) = f[Len(q)]
  BY LeftIs
<1>3. /\ f[0] = <<>> /\ \A n \in 0 .. N : f[n] \in Seq(ItemRecords)
      /\ \A i \in 1 .. N : f[i] = IF q[i].unique = u THEN f[i - 1] ELSE Append(f[i - 1], q[i])
  BY <1>2 DEF LeftOf
<1>4. \A n \in 0 .. N : pre(n) \in Seq(ItemRecords)
  <2> TAKE n \in 0 .. N
  <2>1. \A i \in 1 .. n : q[i] \in ItemRecords
    BY <1>1
  <2> QED
    BY <1>1, <2>1, SubSeqProperties
<1>5. ASSUME NEW n \in Nat, n + 1 \in 1 .. N PROVE pre(n + 1) = Append(pre(n), q[n + 1])
  <2>1. n \in 0 .. N /\ n + 1 \in 0 .. N /\ n >= 0 /\ (n + 1) - 1 = n /\ 1 <= n + 1
    BY <1>1, <1>5
  <2>2. \A i \in 1 .. n + 1 : q[i] \in ItemRecords
    BY <1>1, <1>5
  <2>3. Len(pre(n + 1)) = n + 1 /\ \A i \in 1 .. n + 1 : pre(n + 1)[i] = q[i]
    BY <2>1, <2>2, SubSeqProperties
  <2>4. Len(pre(n)) = n /\ \A i \in 1 .. n : pre(n)[i] = q[i]
    BY <2>1, <2>2, SubSeqProperties
  <2>5. pre(n) \in Seq(ItemRecords) /\ pre(n + 1) \in Seq(ItemRecords) /\ q[n + 1] \in ItemRecords
    BY <1>1, <1>4, <1>5, <2>1
  <2> HIDE DEF pre
  <2>6. /\ Append(pre(n), q[n + 1]) \in Seq(ItemRecords) /\ Len(Append(pre(n), q[n + 1])) = n + 1
        /\ \A i \in 1 .. n : Append(pre(n), q[n + 1])[i] = pre(n)[i]
        /\ Append(pre(n), q[n + 1])[n + 1] = q[n + 1]
    BY <2>4, <2>5, AppendProperties
  <2>7. \A i \in 1 .. n + 1 : i \in 1 .. n \/ i = n + 1
    BY <2>1
  <2>8. \A i \in 1 .. n + 1 : Append(pre(n), q[n + 1])[i] = pre(n + 1)[i]
    BY <2>3, <2>4, <2>6, <2>7
  <2> QED
    BY <2>3, <2>5, <2>6, <2>8, SeqEqual
<1>6. CountIn(<<>>, K) = 0 /\ CountIn(<<>>, Ku) = 0
  <2>1. {i \in DOMAIN <<>> : <<>>[i] \in K} = {} /\ {i \in DOMAIN <<>> : <<>>[i] \in Ku} = {}
    OBVIOUS
  <2> HIDE DEF Ku
  <2> QED
    BY <2>1, FS_EmptySet DEF CountIn
<1>7. pre(0) = <<>>
  BY SubSeqEmpty
<1> HIDE DEF pre, N
<1>8. \A n \in 0 .. N : CountIn(f[n], K) + CountIn(pre(n), Ku) = CountIn(pre(n), K)
  <2> DEFINE R == {n \in Nat : n <= N => CountIn(f[n], K) + CountIn(pre(n), Ku) = CountIn(pre(n), K)}
  <2>1. 0 \in R
    BY <1>3, <1>6, <1>7
  <2>2. ASSUME NEW n \in R PROVE n + 1 \in R
    <3> SUFFICES ASSUME n + 1 <= N
                 PROVE CountIn(f[n + 1], K) + CountIn(pre(n + 1), Ku) = CountIn(pre(n + 1), K)
      OBVIOUS
    <3>1. /\ CountIn(f[n], K) + CountIn(pre(n), Ku) = CountIn(pre(n), K)
          /\ n \in Nat /\ n + 1 \in 1 .. N /\ n \in 0 .. N /\ (n + 1) - 1 = n
      BY <1>1
    <3> DEFINE e == q[n + 1]
    <3>2. f[n] \in Seq(ItemRecords) /\ pre(n) \in Seq(ItemRecords) /\ e \in ItemRecords
      BY <1>1, <1>3, <1>4, <3>1
    <3>3. pre(n + 1) = Append(pre(n), e) /\ f[n + 1] = IF e.unique = u THEN f[n] ELSE Append(f[n], e)
      BY <1>3, <1>5, <3>1
    <3> HIDE DEF e
    <3>4. /\ CountIn(Append(pre(n), e), K) = CountIn(pre(n), K) + (IF e \in K THEN 1 ELSE 0)
          /\ CountIn(Append(pre(n), e), Ku) = CountIn(pre(n), Ku) + (IF e \in Ku THEN 1 ELSE 0)
          /\ CountIn(Append(f[n], e), K) = CountIn(f[n], K) + (IF e \in K THEN 1 ELSE 0)
      BY <3>2, CountNext
    <3>5. CountIn(pre(n), K) \in Nat /\ CountIn(pre(n), Ku) \in Nat /\ CountIn(f[n], K) \in Nat
      BY <3>2, CountIs
    <3>6. e \in Ku <=> e \in K /\ e.unique = u
      OBVIOUS
    <3> HIDE DEF Ku, R
    <3>9. /\ CountIn(pre(n + 1), K) = CountIn(pre(n), K) + (IF e \in K THEN 1 ELSE 0)
          /\ CountIn(pre(n + 1), Ku) = CountIn(pre(n), Ku) + (IF e \in Ku THEN 1 ELSE 0)
      BY <3>3, <3>4, Zenon
    <3>7. CASE e.unique = u
      <4>1. CountIn(f[n + 1], K) = CountIn(f[n], K)
        BY <3>3, <3>7, Zenon
      <4> QED
        BY <3>1, <3>5, <3>6, <3>7, <3>9, <4>1
    <3>8. CASE e.unique # u
      <4>1. CountIn(f[n + 1], K) = CountIn(f[n], K) + (IF e \in K THEN 1 ELSE 0)
        BY <3>3, <3>4, <3>8, Zenon
      <4> QED
        BY <3>1, <3>5, <3>6, <3>8, <3>9, <4>1
    <3> QED
      BY <3>7, <3>8
  <2>3. \A n \in Nat : n \in R
    <3>1. R \in SUBSET Nat
      OBVIOUS
    <3> HIDE DEF R
    <3> QED
      BY <2>1, <2>2, <3>1, AllNat
  <2> QED
    BY <1>1, <2>3
<1>9. pre(N) = q
  BY SubSeqFull DEF pre, N
<1> QED
  BY <1>1, <1>2, <1>3, <1>8, <1>9 DEF N

\* If only one item has left, it is the one that was taken.
LEMMA TakenIs ==
    ASSUME NEW q \in Seq(ItemRecords), NEW i \in DOMAIN q,
           ~ (Len(WithoutNumber(q, q[i].unique)) + 1 < Len(q))
    PROVE  CountIn(WithoutNumber(q, q[i].unique), GunItems)
             = CountIn(q, GunItems) - (IF q[i].data \in Guns THEN 1 ELSE 0)
<1> DEFINE u == q[i].unique
           c == WithoutNumber(q, u)
           Hit == {it \in ItemRecords : it.unique = u}
           Gun == {it \in GunItems : it.unique = u}
           H == {j \in DOMAIN q : q[j] \in Hit}
           G == {j \in DOMAIN q : q[j] \in Gun}
<1>1. /\ DOMAIN q = 1 .. Len(q) /\ Len(q) \in Nat /\ \A j \in DOMAIN q : q[j] \in ItemRecords
  BY LenProperties, ElementOfSeq
<1>2. c \in Seq(ItemRecords) /\ Len(c) \in Nat /\ DOMAIN c = 1 .. Len(c) /\ \A j \in DOMAIN c : c[j] \in ItemRecords
  <2>1. c \in Seq(ItemRecords)
    BY LeftCounts
  <2> HIDE DEF c
  <2> QED
    BY <2>1, LenProperties, ElementOfSeq
<1>3. CountIn(c, ItemRecords) + CountIn(q, Hit) = CountIn(q, ItemRecords)
  BY LeftCounts
<1>4. CountIn(c, GunItems) + CountIn(q, Gun) = CountIn(q, GunItems)
  BY LeftCounts
<1> HIDE DEF c
<1>5. CountIn(c, ItemRecords) = Len(c) /\ CountIn(q, ItemRecords) = Len(q)
  <2>1. {j \in DOMAIN c : c[j] \in ItemRecords} = 1 .. Len(c) /\ {j \in DOMAIN q : q[j] \in ItemRecords} = 1 .. Len(q)
    BY <1>1, <1>2
  <2>2. \A n \in Nat : Cardinality(1 .. n) = n
    BY FS_Interval
  <2>3. Cardinality(1 .. Len(c)) = Len(c) /\ Cardinality(1 .. Len(q)) = Len(q)
    BY <1>1, <1>2, <2>2
  <2> QED
    BY <2>1, <2>3 DEF CountIn
<1>6. CountIn(q, Hit) <= 1
  <2>1. ~ (Len(c) + 1 < Len(q))
    BY DEF c
  <2>2. CountIn(q, Hit) \in Nat
    BY CountIs
  <2>3. Len(c) + CountIn(q, Hit) = Len(q)
    BY <1>3, <1>5, Zenon
  <2>4. Len(c) \in Nat /\ Len(q) \in Nat
    BY <1>1, <1>2
  <2> HIDE DEF Hit
  <2> QED
    BY <2>1, <2>2, <2>3, <2>4
<1>7. i \in H
  BY <1>1
<1>8. IsFiniteSet(H) /\ Cardinality(H) = CountIn(q, Hit) /\ Cardinality(H) \in Nat
  <2>1. IsFiniteSet(H)
    BY CountIs
  <2>2. Cardinality(H) = CountIn(q, Hit)
    BY DEF CountIn
  <2> HIDE DEF H, Hit
  <2> QED
    BY <2>1, <2>2, FS_CardinalityType
<1>9. H = {i}
  <2> HIDE DEF H, Hit
  <2>1. IsFiniteSet(H \ {i}) /\ Cardinality(H \ {i}) = Cardinality(H) - 1 /\ Cardinality(H \ {i}) \in Nat
    BY <1>7, <1>8, FS_RemoveElement, FS_CardinalityType
  <2>2. Cardinality(H \ {i}) = 0
    BY <1>6, <1>8, <2>1
  <2>3. H \ {i} = {}
    BY <2>1, <2>2, FS_EmptySet
  <2> QED
    BY <1>7, <2>3
<1>10. G = IF q[i].data \in Guns THEN {i} ELSE {}
  <2>1. \A j \in DOMAIN q : q[j].unique = u => j = i
    BY <1>1, <1>9
  <2> QED
    BY <1>1, <2>1 DEF GunItems
<1>11. CountIn(q, Gun) = IF q[i].data \in Guns THEN 1 ELSE 0
  <2>1. CountIn(q, Gun) = Cardinality(G)
    BY DEF CountIn
  <2>2. Cardinality({i}) = 1 /\ Cardinality({}) = 0
    BY FS_Singleton, FS_EmptySet
  <2> HIDE DEF G, Gun
  <2> QED
    BY <1>10, <2>1, <2>2
<1>12. CountIn(c, GunItems) \in Nat /\ CountIn(q, GunItems) \in Nat
  BY <1>2, CountIs
<1> QED
  BY <1>4, <1>11, <1>12 DEF c

-----------------------------------------------------------------------------
(* A loadout.                                                              *)

Slots == GunSlots \cup {"building", "explosive", "vest"}
Ats == [unique : Numbers, data : Kinds]
GunAts == [unique : Numbers, data : Firearms]

\* A function on some of A, with values in B.
Table(f, A, B) == f = [x \in DOMAIN f |-> f[x]] /\ DOMAIN f \subseteq A /\ \A x \in DOMAIN f : f[x] \in B

\* f without S.
Apart(f, S) == [x \in DOMAIN f \ S |-> f[x]]

Shaped(l) == l = [uid |-> l.uid, items |-> l.items, guns |-> l.guns, equip |-> l.equip, hand |-> l.hand,
                  before |-> l.before, mounts |-> l.mounts, armour |-> l.armour]

Typed(l) ==
    /\ Shaped(l) /\ l.uid \in 0 .. MaxUnique /\ l.hand \in 0 .. MaxUnique /\ l.before \in 0 .. MaxUnique
    /\ Table(l.items, Numbers, ItemRecords) /\ \A u \in DOMAIN l.items : l.items[u].unique = u
    /\ Table(l.guns, GunSlots, GunAts) /\ Table(l.equip, Slots, Ats)

\* What can be in a slot.
Fits(s, data) ==
    \/ data \in {"rifle", "groza"} /\ s \in {"primary1", "primary2"}
    \/ data = "pistol" /\ s = "pistol"
    \/ data \in DOMAIN PlaceItem /\ s = PlaceItem[data] /\ s # "slotNone"

\* A gun of a slot is what the slot shows, and a slot shows what belongs there.
Shown(l) ==
    /\ \A s \in DOMAIN l.guns : s \in DOMAIN l.equip /\ l.equip[s] = l.guns[s]
    /\ \A s \in DOMAIN l.equip : Fits(s, l.equip[s].data)

\* What fits a slot of guns is a gun.
LEMMA ShotIs == ASSUME NEW s \in GunSlots, NEW data, Fits(s, data) PROVE data \in Firearms
  BY DEF Fits, GunSlots, Firearms, Guns, PlaceItem

\* One stack a kind.
Single(l) ==
    \A u, v \in DOMAIN l.items : l.items[u].data \in Stackable /\ l.items[u].data = l.items[v].data => u = v

\* Whatever has met under a number.
Sound(l) == Typed(l) /\ Shown(l) /\ Single(l) /\ (l.uid = 0 => DOMAIN l.items = {})

\* A hand is empty, or holds a gun or a wall that is there, or there is no gun.
InHand(l) ==
    \/ l.hand = 0 \/ l.guns = Nothing
    \/ l.hand \in DOMAIN l.items /\ l.items[l.hand].data \in Firearms \cup {"gloo"}

\* As long as no two items have met: a slot shows an item that is held, of that kind and in
\* no other slot; a mount is that of a gun that is held.
Faithful(l) ==
    /\ \A s \in DOMAIN l.equip : l.equip[s].unique \in DOMAIN l.items
                                  /\ l.items[l.equip[s].unique].data = l.equip[s].data
    /\ \A s, t \in DOMAIN l.equip : l.equip[s].unique = l.equip[t].unique => s = t
    /\ \A m \in l.mounts : m.gun \in DOMAIN l.items /\ l.items[m.gun].data \in Firearms
    /\ InHand(l)

\* What m has that l has not: the rest is the same.
Same(l, m) == m.uid = l.uid /\ m.before = l.before /\ m.armour = l.armour

\* A tracked item takes the entry of its number and touches nothing else.
LEMMA TrackIs ==
    ASSUME NEW l, Shaped(l), NEW it
    PROVE  LET m == Track(l, it)
           IN  /\ Shaped(m) /\ Same(l, m) /\ m.items = With(l.items, it.unique, it) /\ m.guns = l.guns
               /\ m.equip = l.equip /\ m.hand = l.hand /\ m.mounts = l.mounts
  BY DEF Track, Shaped, Same

\* Equipping writes one slot.
LEMMA SetEquipIs ==
    ASSUME NEW l, Shaped(l), NEW slot, NEW data, NEW u
    PROVE  LET m == SetEquip(l, slot, data, u)
           IN  /\ Shaped(m) /\ Same(l, m) /\ m.items = l.items /\ m.guns = l.guns
               /\ m.equip = With(l.equip, slot, At(u, data)) /\ m.hand = l.hand /\ m.mounts = l.mounts
  BY DEF SetEquip, Shaped, Same

\* Clearing a slot touches that slot alone.
LEMMA ClearEquipIs ==
    ASSUME NEW l, Shaped(l), NEW slot
    PROVE  LET m == ClearEquip(l, slot)
           IN  /\ Shaped(m) /\ Same(l, m) /\ m.items = l.items /\ m.guns = l.guns
               /\ m.equip = Less(l.equip, slot) /\ m.hand = l.hand /\ m.mounts = l.mounts
  BY DEF ClearEquip, Shaped, Same

\* Arming a slot writes one entry of the guns.
LEMMA SetGunIs ==
    ASSUME NEW l, Shaped(l), NEW slot, NEW data, NEW u
    PROVE  LET m == SetGun(l, slot, data, u)
           IN  /\ Shaped(m) /\ Same(l, m) /\ m.items = l.items /\ m.guns = With(l.guns, slot, At(u, data))
               /\ m.equip = l.equip /\ m.hand = l.hand /\ m.mounts = l.mounts
  BY DEF SetGun, Shaped, Same

\* What leaves takes its entry, its mounts and the hand with it.
LEMMA UntrackIs ==
    ASSUME NEW l, Shaped(l), NEW u
    PROVE  LET m == Untrack(l, u)
           IN  /\ Shaped(m) /\ Same(l, m) /\ m.items = Less(l.items, u) /\ m.guns = l.guns
               /\ m.equip = l.equip /\ m.hand = (IF l.hand = u THEN 0 ELSE l.hand)
               /\ m.mounts = {x \in l.mounts : x.gun # u}
<1> DEFINE m == Untrack(l, u)
           i == Less(l.items, u)
           mo == {x \in l.mounts : x.gun # u}
           h == IF l.hand = u THEN 0 ELSE l.hand
<1>1. m = [l EXCEPT !.items = i, !.mounts = mo, !.hand = h]
  BY DEF Untrack
<1> HIDE DEF m, i, mo, h
<1>2. Shaped(m) /\ Same(l, m) /\ m.items = i /\ m.guns = l.guns /\ m.equip = l.equip /\ m.hand = h /\ m.mounts = mo
  BY <1>1 DEF Shaped, Same
<1> QED
  BY <1>2 DEF m, i, mo, h

\* m is l with the attachments of a gun.
Built(m, l, gun, data) ==
    LET new == WeaponMaxAttachments[data]
        numbers == (l.uid + 1) .. (l.uid + Len(new))
    IN  /\ Shaped(m) /\ m.uid = l.uid + Len(new) /\ m.before = l.before /\ m.armour = l.armour
        /\ m.items = [u \in numbers \cup DOMAIN l.items |->
                         IF u \in numbers THEN Item(u, new[u - l.uid], 1) ELSE l.items[u]]
        /\ m.guns = l.guns /\ m.equip = l.equip /\ m.hand = l.hand
        /\ m.mounts = l.mounts \cup {[gun |-> gun, item |-> u] : u \in numbers}

\* The attachments of a gun are new items, mounted on it.
LEMMA BuildIs ==
    ASSUME NEW l, Shaped(l), NEW gun, NEW data
    PROVE  Built(BuildWeaponAttachments(l, gun, data), l, gun, data)
<1> DEFINE m == BuildWeaponAttachments(l, gun, data)
           new == WeaponMaxAttachments[data]
           numbers == (l.uid + 1) .. (l.uid + Len(new))
           i == [u \in numbers \cup DOMAIN l.items |-> IF u \in numbers THEN Item(u, new[u - l.uid], 1) ELSE l.items[u]]
           mo == l.mounts \cup {[gun |-> gun, item |-> u] : u \in numbers}
           n == l.uid + Len(new)
<1>1. m = [l EXCEPT !.uid = n, !.items = i, !.mounts = mo]
  BY DEF BuildWeaponAttachments
<1> HIDE DEF m, i, mo, n
<1>2. /\ Shaped(m) /\ m.uid = n /\ m.before = l.before /\ m.armour = l.armour
      /\ m.items = i /\ m.guns = l.guns /\ m.equip = l.equip /\ m.hand = l.hand /\ m.mounts = mo
  BY <1>1 DEF Shaped
<1> QED
  BY <1>2 DEF m, i, mo, n, Built

\* Rounds are a stack of their own under the next number.
LEMMA AmmoIs ==
    ASSUME NEW l, Shaped(l), NEW data
    PROVE  LET m == GiveAmmoStacks(l, data)
           IN  /\ Shaped(m) /\ m.uid = l.uid + 1 /\ m.before = l.before /\ m.armour = l.armour
               /\ m.items = With(l.items, l.uid + 1, Item(l.uid + 1, Ammo[data], 1)) /\ m.guns = l.guns
               /\ m.equip = l.equip /\ m.hand = l.hand /\ m.mounts = l.mounts
<1> DEFINE it == Item(l.uid + 1, Ammo[data], 1)
           a == Track(l, it)
           m == GiveAmmoStacks(l, data)
<1>1. /\ Shaped(a) /\ Same(l, a) /\ a.items = With(l.items, it.unique, it) /\ a.guns = l.guns
      /\ a.equip = l.equip /\ a.hand = l.hand /\ a.mounts = l.mounts
  BY TrackIs
<1>2. m = [a EXCEPT !.uid = @ + 1] /\ it.unique = l.uid + 1
  BY DEF GiveAmmoStacks, Item
<1> HIDE DEF a, m, it
<1>3. /\ Shaped(m) /\ m.uid = a.uid + 1 /\ m.before = a.before /\ m.armour = a.armour
      /\ m.items = a.items /\ m.guns = a.guns /\ m.equip = a.equip /\ m.hand = a.hand /\ m.mounts = a.mounts
  BY <1>1, <1>2 DEF Shaped
<1>4. m.uid = l.uid + 1 /\ m.before = l.before /\ m.armour = l.armour /\ m.items = With(l.items, l.uid + 1, it)
  BY <1>1, <1>2, <1>3 DEF Same
<1> QED
  BY <1>1, <1>3, <1>4 DEF m, it

\* What a gun that leaves its slot takes with it.
LEMMA WeaponOutIs ==
    ASSUME NEW l, Shaped(l), NEW slot
    PROVE  LET m == RemoveLoadoutWeapon(l, slot)
               u == l.guns[slot].unique
           IN  /\ Shaped(m) /\ Same(l, m) /\ m.items = Less(l.items, u) /\ m.guns = Less(l.guns, slot)
               /\ m.equip = Less(l.equip, slot) /\ m.hand = (IF l.hand = u THEN 0 ELSE l.hand)
               /\ m.mounts = {x \in l.mounts : x.gun # u}
<1> DEFINE a == [l EXCEPT !.guns = Less(@, slot)]
           b == ClearEquip(a, slot)
<1>1. /\ Shaped(a) /\ Same(l, a) /\ a.items = l.items /\ a.guns = Less(l.guns, slot) /\ a.equip = l.equip
      /\ a.hand = l.hand /\ a.mounts = l.mounts
  BY DEF Shaped, Same
<1> HIDE DEF a
<1>2. /\ Shaped(b) /\ Same(a, b) /\ b.items = a.items /\ b.guns = a.guns
      /\ b.equip = Less(a.equip, slot) /\ b.hand = a.hand /\ b.mounts = a.mounts
  BY <1>1, ClearEquipIs
<1>3. RemoveLoadoutWeapon(l, slot) = Untrack(b, l.guns[slot].unique)
  BY DEF RemoveLoadoutWeapon, a
<1> HIDE DEF b
<1> QED
  BY <1>1, <1>2, <1>3, UntrackIs DEF Same

\* An item that leaves a loadout leaves the slot that shows it.
LEMMA RemovedIs ==
    ASSUME NEW l, Sound(l), Faithful(l), NEW u, NEW m \in RemoveTrackedItem(l, u)
    PROVE  LET out == SlotsOf(l.equip, u)
           IN  /\ Shaped(m) /\ Same(l, m) /\ m.items = Less(l.items, u) /\ m.guns = Apart(l.guns, out)
               /\ m.equip = Apart(l.equip, out) /\ m.hand = (IF l.hand = u THEN 0 ELSE l.hand)
               /\ m.mounts = {x \in l.mounts : x.gun # u}
<1> DEFINE out == SlotsOf(l.equip, u)
           shot == SlotsOf(l.guns, u)
           slots == IF shot # {} THEN shot ELSE out
           a(s) == [l EXCEPT !.guns = IF shot # {} THEN Less(@, s) ELSE @]
           b(s) == ClearEquip(a(s), s)
<1>1. Shaped(l) /\ l.guns = [x \in DOMAIN l.guns |-> l.guns[x]] /\ l.equip = [x \in DOMAIN l.equip |-> l.equip[x]]
  BY DEF Sound, Typed, Table
<1>2. shot \subseteq out /\ \A s, t \in out : s = t
  BY DEF Sound, Shown, Faithful, SlotsOf
<1>3. out \cap DOMAIN l.guns = shot
  BY DEF Sound, Shown, SlotsOf
<1>4. m \in IF slots = {} THEN {Untrack(l, u)} ELSE {Untrack(b(s), u) : s \in slots}
  BY DEF RemoveTrackedItem
<1>5. CASE slots = {}
  <2>1. out = {} /\ m = Untrack(l, u)
    BY <1>2, <1>4, <1>5
  <2>2. Apart(l.guns, out) = l.guns /\ Apart(l.equip, out) = l.equip
    BY <1>1, <2>1 DEF Apart
  <2> HIDE DEF out
  <2>3. /\ Shaped(m) /\ Same(l, m) /\ m.items = Less(l.items, u) /\ m.guns = l.guns
        /\ m.equip = l.equip /\ m.hand = (IF l.hand = u THEN 0 ELSE l.hand)
        /\ m.mounts = {x \in l.mounts : x.gun # u}
    BY <1>1, <2>1, UntrackIs
  <2> QED
    BY <2>2, <2>3 DEF out
<1>6. CASE slots # {}
  <2>1. PICK s \in slots : m = Untrack(b(s), u)
    <3> HIDE DEF slots, b
    <3> QED
      BY <1>4, <1>6
  <2>2. out = {s} /\ (shot = {} \/ shot = {s})
    BY <1>2, <2>1
  <2>3. /\ Shaped(a(s)) /\ Same(l, a(s)) /\ a(s).items = l.items /\ a(s).equip = l.equip
        /\ a(s).guns = (IF shot # {} THEN Less(l.guns, s) ELSE l.guns)
        /\ a(s).hand = l.hand /\ a(s).mounts = l.mounts
    <3> HIDE DEF shot
    <3> QED
      BY <1>1 DEF Shaped, Same
  <2>4. Less(l.equip, s) = Apart(l.equip, out)
    BY <2>2 DEF Less, Apart
  <2>5. a(s).guns = Apart(l.guns, out)
    <3>1. CASE shot # {}
      BY <2>2, <2>3, <3>1 DEF Less, Apart
    <3>2. CASE shot = {}
      <4>1. DOMAIN l.guns \ out = DOMAIN l.guns
        BY <1>3, <3>2
      <4> HIDE DEF shot, a, out
      <4> QED
        BY <1>1, <2>3, <3>2, <4>1 DEF Apart
    <3> QED
      BY <3>1, <3>2
  <2> HIDE DEF a, out, shot
  <2>6. /\ Shaped(b(s)) /\ Same(a(s), b(s)) /\ b(s).items = a(s).items /\ b(s).guns = a(s).guns
        /\ b(s).equip = Less(a(s).equip, s) /\ b(s).hand = a(s).hand /\ b(s).mounts = a(s).mounts
    BY <2>3, ClearEquipIs
  <2> HIDE DEF b
  <2>7. /\ Shaped(m) /\ Same(b(s), m) /\ m.items = Less(b(s).items, u) /\ m.guns = b(s).guns
        /\ m.equip = b(s).equip /\ m.hand = (IF b(s).hand = u THEN 0 ELSE b(s).hand)
        /\ m.mounts = {x \in b(s).mounts : x.gun # u}
    BY <2>1, <2>6, UntrackIs
  <2>8. Same(l, m)
    BY <2>3, <2>6, <2>7 DEF Same
  <2>9. m.items = Less(l.items, u) /\ m.guns = Apart(l.guns, out) /\ m.equip = Apart(l.equip, out)
    BY <2>3, <2>4, <2>5, <2>6, <2>7
  <2> QED
    BY <2>3, <2>6, <2>7, <2>8, <2>9 DEF out
<1> QED
  BY <1>5, <1>6

-----------------------------------------------------------------------------
(* The invariant.                                                          *)

ItemsInv ==
    /\ loadout = [p \in Fighters |-> loadout[p]] /\ \A p \in Fighters : Sound(loadout[p])
    /\ boxes \in Boxes /\ walls \in Seq(Fighters) /\ revived \subseteq Fighters /\ clashed \in BOOLEAN
    /\ WallsCapped
    /\ ~ clashed => /\ \A p \in Fighters : Faithful(loadout[p])
                    /\ GunsHeld(Fighters) + GunsIn(boxes) = issued

\* The guns of a loadout can be counted.
LEMMA GunsCounted ==
    ASSUME NEW l, Typed(l)
    PROVE  IsFiniteSet(GunNumbers(l)) /\ Cardinality(GunNumbers(l)) \in Nat
<1>1. GunNumbers(l) \in SUBSET Numbers
  BY DEF Typed, Table, GunNumbers
<1>2. IsFiniteSet(Numbers)
  BY FS_Interval, MatchItemsAssumption DEF Numbers
<1> QED
  BY <1>1, <1>2, FS_Subset, FS_CardinalityType

\* A step of one loadout keeps the invariant, if what it comes to is sound, and no gun is
\* lost or doubled between it and the ground.
LEMMA OneLoadout ==
    ASSUME ItemsInv, ~ clashed, NEW p \in Fighters, NEW m, Sound(m), loadout' = [loadout EXCEPT ![p] = m],
           clashed' \in BOOLEAN, ~ clashed' => Faithful(m), boxes' \in Boxes,
           walls' \in Seq(Fighters), WallsCapped', revived' \subseteq Fighters,
           ~ clashed' => issued' = issued + (Cardinality(GunNumbers(m)) - Cardinality(GunNumbers(loadout[p])))
                                          + (GunsIn(boxes') - GunsIn(boxes))
    PROVE  ItemsInv'
<1> DEFINE A == Fighters
           F == [q \in A |-> GunNumbers(loadout[q])]
           G == [q \in A |-> GunNumbers(loadout'[q])]
<1>1. loadout = [q \in Fighters |-> loadout[q]] /\ boxes \in Boxes
  BY DEF ItemsInv
<1>2. /\ loadout' = [q \in Fighters |-> loadout'[q]] /\ loadout'[p] = m
      /\ \A q \in Fighters \ {p} : loadout'[q] = loadout[q]
  BY <1>1
<1>3. \A q \in Fighters : Sound(loadout[q]) /\ Sound(loadout'[q])
  BY <1>2 DEF ItemsInv
<1>4. ASSUME ~ clashed' PROVE GunsHeld(Fighters)' + GunsIn(boxes') = issued'
  <2>1. GunsHeld(Fighters) = Cardinality(PairsOf(A, F))
    BY HeldIsPairs
  <2>2. GunsHeld(Fighters)' = Cardinality(PairsOf(A, G))
    <3>1. UNION {{q} \X {u \in DOMAIN loadout'[q].items : loadout'[q].items[u].data \in Guns} : q \in A} = PairsOf(A, G)
      BY DEF PairsOf, GunNumbers
    <3> QED
      BY <3>1 DEF GunsHeld
  <2>3. \A q \in A : IsFiniteSet(F[q]) /\ IsFiniteSet(G[q])
    BY <1>3, GunsCounted DEF Sound
  <2>4. \A q \in A \ {p} : F[q] = G[q]
    BY <1>2
  <2>5. F[p] = GunNumbers(loadout[p]) /\ G[p] = GunNumbers(m)
    BY <1>2
  <2>6. IsFiniteSet(A) /\ p \in A
    BY MatchItemsAssumption
  <2> HIDE DEF F, G, A
  <2>7. /\ Cardinality(PairsOf(A, F)) \in Nat /\ Cardinality(PairsOf(A, G)) \in Nat
        /\ Cardinality(F[p]) \in Nat /\ Cardinality(G[p]) \in Nat
        /\ Cardinality(PairsOf(A, G)) - Cardinality(PairsOf(A, F)) = Cardinality(G[p]) - Cardinality(F[p])
    BY <2>3, <2>4, <2>6, PairsChange
  <2>8. GunsIn(boxes) \in Nat /\ GunsIn(boxes') \in Nat
    <3>1. 1 \in 1 .. MaxBoxes
      BY MatchItemsAssumption
    <3>2. boxes[1] \in Seq(ItemRecords) /\ boxes'[1] \in Seq(ItemRecords)
      BY <1>1, <3>1 DEF Boxes
    <3> QED
      BY <1>1, <3>1, <3>2, BoxChange
  <2>9. GunsHeld(Fighters) + GunsIn(boxes) = issued
    BY DEF ItemsInv
  <2>10. issued' = issued + (Cardinality(G[p]) - Cardinality(F[p])) + (GunsIn(boxes') - GunsIn(boxes))
    BY <1>4, <2>5
  <2> QED
    BY <2>1, <2>2, <2>7, <2>8, <2>9, <2>10
<1>5. ASSUME ~ clashed' PROVE \A q \in Fighters : Faithful(loadout'[q])
  BY <1>2, <1>5 DEF ItemsInv
<1> QED
  BY <1>2, <1>3, <1>4, <1>5 DEF ItemsInv

\* The guns there should be are counted.
LEMMA IssuedIs ==
    ASSUME ItemsInv, ~ clashed
    PROVE  GunsIn(boxes) \in Nat /\ GunsHeld(Fighters) \in Nat /\ issued = GunsHeld(Fighters) + GunsIn(boxes) /\ issued \in Int
<1>1. 1 \in 1 .. MaxBoxes
  BY MatchItemsAssumption
<1>2. boxes \in Boxes /\ boxes[1] \in Seq(ItemRecords)
  BY <1>1 DEF Boxes, ItemsInv
<1>3. \A q \in Fighters : IsFiniteSet([r \in Fighters |-> GunNumbers(loadout[r])][q])
  BY GunsCounted DEF Sound, ItemsInv
<1>4. GunsHeld(Fighters) \in Nat
  <2>1. CASE Fighters = {}
    BY <2>1, MatchItemsAssumption
  <2>2. CASE Fighters # {}
    BY <1>3, <2>2, PairsChange, HeldIsPairs, MatchItemsAssumption
  <2> QED
    BY <2>1, <2>2
<1>5. GunsIn(boxes) \in Nat
  BY <1>1, <1>2, BoxChange
<1> QED
  BY <1>4, <1>5 DEF ItemsInv

\* The same, where only the loadout changes, and no gun comes or goes.
LEMMA QuietStep ==
    ASSUME ItemsInv, ~ clashed, NEW p \in Fighters, NEW m, Sound(m), loadout' = [loadout EXCEPT ![p] = m],
           clashed' \in BOOLEAN, ~ clashed' => Faithful(m) /\ GunNumbers(m) = GunNumbers(loadout[p]),
           UNCHANGED <<boxes, walls, revived, issued>>
    PROVE  ItemsInv'
<1>1. /\ boxes' \in Boxes /\ walls' \in Seq(Fighters) /\ WallsCapped' /\ revived' \subseteq Fighters
      /\ issued' = issued /\ boxes' = boxes
  BY DEF ItemsInv, WallsCapped
<1>2. ~ clashed' => issued' = issued + (Cardinality(GunNumbers(m)) - Cardinality(GunNumbers(loadout[p])))
                                     + (GunsIn(boxes') - GunsIn(boxes))
  <2> SUFFICES ASSUME ~ clashed' PROVE issued' = issued + (Cardinality(GunNumbers(m)) - Cardinality(GunNumbers(loadout[p])))
                                                        + (GunsIn(boxes') - GunsIn(boxes))
    OBVIOUS
  <2>1. Cardinality(GunNumbers(m)) \in Nat /\ Typed(loadout[p])
    BY GunsCounted DEF Sound, ItemsInv
  <2>2. GunsIn(boxes) \in Nat
    BY IssuedIs
  <2>3. issued \in Int
    BY IssuedIs
  <2>4. Cardinality(GunNumbers(m)) = Cardinality(GunNumbers(loadout[p]))
    OBVIOUS
  <2> QED
    BY <1>1, <2>1, <2>2, <2>3, <2>4
<1> QED
  BY <1>1, <1>2, OneLoadout

-----------------------------------------------------------------------------
(* Walls.                                                                  *)

\* An element that is taken out is no longer counted.
LEMMA RemovedCount ==
    ASSUME NEW S, NEW q \in Seq(S), NEW i \in DOMAIN q, NEW K
    PROVE  /\ RemoveAt(q, i) \in Seq(S) /\ CountIn(RemoveAt(q, i), K) \in Nat
           /\ CountIn(q, K) = CountIn(RemoveAt(q, i), K) + (IF q[i] \in K THEN 1 ELSE 0)
<1> DEFINE N == Len(q)
           a == SubSeq(q, 1, i - 1)
           b == SubSeq(q, i + 1, N)
           e == q[i]
<1>1. N \in Nat /\ DOMAIN q = 1 .. N /\ i \in 1 .. N /\ \A j \in 1 .. N : q[j] \in S
  BY LenProperties, ElementOfSeq
<1>2. a \in Seq(S) /\ b \in Seq(S) /\ e \in S /\ <<e>> \in Seq(S)
  <2>1. /\ 1 \in Int /\ i - 1 \in Int /\ i + 1 \in Int /\ N \in Int
        /\ \A j \in 1 .. i - 1 : q[j] \in S
        /\ \A j \in i + 1 .. N : q[j] \in S
    BY <1>1
  <2>2. a \in Seq(S) /\ b \in Seq(S)
    BY <2>1, SubSeqProperties
  <2> QED
    BY <1>1, <2>2
<1>3. SubSeq(q, i, N) = <<e>> \o b
  <2>1. i \in 1 .. Len(q) /\ N \in i .. Len(q)
    BY <1>1
  <2> QED
    BY <2>1, SubSeqRecursiveFirst
<1>4. q = a \o SubSeq(q, i, N)
  <2>1. 1 \in 1 .. Len(q) + 1 /\ i - 1 \in 1 - 1 .. Len(q) /\ N \in i - 1 .. Len(q) /\ (i - 1) + 1 = i
    BY <1>1
  <2>2. SubSeq(q, 1, i - 1) \o SubSeq(q, (i - 1) + 1, N) = SubSeq(q, 1, N)
    BY <2>1, ConcatAdjacentSubSeq
  <2>3. SubSeq(q, 1, N) = q
    BY SubSeqFull
  <2> QED
    BY <2>1, <2>2, <2>3
<1>5. RemoveAt(q, i) = a \o b
  BY DEF RemoveAt
<1> HIDE DEF a, b, e, N
<1>6. q = a \o (<<e>> \o b)
  BY <1>3, <1>4
<1>7. <<e>> \o b \in Seq(S) /\ a \o b \in Seq(S)
  BY <1>2, ConcatProperties
<1>8. CountIn(a \o (<<e>> \o b), K) = CountIn(a, K) + CountIn(<<e>> \o b, K)
  BY <1>2, <1>7, CountJoined
<1>9. CountIn(<<e>> \o b, K) = CountIn(<<e>>, K) + CountIn(b, K)
  BY <1>2, CountJoined
<1>10. CountIn(a \o b, K) = CountIn(a, K) + CountIn(b, K)
  BY <1>2, CountJoined
<1>11. CountIn(<<e>>, K) = IF e \in K THEN 1 ELSE 0
  BY <1>2, CountOne
<1>12. CountIn(a, K) \in Nat /\ CountIn(b, K) \in Nat /\ CountIn(a \o b, K) \in Nat
  BY <1>2, <1>7, CountIs
<1>13. CountIn(q, K) = CountIn(a, K) + ((IF e \in K THEN 1 ELSE 0) + CountIn(b, K))
  BY <1>6, <1>8, <1>9, <1>11, Zenon
<1> QED
  BY <1>5, <1>7, <1>10, <1>12, <1>13 DEF e

\* The walls of a player are counted.
LEMMA CappedIs ==
    WallsCapped <=> \A p \in Fighters : CountIn(walls, {p}) <= GlooWallCap
<1>1. \A p \in Fighters : {i \in DOMAIN walls : walls[i] = p} = {i \in DOMAIN walls : walls[i] \in {p}}
  OBVIOUS
<1> QED
  BY <1>1 DEF WallsCapped, CountIn

\* Who has one wall too many loses the oldest.
LEMMA TrimmedIs ==
    ASSUME NEW ws \in Seq(Fighters), NEW p \in Fighters,
           CountIn(ws, {p}) <= GlooWallCap + 1, \A r \in Fighters \ {p} : CountIn(ws, {r}) <= GlooWallCap
    PROVE  /\ TrimWalls(ws, p) \in Seq(Fighters)
           /\ \A r \in Fighters : CountIn(TrimWalls(ws, p), {r}) <= GlooWallCap
<1> DEFINE own == {i \in DOMAIN ws : ws[i] = p}
           i == Min(own)
<1>1. Cardinality(own) = CountIn(ws, {p}) /\ CountIn(ws, {p}) \in Nat /\ GlooWallCap \in Nat
  <2>1. own = {j \in DOMAIN ws : ws[j] \in {p}}
    OBVIOUS
  <2> QED
    BY <2>1, CountIs, MatchItemsAssumption DEF CountIn
<1>2. CASE Cardinality(own) > GlooWallCap
  <2>1. own \subseteq Nat
    BY LenProperties
  <2>2. own # {}
    <3> HIDE DEF own
    <3> SUFFICES ASSUME own = {} PROVE FALSE
      OBVIOUS
    <3>1. Cardinality(own) = 0
      BY FS_EmptySet
    <3> QED
      BY <1>1, <1>2, <3>1
  <2>3. i \in own
    <3> HIDE DEF own
    <3>1. \E x \in own : \A y \in own : x <= y
      BY <2>1, <2>2, LeastNat
    <3> QED
      BY <3>1 DEF Min
  <2>4. TrimWalls(ws, p) = RemoveAt(ws, i)
    BY <1>2 DEF TrimWalls
  <2>5. i \in DOMAIN ws /\ ws[i] = p
    BY <2>3
  <2> HIDE DEF own, i
  <2>6. /\ RemoveAt(ws, i) \in Seq(Fighters)
        /\ \A r \in Fighters : /\ CountIn(RemoveAt(ws, i), {r}) \in Nat
                               /\ CountIn(ws, {r}) = CountIn(RemoveAt(ws, i), {r}) + (IF ws[i] \in {r} THEN 1 ELSE 0)
    BY <2>5, RemovedCount
  <2>7. \A r \in Fighters : CountIn(RemoveAt(ws, i), {r}) <= GlooWallCap
    <3> TAKE r \in Fighters
    <3>1. CASE r = p
      <4>1. CountIn(ws, {p}) = CountIn(RemoveAt(ws, i), {p}) + 1 /\ CountIn(RemoveAt(ws, i), {p}) \in Nat
        BY <2>5, <2>6
      <4> QED
        BY <1>1, <3>1, <4>1
    <3>2. CASE r # p
      <4>1. CountIn(ws, {r}) = CountIn(RemoveAt(ws, i), {r}) + 0 /\ CountIn(RemoveAt(ws, i), {r}) \in Nat
        BY <2>5, <2>6, <3>2
      <4>2. CountIn(ws, {r}) <= GlooWallCap
        BY <3>2
      <4> QED
        BY <1>1, <4>1, <4>2
    <3> QED
      BY <3>1, <3>2
  <2> QED
    BY <2>4, <2>6, <2>7
<1>3. CASE ~ (Cardinality(own) > GlooWallCap)
  <2>1. TrimWalls(ws, p) = ws
    BY <1>3 DEF TrimWalls
  <2>2. CountIn(ws, {p}) <= GlooWallCap
    BY <1>1, <1>3
  <2> QED
    BY <2>1, <2>2
<1> QED
  BY <1>2, <1>3

\* A wall is placed.
LEMMA PlacedWalls ==
    ASSUME walls \in Seq(Fighters), WallsCapped, NEW p \in Fighters, walls' = TrimWalls(Append(walls, p), p)
    PROVE  walls' \in Seq(Fighters) /\ WallsCapped'
<1> DEFINE ws == Append(walls, p)
<1>1. ws \in Seq(Fighters)
  BY AppendProperties
<1>2. \A r \in Fighters : CountIn(ws, {r}) = CountIn(walls, {r}) + (IF p \in {r} THEN 1 ELSE 0)
  BY CountNext
<1>3. \A r \in Fighters : CountIn(walls, {r}) <= GlooWallCap /\ CountIn(walls, {r}) \in Nat /\ GlooWallCap \in Nat
  BY CappedIs, CountIs, MatchItemsAssumption
<1> HIDE DEF ws
<1>4. CountIn(ws, {p}) <= GlooWallCap + 1
  <2>1. CountIn(ws, {p}) = CountIn(walls, {p}) + 1
    BY <1>2
  <2>2. CountIn(walls, {p}) <= GlooWallCap /\ CountIn(walls, {p}) \in Nat /\ GlooWallCap \in Nat
    BY <1>3
  <2> QED
    BY <2>1, <2>2
<1>5. \A r \in Fighters \ {p} : CountIn(ws, {r}) <= GlooWallCap
  <2> TAKE r \in Fighters \ {p}
  <2>1. CountIn(ws, {r}) = CountIn(walls, {r}) + 0
    BY <1>2
  <2>2. CountIn(walls, {r}) <= GlooWallCap /\ CountIn(walls, {r}) \in Nat
    BY <1>3
  <2> QED
    BY <2>1, <2>2
<1>6. walls' \in Seq(Fighters) /\ \A r \in Fighters : CountIn(walls', {r}) <= GlooWallCap
  BY <1>1, <1>4, <1>5, TrimmedIs DEF ws
<1>7. \A r \in Fighters : {i \in DOMAIN walls' : walls'[i] = r} = {i \in DOMAIN walls' : walls'[i] \in {r}}
  OBVIOUS
<1> QED
  BY <1>6, <1>7 DEF WallsCapped, CountIn

\* No walls.
LEMMA NoWalls == ASSUME walls' = <<>> PROVE walls' \in Seq(Fighters) /\ WallsCapped'
<1>1. {} = {i \in DOMAIN <<>> : FALSE} /\ \A r \in Fighters : {i \in DOMAIN <<>> : <<>>[i] = r} = {}
  OBVIOUS
<1>2. Cardinality({}) = 0 /\ 0 <= GlooWallCap
  BY FS_EmptySet, MatchItemsAssumption
<1>3. <<>> \in Seq(Fighters)
  BY EmptySeq
<1> QED
  BY <1>1, <1>2, <1>3 DEF WallsCapped

\* A wall that falls is one wall fewer.
LEMMA WallsFallStep == ASSUME ItemsInv, ~ clashed, WallsFall PROVE ItemsInv'
<1>1. PICK i \in DOMAIN walls : walls' = RemoveAt(walls, i)
  BY DEF WallsFall
<1>2. UNCHANGED <<loadout, boxes, revived, clashed, issued>>
  BY DEF WallsFall
<1>3. walls \in Seq(Fighters) /\ WallsCapped
  BY DEF ItemsInv
<1>4. /\ walls' \in Seq(Fighters)
      /\ \A r \in Fighters : /\ CountIn(walls', {r}) \in Nat
                             /\ CountIn(walls, {r}) = CountIn(walls', {r}) + (IF walls[i] \in {r} THEN 1 ELSE 0)
  BY <1>1, <1>3, RemovedCount
<1>5. \A r \in Fighters : CountIn(walls', {r}) <= GlooWallCap
  <2> TAKE r \in Fighters
  <2>1. CountIn(walls, {r}) <= GlooWallCap /\ GlooWallCap \in Nat
    BY <1>3, CappedIs, MatchItemsAssumption
  <2>2. CountIn(walls', {r}) \in Nat /\ (CountIn(walls, {r}) = CountIn(walls', {r}) + 1 \/ CountIn(walls, {r}) = CountIn(walls', {r}) + 0)
    BY <1>4
  <2> QED
    BY <2>1, <2>2
<1>6. WallsCapped'
  <2>1. \A r \in Fighters : {j \in DOMAIN walls' : walls'[j] = r} = {j \in DOMAIN walls' : walls'[j] \in {r}}
    OBVIOUS
  <2> QED
    BY <1>5, <2>1 DEF WallsCapped, CountIn
<1>7. GunsHeld(Fighters)' = GunsHeld(Fighters)
  BY <1>2 DEF GunsHeld
<1> QED
  BY <1>2, <1>4, <1>6, <1>7 DEF ItemsInv

-----------------------------------------------------------------------------
(* Operations of a loadout.                                                *)

\* g is f with v at x.
Extends(g, f, x, v) ==
    DOMAIN g = DOMAIN f \cup {x} /\ g[x] = v /\ \A y \in DOMAIN f : y # x => g[y] = f[y]

\* A table with an entry more is a table.
LEMMA WithIs ==
    ASSUME NEW f, NEW A, NEW B, Table(f, A, B), NEW x \in A, NEW v \in B
    PROVE  Table(With(f, x, v), A, B) /\ Extends(With(f, x, v), f, x, v)
<1>1. /\ DOMAIN With(f, x, v) = DOMAIN f \cup {x} /\ With(f, x, v)[x] = v
      /\ \A y \in DOMAIN f : y # x => With(f, x, v)[y] = f[y]
  BY DEF With
<1>2. With(f, x, v) = [y \in DOMAIN With(f, x, v) |-> With(f, x, v)[y]]
  BY DEF With
<1> QED
  BY <1>1, <1>2 DEF Table, Extends

\* A table without the entries of a set is a table.
LEMMA ApartIs ==
    ASSUME NEW f, NEW A, NEW B, Table(f, A, B), NEW S
    PROVE  /\ Table(Apart(f, S), A, B) /\ DOMAIN Apart(f, S) = DOMAIN f \ S
           /\ \A y \in DOMAIN f \ S : Apart(f, S)[y] = f[y]
<1>1. DOMAIN Apart(f, S) = DOMAIN f \ S /\ \A y \in DOMAIN f \ S : Apart(f, S)[y] = f[y]
  BY DEF Apart
<1>2. Apart(f, S) = [y \in DOMAIN Apart(f, S) |-> Apart(f, S)[y]]
  BY DEF Apart
<1> QED
  BY <1>1, <1>2 DEF Table

\* A table without one entry is a table.
LEMMA LessIs ==
    ASSUME NEW f, NEW A, NEW B, Table(f, A, B), NEW x
    PROVE  /\ Table(Less(f, x), A, B) /\ DOMAIN Less(f, x) = DOMAIN f \ {x}
           /\ \A y \in DOMAIN f \ {x} : Less(f, x)[y] = f[y]
<1>1. DOMAIN Less(f, x) = DOMAIN f \ {x} /\ \A y \in DOMAIN f \ {x} : Less(f, x)[y] = f[y]
  BY DEF Less
<1>2. Less(f, x) = [y \in DOMAIN Less(f, x) |-> Less(f, x)[y]]
  BY DEF Less
<1> QED
  BY <1>1, <1>2 DEF Table

\* The empty table is the only one with no entry.
LEMMA NothingIs ==
    ASSUME NEW f, NEW A, NEW B, Table(f, A, B)
    PROVE  f = Nothing <=> DOMAIN f = {}
  BY DEF Table, Nothing

\* An item leaves a loadout: what is left is as sound as it was.
LEMMA LeavesSound ==
    ASSUME NEW l, Sound(l), Faithful(l), NEW u \in DOMAIN l.items, NEW m \in RemoveTrackedItem(l, u)
    PROVE  Sound(m) /\ Faithful(m) /\ GunNumbers(m) = GunNumbers(l) \ {u}
<1> DEFINE out == SlotsOf(l.equip, u)
<1>1. /\ Shaped(m) /\ Same(l, m) /\ m.items = Less(l.items, u) /\ m.guns = Apart(l.guns, out)
      /\ m.equip = Apart(l.equip, out) /\ m.hand = (IF l.hand = u THEN 0 ELSE l.hand)
      /\ m.mounts = {x \in l.mounts : x.gun # u}
  BY RemovedIs
<1>2. /\ Table(l.items, Numbers, ItemRecords) /\ Table(l.guns, GunSlots, GunAts) /\ Table(l.equip, Slots, Ats)
      /\ \A v \in DOMAIN l.items : l.items[v].unique = v
      /\ l.uid \in 0 .. MaxUnique /\ l.hand \in 0 .. MaxUnique /\ l.before \in 0 .. MaxUnique
  BY DEF Sound, Typed
<1> HIDE DEF out
<1>3. /\ Table(m.items, Numbers, ItemRecords) /\ DOMAIN m.items = DOMAIN l.items \ {u}
      /\ \A v \in DOMAIN m.items : m.items[v] = l.items[v]
  <2> DEFINE i == l.items
  <2> HIDE DEF i
  <2>1. /\ Table(Less(i, u), Numbers, ItemRecords) /\ DOMAIN Less(i, u) = DOMAIN i \ {u}
        /\ \A y \in DOMAIN i \ {u} : Less(i, u)[y] = i[y]
    BY <1>2, LessIs DEF i
  <2> QED
    BY <1>1, <2>1 DEF i
<1>4. /\ Table(m.guns, GunSlots, GunAts) /\ DOMAIN m.guns = DOMAIN l.guns \ out
      /\ \A s \in DOMAIN m.guns : m.guns[s] = l.guns[s]
  <2> DEFINE i == l.guns
  <2> HIDE DEF i
  <2>1. /\ Table(Apart(i, out), GunSlots, GunAts) /\ DOMAIN Apart(i, out) = DOMAIN i \ out
        /\ \A y \in DOMAIN i \ out : Apart(i, out)[y] = i[y]
    BY <1>2, ApartIs DEF i
  <2> QED
    BY <1>1, <2>1 DEF i
<1>5. /\ Table(m.equip, Slots, Ats) /\ DOMAIN m.equip = DOMAIN l.equip \ out
      /\ \A s \in DOMAIN m.equip : m.equip[s] = l.equip[s] /\ m.equip[s].unique # u
  <2>1. \A s \in DOMAIN l.equip \ out : l.equip[s].unique # u
    BY DEF out, SlotsOf
  <2> DEFINE i == l.equip
  <2> HIDE DEF i
  <2>2. /\ Table(Apart(i, out), Slots, Ats) /\ DOMAIN Apart(i, out) = DOMAIN i \ out
        /\ \A y \in DOMAIN i \ out : Apart(i, out)[y] = i[y]
    BY <1>2, ApartIs DEF i
  <2> QED
    BY <1>1, <2>1, <2>2 DEF i
<1>6. Typed(m)
  <2>1. m.uid = l.uid /\ m.before = l.before /\ m.hand \in 0 .. MaxUnique
    BY <1>1, <1>2, MatchItemsAssumption DEF Same
  <2> QED
    BY <1>1, <1>2, <1>3, <1>4, <1>5, <2>1 DEF Typed
<1>7. Shown(m)
  BY <1>4, <1>5 DEF Shown, Sound
<1>8. Single(m) /\ (m.uid = 0 => DOMAIN m.items = {})
  BY <1>1, <1>3 DEF Single, Sound, Same
<1>9. InHand(m)
  <2>1. CASE l.guns = Nothing
    BY <1>2, <1>4, <2>1, NothingIs DEF InHand
  <2>2. CASE l.hand = 0 \/ l.hand = u
    BY <1>1, <2>2 DEF InHand
  <2>3. CASE l.hand # u /\ l.hand \in DOMAIN l.items /\ l.items[l.hand].data \in Firearms \cup {"gloo"}
    BY <1>1, <1>3, <2>3 DEF InHand
  <2> QED
    BY <2>1, <2>2, <2>3 DEF Faithful, InHand
<1>10. \A x \in m.mounts : x.gun \in DOMAIN m.items /\ m.items[x.gun].data \in Firearms
  BY <1>1, <1>3 DEF Faithful
<1>11. \A s \in DOMAIN m.equip : m.equip[s].unique \in DOMAIN m.items /\ m.items[m.equip[s].unique].data = m.equip[s].data
  BY <1>3, <1>5 DEF Faithful
<1>12. \A s, t \in DOMAIN m.equip : m.equip[s].unique = m.equip[t].unique => s = t
  BY <1>5 DEF Faithful
<1>13. GunNumbers(m) = GunNumbers(l) \ {u}
  BY <1>3 DEF GunNumbers
<1> QED
  BY <1>6, <1>7, <1>8, <1>9, <1>10, <1>11, <1>12, <1>13 DEF Sound, Faithful

\* A loadout with another hand.
Handed(l, u, before) == [l EXCEPT !.hand = u, !.before = before]

\* Changing hands changes the hand and what it held before.
LEMMA HandedIs ==
    ASSUME NEW l, Shaped(l), NEW u, NEW before
    PROVE  LET m == Handed(l, u, before)
           IN  /\ Shaped(m) /\ m.uid = l.uid /\ m.before = before /\ m.hand = u /\ m.items = l.items
               /\ m.guns = l.guns /\ m.equip = l.equip /\ m.mounts = l.mounts /\ m.armour = l.armour
<1> DEFINE m == Handed(l, u, before)
<1>1. m = [l EXCEPT !.hand = u, !.before = before]
  BY DEF Handed
<1> HIDE DEF m
<1>2. /\ Shaped(m) /\ m.uid = l.uid /\ m.before = before /\ m.hand = u /\ m.items = l.items
      /\ m.guns = l.guns /\ m.equip = l.equip /\ m.mounts = l.mounts /\ m.armour = l.armour
  BY <1>1 DEF Shaped
<1> QED
  BY <1>2 DEF m

\* A change of the held item keeps the invariant.
LEMMA HeldStep == ASSUME ItemsInv, ~ clashed, NEW p \in Fighters, ChangeHeldItem(p) PROVE ItemsInv'
<1> DEFINE l == loadout[p]
           gloo == TrackedByData(l, "gloo", 0)
<1>1. Sound(l) /\ Faithful(l) /\ loadout = [q \in Fighters |-> loadout[q]]
  BY DEF ItemsInv
<1>2. PICK u \in {0} \cup gloo \cup {l.equip[s].unique : s \in DOMAIN l.equip \cap GunSlots} :
          loadout' = [loadout EXCEPT ![p].hand = u,
                         ![p].before = IF u \in gloo /\ IsWeaponUID(l, l.hand) THEN l.hand ELSE @]
  BY DEF ChangeHeldItem
<1> DEFINE before == IF u \in gloo /\ IsWeaponUID(l, l.hand) THEN l.hand ELSE l.before
           m == Handed(l, u, before)
<1>3. loadout' = [loadout EXCEPT ![p] = m]
  BY <1>1, <1>2 DEF Handed
<1>4. before \in 0 .. MaxUnique
  BY <1>1 DEF Sound, Typed
<1>5. u \in 0 .. MaxUnique /\ (u = 0 \/ (u \in DOMAIN l.items /\ l.items[u].data \in Firearms \cup {"gloo"}))
  <2>1. CASE u = 0
    BY <2>1, MatchItemsAssumption
  <2>2. CASE u \in gloo
    BY <1>1, <2>2, MatchItemsAssumption DEF TrackedByData, Sound, Typed, Table, Numbers
  <2>3. CASE u \in {l.equip[s].unique : s \in DOMAIN l.equip \cap GunSlots}
    <3>1. PICK s \in DOMAIN l.equip \cap GunSlots : u = l.equip[s].unique
      BY <2>3
    <3>2. u \in DOMAIN l.items /\ l.items[u].data = l.equip[s].data
      BY <1>1, <3>1 DEF Faithful
    <3>3. u \in Numbers
      BY <1>1, <3>2 DEF Sound, Typed, Table
    <3>4. l.equip[s].data \in Firearms
      BY <1>1, <3>1, ShotIs DEF Sound, Shown
    <3> QED
      BY <3>2, <3>3, <3>4, MatchItemsAssumption DEF Numbers
  <2> QED
    BY <1>2, <2>1, <2>2, <2>3
<1> HIDE DEF before
<1>6. /\ Shaped(m) /\ m.uid = l.uid /\ m.before = before /\ m.hand = u /\ m.items = l.items /\ m.guns = l.guns
      /\ m.equip = l.equip /\ m.mounts = l.mounts
  <2>1. Shaped(l)
    BY <1>1 DEF Sound, Typed
  <2> HIDE DEF l
  <2> QED
    BY <2>1, HandedIs
<1> HIDE DEF m
<1>7. Sound(m)
  BY <1>1, <1>4, <1>5, <1>6 DEF Sound, Typed, Shown, Single
<1>8. Faithful(m)
  BY <1>1, <1>5, <1>6 DEF Faithful, InHand
<1>9. GunNumbers(m) = GunNumbers(l)
  BY <1>6 DEF GunNumbers
<1>10. UNCHANGED <<boxes, walls, revived, issued>> /\ clashed' \in BOOLEAN
  BY DEF ChangeHeldItem, ItemsInv
<1> QED
  BY <1>3, <1>7, <1>8, <1>9, <1>10, QuietStep

\* A dropped item keeps the invariant: it lies where it was not held.
LEMMA DropStep == ASSUME ItemsInv, ~ clashed, NEW p \in Fighters, Drop(p) PROVE ItemsInv'
<1> DEFINE l == loadout[p]
<1>1. Sound(l) /\ Faithful(l) /\ boxes \in Boxes
  BY DEF ItemsInv
<1>2. PICK u \in DOMAIN l.items : /\ \E m \in RemoveTrackedItem(l, u) : loadout' = [loadout EXCEPT ![p] = m]
                                  /\ boxes' \in DropToGround(boxes, l.items[u], {})
  BY DEF Drop
<1>3. PICK m \in RemoveTrackedItem(l, u) : loadout' = [loadout EXCEPT ![p] = m]
  BY <1>2
<1>4. Sound(m) /\ Faithful(m) /\ GunNumbers(m) = GunNumbers(l) \ {u}
  BY <1>1, LeavesSound
<1>5. l.items[u] \in ItemRecords
  BY <1>1 DEF Sound, Typed, Table
<1>6. /\ boxes' \in Boxes /\ GunsIn(boxes) \in Nat
      /\ GunsIn(boxes') = GunsIn(boxes) + (IF l.items[u].data \in Guns THEN 1 ELSE 0)
  BY <1>1, <1>2, <1>5, DropIs
<1>7. /\ Cardinality(GunNumbers(l)) \in Nat
      /\ Cardinality(GunNumbers(m)) = Cardinality(GunNumbers(l)) - (IF l.items[u].data \in Guns THEN 1 ELSE 0)
  <2>1. IsFiniteSet(GunNumbers(l)) /\ Cardinality(GunNumbers(l)) \in Nat
    BY <1>1, GunsCounted DEF Sound
  <2>2. u \in GunNumbers(l) <=> l.items[u].data \in Guns
    BY DEF GunNumbers
  <2>3. Cardinality(GunNumbers(l) \ {u}) = IF u \in GunNumbers(l) THEN Cardinality(GunNumbers(l)) - 1 ELSE Cardinality(GunNumbers(l))
    BY <2>1, FS_RemoveElement
  <2> HIDE DEF l
  <2> QED
    BY <1>4, <2>1, <2>2, <2>3
<1>8. UNCHANGED <<walls, revived, clashed, issued>>
  BY DEF Drop
<1>9. issued \in Int
  BY IssuedIs
<1>10. issued' = issued + (Cardinality(GunNumbers(m)) - Cardinality(GunNumbers(l))) + (GunsIn(boxes') - GunsIn(boxes))
  BY <1>6, <1>7, <1>8, <1>9
<1>11. /\ walls' \in Seq(Fighters) /\ WallsCapped' /\ revived' \subseteq Fighters /\ clashed' \in BOOLEAN
  BY <1>8 DEF ItemsInv, WallsCapped
<1> QED
  BY <1>3, <1>4, <1>6, <1>10, <1>11, OneLoadout

\* With another number and armour.
Numbered(l, u, worn) == [l EXCEPT !.uid = u, !.armour = worn]

\* Counting on and wearing armour touch nothing else.
LEMMA NumberedIs ==
    ASSUME NEW l, Shaped(l), NEW u, NEW worn
    PROVE  LET m == Numbered(l, u, worn)
           IN  /\ Shaped(m) /\ m.uid = u /\ m.before = l.before /\ m.hand = l.hand /\ m.items = l.items
               /\ m.guns = l.guns /\ m.equip = l.equip /\ m.mounts = l.mounts /\ m.armour = worn
<1> DEFINE m == Numbered(l, u, worn)
<1>1. m = [l EXCEPT !.uid = u, !.armour = worn]
  BY DEF Numbered
<1> HIDE DEF m
<1>2. /\ Shaped(m) /\ m.uid = u /\ m.before = l.before /\ m.hand = l.hand /\ m.items = l.items
      /\ m.guns = l.guns /\ m.equip = l.equip /\ m.mounts = l.mounts /\ m.armour = worn
  BY <1>1 DEF Shaped
<1> QED
  BY <1>2 DEF m

\* A table of a loadout with one entry more.
LEMMA ItemsWith ==
    ASSUME NEW l, Typed(l), NEW u \in Numbers, NEW it \in ItemRecords
    PROVE  Table(With(l.items, u, it), Numbers, ItemRecords) /\ Extends(With(l.items, u, it), l.items, u, it)
  BY WithIs DEF Typed

\* A slot more on the body is a table of slots.
LEMMA EquipWith ==
    ASSUME NEW l, Typed(l), NEW s \in Slots, NEW a \in Ats
    PROVE  Table(With(l.equip, s, a), Slots, Ats) /\ Extends(With(l.equip, s, a), l.equip, s, a)
  BY WithIs DEF Typed

\* A gun more is a table of guns.
LEMMA GunsWith ==
    ASSUME NEW l, Typed(l), NEW s \in GunSlots, NEW a \in GunAts
    PROVE  Table(With(l.guns, s, a), GunSlots, GunAts) /\ Extends(With(l.guns, s, a), l.guns, s, a)
  BY WithIs DEF Typed

\* An item that is no gun is bought, and goes to its slot.
LEMMA BoughtSound ==
    ASSUME NEW l, Sound(l), Faithful(l), NEW data \in {"gloo", "grenade", "vest", "kit"}, NEW u, NEW count \in Nat \ {0},
           l.uid + 1 \in Numbers, NEW m, Shaped(m), m.uid = l.uid + 1, m.before = l.before, m.hand = l.hand,
           m.items = With(l.items, u, Item(u, data, count)), m.guns = l.guns, m.mounts = l.mounts,
           m.equip = (IF PlaceItem[data] = "slotNone" THEN l.equip ELSE With(l.equip, PlaceItem[data], At(u, data))),
           \/ u \in DOMAIN l.items /\ l.items[u].data = data
           \/ u = l.uid + 1 /\ \A v \in DOMAIN l.items : l.items[v].data = data => data = "vest"
    PROVE  /\ Sound(m)
           /\ (u \in DOMAIN l.items => l.items[u].data = data) => Faithful(m) /\ GunNumbers(m) = GunNumbers(l)
<1> DEFINE it == Item(u, data, count)
           s == PlaceItem[data]
           a == At(u, data)
<1>1. u \in Numbers /\ Typed(l)
  BY DEF Sound, Typed, Table
<1>2. it \in ItemRecords /\ it.unique = u /\ it.data = data
  BY <1>1 DEF Item, ItemRecords, Kinds
<1>3. a \in Ats /\ a.unique = u /\ a.data = data
  BY <1>1 DEF At, Ats, Kinds
<1>4. s = "slotNone" \/ (s \in Slots \ GunSlots /\ Fits(s, data))
  BY DEF Slots, GunSlots, PlaceItem, Fits
<1>5. \A t : Fits(t, data) => t = s /\ s # "slotNone"
  BY DEF PlaceItem, Fits
<1>6. /\ m.items = With(l.items, u, it)
      /\ m.equip = IF s = "slotNone" THEN l.equip ELSE With(l.equip, s, a)
  OBVIOUS
<1>7. data \notin Guns /\ data # "rifle" /\ data # "pistol" /\ data # "groza"
  BY DEF Guns
<1> HIDE DEF it, s, a
<1>a. Table(m.items, Numbers, ItemRecords) /\ Extends(m.items, l.items, u, it)
  <2>1. Table(With(l.items, u, it), Numbers, ItemRecords) /\ Extends(With(l.items, u, it), l.items, u, it)
    BY <1>1, <1>2, ItemsWith
  <2> QED
    BY <1>6, <2>1
<1>b. /\ Table(m.equip, Slots, Ats)
      /\ (s = "slotNone" /\ m.equip = l.equip) \/ (s # "slotNone" /\ Extends(m.equip, l.equip, s, a))
  <2>1. CASE s = "slotNone"
    BY <1>1, <1>6, <2>1 DEF Typed
  <2>2. CASE s # "slotNone"
    <3>1. s \in Slots
      BY <1>4, <2>2
    <3>2. Table(With(l.equip, s, a), Slots, Ats) /\ Extends(With(l.equip, s, a), l.equip, s, a)
      BY <1>1, <1>3, <3>1, EquipWith
    <3> QED
      BY <1>6, <2>2, <3>2
  <2> QED
    BY <2>1, <2>2
<1>8. /\ DOMAIN m.items = DOMAIN l.items \cup {u}
      /\ m.items[u] = it /\ \A v \in DOMAIN l.items : v # u => m.items[v] = l.items[v]
  BY <1>a DEF Extends
<1>c. \A v \in DOMAIN m.items : m.items[v].unique = v
  BY <1>1, <1>2, <1>8 DEF Typed
<1>9. /\ DOMAIN m.equip = DOMAIN l.equip \cup (IF s = "slotNone" THEN {} ELSE {s})
      /\ (s # "slotNone" => m.equip[s] = a) /\ \A t \in DOMAIN l.equip : t # s => m.equip[t] = l.equip[t]
  BY <1>b DEF Extends
<1>d. ASSUME NEW t \in DOMAIN m.equip
      PROVE  \/ t = s /\ m.equip[t] = a /\ Fits(s, data)
             \/ t # s /\ t \in DOMAIN l.equip /\ m.equip[t] = l.equip[t]
  <2>1. CASE s = "slotNone"
    <3>1. t \in DOMAIN l.equip /\ m.equip[t] = l.equip[t]
      BY <1>b, <2>1
    <3>2. t \in Slots
      BY <1>1, <3>1 DEF Typed, Table
    <3> QED
      BY <2>1, <3>1, <3>2 DEF Slots, GunSlots
  <2>2. CASE s # "slotNone"
    BY <1>4, <1>9, <2>2
  <2> QED
    BY <2>1, <2>2
<1>10. Typed(m)
  <2>1. m.uid \in 0 .. MaxUnique /\ m.hand \in 0 .. MaxUnique /\ m.before \in 0 .. MaxUnique
    BY <1>1, MatchItemsAssumption DEF Typed, Numbers
  <2>2. Table(m.guns, GunSlots, GunAts)
    BY <1>1 DEF Typed
  <2> QED
    BY <1>a, <1>b, <1>c, <2>1, <2>2 DEF Typed
<1>11. Shown(m)
  <2>1. DOMAIN l.guns \subseteq GunSlots
    BY <1>1 DEF Typed, Table
  <2>2. \A t \in DOMAIN m.guns : t \in DOMAIN m.equip /\ m.equip[t] = m.guns[t]
    BY <1>4, <1>9, <2>1 DEF Sound, Shown, GunSlots
  <2>3. \A t \in DOMAIN m.equip : Fits(t, m.equip[t].data)
    <3> TAKE t \in DOMAIN m.equip
    <3>1. CASE t = s /\ m.equip[t] = a /\ Fits(s, data)
      BY <1>3, <3>1
    <3>2. CASE t \in DOMAIN l.equip /\ m.equip[t] = l.equip[t]
      BY <3>2 DEF Sound, Shown
    <3> QED
      BY <1>d, <3>1, <3>2
  <2> QED
    BY <2>2, <2>3 DEF Shown
<1>12. Single(m)
  <2> SUFFICES ASSUME NEW v \in DOMAIN m.items, NEW w \in DOMAIN m.items, m.items[v].data \in Stackable,
                      m.items[v].data = m.items[w].data, v # w PROVE FALSE
    BY DEF Single
  <2>1. "vest" \notin Stackable
    BY DEF Stackable
  <2>2. CASE v # u /\ w # u
    BY <1>8, <2>2 DEF Sound, Single
  <2>3. CASE v = u
    <3>1. w \in DOMAIN l.items /\ l.items[w].data = data /\ data \in Stackable
      BY <1>2, <1>8, <2>3
    <3> QED
      BY <2>1, <2>3, <3>1 DEF Sound, Single
  <2>4. CASE w = u
    <3>1. v \in DOMAIN l.items /\ l.items[v].data = data /\ data \in Stackable
      BY <1>2, <1>8, <2>4
    <3> QED
      BY <2>1, <2>4, <3>1 DEF Sound, Single
  <2> QED
    BY <2>2, <2>3, <2>4
<1>13. m.uid # 0
  BY DEF Numbers
<1>14. ASSUME u \in DOMAIN l.items => l.items[u].data = data PROVE Faithful(m) /\ GunNumbers(m) = GunNumbers(l)
  <2>1. \A v \in DOMAIN l.items : v \in DOMAIN m.items /\ m.items[v].data = l.items[v].data
    BY <1>2, <1>8, <1>14
  <2>2. \A t \in DOMAIN m.equip : m.equip[t].unique \in DOMAIN m.items /\ m.items[m.equip[t].unique].data = m.equip[t].data
    <3> TAKE t \in DOMAIN m.equip
    <3>1. CASE t = s /\ m.equip[t] = a
      <4>1. u \in DOMAIN m.items /\ m.items[u] = it
        BY <1>8
      <4> QED
        BY <1>2, <1>3, <3>1, <4>1
    <3>2. CASE t \in DOMAIN l.equip /\ m.equip[t] = l.equip[t]
      <4>1. l.equip[t].unique \in DOMAIN l.items /\ l.items[l.equip[t].unique].data = l.equip[t].data
        BY <3>2 DEF Faithful
      <4> QED
        BY <2>1, <3>2, <4>1
    <3> QED
      BY <1>d, <3>1, <3>2
  <2>3. \A t \in DOMAIN l.equip : l.equip[t].unique = u => t = s
    <3> TAKE t \in DOMAIN l.equip
    <3> HAVE l.equip[t].unique = u
    <3>1. u \in DOMAIN l.items /\ l.equip[t].data = l.items[u].data
      BY DEF Faithful
    <3>2. Fits(t, data)
      BY <1>14, <3>1 DEF Sound, Shown
    <3> QED
      BY <1>5, <3>2
  <2>4. \A t, r \in DOMAIN m.equip : m.equip[t].unique = m.equip[r].unique => t = r
    <3> SUFFICES ASSUME NEW t \in DOMAIN m.equip, NEW r \in DOMAIN m.equip, m.equip[t].unique = m.equip[r].unique PROVE t = r
      OBVIOUS
    <3>1. CASE t # s /\ r # s
      <4>1. t \in DOMAIN l.equip /\ r \in DOMAIN l.equip /\ m.equip[t] = l.equip[t] /\ m.equip[r] = l.equip[r]
        BY <1>d, <3>1
      <4> QED
        BY <4>1 DEF Faithful
    <3>2. CASE t = s /\ r # s
      <4>1. r \in DOMAIN l.equip /\ m.equip[r] = l.equip[r] /\ m.equip[t] = a
        BY <1>d, <3>2
      <4> QED
        BY <1>3, <2>3, <3>2, <4>1
    <3>3. CASE t # s /\ r = s
      <4>1. t \in DOMAIN l.equip /\ m.equip[t] = l.equip[t] /\ m.equip[r] = a
        BY <1>d, <3>3
      <4> QED
        BY <1>3, <2>3, <3>3, <4>1
    <3> QED
      BY <3>1, <3>2, <3>3
  <2>5. \A x \in m.mounts : x.gun \in DOMAIN m.items /\ m.items[x.gun].data \in Firearms
    BY <2>1 DEF Faithful
  <2>6. InHand(m)
    BY <2>1 DEF Faithful, InHand
  <2>7. GunNumbers(m) = GunNumbers(l)
    BY <1>2, <1>7, <1>8, <2>1 DEF GunNumbers
  <2> QED
    BY <2>2, <2>4, <2>5, <2>6, <2>7 DEF Faithful
<1> QED
  BY <1>10, <1>11, <1>12, <1>13, <1>14 DEF Sound

\* The purchase of what is no gun keeps the invariant.
LEMMA PurchaseItemStep ==
    ASSUME ItemsInv, ~ clashed, NEW p \in Fighters, NEW data \in {"gloo", "grenade", "vest", "kit"}, PurchaseItem(p, data)
    PROVE  ItemsInv'
<1> DEFINE l == loadout[p]
           new == l.uid + 1
           stacks == IF data = "vest" THEN {} ELSE TrackedByData(l, data, 0)
<1>1. Sound(l) /\ Faithful(l) /\ Typed(l) /\ Shaped(l)
  BY DEF ItemsInv, Sound, Typed
<1>2. new \in Numbers
  BY <1>1, MatchItemsAssumption DEF PurchaseItem, Typed, Numbers
<1>3. PICK u \in (IF stacks = {} THEN {new} ELSE stacks) :
          LET count == IF u \in stacks THEN l.items[u].count + 1 ELSE 1
              held == Track([l EXCEPT !.uid = new, !.armour = @ \/ data = "vest"], Item(u, data, count))
          IN  loadout' = [loadout EXCEPT ![p] =
                             IF PlaceItem[data] = "slotNone" THEN held
                             ELSE SetEquip(held, PlaceItem[data], data, u)]
  BY DEF PurchaseItem
<1>4. clashed' = (clashed \/ (stacks = {} /\ Meets(l, 1))) /\ UNCHANGED <<boxes, walls, revived, issued>>
  BY DEF PurchaseItem
<1> DEFINE count == IF u \in stacks THEN l.items[u].count + 1 ELSE 1
           a == Numbered(l, new, l.armour \/ data = "vest")
           it == Item(u, data, count)
           held == Track(a, it)
           m == IF PlaceItem[data] = "slotNone" THEN held ELSE SetEquip(held, PlaceItem[data], data, u)
<1>5. loadout' = [loadout EXCEPT ![p] = m]
  BY <1>3 DEF Numbered
<1>6. \/ u \in DOMAIN l.items /\ l.items[u].data = data /\ stacks # {}
      \/ u = new /\ stacks = {} /\ \A v \in DOMAIN l.items : l.items[v].data = data => data = "vest"
  <2>1. CASE stacks = {}
    <3>1. u = new
      BY <1>3, <2>1
    <3>2. ASSUME NEW v \in DOMAIN l.items, l.items[v].data = data, data # "vest" PROVE FALSE
      <4>1. v # 0
        BY <1>1 DEF Typed, Table, Numbers
      <4> QED
        BY <2>1, <3>2, <4>1 DEF TrackedByData
    <3> HIDE DEF stacks
    <3> QED
      BY <2>1, <3>1, <3>2
  <2>2. CASE stacks # {}
    <3>1. u \in TrackedByData(l, data, 0)
      BY <1>3, <2>2
    <3> QED
      BY <2>2, <3>1 DEF TrackedByData
  <2> QED
    BY <2>1, <2>2
<1>7. count \in Nat \ {0}
  <2>1. CASE u \in stacks
    <3>1. u \in DOMAIN l.items
      BY <2>1 DEF TrackedByData
    <3>2. l.items[u] \in ItemRecords
      BY <1>1, <3>1 DEF Typed, Table
    <3> QED
      BY <2>1, <3>2 DEF ItemRecords
  <2>2. CASE u \notin stacks
    BY <2>2
  <2> QED
    BY <2>1, <2>2
<1> HIDE DEF count, stacks
<1>8. /\ Shaped(a) /\ a.uid = new /\ a.before = l.before /\ a.hand = l.hand /\ a.items = l.items
      /\ a.guns = l.guns /\ a.equip = l.equip /\ a.mounts = l.mounts
  <2> HIDE DEF l, new
  <2> QED
    BY <1>1, NumberedIs
<1>9. it.unique = u
  BY DEF Item
<1> HIDE DEF a, it
<1>10. /\ Shaped(held) /\ Same(a, held) /\ held.items = With(a.items, u, it) /\ held.guns = a.guns
       /\ held.equip = a.equip /\ held.hand = a.hand /\ held.mounts = a.mounts
  BY <1>8, <1>9, TrackIs
<1> HIDE DEF held
<1>11. /\ Shaped(m) /\ Same(held, m) /\ m.items = held.items /\ m.guns = held.guns
       /\ m.equip = (IF PlaceItem[data] = "slotNone" THEN held.equip ELSE With(held.equip, PlaceItem[data], At(u, data)))
       /\ m.hand = held.hand /\ m.mounts = held.mounts
  <2>1. CASE PlaceItem[data] = "slotNone"
    BY <1>10, <2>1 DEF Same
  <2>2. CASE PlaceItem[data] # "slotNone"
    <3> DEFINE s == PlaceItem[data]
    <3> HIDE DEF s
    <3>1. m = SetEquip(held, s, data, u)
      BY <2>2 DEF s
    <3> HIDE DEF m
    <3> QED
      BY <1>10, <2>2, <3>1, SetEquipIs DEF s
  <2> QED
    BY <2>1, <2>2
<1> HIDE DEF m
<1>12. /\ m.uid = l.uid + 1 /\ m.before = l.before /\ m.hand = l.hand /\ m.guns = l.guns /\ m.mounts = l.mounts
       /\ m.items = With(l.items, u, Item(u, data, count))
       /\ m.equip = (IF PlaceItem[data] = "slotNone" THEN l.equip ELSE With(l.equip, PlaceItem[data], At(u, data)))
  BY <1>8, <1>10, <1>11 DEF Same, it
<1>13. /\ Sound(m)
       /\ (u \in DOMAIN l.items => l.items[u].data = data) => Faithful(m) /\ GunNumbers(m) = GunNumbers(l)
  <2>1. l.uid + 1 \in Numbers
    BY <1>2
  <2> HIDE DEF l
  <2>2. \/ u \in DOMAIN l.items /\ l.items[u].data = data
        \/ u = l.uid + 1 /\ \A v \in DOMAIN l.items : l.items[v].data = data => data = "vest"
    BY <1>6
  <2> QED
    BY <1>1, <1>7, <1>11, <1>12, <2>1, <2>2, BoughtSound
<1>14. ~ clashed' => (u \in DOMAIN l.items => l.items[u].data = data)
  <2> SUFFICES ASSUME ~ clashed', u = new, stacks = {} PROVE u \notin DOMAIN l.items
    BY <1>6
  <2>1. ~ Meets(l, 1)
    BY <1>4
  <2>2. new \in (l.uid + 1) .. (l.uid + 1)
    BY <1>2 DEF Numbers
  <2> QED
    BY <2>1, <2>2 DEF Meets
<1>15. clashed' \in BOOLEAN
  BY <1>4 DEF ItemsInv, Meets
<1> QED
  BY <1>4, <1>5, <1>13, <1>14, <1>15, QuietStep

-----------------------------------------------------------------------------
(* The operations keep the types.                                          *)

\* A tracked item, of a loadout with its types.
LEMMA TrackTyped ==
    ASSUME NEW l, Typed(l), NEW it \in ItemRecords
    PROVE  LET m == Track(l, it)
           IN  /\ Typed(m) /\ Same(l, m) /\ Extends(m.items, l.items, it.unique, it) /\ m.guns = l.guns
               /\ m.equip = l.equip /\ m.hand = l.hand /\ m.mounts = l.mounts
<1> DEFINE m == Track(l, it)
<1>1. /\ Shaped(m) /\ Same(l, m) /\ m.items = With(l.items, it.unique, it) /\ m.guns = l.guns
      /\ m.equip = l.equip /\ m.hand = l.hand /\ m.mounts = l.mounts
  BY TrackIs DEF Typed
<1>2. it.unique \in Numbers
  BY DEF ItemRecords
<1>3. Table(m.items, Numbers, ItemRecords) /\ Extends(m.items, l.items, it.unique, it)
  BY <1>1, <1>2, ItemsWith
<1> HIDE DEF m
<1>4. \A u \in DOMAIN m.items : m.items[u].unique = u
  BY <1>3 DEF Extends, Typed
<1>5. Typed(m)
  BY <1>1, <1>3, <1>4 DEF Typed, Same
<1> QED
  BY <1>1, <1>3, <1>5 DEF m

\* An equipped slot, of a loadout with its types.
LEMMA SetEquipTyped ==
    ASSUME NEW l, Typed(l), NEW s \in Slots, NEW data \in Kinds, NEW u \in Numbers
    PROVE  LET m == SetEquip(l, s, data, u)
           IN  /\ Typed(m) /\ Same(l, m) /\ m.items = l.items /\ m.guns = l.guns
               /\ Extends(m.equip, l.equip, s, At(u, data)) /\ m.hand = l.hand /\ m.mounts = l.mounts
<1> DEFINE m == SetEquip(l, s, data, u)
<1>1. /\ Shaped(m) /\ Same(l, m) /\ m.items = l.items /\ m.guns = l.guns
      /\ m.equip = With(l.equip, s, At(u, data)) /\ m.hand = l.hand /\ m.mounts = l.mounts
  BY SetEquipIs DEF Typed
<1>2. At(u, data) \in Ats
  BY DEF At, Ats
<1>3. Table(m.equip, Slots, Ats) /\ Extends(m.equip, l.equip, s, At(u, data))
  BY <1>1, <1>2, EquipWith
<1> HIDE DEF m
<1>5. Typed(m)
  BY <1>1, <1>3 DEF Typed, Same
<1> QED
  BY <1>1, <1>3, <1>5 DEF m

\* An armed slot, of a loadout with its types.
LEMMA SetGunTyped ==
    ASSUME NEW l, Typed(l), NEW s \in GunSlots, NEW data \in Firearms, NEW u \in Numbers
    PROVE  LET m == SetGun(l, s, data, u)
           IN  /\ Typed(m) /\ Same(l, m) /\ m.items = l.items /\ m.equip = l.equip
               /\ Extends(m.guns, l.guns, s, At(u, data)) /\ m.hand = l.hand /\ m.mounts = l.mounts
<1> DEFINE m == SetGun(l, s, data, u)
<1>1. /\ Shaped(m) /\ Same(l, m) /\ m.items = l.items /\ m.equip = l.equip
      /\ m.guns = With(l.guns, s, At(u, data)) /\ m.hand = l.hand /\ m.mounts = l.mounts
  BY SetGunIs DEF Typed
<1>2. At(u, data) \in GunAts
  BY DEF At, GunAts
<1>3. Table(m.guns, GunSlots, GunAts) /\ Extends(m.guns, l.guns, s, At(u, data))
  BY <1>1, <1>2, GunsWith
<1> HIDE DEF m
<1>5. Typed(m)
  BY <1>1, <1>3 DEF Typed, Same
<1> QED
  BY <1>1, <1>3, <1>5 DEF m

\* An item that leaves, of a loadout with its types.
LEMMA UntrackTyped ==
    ASSUME NEW l, Typed(l), NEW u
    PROVE  LET m == Untrack(l, u)
           IN  /\ Typed(m) /\ Same(l, m) /\ DOMAIN m.items = DOMAIN l.items \ {u}
               /\ (\A v \in DOMAIN m.items : m.items[v] = l.items[v]) /\ m.guns = l.guns
               /\ m.equip = l.equip /\ m.hand = (IF l.hand = u THEN 0 ELSE l.hand)
               /\ m.mounts = {x \in l.mounts : x.gun # u}
<1> DEFINE m == Untrack(l, u)
           f == l.items
<1>1. /\ Shaped(m) /\ Same(l, m) /\ m.items = Less(l.items, u) /\ m.guns = l.guns
      /\ m.equip = l.equip /\ m.hand = (IF l.hand = u THEN 0 ELSE l.hand)
      /\ m.mounts = {x \in l.mounts : x.gun # u}
  BY UntrackIs DEF Typed
<1>2. Table(f, Numbers, ItemRecords)
  BY DEF Typed
<1> HIDE DEF m, f
<1>3. Table(Less(f, u), Numbers, ItemRecords) /\ DOMAIN Less(f, u) = DOMAIN f \ {u} /\ \A v \in DOMAIN f \ {u} : Less(f, u)[v] = f[v]
  BY <1>2, LessIs
<1>4. Table(m.items, Numbers, ItemRecords) /\ DOMAIN m.items = DOMAIN l.items \ {u} /\ \A v \in DOMAIN m.items : m.items[v] = l.items[v]
  BY <1>1, <1>3 DEF f
<1>5. m.hand \in 0 .. MaxUnique /\ m.uid = l.uid /\ m.before = l.before
  BY <1>1, MatchItemsAssumption DEF Typed, Same
<1>6. Typed(m)
  BY <1>1, <1>4, <1>5 DEF Typed
<1> QED
  BY <1>1, <1>4, <1>6 DEF m

\* A stack of rounds, of a loadout with its types.
LEMMA AmmoTyped ==
    ASSUME NEW l, Typed(l), NEW data \in Firearms, l.uid + 1 \in Numbers
    PROVE  LET m == GiveAmmoStacks(l, data)
           IN  /\ Typed(m) /\ m.uid = l.uid + 1 /\ m.before = l.before /\ m.armour = l.armour
               /\ Extends(m.items, l.items, l.uid + 1, Item(l.uid + 1, Ammo[data], 1)) /\ m.guns = l.guns
               /\ m.equip = l.equip /\ m.hand = l.hand /\ m.mounts = l.mounts
<1> DEFINE m == GiveAmmoStacks(l, data)
           u == l.uid + 1
           it == Item(u, Ammo[data], 1)
<1>1. /\ Shaped(m) /\ m.uid = u /\ m.before = l.before /\ m.armour = l.armour
      /\ m.items = With(l.items, u, it) /\ m.guns = l.guns
      /\ m.equip = l.equip /\ m.hand = l.hand /\ m.mounts = l.mounts
  BY AmmoIs DEF Typed
<1>2. it \in ItemRecords /\ it.unique = u /\ u \in Numbers
  <2>1. Ammo[data] \in Kinds
    <3>1. CASE data = "rifle"
      BY <3>1 DEF Kinds, Ammo
    <3>2. CASE data = "pistol"
      BY <3>2 DEF Kinds, Ammo
    <3>3. CASE data = "groza"
      BY <3>3 DEF Kinds, Ammo
    <3> QED
      BY <3>1, <3>2, <3>3 DEF Firearms, Guns
  <2> QED
    BY <2>1 DEF Item, ItemRecords
<1> HIDE DEF u, it, m
<1>3. Table(m.items, Numbers, ItemRecords) /\ Extends(m.items, l.items, u, it)
  BY <1>1, <1>2, ItemsWith
<1>4. \A v \in DOMAIN m.items : m.items[v].unique = v
  BY <1>2, <1>3 DEF Extends, Typed
<1>5. m.uid \in 0 .. MaxUnique
  BY <1>1, <1>2, MatchItemsAssumption DEF Numbers
<1>6. Typed(m)
  BY <1>1, <1>3, <1>4, <1>5 DEF Typed
<1> QED
  BY <1>1, <1>3, <1>6 DEF m, u, it

\* The attachments of a gun: none or one.
LEMMA AttachmentsAre ==
    ASSUME NEW data \in Firearms
    PROVE  /\ Len(WeaponMaxAttachments[data]) \in {0, 1}
           /\ \A i \in 1 .. Len(WeaponMaxAttachments[data]) : WeaponMaxAttachments[data][i] = "magazine"
  BY DEF Firearms, Guns, WeaponMaxAttachments

\* The attachments of a gun, of a loadout with its types.
LEMMA BuildTyped ==
    ASSUME NEW l, Typed(l), NEW gun, NEW data \in Firearms, l.uid + Len(WeaponMaxAttachments[data]) \in 0 .. MaxUnique
    PROVE  LET m == BuildWeaponAttachments(l, gun, data)
               n == Len(WeaponMaxAttachments[data])
               numbers == (l.uid + 1) .. (l.uid + n)
           IN  /\ Typed(m) /\ m.uid = l.uid + n /\ m.before = l.before /\ m.armour = l.armour
               /\ DOMAIN m.items = numbers \cup DOMAIN l.items
               /\ \A v \in numbers : m.items[v].data = "magazine"
               /\ \A v \in DOMAIN l.items \ numbers : m.items[v] = l.items[v]
               /\ m.guns = l.guns /\ m.equip = l.equip /\ m.hand = l.hand
               /\ \A x \in m.mounts : x \in l.mounts \/ x.gun = gun
<1> DEFINE m == BuildWeaponAttachments(l, gun, data)
           new == WeaponMaxAttachments[data]
           n == Len(WeaponMaxAttachments[data])
           numbers == (l.uid + 1) .. (l.uid + n)
           i == [u \in numbers \cup DOMAIN l.items |-> IF u \in numbers THEN Item(u, new[u - l.uid], 1) ELSE l.items[u]]
<1>1. /\ Shaped(m) /\ m.uid = l.uid + n /\ m.before = l.before /\ m.armour = l.armour
      /\ m.items = i /\ m.guns = l.guns /\ m.equip = l.equip /\ m.hand = l.hand
      /\ m.mounts = l.mounts \cup {[gun |-> gun, item |-> u] : u \in numbers}
  <2>1. Shaped(l)
    BY DEF Typed
  <2>2. Built(m, l, gun, data)
    BY <2>1, BuildIs
  <2> HIDE DEF m
  <2> QED
    BY <2>2 DEF Built
<1>2. l.uid \in Nat /\ n \in Nat /\ numbers \subseteq Numbers
  BY AttachmentsAre, MatchItemsAssumption DEF Typed, Numbers
<1>3. \A v \in numbers : /\ Item(v, new[v - l.uid], 1) \in ItemRecords /\ Item(v, new[v - l.uid], 1).unique = v
                         /\ Item(v, new[v - l.uid], 1).data = "magazine"
  <2> TAKE v \in numbers
  <2>1. v - l.uid \in 1 .. n
    BY <1>2
  <2>2. new[v - l.uid] = "magazine"
    BY <2>1, AttachmentsAre
  <2> QED
    BY <1>2, <2>2 DEF Item, ItemRecords, Kinds
<1>4. /\ DOMAIN i = numbers \cup DOMAIN l.items /\ \A v \in numbers : i[v] = Item(v, new[v - l.uid], 1)
      /\ \A v \in DOMAIN l.items \ numbers : i[v] = l.items[v]
      /\ i = [v \in DOMAIN i |-> i[v]]
  OBVIOUS
<1>5. /\ Table(l.items, Numbers, ItemRecords) /\ \A v \in DOMAIN l.items : l.items[v].unique = v
      /\ l.hand \in 0 .. MaxUnique /\ l.before \in 0 .. MaxUnique
      /\ Table(l.guns, GunSlots, GunAts) /\ Table(l.equip, Slots, Ats)
  BY DEF Typed
<1>6. \A x \in m.mounts : x \in l.mounts \/ x.gun = gun
  BY <1>1
<1> HIDE DEF i, m, numbers, new, n
<1>7. Table(i, Numbers, ItemRecords)
  <2>1. DOMAIN i \subseteq Numbers
    BY <1>2, <1>4, <1>5 DEF Table
  <2>2. \A v \in DOMAIN i : i[v] \in ItemRecords
    BY <1>3, <1>4, <1>5 DEF Table
  <2> QED
    BY <1>4, <2>1, <2>2 DEF Table
<1>8. \A v \in DOMAIN m.items : m.items[v].unique = v
  BY <1>1, <1>3, <1>4, <1>5
<1>9. m.uid \in 0 .. MaxUnique
  BY <1>1 DEF n, new
<1>10. Typed(m)
  BY <1>1, <1>5, <1>7, <1>8, <1>9 DEF Typed
<1>11. /\ DOMAIN m.items = numbers \cup DOMAIN l.items
       /\ \A v \in numbers : m.items[v].data = "magazine"
       /\ \A v \in DOMAIN l.items \ numbers : m.items[v] = l.items[v]
  BY <1>1, <1>3, <1>4
<1> QED
  BY <1>1, <1>6, <1>10, <1>11 DEF m, numbers, n, new

-----------------------------------------------------------------------------
(* A gun that takes a slot.                                                *)

\* A loadout with another last number; with another hand.
LastIs(l, u) == [l EXCEPT !.uid = u]
HandIs(l, u) == [l EXCEPT !.hand = u]

\* The last number given out, of a loadout with its types.
LEMMA LastTyped ==
    ASSUME NEW l, Typed(l), NEW u \in 0 .. MaxUnique
    PROVE  LET m == LastIs(l, u)
           IN  /\ Typed(m) /\ m.uid = u /\ m.before = l.before /\ m.armour = l.armour /\ m.items = l.items
               /\ m.guns = l.guns /\ m.equip = l.equip /\ m.hand = l.hand /\ m.mounts = l.mounts
<1> DEFINE m == LastIs(l, u)
<1>1. m = [l EXCEPT !.uid = u] /\ Shaped(l)
  BY DEF LastIs, Typed
<1> HIDE DEF m
<1>2. /\ Shaped(m) /\ m.uid = u /\ m.before = l.before /\ m.armour = l.armour /\ m.items = l.items
      /\ m.guns = l.guns /\ m.equip = l.equip /\ m.hand = l.hand /\ m.mounts = l.mounts
  BY <1>1 DEF Shaped
<1>3. Typed(m)
  BY <1>2 DEF Typed
<1> QED
  BY <1>2, <1>3 DEF m

\* The item in hand, of a loadout with its types.
LEMMA HandTyped ==
    ASSUME NEW l, Typed(l), NEW u \in 0 .. MaxUnique
    PROVE  LET m == HandIs(l, u)
           IN  /\ Typed(m) /\ m.hand = u /\ Same(l, m) /\ m.items = l.items
               /\ m.guns = l.guns /\ m.equip = l.equip /\ m.mounts = l.mounts
<1> DEFINE m == HandIs(l, u)
<1>1. m = [l EXCEPT !.hand = u] /\ Shaped(l)
  BY DEF HandIs, Typed
<1> HIDE DEF m
<1>2. /\ Shaped(m) /\ m.hand = u /\ m.uid = l.uid /\ m.before = l.before /\ m.armour = l.armour /\ m.items = l.items
      /\ m.guns = l.guns /\ m.equip = l.equip /\ m.mounts = l.mounts
  BY <1>1 DEF Shaped
<1>3. Typed(m)
  BY <1>2 DEF Typed
<1> QED
  BY <1>2, <1>3 DEF m, Same

\* What m has that l has not is no stack.
Grown(l, m) ==
    \A v \in DOMAIN m.items :
        \/ v \in DOMAIN l.items /\ m.items[v] = l.items[v]
        \/ m.items[v].data \notin Stackable

\* The slot shows the gun that took it.
LEMMA GunTakes ==
    ASSUME NEW l, Sound(l), NEW slot \in GunSlots, NEW data \in Firearms, NEW u \in Numbers, Fits(slot, data),
           NEW m, Typed(m), m.uid # 0, Grown(l, m),
           Extends(m.guns, l.guns, slot, At(u, data)), Extends(m.equip, l.equip, slot, At(u, data))
    PROVE  Sound(m)
<1>1. /\ \A s \in DOMAIN m.guns : s # slot => s \in DOMAIN l.guns /\ m.guns[s] = l.guns[s]
      /\ \A s \in DOMAIN m.equip : s # slot => s \in DOMAIN l.equip /\ m.equip[s] = l.equip[s]
      /\ m.guns[slot] = At(u, data) /\ m.equip[slot] = At(u, data) /\ slot \in DOMAIN m.equip
      /\ DOMAIN l.equip \subseteq DOMAIN m.equip
  BY DEF Extends
<1>2. \A s \in DOMAIN m.guns : s \in DOMAIN m.equip /\ m.equip[s] = m.guns[s]
  BY <1>1 DEF Sound, Shown
<1>3. \A s \in DOMAIN m.equip : Fits(s, m.equip[s].data)
  <2> TAKE s \in DOMAIN m.equip
  <2>1. CASE s = slot
    BY <1>1, <2>1 DEF At
  <2>2. CASE s # slot
    BY <1>1, <2>2 DEF Sound, Shown
  <2> QED
    BY <2>1, <2>2
<1>4. Single(m)
  BY DEF Single, Sound, Grown
<1> QED
  BY <1>2, <1>3, <1>4 DEF Sound, Shown

\* m is l with a gun in that slot: the gun that was there is gone with what was mounted on
\* it, and what else is new is no gun.
GunIn(m, l, slot, data, u, gone, fresh) ==
    /\ slot \in GunSlots /\ data \in Firearms /\ u \in Numbers
    /\ gone = (IF slot \in DOMAIN l.guns THEN {l.guns[slot].unique} ELSE {})
    /\ u \in fresh /\ fresh \cap DOMAIN l.items = {}
    /\ Typed(m) /\ Extends(m.guns, l.guns, slot, At(u, data)) /\ Extends(m.equip, l.equip, slot, At(u, data))
    /\ DOMAIN m.items = (DOMAIN l.items \ gone) \cup fresh /\ m.items[u].data = data
    /\ \A v \in fresh \ {u} : m.items[v].data \notin Guns
    /\ \A v \in DOMAIN l.items \ gone : m.items[v] = l.items[v]
    /\ \A x \in m.mounts : x.gun = u \/ (x \in l.mounts /\ x.gun \notin gone)
    /\ m.hand = u

\* The gun that comes to a slot, and the one that it puts out, as far as they are counted.
Comes(data, u) == IF data \in Guns THEN {u} ELSE {}
Goes(l, gone) == gone \cap GunNumbers(l)

\* A gun that comes to a slot, in place of one or of none: one number in, at most one out.
LEMMA GunHeld ==
    ASSUME NEW l, Sound(l), Faithful(l), NEW slot, NEW data, NEW u, NEW gone, NEW fresh, NEW m,
           GunIn(m, l, slot, data, u, gone, fresh)
    PROVE  /\ Faithful(m) /\ GunNumbers(m) = (GunNumbers(l) \ Goes(l, gone)) \cup Comes(data, u)
           /\ u \notin GunNumbers(l)
<1> USE DEF GunIn
<1>1. /\ \A s \in DOMAIN m.equip : s # slot => s \in DOMAIN l.equip /\ m.equip[s] = l.equip[s]
      /\ m.equip[slot] = At(u, data) /\ slot \in DOMAIN m.equip
  BY DEF Extends
<1>2. At(u, data).unique = u /\ At(u, data).data = data
  BY DEF At
<1>3. ASSUME slot \in DOMAIN l.guns
      PROVE  /\ slot \in DOMAIN l.equip /\ l.equip[slot] = l.guns[slot]
             /\ l.guns[slot].unique \in DOMAIN l.items /\ l.items[l.guns[slot].unique].data = l.guns[slot].data
  <2>1. slot \in DOMAIN l.equip /\ l.equip[slot] = l.guns[slot]
    BY <1>3 DEF Sound, Shown
  <2>2. l.guns[slot] \in GunAts
    BY <1>3 DEF Sound, Typed, Table
  <2> QED
    BY <2>1, <2>2 DEF Faithful, GunAts
<1>5. u \notin GunNumbers(l)
  BY DEF GunNumbers
<1>6. \A s \in DOMAIN l.equip \ {slot} : l.equip[s].unique \in DOMAIN l.items \ gone
  <2> TAKE s \in DOMAIN l.equip \ {slot}
  <2>1. l.equip[s].unique \in DOMAIN l.items
    BY DEF Faithful
  <2>2. CASE slot \in DOMAIN l.guns
    BY <1>3, <2>1, <2>2 DEF Faithful
  <2>3. CASE slot \notin DOMAIN l.guns
    BY <2>1, <2>3
  <2> QED
    BY <2>2, <2>3
<1>7. \A s \in DOMAIN m.equip : m.equip[s].unique \in DOMAIN m.items /\ m.items[m.equip[s].unique].data = m.equip[s].data
  <2> TAKE s \in DOMAIN m.equip
  <2>1. CASE s = slot
    BY <1>1, <1>2, <2>1
  <2>2. CASE s # slot
    <3>1. l.equip[s].unique \in DOMAIN l.items \ gone /\ s \in DOMAIN l.equip /\ m.equip[s] = l.equip[s]
      BY <1>1, <1>6, <2>2
    <3> QED
      BY <3>1 DEF Faithful
  <2> QED
    BY <2>1, <2>2
<1>8. \A s, t \in DOMAIN m.equip : m.equip[s].unique = m.equip[t].unique => s = t
  <2> SUFFICES ASSUME NEW s \in DOMAIN m.equip, NEW t \in DOMAIN m.equip, m.equip[s].unique = m.equip[t].unique PROVE s = t
    OBVIOUS
  <2>1. CASE s # slot /\ t # slot
    BY <1>1, <2>1 DEF Faithful
  <2>2. \A r \in DOMAIN m.equip : r # slot => m.equip[r].unique # u
    BY <1>1, <1>6
  <2> QED
    BY <1>1, <1>2, <2>1, <2>2
<1>9. \A x \in m.mounts : x.gun \in DOMAIN m.items /\ m.items[x.gun].data \in Firearms
  BY DEF Faithful
<1>10. InHand(m)
  BY DEF InHand
<1>11. GunNumbers(m) = (GunNumbers(l) \ Goes(l, gone)) \cup Comes(data, u)
  BY DEF GunNumbers, Goes, Comes
<1> QED
  BY <1>5, <1>7, <1>8, <1>9, <1>10, <1>11 DEF Faithful

\* The slot that is picked for a gun is one of its own.
LEMMA GunSlotIs ==
    ASSUME NEW l, NEW data \in Firearms
    PROVE  GunSlot(l, data) \in GunSlots /\ Fits(GunSlot(l, data), data)
  BY DEF GunSlot, PickPrimarySlot, GunSlots, Fits, Firearms, Guns

\* Nothing, or one thing; and how many that is.
AtMostOne(S) == S = {} \/ \E v : S = {v}
Ones(S) == IF S = {} THEN 0 ELSE 1

\* A gun comes to l, and the one it displaces goes to the ground: new is how many there
\* are that were not on the ground before.
GunMoves(p, m, come, out, new) ==
    /\ loadout' = [loadout EXCEPT ![p] = m] /\ clashed' \in BOOLEAN /\ AtMostOne(come) /\ AtMostOne(out)
    /\ ~ clashed' => /\ Faithful(m) /\ GunNumbers(m) = (GunNumbers(loadout[p]) \ out) \cup come
                     /\ come \cap GunNumbers(loadout[p]) = {} /\ out \subseteq GunNumbers(loadout[p])
    /\ UNCHANGED <<walls, revived>> /\ boxes' \in Boxes /\ issued' = issued + new
    /\ ~ clashed' => GunsIn(boxes') = GunsIn(boxes) + Ones(out) - (Ones(come) - new)

\* At most one leaves a set, at most one comes to it.
LEMMA OneOutOneIn ==
    ASSUME NEW G, IsFiniteSet(G), NEW out, NEW come, out \subseteq G, come \cap G = {}, AtMostOne(out), AtMostOne(come)
    PROVE  Cardinality((G \ out) \cup come) = Cardinality(G) - Ones(out) + Ones(come)
<1>1. Cardinality(G) \in Nat
  BY FS_CardinalityType
<1>2. IsFiniteSet(G \ out) /\ Cardinality(G \ out) = Cardinality(G) - Ones(out)
  <2>1. CASE out = {}
    <3>1. G \ out = G /\ Ones(out) = 0
      BY <2>1 DEF Ones
    <3> QED
      BY <1>1, <3>1
  <2>2. CASE \E v : out = {v}
    <3>1. PICK v : out = {v}
      BY <2>2
    <3>2. IsFiniteSet(G \ {v}) /\ Cardinality(G \ {v}) = Cardinality(G) - 1
      BY <3>1, FS_RemoveElement
    <3> QED
      BY <3>1, <3>2 DEF Ones
  <2> QED
    BY <2>1, <2>2 DEF AtMostOne
<1>3. Cardinality(G \ out) \in Nat
  BY <1>2, FS_CardinalityType
<1>4. CASE come = {}
  <2>1. (G \ out) \cup come = G \ out /\ Ones(come) = 0
    BY <1>4 DEF Ones
  <2> QED
    BY <1>2, <1>3, <2>1
<1>5. CASE \E v : come = {v}
  <2>1. PICK v : come = {v}
    BY <1>5
  <2>2. Cardinality((G \ out) \cup {v}) = Cardinality(G \ out) + 1
    BY <1>2, <2>1, FS_AddElement
  <2>3. Ones(come) = 1
    BY <2>1 DEF Ones
  <2> QED
    BY <1>2, <1>3, <2>1, <2>2, <2>3
<1> QED
  BY <1>4, <1>5 DEF AtMostOne

\* A step that brings a player a gun keeps the invariant if the guns still add up.
LEMMA GunStep ==
    ASSUME ItemsInv, ~ clashed, NEW p \in Fighters, NEW m, Sound(m), NEW come, NEW out, NEW new \in Nat,
           GunMoves(p, m, come, out, new)
    PROVE  ItemsInv'
<1> USE DEF GunMoves
<1>1. walls' \in Seq(Fighters) /\ WallsCapped' /\ revived' \subseteq Fighters
  BY DEF ItemsInv, WallsCapped
<1>2. ASSUME ~ clashed'
      PROVE  issued' = issued + (Cardinality(GunNumbers(m)) - Cardinality(GunNumbers(loadout[p])))
                              + (GunsIn(boxes') - GunsIn(boxes))
  <2> DEFINE G == GunNumbers(loadout[p])
             H == GunNumbers(m)
  <2>1. IsFiniteSet(G) /\ Cardinality(G) \in Nat
    BY GunsCounted DEF ItemsInv, Sound
  <2>2. H = (G \ out) \cup come /\ come \cap G = {} /\ out \subseteq G /\ AtMostOne(come) /\ AtMostOne(out)
    BY <1>2
  <2>3. GunsIn(boxes) \in Nat /\ issued \in Int
    BY IssuedIs
  <2>4. GunsIn(boxes') = GunsIn(boxes) + Ones(out) - (Ones(come) - new)
    BY <1>2
  <2> HIDE DEF G, H
  <2>5. Cardinality(H) = Cardinality(G) - Ones(out) + Ones(come)
    BY <2>1, <2>2, OneOutOneIn
  <2>6. Ones(out) \in Nat /\ Ones(come) \in Nat
    BY DEF Ones
  <2>7. issued' = issued + (Cardinality(H) - Cardinality(G)) + (GunsIn(boxes') - GunsIn(boxes))
    BY <2>1, <2>3, <2>4, <2>5, <2>6
  <2> QED
    BY <2>7 DEF G, H
<1> QED
  BY <1>1, <1>2, OneLoadout

\* The numbers that a purchase gives out.
LEMMA SpanIs ==
    ASSUME NEW l \in Nat, NEW k \in Nat, NEW M \in Nat, l + 2 + k <= M
    PROVE  /\ l + 1 \in 1 .. M /\ l + 2 \in 1 .. M /\ l + 2 + k \in 0 .. M
           /\ (l + 1) .. (l + 2 + k) = {l + 1, l + 2} \cup ((l + 3) .. (l + 2 + k))
  OBVIOUS

\* What a purchase gives besides the slot.
Bought(l, u, data) ==
    BuildWeaponAttachments(GiveAmmoStacks(LastIs(Track(l, Item(u, data, 1)), u), data), u, data)

\* m is l with a gun of that number, its ammunition and its attachments.
GunBought(m, l, u, data, n) ==
    LET fresh == (l.uid + 1) .. (l.uid + n)
    IN  /\ Typed(m) /\ m.uid = l.uid + n /\ m.before = l.before /\ m.armour = l.armour
        /\ m.guns = l.guns /\ m.equip = l.equip /\ m.hand = l.hand /\ Grown(l, m)
        /\ DOMAIN m.items = DOMAIN l.items \cup fresh /\ u \in fresh /\ u \in Numbers
        /\ m.items[u].data = data /\ \A v \in fresh \ {u} : m.items[v].data \notin Guns
        /\ \A v \in DOMAIN l.items \ fresh : m.items[v] = l.items[v]
        /\ \A x \in m.mounts : x \in l.mounts \/ x.gun = u

\* A gun that was bought has its item, its rounds and its attachments.
LEMMA BoughtIs ==
    ASSUME NEW l, Typed(l), NEW data \in Firearms, NEW u, u = l.uid + 1,
           NEW n, n = 2 + Len(WeaponMaxAttachments[data]), l.uid + n \in 0 .. MaxUnique
    PROVE  GunBought(Bought(l, u, data), l, u, data, n)
<1> DEFINE k == Len(WeaponMaxAttachments[data])
           it == Item(u, data, 1)
           a == Track(l, it)
           b == LastIs(a, u)
           c == GiveAmmoStacks(b, data)
           m == BuildWeaponAttachments(c, u, data)
           am == Item(u + 1, Ammo[data], 1)
           fresh == (l.uid + 1) .. (l.uid + n)
           numbers == (u + 2) .. (u + 1 + k)
<1>1. k \in {0, 1} /\ l.uid \in Nat /\ u \in Nat /\ MaxUnique \in Nat
  BY AttachmentsAre, MatchItemsAssumption DEF Typed
<1>2. /\ u \in Numbers /\ u + 1 \in Numbers /\ u + 1 + k \in 0 .. MaxUnique /\ fresh = {u, u + 1} \cup numbers
      /\ u \notin numbers /\ u + 1 \notin numbers /\ l.uid + n = u + 1 + k
  <2>1. n = 2 + k
    OBVIOUS
  <2> HIDE DEF k
  <2>2. u = l.uid + 1 /\ l.uid + n = u + 1 + k /\ l.uid + 1 = u
    BY <1>1, <2>1
  <2> DEFINE j == l.uid
  <2>3. j + 2 + k <= MaxUnique /\ j \in Nat /\ k \in Nat
    BY <1>1, <2>2
  <2>a. j + 1 = u /\ j + 2 = u + 1 /\ j + 3 = u + 2 /\ j + 2 + k = u + 1 + k
    BY <1>1, <2>2
  <2> HIDE DEF j
  <2>b. /\ j + 1 \in 1 .. MaxUnique /\ j + 2 \in 1 .. MaxUnique /\ j + 2 + k \in 0 .. MaxUnique
        /\ (j + 1) .. (j + 2 + k) = {j + 1, j + 2} \cup ((j + 3) .. (j + 2 + k))
    BY <1>1, <2>3, SpanIs
  <2>4. u \in Numbers /\ u + 1 \in Numbers /\ u + 1 + k \in 0 .. MaxUnique
    BY <2>a, <2>b, Zenon DEF Numbers
  <2>5. fresh = u .. (u + 1 + k)
    BY <2>2, Zenon
  <2>6. fresh = {u, u + 1} \cup numbers
    BY <2>a, <2>b, <2>5, Zenon
  <2> QED
    BY <1>1, <2>2, <2>4, <2>6
<1>3. it \in ItemRecords /\ it.unique = u /\ it.data = data
  <2>1. data \in Kinds
    BY DEF Kinds, Firearms, Guns
  <2> QED
    BY <1>2, <2>1 DEF Item, ItemRecords
<1>4. am.data \notin Guns /\ am.data \notin Stackable
  <2>1. CASE data = "rifle"
    BY <2>1 DEF Item, Ammo, Guns, Stackable
  <2>2. CASE data = "pistol"
    BY <2>2 DEF Item, Ammo, Guns, Stackable
  <2>3. CASE data = "groza"
    BY <2>3 DEF Item, Ammo, Guns, Stackable
  <2> QED
    BY <2>1, <2>2, <2>3 DEF Firearms, Guns
<1>5. data \notin Stackable /\ "magazine" \notin Stackable /\ "magazine" \notin Guns
  BY DEF Firearms, Guns, Stackable
<1> HIDE DEF it, am, k, fresh, numbers
<1>6. /\ Typed(a) /\ Same(l, a) /\ Extends(a.items, l.items, u, it) /\ a.guns = l.guns
      /\ a.equip = l.equip /\ a.hand = l.hand /\ a.mounts = l.mounts
  BY <1>3, TrackTyped
<1> HIDE DEF a
<1>7. /\ Typed(b) /\ b.uid = u /\ b.before = a.before /\ b.armour = a.armour /\ b.items = a.items
      /\ b.guns = a.guns /\ b.equip = a.equip /\ b.hand = a.hand /\ b.mounts = a.mounts
  <2>1. u \in 0 .. MaxUnique
    BY <1>1, <1>2 DEF Numbers
  <2> QED
    BY <1>6, <2>1, LastTyped
<1> HIDE DEF b
<1>8. /\ Typed(c) /\ c.uid = u + 1 /\ c.before = b.before /\ c.armour = b.armour
      /\ Extends(c.items, b.items, u + 1, am) /\ c.guns = b.guns
      /\ c.equip = b.equip /\ c.hand = b.hand /\ c.mounts = b.mounts
  <2>1. b.uid + 1 \in Numbers /\ Item(b.uid + 1, Ammo[data], 1) = am
    BY <1>2, <1>7 DEF am
  <2> QED
    BY <1>7, <2>1, AmmoTyped
<1> HIDE DEF c
<1>9. /\ Typed(m) /\ m.uid = u + 1 + k /\ m.before = c.before /\ m.armour = c.armour
      /\ DOMAIN m.items = numbers \cup DOMAIN c.items
      /\ \A v \in numbers : m.items[v].data = "magazine"
      /\ \A v \in DOMAIN c.items \ numbers : m.items[v] = c.items[v]
      /\ m.guns = c.guns /\ m.equip = c.equip /\ m.hand = c.hand
      /\ \A x \in m.mounts : x \in c.mounts \/ x.gun = u
  <2>1. c.uid + Len(WeaponMaxAttachments[data]) \in 0 .. MaxUnique
    BY <1>2, <1>8 DEF k
  <2>2. (c.uid + 1) .. (c.uid + Len(WeaponMaxAttachments[data])) = numbers /\ c.uid + Len(WeaponMaxAttachments[data]) = u + 1 + k
    BY <1>1, <1>8 DEF numbers, k
  <2>3. LET nn == Len(WeaponMaxAttachments[data])
            nu == (c.uid + 1) .. (c.uid + nn)
        IN  /\ Typed(m) /\ m.uid = c.uid + nn /\ m.before = c.before /\ m.armour = c.armour
            /\ DOMAIN m.items = nu \cup DOMAIN c.items
            /\ \A v \in nu : m.items[v].data = "magazine"
            /\ \A v \in DOMAIN c.items \ nu : m.items[v] = c.items[v]
            /\ m.guns = c.guns /\ m.equip = c.equip /\ m.hand = c.hand
            /\ \A x \in m.mounts : x \in c.mounts \/ x.gun = u
    BY <1>8, <2>1, BuildTyped
  <2> HIDE DEF m
  <2> QED
    BY <2>2, <2>3
<1>10. m = Bought(l, u, data)
  BY DEF Bought, a, b, c, it
<1> HIDE DEF m
<1>11. /\ DOMAIN c.items = DOMAIN l.items \cup {u, u + 1} /\ c.items[u] = it /\ c.items[u + 1] = am
       /\ \A v \in DOMAIN l.items \ {u, u + 1} : c.items[v] = l.items[v]
  BY <1>1, <1>6, <1>7, <1>8 DEF Extends
<1>12. /\ DOMAIN m.items = DOMAIN l.items \cup fresh
       /\ m.items[u] = it /\ m.items[u + 1] = am
       /\ \A v \in DOMAIN l.items \ fresh : m.items[v] = l.items[v]
  BY <1>2, <1>9, <1>11
<1>13. \A v \in fresh \ {u} : m.items[v].data \notin Guns
  BY <1>2, <1>4, <1>5, <1>9, <1>12
<1>14. Grown(l, m)
  BY <1>2, <1>3, <1>4, <1>5, <1>9, <1>12 DEF Grown
<1>15. /\ m.before = l.before /\ m.armour = l.armour /\ m.guns = l.guns /\ m.equip = l.equip /\ m.hand = l.hand
       /\ \A x \in m.mounts : x \in l.mounts \/ x.gun = u
  BY <1>6, <1>7, <1>8, <1>9 DEF Same
<1>16. m.uid = l.uid + n
  BY <1>2, <1>9
<1>17. u \in fresh
  BY <1>2
<1> QED
  BY <1>2, <1>3, <1>9, <1>10, <1>12, <1>13, <1>14, <1>15, <1>16, <1>17 DEF fresh, GunBought

\* A gun goes to a slot, in the guns and in what is shown, and to the hand.
Slotted(l, slot, data, u) == SetEquip(SetGun(l, slot, data, u), slot, data, u)

\* A gun in its slot is shown there.
LEMMA SlottedTyped ==
    ASSUME NEW l, Typed(l), NEW slot \in GunSlots, NEW data \in Firearms, NEW u \in Numbers
    PROVE  LET m == Slotted(l, slot, data, u)
           IN  /\ Typed(m) /\ Same(l, m) /\ m.items = l.items /\ Extends(m.guns, l.guns, slot, At(u, data))
               /\ Extends(m.equip, l.equip, slot, At(u, data)) /\ m.hand = l.hand /\ m.mounts = l.mounts
<1> DEFINE a == SetGun(l, slot, data, u)
           m == SetEquip(a, slot, data, u)
<1>1. /\ Typed(a) /\ Same(l, a) /\ a.items = l.items /\ a.equip = l.equip
      /\ Extends(a.guns, l.guns, slot, At(u, data)) /\ a.hand = l.hand /\ a.mounts = l.mounts
  BY SetGunTyped
<1> HIDE DEF a
<1>2. slot \in Slots /\ data \in Kinds
  BY DEF Slots, Firearms, Guns, Kinds
<1>3. /\ Typed(m) /\ Same(a, m) /\ m.items = a.items /\ m.guns = a.guns
      /\ Extends(m.equip, a.equip, slot, At(u, data)) /\ m.hand = a.hand /\ m.mounts = a.mounts
  BY <1>1, <1>2, SetEquipTyped
<1>4. m = Slotted(l, slot, data, u)
  BY DEF Slotted, a
<1> HIDE DEF m
<1> QED
  BY <1>1, <1>3, <1>4 DEF Same

\* The gun of a slot counts as what it is.
LEMMA OutIs ==
    ASSUME NEW l, Sound(l), Faithful(l), NEW slot \in DOMAIN l.guns
    PROVE  Ones(Goes(l, {l.guns[slot].unique})) = IF l.guns[slot].data \in Guns THEN 1 ELSE 0
<1>1. slot \in DOMAIN l.equip /\ l.equip[slot] = l.guns[slot]
  BY DEF Sound, Shown
<1>2. l.guns[slot].unique \in DOMAIN l.items /\ l.items[l.guns[slot].unique].data = l.guns[slot].data
  BY <1>1 DEF Faithful
<1> QED
  BY <1>2 DEF Ones, Goes, GunNumbers

\* The purchase of a gun keeps the invariant: one more was issued, and one more is there.
LEMMA PurchaseGunStep ==
    ASSUME ItemsInv, ~ clashed, NEW p \in Fighters, NEW data \in Firearms, PurchaseGun(p, data) PROVE ItemsInv'
<1> DEFINE l == loadout[p]
           u == l.uid + 1
           n == 2 + Len(WeaponMaxAttachments[data])
           full == Bought(l, u, data)
           slot == GunSlot(l, data)
           old == l.guns[slot].unique
           taken == slot \in DOMAIN l.guns
           freed == IF taken THEN HandIs(Untrack(full, old), l.hand) ELSE full
           set == Slotted(freed, slot, data, u)
           m == HandIs(set, u)
           gone == IF taken THEN {old} ELSE {}
           fresh == (l.uid + 1) .. (l.uid + n)
<1>1. Sound(l) /\ Faithful(l) /\ Typed(l) /\ boxes \in Boxes /\ clashed \in BOOLEAN
  BY DEF ItemsInv, Sound
<1>2. /\ loadout' = [loadout EXCEPT ![p] = m]
      /\ IF taken THEN boxes' \in DropToGround(boxes, Item(old, l.guns[slot].data, 1), {}) ELSE UNCHANGED boxes
      /\ clashed' = (clashed \/ Meets(l, n)) /\ UNCHANGED <<walls, revived>>
      /\ issued' = issued + (IF data \in Guns THEN 1 ELSE 0)
      /\ l.uid + n <= MaxUnique
  BY DEF PurchaseGun, Bought, HandIs, LastIs, Slotted
<1>3. slot \in GunSlots /\ Fits(slot, data)
  BY GunSlotIs
<1>4. n \in Nat /\ l.uid + n \in 0 .. MaxUnique
  BY <1>1, <1>2, AttachmentsAre, MatchItemsAssumption DEF Typed
<1> HIDE DEF slot
<1>5. /\ Typed(full) /\ full.uid = l.uid + n /\ full.before = l.before /\ full.armour = l.armour
      /\ full.guns = l.guns /\ full.equip = l.equip /\ full.hand = l.hand /\ Grown(l, full)
      /\ DOMAIN full.items = DOMAIN l.items \cup fresh /\ u \in fresh /\ u \in Numbers
      /\ full.items[u].data = data /\ \A v \in fresh \ {u} : full.items[v].data \notin Guns
      /\ \A v \in DOMAIN l.items \ fresh : full.items[v] = l.items[v]
      /\ \A x \in full.mounts : x \in l.mounts \/ x.gun = u
  <2> DEFINE g == l
             un == u
             nn == n
  <2>1. Typed(g) /\ un = g.uid + 1 /\ nn = 2 + Len(WeaponMaxAttachments[data]) /\ g.uid + nn \in 0 .. MaxUnique
    BY <1>1, <1>4
  <2> HIDE DEF g, un, nn
  <2>2. GunBought(Bought(g, un, data), g, un, data, nn)
    BY <2>1, BoughtIs
  <2>3. GunBought(full, l, u, data, n)
    BY <2>2 DEF g, un, nn
  <2> HIDE DEF full, l, u, n
  <2>4. /\ Typed(full) /\ full.uid = l.uid + n /\ full.before = l.before /\ full.armour = l.armour
        /\ full.guns = l.guns /\ full.equip = l.equip /\ full.hand = l.hand /\ Grown(l, full)
        /\ DOMAIN full.items = DOMAIN l.items \cup fresh /\ u \in fresh /\ u \in Numbers
    BY <2>3 DEF GunBought
  <2> QED
    BY <2>3, <2>4 DEF GunBought
<1> HIDE DEF full, u, n
<1>6. /\ Typed(freed) /\ freed.uid = full.uid /\ freed.guns = l.guns /\ freed.equip = l.equip
      /\ DOMAIN freed.items = DOMAIN full.items \ gone /\ \A v \in DOMAIN freed.items : freed.items[v] = full.items[v]
      /\ freed.mounts = {x \in full.mounts : x.gun \notin gone}
  <2>1. CASE taken
    <3> DEFINE k == Untrack(full, old)
    <3>1. /\ Typed(k) /\ Same(full, k) /\ DOMAIN k.items = DOMAIN full.items \ {old}
          /\ (\A v \in DOMAIN k.items : k.items[v] = full.items[v]) /\ k.guns = full.guns
          /\ k.equip = full.equip /\ k.mounts = {x \in full.mounts : x.gun # old}
      <4> HIDE DEF old, l
      <4> QED
        BY <1>5, UntrackTyped
    <3> HIDE DEF k
    <3>2. l.hand \in 0 .. MaxUnique
      BY <1>1 DEF Typed
    <3> DEFINE h == l.hand
    <3> HIDE DEF h
    <3>3. /\ Typed(HandIs(k, h)) /\ Same(k, HandIs(k, h)) /\ HandIs(k, h).items = k.items
          /\ HandIs(k, h).guns = k.guns /\ HandIs(k, h).equip = k.equip /\ HandIs(k, h).mounts = k.mounts
      BY <3>1, <3>2, HandTyped DEF h
    <3>4. freed = HandIs(k, h) /\ gone = {old}
      BY <2>1 DEF k, h
    <3> HIDE DEF freed, gone
    <3>5. DOMAIN freed.items = DOMAIN full.items \ gone /\ \A v \in DOMAIN freed.items : freed.items[v] = full.items[v]
      BY <3>1, <3>3, <3>4
    <3>6. freed.mounts = {x \in full.mounts : x.gun \notin gone}
      BY <3>1, <3>3, <3>4
    <3> QED
      BY <1>5, <3>1, <3>3, <3>4, <3>5, <3>6 DEF Same
  <2>2. CASE ~ taken
    <3>1. freed = full /\ gone = {}
      BY <2>2
    <3> HIDE DEF freed, gone
    <3>2. full.mounts = {x \in full.mounts : x.gun \notin gone}
      BY <3>1
    <3> QED
      BY <1>5, <3>1, <3>2
  <2> QED
    BY <2>1, <2>2
<1> HIDE DEF freed
<1>7. /\ Typed(set) /\ Same(freed, set) /\ set.items = freed.items /\ Extends(set.guns, freed.guns, slot, At(u, data))
      /\ Extends(set.equip, freed.equip, slot, At(u, data)) /\ set.mounts = freed.mounts
  BY <1>3, <1>5, <1>6, SlottedTyped
<1> HIDE DEF set
<1>8. /\ Typed(m) /\ m.hand = u /\ Same(set, m) /\ m.items = set.items
      /\ m.guns = set.guns /\ m.equip = set.equip /\ m.mounts = set.mounts
  <2>1. u \in 0 .. MaxUnique
    BY <1>5, MatchItemsAssumption DEF Numbers
  <2> QED
    BY <1>7, <2>1, HandTyped
<1> HIDE DEF m, gone
<1>9. /\ Extends(m.guns, l.guns, slot, At(u, data)) /\ Extends(m.equip, l.equip, slot, At(u, data))
      /\ DOMAIN m.items = (DOMAIN l.items \cup fresh) \ gone /\ \A v \in DOMAIN m.items : m.items[v] = full.items[v]
      /\ \A x \in m.mounts : x.gun \notin gone /\ (x \in l.mounts \/ x.gun = u)
  BY <1>5, <1>6, <1>7, <1>8
<1>10. m.uid # 0
  <2>1. m.uid = l.uid + n
    BY <1>5, <1>6, <1>7, <1>8 DEF Same
  <2>2. l.uid \in Nat /\ n \in Nat /\ n # 0
    BY <1>1, <1>4, AttachmentsAre DEF Typed, n
  <2> QED
    BY <2>1, <2>2
<1>11. Grown(l, m)
  BY <1>5, <1>9 DEF Grown
<1> HIDE DEF fresh
<1>12. Sound(m)
  <2> HIDE DEF l
  <2> QED
    BY <1>1, <1>3, <1>5, <1>8, <1>9, <1>10, <1>11, GunTakes
<1>13. ASSUME ~ clashed' PROVE fresh \cap DOMAIN l.items = {}
  BY <1>2, <1>13 DEF Meets, fresh
<1>14. \A v \in gone : v \in DOMAIN l.items
  <2> SUFFICES ASSUME taken PROVE old \in DOMAIN l.items
    BY DEF gone
  <2>1. slot \in DOMAIN l.equip /\ l.equip[slot].unique = old
    BY <1>1 DEF Sound, Shown
  <2> QED
    BY <1>1, <2>1 DEF Faithful
<1>15. ~ clashed' => /\ Faithful(m) /\ GunNumbers(m) = (GunNumbers(l) \ Goes(l, gone)) \cup Comes(data, u)
                     /\ u \notin GunNumbers(l)
  <2> SUFFICES ASSUME ~ clashed'
               PROVE /\ Faithful(m) /\ GunNumbers(m) = (GunNumbers(l) \ Goes(l, gone)) \cup Comes(data, u)
                     /\ u \notin GunNumbers(l)
    OBVIOUS
  <2>1. fresh \cap DOMAIN l.items = {}
    BY <1>13
  <2>2. DOMAIN m.items = (DOMAIN l.items \ gone) \cup fresh
    BY <1>9, <1>14, <2>1
  <2>3. m.items[u].data = data /\ \A v \in fresh \ {u} : m.items[v].data \notin Guns
    BY <1>5, <1>9, <2>2
  <2>4. \A v \in DOMAIN l.items \ gone : m.items[v] = l.items[v]
    BY <1>5, <1>9, <2>1, <2>2
  <2>5. \A x \in m.mounts : x.gun = u \/ (x \in l.mounts /\ x.gun \notin gone)
    BY <1>9
  <2>6. gone = IF slot \in DOMAIN l.guns THEN {l.guns[slot].unique} ELSE {}
    BY DEF gone
  <2>7. u \in fresh /\ u \in Numbers /\ Typed(m) /\ m.hand = u
    BY <1>5, <1>8
  <2>8. Extends(m.guns, l.guns, slot, At(u, data)) /\ Extends(m.equip, l.equip, slot, At(u, data))
    BY <1>9
  <2> HIDE DEF l
  <2>9. GunIn(m, l, slot, data, u, gone, fresh)
    BY <1>3, <2>1, <2>2, <2>3, <2>4, <2>5, <2>6, <2>7, <2>8, Zenon DEF GunIn
  <2> QED
    BY <1>1, <2>9, GunHeld
<1> DEFINE come == Comes(data, u)
           out == Goes(l, gone)
<1>16. boxes' \in Boxes /\ GunsIn(boxes) \in Nat /\ GunsIn(boxes') = GunsIn(boxes) + Ones(out)
  <2>1. GunsIn(boxes) \in Nat
    BY IssuedIs
  <2>2. CASE taken
    <3>1. l.guns[slot] \in GunAts
      BY <1>1, <2>2 DEF Typed, Table
    <3> DEFINE it == Item(old, l.guns[slot].data, 1)
    <3>2. it \in ItemRecords /\ it.data = l.guns[slot].data
      <4>1. \A k \in Firearms : k \in Kinds
        BY DEF Firearms, Guns, Kinds
      <4> QED
        BY <3>1, <4>1 DEF GunAts, Item, ItemRecords
    <3> HIDE DEF it
    <3>3. boxes' \in DropToGround(boxes, it, {})
      BY <1>2, <2>2 DEF it
    <3>4. boxes' \in Boxes /\ GunsIn(boxes') = GunsIn(boxes) + (IF it.data \in Guns THEN 1 ELSE 0)
      BY <1>1, <3>2, <3>3, DropIs
    <3>5. Ones(out) = IF it.data \in Guns THEN 1 ELSE 0
      BY <1>1, <2>2, <3>2, OutIs DEF gone
    <3> QED
      BY <2>1, <3>4, <3>5
  <2>3. CASE ~ taken
    <3>1. out = {} /\ boxes' = boxes
      BY <1>2, <2>3 DEF gone, Goes
    <3> QED
      BY <1>1, <2>1, <3>1 DEF Ones
  <2> QED
    BY <2>2, <2>3
<1>17. clashed' \in BOOLEAN
  BY <1>1, <1>2 DEF Meets
<1>18. AtMostOne(come) /\ AtMostOne(out) /\ out \subseteq GunNumbers(l) /\ (u \notin GunNumbers(l) => come \cap GunNumbers(l) = {})
  BY DEF AtMostOne, Comes, Goes, gone
<1>19. GunsIn(boxes') = GunsIn(boxes) + Ones(out) - (Ones(come) - Ones(come)) /\ Ones(come) \in Nat
  <2>1. Ones(come) \in Nat /\ Ones(out) \in Nat
    BY DEF Ones
  <2> HIDE DEF come, out
  <2> QED
    BY <1>16, <2>1
<1>20. issued' = issued + Ones(come)
  BY <1>2 DEF Ones, Comes
<1> HIDE DEF l
<1>21. GunMoves(p, m, come, out, Ones(come))
  BY <1>2, <1>15, <1>16, <1>17, <1>18, <1>19, <1>20 DEF GunMoves, l
<1> QED
  BY <1>12, <1>19, <1>21, GunStep

-----------------------------------------------------------------------------
(* An item is picked up.                                                   *)

\* A slot that loses its gun, of a loadout with its types.
LEMMA WeaponOutTyped ==
    ASSUME NEW l, Typed(l), NEW slot, NEW u, u = l.guns[slot].unique
    PROVE  LET m == RemoveLoadoutWeapon(l, slot)
           IN  /\ Typed(m) /\ Same(l, m) /\ DOMAIN m.items = DOMAIN l.items \ {u}
               /\ \A v \in DOMAIN m.items : m.items[v] = l.items[v]
               /\ DOMAIN m.guns = DOMAIN l.guns \ {slot} /\ \A s \in DOMAIN m.guns : m.guns[s] = l.guns[s]
               /\ DOMAIN m.equip = DOMAIN l.equip \ {slot} /\ \A s \in DOMAIN m.equip : m.equip[s] = l.equip[s]
               /\ m.mounts = {x \in l.mounts : x.gun # u}
<1> DEFINE m == RemoveLoadoutWeapon(l, slot)
           f == l.items
           g == l.guns
           e == l.equip
<1>1. /\ Shaped(m) /\ Same(l, m) /\ m.items = Less(f, u) /\ m.guns = Less(g, slot)
      /\ m.equip = Less(e, slot) /\ m.hand = (IF l.hand = u THEN 0 ELSE l.hand)
      /\ m.mounts = {x \in l.mounts : x.gun # u}
  BY WeaponOutIs DEF Typed
<1>2. /\ Table(f, Numbers, ItemRecords) /\ Table(g, GunSlots, GunAts) /\ Table(e, Slots, Ats)
  BY DEF Typed
<1>a. \A v \in DOMAIN f : f[v].unique = v
  BY DEF Typed
<1> HIDE DEF m, f, g, e
<1>3. Table(Less(f, u), Numbers, ItemRecords) /\ DOMAIN Less(f, u) = DOMAIN f \ {u} /\ \A v \in DOMAIN f \ {u} : Less(f, u)[v] = f[v]
  BY <1>2, LessIs
<1>4. Table(Less(g, slot), GunSlots, GunAts) /\ DOMAIN Less(g, slot) = DOMAIN g \ {slot} /\ \A v \in DOMAIN g \ {slot} : Less(g, slot)[v] = g[v]
  BY <1>2, LessIs
<1>5. Table(Less(e, slot), Slots, Ats) /\ DOMAIN Less(e, slot) = DOMAIN e \ {slot} /\ \A v \in DOMAIN e \ {slot} : Less(e, slot)[v] = e[v]
  BY <1>2, LessIs
<1>6. m.hand \in 0 .. MaxUnique /\ m.uid = l.uid /\ m.before = l.before
  BY <1>1, MatchItemsAssumption DEF Typed, Same
<1>7. \A v \in DOMAIN m.items : m.items[v].unique = v
  BY <1>1, <1>3, <1>a
<1>8. Typed(m)
  BY <1>1, <1>3, <1>4, <1>5, <1>6, <1>7 DEF Typed
<1> QED
  BY <1>1, <1>3, <1>4, <1>5, <1>8 DEF m, f, g, e

\* What is left of the box that an item is taken from.
LEMMA TakenBox ==
    ASSUME boxes \in Boxes, NEW b \in DOMAIN boxes, NEW i \in DOMAIN boxes[b],
           NEW it, it = boxes[b][i], NEW rest, rest = WithoutNumber(boxes[b], it.unique)
    PROVE  /\ b \in 1 .. MaxBoxes /\ it \in ItemRecords /\ [boxes EXCEPT ![b] = rest] \in Boxes
           /\ GunsIn(boxes) \in Nat /\ GunsIn([boxes EXCEPT ![b] = rest]) \in Nat
           /\ ~ (Len(rest) + 1 < Len(boxes[b])) =>
                  GunsIn([boxes EXCEPT ![b] = rest]) = GunsIn(boxes) - (IF it.data \in Guns THEN 1 ELSE 0)
<1> DEFINE q == boxes[b]
<1>1. b \in 1 .. MaxBoxes /\ q \in Seq(ItemRecords)
  BY DEF Boxes
<1>2. it \in ItemRecords
  <2> HIDE DEF q
  <2>1. i \in DOMAIN q /\ it = q[i]
    BY DEF q
  <2> QED
    BY <1>1, <2>1, ElementOfSeq, LenProperties
<1>3. rest \in Seq(ItemRecords)
  BY <1>1, LeftCounts
<1>4. /\ [boxes EXCEPT ![b] = rest] \in Boxes /\ GunsIn([boxes EXCEPT ![b] = rest]) \in Nat /\ GunsIn(boxes) \in Nat
      /\ CountIn(rest, GunItems) \in Nat /\ CountIn(q, GunItems) \in Nat
      /\ GunsIn([boxes EXCEPT ![b] = rest]) - GunsIn(boxes) = CountIn(rest, GunItems) - CountIn(q, GunItems)
  BY <1>1, <1>3, BoxChange
<1>5. ASSUME ~ (Len(rest) + 1 < Len(q))
      PROVE  CountIn(rest, GunItems) = CountIn(q, GunItems) - (IF it.data \in Guns THEN 1 ELSE 0)
  <2>1. i \in DOMAIN q /\ q[i] = it /\ rest = WithoutNumber(q, q[i].unique)
    OBVIOUS
  <2> HIDE DEF q
  <2>2. CountIn(WithoutNumber(q, q[i].unique), GunItems)
             = CountIn(q, GunItems) - (IF q[i].data \in Guns THEN 1 ELSE 0)
    BY <1>1, <1>5, <2>1, TakenIs
  <2> QED
    BY <2>1, <2>2
<1> DEFINE left == [boxes EXCEPT ![b] = rest]
           c == IF it.data \in Guns THEN 1 ELSE 0
<1>6. c \in Nat
  OBVIOUS
<1> HIDE DEF left, c, q
<1>7. ~ (Len(rest) + 1 < Len(q)) => GunsIn(left) = GunsIn(boxes) - c
  BY <1>4, <1>5, <1>6 DEF c, left
<1> QED
  BY <1>1, <1>2, <1>4, <1>7 DEF left, c, q

\* A gun picked up keeps the invariant: it left the box, and what it replaced fell there.
LEMMA PickupGunStep ==
    ASSUME ItemsInv, ~ clashed, NEW p \in Fighters, Plays(p), NEW b \in DOMAIN boxes, NEW i \in DOMAIN boxes[b],
           NEW it, it = boxes[b][i], NEW rest, rest = WithoutNumber(boxes[b], it.unique), it.data \in Guns,
           PickupGun(p, b, it, rest), UNCHANGED <<walls, revived, issued>>,
           clashed' = (clashed \/ it.unique \in DOMAIN loadout[p].items \/ Len(rest) + 1 < Len(boxes[b])
                               \/ (it.data \in Guns /\ PickupMeets(loadout[p], it)))
    PROVE  ItemsInv'
<1> DEFINE l == loadout[p]
           u == it.unique
           data == it.data
           k == Len(WeaponMaxAttachments[data])
           slot == GunSlot(l, data)
           old == l.guns[slot].unique
           taken == slot \in DOMAIN l.guns
           displaces == taken /\ old # u
           freed == IF displaces THEN RemoveLoadoutWeapon(l, slot) ELSE l
           set == Slotted(freed, slot, data, u)
           has == Track(set, it)
           held == HandIs(has, u)
           m == BuildWeaponAttachments(held, u, data)
           left == [boxes EXCEPT ![b] = rest]
           gone == IF taken THEN {old} ELSE {}
           numbers == (l.uid + 1) .. (l.uid + k)
           fresh == {u} \cup numbers
<1>1. Sound(l) /\ Faithful(l) /\ Typed(l) /\ boxes \in Boxes /\ clashed \in BOOLEAN
  BY DEF ItemsInv, Sound
<1>2. /\ loadout' = [loadout EXCEPT ![p] = m]
      /\ IF displaces THEN boxes' \in DropToGround(left, Item(old, l.guns[slot].data, 1), {b}) ELSE boxes' = left
      /\ l.uid + k <= MaxUnique
  BY DEF PickupGun, HandIs, Slotted
<1>a. data \in Firearms
  BY DEF Firearms
<1>3. slot \in GunSlots /\ Fits(slot, data)
  BY <1>a, GunSlotIs
<1>4. /\ b \in 1 .. MaxBoxes /\ it \in ItemRecords /\ left \in Boxes /\ GunsIn(boxes) \in Nat /\ GunsIn(left) \in Nat
      /\ ~ (Len(rest) + 1 < Len(boxes[b])) => GunsIn(left) = GunsIn(boxes) - (IF it.data \in Guns THEN 1 ELSE 0)
  BY <1>1, TakenBox
<1>5. u \in Numbers /\ k \in Nat /\ l.uid \in Nat /\ l.uid + k \in 0 .. MaxUnique /\ l.uid # 0
  <2>1. u \in Numbers
    BY <1>4 DEF ItemRecords
  <2>2. l.uid \in Nat /\ MaxUnique \in Nat
    BY <1>1, MatchItemsAssumption DEF Typed
  <2>3. l.uid # 0
    BY <2>2 DEF Plays
  <2>4. k \in Nat
    BY <1>a, AttachmentsAre
  <2> HIDE DEF k, l, u
  <2>5. l.uid + k \in 0 .. MaxUnique
    BY <1>2, <2>2, <2>4
  <2> QED
    BY <2>1, <2>2, <2>3, <2>4, <2>5
<1> HIDE DEF slot, left
<1>6. /\ Typed(freed) /\ Same(l, freed)
      /\ DOMAIN freed.items = DOMAIN l.items \ (IF displaces THEN {old} ELSE {})
      /\ \A v \in DOMAIN freed.items : freed.items[v] = l.items[v]
      /\ DOMAIN freed.guns \cup {slot} = DOMAIN l.guns \cup {slot} /\ \A s \in DOMAIN freed.guns : freed.guns[s] = l.guns[s]
      /\ DOMAIN freed.equip \cup {slot} = DOMAIN l.equip \cup {slot} /\ \A s \in DOMAIN freed.equip : freed.equip[s] = l.equip[s]
      /\ \A x \in freed.mounts : x \in l.mounts /\ (displaces => x.gun # old)
  <2>1. CASE displaces
    <3>1. freed = RemoveLoadoutWeapon(l, slot)
      BY <2>1
    <3> HIDE DEF freed, l
    <3>2. /\ Typed(freed) /\ Same(l, freed) /\ DOMAIN freed.items = DOMAIN l.items \ {old}
          /\ \A v \in DOMAIN freed.items : freed.items[v] = l.items[v]
          /\ DOMAIN freed.guns = DOMAIN l.guns \ {slot} /\ \A s \in DOMAIN freed.guns : freed.guns[s] = l.guns[s]
          /\ DOMAIN freed.equip = DOMAIN l.equip \ {slot} /\ \A s \in DOMAIN freed.equip : freed.equip[s] = l.equip[s]
          /\ freed.mounts = {x \in l.mounts : x.gun # old}
      BY <1>1, <3>1, WeaponOutTyped
    <3> HIDE DEF old
    <3> QED
      BY <2>1, <3>2
  <2>2. CASE ~ displaces
    <3>1. freed = l
      BY <2>2
    <3> HIDE DEF freed, l
    <3> QED
      BY <1>1, <2>2, <3>1 DEF Same
  <2> QED
    BY <2>1, <2>2
<1> HIDE DEF freed
<1>7. /\ Typed(set) /\ Same(freed, set) /\ set.items = freed.items /\ Extends(set.guns, freed.guns, slot, At(u, data))
      /\ Extends(set.equip, freed.equip, slot, At(u, data)) /\ set.mounts = freed.mounts
  BY <1>3, <1>5, <1>6, <1>a, SlottedTyped
<1> HIDE DEF set
<1>8. /\ Typed(has) /\ Same(set, has) /\ Extends(has.items, set.items, u, it) /\ has.guns = set.guns
      /\ has.equip = set.equip /\ has.mounts = set.mounts
  BY <1>4, <1>7, TrackTyped
<1> HIDE DEF has
<1>9. /\ Typed(held) /\ held.hand = u /\ Same(has, held) /\ held.items = has.items
      /\ held.guns = has.guns /\ held.equip = has.equip /\ held.mounts = has.mounts
  <2>1. u \in 0 .. MaxUnique
    BY <1>5, MatchItemsAssumption DEF Numbers
  <2> QED
    BY <1>8, <2>1, HandTyped
<1> HIDE DEF held
<1>10. held.uid = l.uid
  BY <1>6, <1>7, <1>8, <1>9 DEF Same
<1>11. /\ Typed(m) /\ m.uid = held.uid + k
       /\ DOMAIN m.items = numbers \cup DOMAIN held.items
       /\ \A v \in numbers : m.items[v].data = "magazine"
       /\ \A v \in DOMAIN held.items \ numbers : m.items[v] = held.items[v]
       /\ m.guns = held.guns /\ m.equip = held.equip /\ m.hand = held.hand
       /\ \A x \in m.mounts : x \in held.mounts \/ x.gun = u
  <2>1. held.uid + Len(WeaponMaxAttachments[data]) \in 0 .. MaxUnique
    BY <1>5, <1>10
  <2>2. LET nn == Len(WeaponMaxAttachments[data])
            nu == (held.uid + 1) .. (held.uid + nn)
        IN  /\ Typed(m) /\ m.uid = held.uid + nn /\ m.before = held.before /\ m.armour = held.armour
            /\ DOMAIN m.items = nu \cup DOMAIN held.items
            /\ \A v \in nu : m.items[v].data = "magazine"
            /\ \A v \in DOMAIN held.items \ nu : m.items[v] = held.items[v]
            /\ m.guns = held.guns /\ m.equip = held.equip /\ m.hand = held.hand
            /\ \A x \in m.mounts : x \in held.mounts \/ x.gun = u
    BY <1>9, <1>a, <2>1, BuildTyped
  <2> HIDE DEF m, l
  <2> QED
    BY <1>10, <2>2
<1> HIDE DEF m, gone, k, numbers
<1>12. Extends(m.guns, l.guns, slot, At(u, data)) /\ Extends(m.equip, l.equip, slot, At(u, data))
  <2> HIDE DEF l
  <2>1. Extends(m.guns, freed.guns, slot, At(u, data)) /\ Extends(m.equip, freed.equip, slot, At(u, data))
    BY <1>7, <1>8, <1>9, <1>11
  <2>2. Extends(m.guns, l.guns, slot, At(u, data))
    BY <1>6, <2>1 DEF Extends
  <2>3. Extends(m.equip, l.equip, slot, At(u, data))
    BY <1>6, <2>1 DEF Extends
  <2> QED
    BY <2>2, <2>3
<1>13. /\ DOMAIN m.items = (DOMAIN l.items \ (IF displaces THEN {old} ELSE {})) \cup {u} \cup numbers
       /\ (u \notin numbers => m.items[u] = it)
       /\ \A v \in DOMAIN m.items \ (numbers \cup {u}) : v \in DOMAIN l.items /\ m.items[v] = l.items[v]
       /\ \A x \in m.mounts : x.gun = u \/ (x \in l.mounts /\ (displaces => x.gun # old))
  <2>1. /\ DOMAIN held.items = DOMAIN freed.items \cup {u} /\ held.items[u] = it
        /\ \A v \in DOMAIN freed.items : v # u => held.items[v] = freed.items[v]
    BY <1>7, <1>8, <1>9 DEF Extends
  <2>2. held.mounts = freed.mounts
    BY <1>7, <1>8, <1>9
  <2> HIDE DEF l, old, taken, displaces
  <2>3. \A x \in m.mounts : x.gun = u \/ (x \in l.mounts /\ (displaces => x.gun # old))
    BY <1>6, <1>11, <2>2
  <2>4. DOMAIN m.items = (DOMAIN l.items \ (IF displaces THEN {old} ELSE {})) \cup {u} \cup numbers
    BY <1>6, <1>11, <2>1
  <2>5. u \notin numbers => m.items[u] = it
    BY <1>11, <2>1
  <2>6. \A v \in DOMAIN m.items \ (numbers \cup {u}) : v \in DOMAIN l.items /\ m.items[v] = l.items[v]
    BY <1>6, <1>11, <2>1
  <2> QED
    BY <2>3, <2>4, <2>5, <2>6
<1>14. m.uid # 0
  BY <1>5, <1>10, <1>11
<1>15. Grown(l, m)
  <2>1. data \notin Stackable /\ "magazine" \notin Stackable
    BY DEF Firearms, Guns, Stackable
  <2> HIDE DEF l
  <2>2. ASSUME NEW v \in DOMAIN m.items
        PROVE  (v \in DOMAIN l.items /\ m.items[v] = l.items[v]) \/ m.items[v].data \notin Stackable
    <3>1. CASE v \in numbers
      BY <1>11, <2>1, <3>1
    <3>2. CASE v = u /\ v \notin numbers
      BY <1>13, <2>1, <3>2
    <3>3. CASE v \notin numbers \cup {u}
      BY <1>13, <3>3
    <3> QED
      BY <3>1, <3>2, <3>3
  <2> QED
    BY <2>2 DEF Grown
<1>16. Sound(m)
  <2> HIDE DEF l, u, data
  <2> QED
    BY <1>1, <1>3, <1>5, <1>11, <1>12, <1>14, <1>15, <1>a, GunTakes DEF data
<1>17. taken => old \in DOMAIN l.items
  <2> SUFFICES ASSUME taken PROVE old \in DOMAIN l.items
    OBVIOUS
  <2>1. slot \in DOMAIN l.equip /\ l.equip[slot].unique = old
    BY <1>1 DEF Sound, Shown
  <2> QED
    BY <1>1, <2>1 DEF Faithful
<1>18. ASSUME ~ clashed'
       PROVE  /\ u \notin DOMAIN l.items /\ ~ (Len(rest) + 1 < Len(boxes[b])) /\ displaces = taken
              /\ numbers \cap DOMAIN l.items = {} /\ u \notin numbers
  <2>1. u \notin DOMAIN l.items /\ ~ (Len(rest) + 1 < Len(boxes[b])) /\ ~ PickupMeets(l, it)
    BY <1>18
  <2>2. numbers \cap DOMAIN l.items = {} /\ u \notin numbers
    BY <2>1 DEF PickupMeets, Meets, numbers, k
  <2>3. displaces = taken
    BY <1>17, <2>1
  <2> QED
    BY <2>1, <2>2, <2>3
<1>19. ~ clashed' => /\ Faithful(m) /\ GunNumbers(m) = (GunNumbers(l) \ Goes(l, gone)) \cup Comes(data, u)
                     /\ u \notin GunNumbers(l)
  <2> SUFFICES ASSUME ~ clashed'
               PROVE /\ Faithful(m) /\ GunNumbers(m) = (GunNumbers(l) \ Goes(l, gone)) \cup Comes(data, u)
                     /\ u \notin GunNumbers(l)
    OBVIOUS
  <2>1. fresh \cap DOMAIN l.items = {} /\ u \in fresh
    BY <1>18
  <2>2. gone = (IF displaces THEN {old} ELSE {}) /\ gone = (IF slot \in DOMAIN l.guns THEN {l.guns[slot].unique} ELSE {})
    BY <1>18 DEF gone
  <2>3. u \notin numbers /\ m.items[u].data = data
    BY <1>13, <1>18
  <2>4. \A v \in fresh \ {u} : m.items[v].data \notin Guns
    BY <1>11 DEF Guns
  <2> HIDE DEF l, u, data
  <2>5. DOMAIN m.items = (DOMAIN l.items \ gone) \cup fresh
    <3> HIDE DEF displaces, old, taken
    <3> QED
      BY <1>13, <2>2
  <2>6. \A v \in DOMAIN l.items \ gone : m.items[v] = l.items[v]
    BY <1>13, <2>1, <2>5
  <2>7. \A x \in m.mounts : x.gun = u \/ (x \in l.mounts /\ x.gun \notin gone)
    <3> HIDE DEF displaces, old, taken
    <3> QED
      BY <1>13, <2>2
  <2>8. m.hand = u /\ data \in Firearms
    BY <1>9, <1>11 DEF data, Firearms
  <2>9. GunIn(m, l, slot, data, u, gone, fresh)
    BY <1>3, <1>5, <1>11, <1>12, <2>1, <2>2, <2>3, <2>4, <2>5, <2>6, <2>7, <2>8, Zenon DEF GunIn
  <2> QED
    BY <1>1, <2>9, GunHeld
<1> DEFINE come == Comes(data, u)
           out == Goes(l, gone)
<1>20. boxes' \in Boxes /\ (~ clashed' => GunsIn(boxes') = GunsIn(boxes) + Ones(out) - (Ones(come) - 0))
  <2>1. ~ clashed' => GunsIn(left) = GunsIn(boxes) - 1
    BY <1>4, <1>18
  <2>2. ~ clashed' => displaces = taken
    BY <1>18
  <2>a. Ones(come) = 1
    BY DEF Ones, Comes
  <2>3. CASE displaces
    <3> DEFINE fell == Item(old, l.guns[slot].data, 1)
               c == IF fell.data \in Guns THEN 1 ELSE 0
    <3>1. l.guns[slot] \in GunAts
      BY <1>1, <2>3 DEF Typed, Table
    <3>2. fell \in ItemRecords /\ fell.data = l.guns[slot].data
      <4>1. \A g \in Firearms : g \in Kinds
        BY DEF Firearms, Guns, Kinds
      <4> QED
        BY <3>1, <4>1 DEF GunAts, Item, ItemRecords
    <3> HIDE DEF fell
    <3>3. boxes' \in DropToGround(left, fell, {b})
      BY <1>2, <2>3 DEF fell
    <3>4. boxes' \in Boxes /\ GunsIn(boxes') = GunsIn(left) + c
      BY <1>4, <3>2, <3>3, DropIs
    <3>5. Ones(out) = c /\ c \in Nat
      BY <1>1, <2>3, <3>2, OutIs DEF gone
    <3> HIDE DEF c, out, come
    <3> QED
      BY <1>4, <2>1, <2>a, <3>4, <3>5
  <2>4. CASE ~ displaces
    <3>1. boxes' = left
      BY <1>2, <2>4
    <3>2. ~ clashed' => Ones(out) = 0
      BY <2>2, <2>4 DEF gone, Goes, Ones
    <3> HIDE DEF out, come
    <3> QED
      BY <1>4, <2>1, <2>a, <3>1, <3>2
  <2> QED
    BY <2>3, <2>4
<1>21. clashed' \in BOOLEAN
  BY <1>1 DEF PickupMeets, Meets
<1>22. AtMostOne(come) /\ AtMostOne(out) /\ out \subseteq GunNumbers(l) /\ (u \notin GunNumbers(l) => come \cap GunNumbers(l) = {})
  BY DEF AtMostOne, Comes, Goes, gone
<1>23. issued' = issued + 0
  BY IssuedIs
<1>24. loadout' = [loadout EXCEPT ![p] = m] /\ 0 \in Nat /\ UNCHANGED <<walls, revived>>
  BY <1>2
<1>25. GunMoves(p, m, come, out, 0)
  <2> HIDE DEF slot
  <2> QED
    BY <1>19, <1>20, <1>21, <1>22, <1>23, <1>24, Zenon DEF GunMoves
<1> QED
  BY <1>16, <1>24, <1>25, GunStep

\* An item that is no gun comes to a sound loadout.
LEMMA TrackSound ==
    ASSUME NEW l, Sound(l), l.uid # 0, NEW it \in ItemRecords, it.data \notin Guns,
           \A w \in DOMAIN l.items \ {it.unique} : it.data \in Stackable => l.items[w].data # it.data
    PROVE  LET m == Track(l, it)
           IN  /\ Sound(m) /\ Same(l, m) /\ Extends(m.items, l.items, it.unique, it) /\ m.guns = l.guns
               /\ m.equip = l.equip /\ m.hand = l.hand /\ m.mounts = l.mounts
               /\ Faithful(l) /\ (it.unique \in DOMAIN l.items => l.items[it.unique].data = it.data)
                     => Faithful(m) /\ GunNumbers(m) = GunNumbers(l)
<1> DEFINE m == Track(l, it)
           u == it.unique
<1>1. /\ Typed(m) /\ Same(l, m) /\ Extends(m.items, l.items, u, it) /\ m.guns = l.guns
      /\ m.equip = l.equip /\ m.hand = l.hand /\ m.mounts = l.mounts
  BY TrackTyped DEF Sound
<1> HIDE DEF m
<1>2. /\ DOMAIN m.items = DOMAIN l.items \cup {u} /\ m.items[u] = it
      /\ \A v \in DOMAIN l.items : v # u => m.items[v] = l.items[v]
  BY <1>1 DEF Extends
<1>3. Shown(m)
  BY <1>1 DEF Sound, Shown
<1>4. Single(m)
  <2> SUFFICES ASSUME NEW v \in DOMAIN m.items, NEW w \in DOMAIN m.items, m.items[v].data \in Stackable,
                      m.items[v].data = m.items[w].data, v # w PROVE FALSE
    BY DEF Single
  <2>1. CASE v # u /\ w # u
    BY <1>2, <2>1 DEF Sound, Single
  <2>2. CASE v = u
    BY <1>2, <2>2
  <2>3. CASE w = u
    BY <1>2, <2>3
  <2> QED
    BY <2>1, <2>2, <2>3
<1>5. m.uid # 0
  BY <1>1 DEF Same
<1>6. Sound(m)
  BY <1>1, <1>3, <1>4, <1>5 DEF Sound
<1>7. ASSUME Faithful(l), u \in DOMAIN l.items => l.items[u].data = it.data PROVE Faithful(m) /\ GunNumbers(m) = GunNumbers(l)
  <2>1. \A v \in DOMAIN l.items : v \in DOMAIN m.items /\ m.items[v].data = l.items[v].data
    BY <1>2, <1>7
  <2>2. GunNumbers(m) = GunNumbers(l)
    BY <1>2, <2>1 DEF GunNumbers
  <2>3. /\ \A s \in DOMAIN m.equip : m.equip[s].unique \in DOMAIN m.items /\ m.items[m.equip[s].unique].data = m.equip[s].data
        /\ \A s, t \in DOMAIN m.equip : m.equip[s].unique = m.equip[t].unique => s = t
    BY <1>1, <1>7, <2>1 DEF Faithful
  <2>4. \A x \in m.mounts : x.gun \in DOMAIN m.items /\ m.items[x.gun].data \in Firearms
    BY <1>1, <1>7, <2>1 DEF Faithful
  <2>5. InHand(m)
    BY <1>1, <1>7, <2>1 DEF Faithful, InHand
  <2> QED
    BY <2>2, <2>3, <2>4, <2>5 DEF Faithful
<1> QED
  BY <1>1, <1>6, <1>7 DEF m, u

\* A slot that no gun takes shows what belongs there.
LEMMA PlacedSound ==
    ASSUME NEW l, Sound(l), NEW s \in Slots, s \notin DOMAIN l.guns, NEW data \in Kinds, Fits(s, data), NEW u \in Numbers
    PROVE  LET m == SetEquip(l, s, data, u)
           IN  /\ Sound(m) /\ Same(l, m) /\ m.items = l.items /\ m.guns = l.guns /\ m.hand = l.hand /\ m.mounts = l.mounts
               /\ Extends(m.equip, l.equip, s, At(u, data))
               /\ (/\ Faithful(l) /\ u \in DOMAIN l.items /\ l.items[u].data = data
                   /\ \A t \in DOMAIN l.equip : l.equip[t].unique = u => t = s)
                  => Faithful(m) /\ GunNumbers(m) = GunNumbers(l)
<1> DEFINE m == SetEquip(l, s, data, u)
<1>1. /\ Typed(m) /\ Same(l, m) /\ m.items = l.items /\ m.guns = l.guns
      /\ Extends(m.equip, l.equip, s, At(u, data)) /\ m.hand = l.hand /\ m.mounts = l.mounts
  BY SetEquipTyped DEF Sound
<1> HIDE DEF m
<1>2. /\ \A t \in DOMAIN m.equip : t # s => t \in DOMAIN l.equip /\ m.equip[t] = l.equip[t]
      /\ m.equip[s].unique = u /\ m.equip[s].data = data /\ DOMAIN l.equip \subseteq DOMAIN m.equip
  BY <1>1 DEF Extends, At
<1>3. Shown(m)
  <2>1. \A t \in DOMAIN m.guns : t \in DOMAIN m.equip /\ m.equip[t] = m.guns[t]
    BY <1>1, <1>2 DEF Sound, Shown
  <2>2. \A t \in DOMAIN m.equip : Fits(t, m.equip[t].data)
    <3> TAKE t \in DOMAIN m.equip
    <3>1. CASE t = s
      BY <1>2, <3>1
    <3>2. CASE t # s
      BY <1>2, <3>2 DEF Sound, Shown
    <3> QED
      BY <3>1, <3>2
  <2> QED
    BY <2>1, <2>2 DEF Shown
<1>4. Sound(m)
  BY <1>1, <1>3 DEF Sound, Single, Same
<1>5. ASSUME Faithful(l), u \in DOMAIN l.items, l.items[u].data = data, \A t \in DOMAIN l.equip : l.equip[t].unique = u => t = s
      PROVE  Faithful(m) /\ GunNumbers(m) = GunNumbers(l)
  <2>1. \A t \in DOMAIN m.equip : m.equip[t].unique \in DOMAIN m.items /\ m.items[m.equip[t].unique].data = m.equip[t].data
    <3> TAKE t \in DOMAIN m.equip
    <3>1. CASE t = s
      BY <1>1, <1>2, <1>5, <3>1
    <3>2. CASE t # s
      BY <1>1, <1>2, <1>5, <3>2 DEF Faithful
    <3> QED
      BY <3>1, <3>2
  <2>2. \A t, r \in DOMAIN m.equip : m.equip[t].unique = m.equip[r].unique => t = r
    <3> SUFFICES ASSUME NEW t \in DOMAIN m.equip, NEW r \in DOMAIN m.equip, m.equip[t].unique = m.equip[r].unique PROVE t = r
      OBVIOUS
    <3>1. CASE t = s \/ r = s
      BY <1>2, <1>5, <3>1
    <3>2. CASE t # s /\ r # s
      BY <1>2, <1>5, <3>2 DEF Faithful
    <3> QED
      BY <3>1, <3>2
  <2>3. /\ \A x \in m.mounts : x.gun \in DOMAIN m.items /\ m.items[x.gun].data \in Firearms
        /\ InHand(m) /\ GunNumbers(m) = GunNumbers(l)
    BY <1>1, <1>5 DEF Faithful, InHand, GunNumbers
  <2> QED
    BY <2>1, <2>2, <2>3 DEF Faithful
<1> QED
  BY <1>1, <1>4, <1>5 DEF m

\* Another item in hand.
LEMMA HandSound ==
    ASSUME NEW l, Sound(l), NEW u \in 0 .. MaxUnique
    PROVE  LET m == HandIs(l, u)
           IN  /\ Sound(m) /\ Same(l, m) /\ m.hand = u /\ m.items = l.items /\ m.guns = l.guns /\ m.equip = l.equip
               /\ m.mounts = l.mounts
               /\ (Faithful(l) /\ (u = 0 \/ l.guns = Nothing \/ (u \in DOMAIN l.items /\ l.items[u].data \in Firearms \cup {"gloo"})))
                  => Faithful(m) /\ GunNumbers(m) = GunNumbers(l)
<1> DEFINE m == HandIs(l, u)
<1>1. /\ Typed(m) /\ m.hand = u /\ Same(l, m) /\ m.items = l.items
      /\ m.guns = l.guns /\ m.equip = l.equip /\ m.mounts = l.mounts
  BY HandTyped DEF Sound
<1> HIDE DEF m
<1>2. Sound(m)
  BY <1>1 DEF Sound, Shown, Single, Same
<1>3. ASSUME Faithful(l), u = 0 \/ l.guns = Nothing \/ (u \in DOMAIN l.items /\ l.items[u].data \in Firearms \cup {"gloo"})
      PROVE  Faithful(m) /\ GunNumbers(m) = GunNumbers(l)
  <2>1. InHand(m)
    BY <1>1, <1>3 DEF InHand
  <2> QED
    BY <1>1, <1>3, <2>1 DEF Faithful, GunNumbers
<1> QED
  BY <1>1, <1>2, <1>3 DEF m

\* A step that moves no gun: between the loadout and the ground there are as many as before.
LEMMA GunlessStep ==
    ASSUME ItemsInv, ~ clashed, NEW p \in Fighters, NEW m, Sound(m), loadout' = [loadout EXCEPT ![p] = m],
           clashed' \in BOOLEAN, ~ clashed' => Faithful(m) /\ GunNumbers(m) = GunNumbers(loadout[p]),
           walls' \in Seq(Fighters), WallsCapped', UNCHANGED <<revived, issued>>,
           boxes' \in Boxes, ~ clashed' => GunsIn(boxes') = GunsIn(boxes)
    PROVE  ItemsInv'
<1>1. revived' \subseteq Fighters
  BY DEF ItemsInv
<1>2. ASSUME ~ clashed'
      PROVE  issued' = issued + (Cardinality(GunNumbers(m)) - Cardinality(GunNumbers(loadout[p])))
                              + (GunsIn(boxes') - GunsIn(boxes))
  <2>1. Cardinality(GunNumbers(m)) \in Nat
    BY GunsCounted DEF Sound
  <2>2. GunsIn(boxes) \in Nat /\ issued \in Int
    BY IssuedIs
  <2>3. Cardinality(GunNumbers(m)) = Cardinality(GunNumbers(loadout[p])) /\ GunsIn(boxes') = GunsIn(boxes) /\ issued' = issued
    BY <1>2
  <2> QED
    BY <2>1, <2>2, <2>3
<1> QED
  BY <1>1, <1>2, OneLoadout

\* A stack is folded into the one that is picked up.
Folded(l, it, u, g, slots, s) ==
    LET all == Track(g, [it EXCEPT !.count = @ + l.items[u].count])
        held == HandIs(all, IF l.hand = u THEN it.unique ELSE all.hand)
    IN  IF slots = {} THEN held ELSE SetEquip(held, s, it.data, it.unique)

\* It is a stack of that kind, and g is what is left without it.
Folds(l, it, u, g, slots, s) ==
    /\ Sound(l) /\ Faithful(l) /\ l.uid # 0 /\ it \in ItemRecords /\ it.data \notin Guns
    /\ u \in DOMAIN l.items \ {it.unique} /\ l.items[u].data = it.data /\ g \in RemoveTrackedItem(l, u)
    /\ slots = SlotsOf(l.equip, u) /\ (slots # {} => s \in slots)

\* A stack that is picked up joins the one held, or becomes it.
LEMMA FoldedSound ==
    ASSUME NEW l, NEW it, NEW u, NEW g, NEW slots, NEW s, Folds(l, it, u, g, slots, s)
    PROVE  /\ Sound(Folded(l, it, u, g, slots, s))
           /\ it.unique \notin DOMAIN l.items =>
                  /\ Faithful(Folded(l, it, u, g, slots, s))
                  /\ GunNumbers(Folded(l, it, u, g, slots, s)) = GunNumbers(l)
<1> USE DEF Folds
<1> DEFINE it2 == [it EXCEPT !.count = @ + l.items[u].count]
           n == it.unique
           all == Track(g, it2)
           h == IF l.hand = u THEN n ELSE all.hand
           held == HandIs(all, h)
           m == SetEquip(held, s, it.data, n)
<1>1. Sound(g) /\ Faithful(g) /\ GunNumbers(g) = GunNumbers(l)
  <2>1. Sound(g) /\ Faithful(g) /\ GunNumbers(g) = GunNumbers(l) \ {u}
    BY LeavesSound
  <2>2. u \notin GunNumbers(l)
    BY DEF GunNumbers
  <2> QED
    BY <2>1, <2>2
<1>2. /\ Same(l, g) /\ g.items = Less(l.items, u) /\ g.guns = Apart(l.guns, slots)
      /\ g.equip = Apart(l.equip, slots) /\ g.hand = (IF l.hand = u THEN 0 ELSE l.hand)
  BY RemovedIs
<1>3. /\ DOMAIN g.items = DOMAIN l.items \ {u} /\ \A v \in DOMAIN g.items : g.items[v] = l.items[v]
      /\ DOMAIN g.guns = DOMAIN l.guns \ slots
      /\ DOMAIN g.equip = DOMAIN l.equip \ slots
  BY <1>2 DEF Less, Apart
<1>4. Typed(l) /\ u \in Numbers /\ l.items[u] \in ItemRecords
  BY DEF Sound, Typed, Table
<1>5. it2 \in ItemRecords /\ it2.unique = n /\ it2.data = it.data /\ n \in Numbers /\ it.data \in Kinds
  <2>1. l.items[u].count \in Nat \ {0} /\ it.count \in Nat \ {0}
    BY <1>4 DEF ItemRecords
  <2>2. it.count + l.items[u].count \in Nat \ {0}
    <3> DEFINE c == it.count
               d == l.items[u].count
    <3> HIDE DEF c, d
    <3>1. c \in Nat \ {0} /\ d \in Nat \ {0}
      BY <2>1 DEF c, d
    <3>2. c + d \in Nat \ {0}
      BY <3>1
    <3> QED
      BY <3>2 DEF c, d
  <2> QED
    BY <2>2 DEF ItemRecords
<1> HIDE DEF it2, n
<1>6. \A w \in DOMAIN g.items \ {n} : it2.data \in Stackable => g.items[w].data # it2.data
  BY <1>3, <1>5 DEF Sound, Single
<1>7. g.uid # 0
  BY <1>2 DEF Same
<1>8. /\ Sound(all) /\ Same(g, all) /\ Extends(all.items, g.items, n, it2) /\ all.guns = g.guns
      /\ all.equip = g.equip /\ all.hand = g.hand
      /\ n \notin DOMAIN g.items => Faithful(all) /\ GunNumbers(all) = GunNumbers(g)
  BY <1>1, <1>5, <1>6, <1>7, TrackSound
<1> HIDE DEF all
<1>9. n \in DOMAIN all.items /\ all.items[n].data = it.data
  BY <1>5, <1>8 DEF Extends
<1>10. h \in 0 .. MaxUnique
  <2>1. n \in 0 .. MaxUnique
    BY <1>5, MatchItemsAssumption DEF Numbers
  <2>2. all.hand \in 0 .. MaxUnique
    BY <1>8 DEF Sound, Typed
  <2> QED
    BY <2>1, <2>2
<1>11. ASSUME n \notin DOMAIN l.items
       PROVE  h = 0 \/ all.guns = Nothing \/ (h \in DOMAIN all.items /\ all.items[h].data \in Firearms \cup {"gloo"})
  <2>1. CASE l.hand = u
    <3>1. h = n /\ u # 0
      BY <1>4, <2>1 DEF Numbers
    <3>2. l.guns = Nothing \/ it.data \in Firearms \cup {"gloo"}
      BY <2>1, <3>1 DEF Faithful, InHand
    <3>3. l.guns = Nothing => all.guns = Nothing
      <4>1. Table(l.guns, GunSlots, GunAts) /\ Table(all.guns, GunSlots, GunAts)
        BY <1>4, <1>8 DEF Sound, Typed
      <4>2. l.guns = Nothing <=> DOMAIN l.guns = {}
        BY <4>1, NothingIs
      <4>3. all.guns = Nothing <=> DOMAIN all.guns = {}
        BY <4>1, NothingIs
      <4> QED
        BY <1>3, <1>8, <4>2, <4>3
    <3> QED
      BY <1>9, <3>1, <3>2, <3>3
  <2>2. CASE l.hand # u
    <3>1. h = all.hand
      BY <2>2
    <3>2. InHand(all)
      BY <1>3, <1>8, <1>11 DEF Faithful
    <3> QED
      BY <3>1, <3>2 DEF InHand
  <2> QED
    BY <2>1, <2>2
<1> HIDE DEF h
<1>12. /\ Sound(held) /\ held.items = all.items /\ held.guns = all.guns /\ held.equip = all.equip
       /\ (Faithful(all) /\ (h = 0 \/ all.guns = Nothing \/ (h \in DOMAIN all.items /\ all.items[h].data \in Firearms \cup {"gloo"})))
                  => Faithful(held) /\ GunNumbers(held) = GunNumbers(all)
  BY <1>8, <1>10, HandSound
<1> HIDE DEF held
<1>13. n \notin DOMAIN l.items => Faithful(held) /\ GunNumbers(held) = GunNumbers(l)
  BY <1>1, <1>3, <1>8, <1>11, <1>12
<1>14. Folded(l, it, u, g, slots, s) = IF slots = {} THEN held ELSE m
  BY DEF Folded, held, h, all, it2, n
<1>15. CASE slots = {}
  BY <1>12, <1>13, <1>14, <1>15 DEF n
<1>16. CASE slots # {}
  <2>1. s \in DOMAIN l.equip /\ l.equip[s].unique = u
    BY <1>16 DEF SlotsOf
  <2>2. s \in Slots
    BY <1>4, <2>1 DEF Typed, Table
  <2>3. Fits(s, it.data)
    BY <2>1 DEF Sound, Shown, Faithful
  <2>4. s \notin DOMAIN held.guns
    BY <1>3, <1>8, <1>12, <1>16
  <2>5. \A t \in DOMAIN held.equip : n \notin DOMAIN l.items => held.equip[t].unique # n
    <3> TAKE t \in DOMAIN held.equip
    <3>1. t \in DOMAIN g.equip /\ held.equip[t] = g.equip[t]
      BY <1>8, <1>12
    <3>2. g.equip[t].unique \in DOMAIN g.items
      BY <1>1, <3>1 DEF Faithful
    <3> QED
      BY <1>3, <3>1, <3>2
  <2>6. /\ Sound(m)
        /\ (/\ Faithful(held) /\ n \in DOMAIN held.items /\ held.items[n].data = it.data
            /\ \A t \in DOMAIN held.equip : held.equip[t].unique = n => t = s)
           => Faithful(m) /\ GunNumbers(m) = GunNumbers(held)
    BY <1>5, <1>12, <2>2, <2>3, <2>4, PlacedSound
  <2> HIDE DEF m
  <2>7. n \notin DOMAIN l.items => Faithful(m) /\ GunNumbers(m) = GunNumbers(l)
    BY <1>9, <1>12, <1>13, <2>5, <2>6
  <2>8. Folded(l, it, u, g, slots, s) = m
    BY <1>14, <1>16
  <2> QED
    BY <2>6, <2>7, <2>8 DEF n
<1> QED
  BY <1>15, <1>16

\* Picking up what is no gun keeps the invariant.
LEMMA PickupItemStep ==
    ASSUME ItemsInv, ~ clashed, NEW p \in Fighters, Plays(p), NEW b \in DOMAIN boxes, NEW i \in DOMAIN boxes[b],
           NEW it, it = boxes[b][i], NEW rest, rest = WithoutNumber(boxes[b], it.unique), it.data \notin Guns,
           PickupItem(p, b, it, rest), UNCHANGED <<walls, revived, issued>>,
           clashed' = (clashed \/ it.unique \in DOMAIN loadout[p].items \/ Len(rest) + 1 < Len(boxes[b])
                               \/ (it.data \in Guns /\ PickupMeets(loadout[p], it)))
    PROVE  ItemsInv'
<1> DEFINE l == loadout[p]
           stacks == TrackedByData(l, it.data, it.unique)
           left == [boxes EXCEPT ![b] = rest]
<1>1. Sound(l) /\ Faithful(l) /\ Typed(l) /\ boxes \in Boxes /\ clashed \in BOOLEAN /\ l.uid # 0
  BY DEF ItemsInv, Sound, Plays, Typed
<1>2. /\ it \in ItemRecords /\ left \in Boxes /\ GunsIn(boxes) \in Nat
      /\ ~ (Len(rest) + 1 < Len(boxes[b])) => GunsIn(left) = GunsIn(boxes) - (IF it.data \in Guns THEN 1 ELSE 0)
  BY <1>1, TakenBox
<1>3. boxes' = left /\ (~ clashed' => GunsIn(boxes') = GunsIn(boxes) /\ it.unique \notin DOMAIN l.items)
  <2>1. boxes' = left
    BY DEF PickupItem
  <2> HIDE DEF left, l
  <2>2. ASSUME ~ clashed' PROVE ~ (Len(rest) + 1 < Len(boxes[b])) /\ it.unique \notin DOMAIN l.items
    BY <2>2 DEF l
  <2>3. ASSUME ~ clashed' PROVE GunsIn(boxes') = GunsIn(boxes)
    <3>1. GunsIn(left) = GunsIn(boxes) - 0
      BY <1>2, <2>2, <2>3
    <3> QED
      BY <1>2, <2>1, <3>1
  <2> QED
    BY <2>1, <2>2, <2>3
<1>4. boxes' \in Boxes /\ clashed' \in BOOLEAN
  BY <1>1, <1>2, <1>3 DEF PickupMeets, Meets
<1>5. \E m : /\ loadout' = [loadout EXCEPT ![p] = m] /\ Sound(m)
             /\ it.unique \notin DOMAIN l.items => Faithful(m) /\ GunNumbers(m) = GunNumbers(l)
  <2>1. CASE stacks = {}
    <3> DEFINE m == Track(l, it)
    <3>1. loadout' = [loadout EXCEPT ![p] = m]
      BY <2>1 DEF PickupItem
    <3>2. \A w \in DOMAIN l.items \ {it.unique} : it.data \in Stackable => l.items[w].data # it.data
      BY <2>1 DEF TrackedByData
    <3> DEFINE ll == l
    <3> HIDE DEF ll
    <3>3. /\ Sound(Track(ll, it))
          /\ Faithful(ll) /\ it.unique \notin DOMAIN ll.items => Faithful(Track(ll, it)) /\ GunNumbers(Track(ll, it)) = GunNumbers(ll)
      BY <1>1, <1>2, <3>2, TrackSound DEF ll
    <3>4. /\ Sound(m)
          /\ it.unique \notin DOMAIN l.items => Faithful(m) /\ GunNumbers(m) = GunNumbers(l)
      BY <1>1, <3>3 DEF ll
    <3> HIDE DEF m, l
    <3> QED
      BY <3>1, <3>4
  <2>2. CASE stacks # {}
    <3>0. PICK u \in stacks : \E g \in RemoveTrackedItem(l, u) :
             LET slots == SlotsOf(l.equip, u)
                 all == Track(g, [it EXCEPT !.count = @ + l.items[u].count])
                 held == [all EXCEPT !.hand = IF l.hand = u THEN it.unique ELSE @]
             IN  IF slots = {}
                   THEN loadout' = [loadout EXCEPT ![p] = held]
                   ELSE \E s \in slots : loadout' = [loadout EXCEPT ![p] = SetEquip(held, s, it.data, it.unique)]
      BY <2>2 DEF PickupItem
    <3>1. PICK g \in RemoveTrackedItem(l, u) :
             LET slots == SlotsOf(l.equip, u)
                 all == Track(g, [it EXCEPT !.count = @ + l.items[u].count])
                 held == [all EXCEPT !.hand = IF l.hand = u THEN it.unique ELSE @]
             IN  IF slots = {}
                   THEN loadout' = [loadout EXCEPT ![p] = held]
                   ELSE \E s \in slots : loadout' = [loadout EXCEPT ![p] = SetEquip(held, s, it.data, it.unique)]
      BY <3>0
    <3> DEFINE slots == SlotsOf(l.equip, u)
    <3>2. \E s : (slots # {} => s \in slots) /\ loadout' = [loadout EXCEPT ![p] = Folded(l, it, u, g, slots, s)]
      <4>1. CASE slots = {}
        BY <3>1, <4>1 DEF Folded, HandIs
      <4>2. CASE slots # {}
        BY <3>1, <4>2 DEF Folded, HandIs
      <4> QED
        BY <4>1, <4>2
    <3>3. PICK s : (slots # {} => s \in slots) /\ loadout' = [loadout EXCEPT ![p] = Folded(l, it, u, g, slots, s)]
      BY <3>2
    <3>4. u \in DOMAIN l.items \ {it.unique} /\ l.items[u].data = it.data
      BY DEF TrackedByData
    <3> DEFINE ll == l
               ss == slots
    <3> HIDE DEF ll, ss
    <3>5. ss = SlotsOf(ll.equip, u) /\ (ss # {} => s \in ss) /\ u \in DOMAIN ll.items \ {it.unique} /\ ll.items[u].data = it.data
          /\ g \in RemoveTrackedItem(ll, u) /\ Sound(ll) /\ Faithful(ll) /\ ll.uid # 0
      BY <1>1, <3>1, <3>3, <3>4 DEF ll, ss
    <3>6. /\ Sound(Folded(ll, it, u, g, ss, s))
          /\ it.unique \notin DOMAIN ll.items =>
                 /\ Faithful(Folded(ll, it, u, g, ss, s)) /\ GunNumbers(Folded(ll, it, u, g, ss, s)) = GunNumbers(ll)
      <4>1. Folds(ll, it, u, g, ss, s)
        BY <1>2, <3>5 DEF Folds
      <4> QED
        BY <4>1, FoldedSound
    <3>7. loadout' = [loadout EXCEPT ![p] = Folded(ll, it, u, g, ss, s)]
      BY <3>3 DEF ll, ss
    <3> QED
      BY <3>6, <3>7 DEF ll
  <2> QED
    BY <2>1, <2>2
<1>6. PICK m : /\ loadout' = [loadout EXCEPT ![p] = m] /\ Sound(m)
               /\ it.unique \notin DOMAIN l.items => Faithful(m) /\ GunNumbers(m) = GunNumbers(l)
  BY <1>5
<1>7. ~ clashed' => Faithful(m) /\ GunNumbers(m) = GunNumbers(l)
  BY <1>3, <1>6
<1>8. ~ clashed' => GunsIn(boxes') = GunsIn(boxes)
  BY <1>3
<1>9. walls' \in Seq(Fighters) /\ WallsCapped'
  BY DEF ItemsInv, WallsCapped
<1> QED
  BY <1>4, <1>6, <1>7, <1>8, <1>9, GunlessStep

\* Picking up keeps the invariant.
LEMMA PickupStep == ASSUME ItemsInv, ~ clashed, NEW p \in Fighters, Pickup(p) PROVE ItemsInv'
<1>1. PICK b \in DOMAIN boxes : \E i \in DOMAIN boxes[b] :
          LET it == boxes[b][i]
              rest == WithoutNumber(boxes[b], it.unique)
              l == loadout[p]
          IN  /\ IF it.data \in Guns THEN PickupGun(p, b, it, rest) ELSE PickupItem(p, b, it, rest)
              /\ clashed' = (clashed \/ it.unique \in DOMAIN l.items
                             \/ Len(rest) + 1 < Len(boxes[b])
                             \/ (it.data \in Guns /\ PickupMeets(l, it)))
  BY DEF Pickup
<1>2. PICK i \in DOMAIN boxes[b] :
          LET it == boxes[b][i]
              rest == WithoutNumber(boxes[b], it.unique)
              l == loadout[p]
          IN  /\ IF it.data \in Guns THEN PickupGun(p, b, it, rest) ELSE PickupItem(p, b, it, rest)
              /\ clashed' = (clashed \/ it.unique \in DOMAIN l.items
                             \/ Len(rest) + 1 < Len(boxes[b])
                             \/ (it.data \in Guns /\ PickupMeets(l, it)))
  BY <1>1
<1> DEFINE it == boxes[b][i]
           rest == WithoutNumber(boxes[b], it.unique)
<1>3. Plays(p) /\ UNCHANGED <<walls, revived, issued>>
  BY DEF Pickup
<1>4. /\ IF it.data \in Guns THEN PickupGun(p, b, it, rest) ELSE PickupItem(p, b, it, rest)
      /\ clashed' = (clashed \/ it.unique \in DOMAIN loadout[p].items
                     \/ Len(rest) + 1 < Len(boxes[b]) \/ (it.data \in Guns /\ PickupMeets(loadout[p], it)))
  BY <1>2
<1>5. it = boxes[b][i] /\ rest = WithoutNumber(boxes[b], it.unique)
  OBVIOUS
<1> HIDE DEF it, rest
<1>6. CASE it.data \in Guns
  BY <1>3, <1>4, <1>5, <1>6, PickupGunStep
<1>7. CASE it.data \notin Guns
  BY <1>3, <1>4, <1>5, <1>7, PickupItemStep
<1> QED
  BY <1>6, <1>7

-----------------------------------------------------------------------------
(* An item is dragged.                                                     *)

\* The gun of a slot is taken out of the guns: what the slot shows is about to change.
Disarmed(l, s) == [l EXCEPT !.guns = Less(@, s)]

\* A slot without its gun is still sound.
LEMMA DisarmedSound ==
    ASSUME NEW l, Sound(l), NEW s
    PROVE  LET m == Disarmed(l, s)
           IN  /\ Sound(m) /\ Same(l, m) /\ m.items = l.items /\ m.equip = l.equip /\ m.hand = l.hand /\ m.mounts = l.mounts
               /\ s \notin DOMAIN m.guns
               /\ Faithful(l) => Faithful(m) /\ GunNumbers(m) = GunNumbers(l)
<1> DEFINE m == Disarmed(l, s)
           g == l.guns
<1>1. /\ m = [l EXCEPT !.guns = Less(g, s)] /\ Shaped(l) /\ Table(g, GunSlots, GunAts)
  BY DEF Disarmed, Sound, Typed
<1> HIDE DEF m, g
<1>2. Table(Less(g, s), GunSlots, GunAts) /\ DOMAIN Less(g, s) = DOMAIN g \ {s} /\ \A t \in DOMAIN g \ {s} : Less(g, s)[t] = g[t]
  BY <1>1, LessIs
<1>3. /\ Shaped(m) /\ Same(l, m) /\ m.items = l.items /\ m.equip = l.equip /\ m.hand = l.hand /\ m.mounts = l.mounts
      /\ m.guns = Less(g, s)
  BY <1>1 DEF Shaped, Same
<1>4. Typed(m)
  BY <1>2, <1>3 DEF Sound, Typed, Same
<1>5. Shown(m)
  BY <1>2, <1>3 DEF Sound, Shown, g
<1>6. Sound(m)
  BY <1>3, <1>4, <1>5 DEF Sound, Single, Same
<1>7. l.guns = Nothing => m.guns = Nothing
  <2>1. g = Nothing <=> DOMAIN g = {}
    BY <1>1, NothingIs
  <2>2. Less(g, s) = Nothing <=> DOMAIN Less(g, s) = {}
    BY <1>2, NothingIs
  <2> QED
    BY <1>2, <1>3, <2>1, <2>2 DEF g
<1>8. ASSUME Faithful(l) PROVE Faithful(m) /\ GunNumbers(m) = GunNumbers(l)
  <2>1. InHand(m)
    BY <1>3, <1>7, <1>8 DEF Faithful, InHand
  <2> QED
    BY <1>3, <1>8, <2>1 DEF Faithful, GunNumbers
<1> QED
  BY <1>2, <1>3, <1>6, <1>8 DEF m

\* No entry, nothing to clear.
LEMMA ClearNothing ==
    ASSUME NEW l, Typed(l), NEW s, s \notin DOMAIN l.equip
    PROVE  ClearEquip(l, s) = l
<1>1. Table(l.equip, Slots, Ats) /\ Shaped(l)
  BY DEF Typed
<1>2. Less(l.equip, s) = l.equip
  <2> DEFINE e == l.equip
  <2>1. e = [x \in DOMAIN e |-> e[x]] /\ DOMAIN e \ {s} = DOMAIN e
    BY <1>1 DEF Table
  <2> HIDE DEF e
  <2>2. Less(e, s) = e
    BY <2>1 DEF Less
  <2> QED
    BY <2>2 DEF e
<1> QED
  BY <1>1, <1>2 DEF ClearEquip, Shaped

\* From the bag to a slot.
LEMMA FromBagSound ==
    ASSUME NEW l, Sound(l), Faithful(l), NEW u \in DOMAIN l.items, NEW dst \in Slots, Fits(dst, l.items[u].data),
           SlotsOf(l.equip, u) = {}
    PROVE  LET m == Equip(l, u, "slotNone", dst)
           IN  Sound(m) /\ Faithful(m) /\ GunNumbers(m) = GunNumbers(l)
<1> DEFINE data == l.items[u].data
           bumped == IF dst \in DOMAIN l.equip THEN Disarmed(l, dst) ELSE l
           m == SetEquip(bumped, dst, data, u)
<1>1. Typed(l) /\ u \in Numbers /\ data \in Kinds
  BY DEF Sound, Typed, Table, ItemRecords
<1>2. \A t \in DOMAIN l.equip : l.equip[t].unique # u
  BY DEF SlotsOf
<1> HIDE DEF data
<1>3. /\ Sound(bumped) /\ bumped.items = l.items /\ bumped.equip = l.equip /\ dst \notin DOMAIN bumped.guns
      /\ Faithful(bumped) /\ GunNumbers(bumped) = GunNumbers(l)
  <2>1. CASE dst \in DOMAIN l.equip
    BY <2>1, DisarmedSound
  <2>2. CASE dst \notin DOMAIN l.equip
    BY <2>2 DEF Sound, Shown
  <2> QED
    BY <2>1, <2>2
<1>4. "slotNone" \notin DOMAIN bumped.equip /\ Typed(bumped)
  BY <1>1, <1>3 DEF Sound, Typed, Table, Slots, GunSlots
<1>5. Equip(l, u, "slotNone", dst) = SetEquip(ClearEquip(bumped, "slotNone"), dst, data, u)
  BY DEF Equip, Disarmed, data
<1> HIDE DEF bumped
<1>6. Equip(l, u, "slotNone", dst) = m
  BY <1>4, <1>5, ClearNothing
<1>7. /\ Sound(m)
      /\ (/\ Faithful(bumped) /\ u \in DOMAIN bumped.items /\ bumped.items[u].data = data
          /\ \A t \in DOMAIN bumped.equip : bumped.equip[t].unique = u => t = dst)
         => Faithful(m) /\ GunNumbers(m) = GunNumbers(bumped)
  <2>1. Fits(dst, data)
    BY DEF data
  <2> QED
    BY <1>1, <1>3, <2>1, PlacedSound
<1> HIDE DEF m
<1>8. Faithful(m) /\ GunNumbers(m) = GunNumbers(l)
  BY <1>2, <1>3, <1>7 DEF data
<1> QED
  BY <1>6, <1>7, <1>8

\* The other of two slots; what is in one trades places with what is in the other.
Other(a, b, s) == IF s = a THEN b ELSE IF s = b THEN a ELSE s
Traded(f, a, b) == [s \in {Other(a, b, t) : t \in DOMAIN f} |-> f[Other(a, b, s)]]

\* Two slots that trade places, read at the other slot.
LEMMA TradedIs ==
    ASSUME NEW f, NEW a, NEW b
    PROVE  /\ \A s : Other(a, b, Other(a, b, s)) = s
           /\ \A s : s \in DOMAIN Traded(f, a, b) <=> Other(a, b, s) \in DOMAIN f
           /\ \A s \in DOMAIN Traded(f, a, b) : Traded(f, a, b)[s] = f[Other(a, b, s)]
<1>1. \A s : Other(a, b, Other(a, b, s)) = s
  BY DEF Other
<1>2. DOMAIN Traded(f, a, b) = {Other(a, b, t) : t \in DOMAIN f}
  BY DEF Traded
<1>3. \A s : s \in DOMAIN Traded(f, a, b) <=> Other(a, b, s) \in DOMAIN f
  BY <1>1, <1>2
<1>4. \A s \in DOMAIN Traded(f, a, b) : Traded(f, a, b)[s] = f[Other(a, b, s)]
  BY DEF Traded
<1> QED
  BY <1>1, <1>3, <1>4

\* A swap of guns is a trade of their slots.
LEMMA SwapGunsIs ==
    ASSUME NEW l, Shaped(l), NEW a, NEW b
    PROVE  LET m == SwapGuns(l, a, b)
           IN  /\ Shaped(m) /\ Same(l, m) /\ m.items = l.items /\ m.equip = l.equip /\ m.hand = l.hand /\ m.mounts = l.mounts
               /\ m.guns = Traded(l.guns, a, b)
<1> DEFINE g == l.guns
           m == SwapGuns(l, a, b)
           Oth(s) == CASE s = a -> b [] s = b -> a [] OTHER -> s
           h == [s \in {Oth(t) : t \in DOMAIN g} |-> g[Oth(s)]]
<1>1. m = [l EXCEPT !.guns = h]
  BY DEF SwapGuns
<1>2. \A s : Oth(s) = Other(a, b, s)
  BY DEF Other
<1>3. h = Traded(g, a, b)
  <2> HIDE DEF Oth, g
  <2> QED
    BY <1>2 DEF Traded
<1> HIDE DEF m, h
<1>4. /\ Shaped(m) /\ Same(l, m) /\ m.items = l.items /\ m.equip = l.equip /\ m.hand = l.hand /\ m.mounts = l.mounts
      /\ m.guns = h
  BY <1>1 DEF Shaped, Same
<1> QED
  BY <1>3, <1>4 DEF m, g

\* Between the two slots of a rifle.
LEMMA BetweenSlotsSound ==
    ASSUME NEW l, Sound(l), Faithful(l), NEW a \in {"primary1", "primary2"}, NEW b \in {"primary1", "primary2"}, a # b,
           NEW m, Shaped(m), Same(l, m), m.items = l.items, m.hand = l.hand, m.mounts = l.mounts,
           m.guns = Traded(l.guns, a, b), m.equip = Traded(l.equip, a, b)
    PROVE  Sound(m) /\ Faithful(m) /\ GunNumbers(m) = GunNumbers(l)
<1> DEFINE O(s) == Other(a, b, s)
<1>1. /\ \A s : O(O(s)) = s
      /\ \A s : s \in DOMAIN m.guns <=> O(s) \in DOMAIN l.guns
      /\ \A s \in DOMAIN m.guns : m.guns[s] = l.guns[O(s)]
  BY TradedIs
<1>2. /\ \A s : s \in DOMAIN m.equip <=> O(s) \in DOMAIN l.equip
      /\ \A s \in DOMAIN m.equip : m.equip[s] = l.equip[O(s)]
  BY TradedIs
<1>3. \A s : (s \in GunSlots <=> O(s) \in GunSlots) /\ (s \in Slots <=> O(s) \in Slots)
  BY DEF Other, GunSlots, Slots
<1>4. \A s, data : Fits(O(s), data) => Fits(s, data)
  BY DEF Other, Fits, PlaceItem
<1>5. Table(l.guns, GunSlots, GunAts) /\ Table(l.equip, Slots, Ats) /\ Typed(l)
  BY DEF Sound, Typed
<1>6. m.guns = [s \in DOMAIN m.guns |-> m.guns[s]] /\ m.equip = [s \in DOMAIN m.equip |-> m.equip[s]]
  BY DEF Traded
<1> HIDE DEF O
<1>7. Table(m.guns, GunSlots, GunAts)
  BY <1>1, <1>3, <1>5, <1>6 DEF Table
<1>8. Table(m.equip, Slots, Ats)
  BY <1>2, <1>3, <1>5, <1>6 DEF Table
<1>9. Typed(m)
  BY <1>5, <1>7, <1>8 DEF Typed, Same
<1>10. Shown(m)
  <2>1. \A s \in DOMAIN m.guns : s \in DOMAIN m.equip /\ m.equip[s] = m.guns[s]
    BY <1>1, <1>2 DEF Sound, Shown
  <2>2. \A s \in DOMAIN m.equip : Fits(s, m.equip[s].data)
    BY <1>2, <1>4 DEF Sound, Shown
  <2> QED
    BY <2>1, <2>2 DEF Shown
<1>11. Sound(m)
  BY <1>9, <1>10 DEF Sound, Single, Same
<1>12. \A s \in DOMAIN m.equip : m.equip[s].unique \in DOMAIN m.items /\ m.items[m.equip[s].unique].data = m.equip[s].data
  BY <1>2 DEF Faithful
<1>13. \A s, t \in DOMAIN m.equip : m.equip[s].unique = m.equip[t].unique => s = t
  <2> SUFFICES ASSUME NEW s \in DOMAIN m.equip, NEW t \in DOMAIN m.equip, m.equip[s].unique = m.equip[t].unique PROVE s = t
    OBVIOUS
  <2>1. O(s) = O(t)
    BY <1>2 DEF Faithful
  <2> QED
    BY <1>1, <2>1
<1>14. l.guns = Nothing => m.guns = Nothing
  <2>1. l.guns = Nothing <=> DOMAIN l.guns = {}
    BY <1>5, NothingIs
  <2>2. m.guns = Nothing <=> DOMAIN m.guns = {}
    BY <1>7, NothingIs
  <2> QED
    BY <1>1, <2>1, <2>2
<1>15. InHand(m)
  BY <1>14 DEF Faithful, InHand
<1>16. GunNumbers(m) = GunNumbers(l)
  BY DEF GunNumbers
<1> QED
  BY <1>11, <1>12, <1>13, <1>15, <1>16 DEF Faithful

\* Two entries that trade places; an entry that moves to a place that is free.
LEMMA TradedBoth ==
    ASSUME NEW f, NEW a \in DOMAIN f, NEW b \in DOMAIN f, a # b
    PROVE  With(With(f, a, f[b]), b, f[a]) = Traded(f, a, b)
<1> DEFINE g == With(With(f, a, f[b]), b, f[a])
           D == DOMAIN f
<1>1. g = [s \in D |-> IF s = b THEN f[a] ELSE IF s = a THEN f[b] ELSE f[s]]
  <2>1. With(f, a, f[b]) = [s \in D |-> IF s = a THEN f[b] ELSE f[s]]
    <3>1. D \cup {a} = D
      OBVIOUS
    <3> QED
      BY <3>1 DEF With
  <2> DEFINE h == [s \in D |-> IF s = a THEN f[b] ELSE f[s]]
  <2>2. With(h, b, f[a]) = [s \in D |-> IF s = b THEN f[a] ELSE h[s]]
    <3>1. DOMAIN h = D /\ D \cup {b} = D
      OBVIOUS
    <3> HIDE DEF h, D
    <3> QED
      BY <3>1 DEF With
  <2>3. g = With(h, b, f[a])
    BY <2>1
  <2> HIDE DEF g
  <2> QED
    BY <2>2, <2>3
<1>2. {Other(a, b, t) : t \in D} = D
  <2>1. \A t \in D : Other(a, b, t) \in D /\ Other(a, b, Other(a, b, t)) = t
    BY DEF Other
  <2> HIDE DEF D
  <2> QED
    BY <2>1
<1>3. \A s \in D : f[Other(a, b, s)] = IF s = b THEN f[a] ELSE IF s = a THEN f[b] ELSE f[s]
  BY DEF Other
<1>4. Traded(f, a, b) = [s \in D |-> f[Other(a, b, s)]]
  BY <1>2 DEF Traded
<1> HIDE DEF D, g
<1> QED
  BY <1>1, <1>3, <1>4 DEF g

\* A move to a slot that is free is a trade with nothing.
LEMMA TradedOne ==
    ASSUME NEW f, NEW a \in DOMAIN f, NEW b, b \notin DOMAIN f
    PROVE  With(Less(f, a), b, f[a]) = Traded(f, a, b)
<1> DEFINE D == DOMAIN f
           E == (D \ {a}) \cup {b}
<1>1. Less(f, a) = [s \in D \ {a} |-> f[s]]
  BY DEF Less
<1>2. With(Less(f, a), b, f[a]) = [s \in E |-> IF s = b THEN f[a] ELSE f[s]]
  <2> DEFINE h == [s \in D \ {a} |-> f[s]]
  <2>1. DOMAIN h = D \ {a} /\ \A s \in D \ {a} : h[s] = f[s]
    OBVIOUS
  <2> HIDE DEF h, D
  <2>2. With(h, b, f[a]) = [s \in E |-> IF s = b THEN f[a] ELSE h[s]]
    BY <2>1 DEF With
  <2>3. \A s \in E : s # b => s \in D \ {a}
    OBVIOUS
  <2>4. With(h, b, f[a]) = [s \in E |-> IF s = b THEN f[a] ELSE f[s]]
    BY <2>1, <2>2, <2>3
  <2> QED
    BY <1>1, <2>4 DEF h
<1>3. {Other(a, b, t) : t \in D} = E
  <2>1. \A t \in D : Other(a, b, t) \in E
    BY DEF Other
  <2>2. \A s \in E : Other(a, b, s) \in D /\ Other(a, b, Other(a, b, s)) = s
    BY DEF Other
  <2> HIDE DEF D, E
  <2> QED
    BY <2>1, <2>2
<1>4. \A s \in E : f[Other(a, b, s)] = IF s = b THEN f[a] ELSE f[s]
  BY DEF Other
<1>5. Traded(f, a, b) = [s \in E |-> f[Other(a, b, s)]]
  BY <1>3 DEF Traded
<1> HIDE DEF D, E
<1> QED
  BY <1>2, <1>4, <1>5

\* What a drag from slot to slot makes of the slots, before the guns follow.
Shifted(l, old, dst) ==
    LET u == l.equip[old].unique
        data == l.equip[old].data
    IN  IF dst \in DOMAIN l.equip
          THEN SetEquip(SetEquip(l, old, l.equip[dst].data, l.equip[dst].unique), dst, data, u)
          ELSE SetEquip(ClearEquip(l, old), dst, data, u)

\* A drag between slots is a trade of what they show.
LEMMA ShiftedIs ==
    ASSUME NEW l, Typed(l), NEW old \in DOMAIN l.equip, NEW dst, old # dst
    PROVE  LET m == Shifted(l, old, dst)
           IN  /\ Shaped(m) /\ Same(l, m) /\ m.items = l.items /\ m.guns = l.guns /\ m.hand = l.hand /\ m.mounts = l.mounts
               /\ m.equip = Traded(l.equip, old, dst)
<1> DEFINE e == l.equip
<1>1. Shaped(l) /\ Table(e, Slots, Ats)
  BY DEF Typed
<1>2. \A s \in DOMAIN e : At(e[s].unique, e[s].data) = e[s]
  BY <1>1 DEF Table, Ats, At
<1>3. CASE dst \in DOMAIN e
  <2> DEFINE n == SetEquip(l, old, e[dst].data, e[dst].unique)
             m == SetEquip(n, dst, e[old].data, e[old].unique)
  <2>1. /\ Shaped(n) /\ Same(l, n) /\ n.items = l.items /\ n.guns = l.guns
        /\ n.equip = With(e, old, At(e[dst].unique, e[dst].data)) /\ n.hand = l.hand /\ n.mounts = l.mounts
    BY <1>1, SetEquipIs
  <2> HIDE DEF n
  <2>2. /\ Shaped(m) /\ Same(n, m) /\ m.items = n.items /\ m.guns = n.guns
        /\ m.equip = With(n.equip, dst, At(e[old].unique, e[old].data)) /\ m.hand = n.hand /\ m.mounts = n.mounts
    BY <2>1, SetEquipIs
  <2>3. m = Shifted(l, old, dst)
    BY <1>3 DEF Shifted, n
  <2> HIDE DEF m
  <2>4. n.equip = With(e, old, e[dst])
    BY <1>2, <1>3, <2>1
  <2>5. m.equip = With(n.equip, dst, e[old])
    BY <1>2, <2>2
  <2>6. With(With(e, old, e[dst]), dst, e[old]) = Traded(e, old, dst)
    BY <1>3, TradedBoth
  <2>7. Same(l, m)
    BY <2>1, <2>2 DEF Same
  <2> QED
    BY <2>1, <2>2, <2>3, <2>4, <2>5, <2>6, <2>7
<1>4. CASE dst \notin DOMAIN e
  <2> DEFINE n == ClearEquip(l, old)
             m == SetEquip(n, dst, e[old].data, e[old].unique)
  <2>1. /\ Shaped(n) /\ Same(l, n) /\ n.items = l.items /\ n.guns = l.guns
        /\ n.equip = Less(e, old) /\ n.hand = l.hand /\ n.mounts = l.mounts
    BY <1>1, ClearEquipIs
  <2> HIDE DEF n
  <2>2. /\ Shaped(m) /\ Same(n, m) /\ m.items = n.items /\ m.guns = n.guns
        /\ m.equip = With(n.equip, dst, At(e[old].unique, e[old].data)) /\ m.hand = n.hand /\ m.mounts = n.mounts
    BY <2>1, SetEquipIs
  <2>3. m = Shifted(l, old, dst)
    BY <1>4 DEF Shifted, n
  <2> HIDE DEF m
  <2>5. m.equip = With(n.equip, dst, e[old])
    BY <1>2, <2>2
  <2>6. With(Less(e, old), dst, e[old]) = Traded(e, old, dst)
    BY <1>4, TradedOne
  <2>7. Same(l, m)
    BY <2>1, <2>2 DEF Same
  <2> QED
    BY <2>1, <2>2, <2>3, <2>5, <2>6, <2>7
<1> QED
  BY <1>3, <1>4

\* From slot to slot: only a rifle has two.
LEMMA ToSlotSound ==
    ASSUME NEW l, Sound(l), Faithful(l), NEW old \in DOMAIN l.equip, old # "slotNone", NEW dst \in Slots, old # dst,
           Fits(dst, l.equip[old].data), NEW u, u = l.equip[old].unique
    PROVE  LET m == Equip(l, u, old, dst)
           IN  Sound(m) /\ Faithful(m) /\ GunNumbers(m) = GunNumbers(l)
<1> DEFINE n == Shifted(l, old, dst)
           m == SwapGuns(n, old, dst)
<1>1. Equip(l, u, old, dst) = m
  BY DEF Equip, Shifted
<1>2. Typed(l) /\ Fits(old, l.equip[old].data)
  BY DEF Sound, Shown
<1>3. old \in {"primary1", "primary2"} /\ dst \in {"primary1", "primary2"}
  BY <1>2 DEF Fits, PlaceItem
<1>4. /\ Shaped(n) /\ Same(l, n) /\ n.items = l.items /\ n.guns = l.guns /\ n.hand = l.hand /\ n.mounts = l.mounts
      /\ n.equip = Traded(l.equip, old, dst)
  BY <1>2, ShiftedIs
<1> HIDE DEF n
<1>5. /\ Shaped(m) /\ Same(n, m) /\ m.items = n.items /\ m.equip = n.equip /\ m.hand = n.hand /\ m.mounts = n.mounts
      /\ m.guns = Traded(n.guns, old, dst)
  BY <1>4, SwapGunsIs
<1> HIDE DEF m
<1>6. /\ Shaped(m) /\ Same(l, m) /\ m.items = l.items /\ m.hand = l.hand /\ m.mounts = l.mounts
      /\ m.guns = Traded(l.guns, old, dst) /\ m.equip = Traded(l.equip, old, dst)
  BY <1>4, <1>5 DEF Same
<1>7. Sound(m) /\ Faithful(m) /\ GunNumbers(m) = GunNumbers(l)
  BY <1>3, <1>6, BetweenSlotsSound
<1> QED
  BY <1>1, <1>7

\* Dragging keeps the invariant, wherever the item comes from.
LEMMA DragStep == ASSUME ItemsInv, ~ clashed, NEW p \in Fighters, Drag(p) PROVE ItemsInv'
<1> DEFINE l == loadout[p]
<1>1. Sound(l) /\ Faithful(l)
  BY DEF ItemsInv
<1>2. PICK u \in DOMAIN l.items :
        /\ l.items[u].data \in Firearms \cup DOMAIN PlaceItem
        /\ \E dst \in DragSlots(l.items[u].data) :
           \E old \in (IF SlotsOf(l.equip, u) = {} THEN {"slotNone"} ELSE SlotsOf(l.equip, u)) :
              old # dst /\ loadout' = [loadout EXCEPT ![p] = Equip(l, u, old, dst)]
  BY DEF Drag
<1>3. PICK dst \in DragSlots(l.items[u].data),
           old \in (IF SlotsOf(l.equip, u) = {} THEN {"slotNone"} ELSE SlotsOf(l.equip, u)) :
              old # dst /\ loadout' = [loadout EXCEPT ![p] = Equip(l, u, old, dst)]
  BY <1>2
<1>4. dst \in Slots /\ Fits(dst, l.items[u].data)
  BY <1>2, <1>3 DEF DragSlots, Fits, PlaceItem, Slots, GunSlots, Firearms, Guns
<1> HIDE DEF l
<1> DEFINE m == Equip(l, u, old, dst)
<1>5. Sound(m) /\ Faithful(m) /\ GunNumbers(m) = GunNumbers(l)
  <2>1. CASE SlotsOf(l.equip, u) = {}
    <3>1. old = "slotNone"
      BY <1>3, <2>1
    <3> QED
      BY <1>1, <1>4, <2>1, <3>1, FromBagSound
  <2>2. CASE SlotsOf(l.equip, u) # {}
    <3>1. old \in DOMAIN l.equip /\ l.equip[old].unique = u
      BY <1>3, <2>2 DEF SlotsOf
    <3>2. l.equip[old].data = l.items[u].data
      BY <1>1, <3>1 DEF Faithful
    <3>3. old # "slotNone"
      BY <1>1, <3>1 DEF Sound, Typed, Table, Slots, GunSlots
    <3> QED
      BY <1>1, <1>3, <1>4, <3>1, <3>2, <3>3, ToSlotSound
  <2> QED
    BY <2>1, <2>2
<1>6. loadout' = [loadout EXCEPT ![p] = m]
  BY <1>3
<1> HIDE DEF m
<1>7. UNCHANGED <<boxes, walls, revived, issued>> /\ clashed' = clashed /\ clashed' \in BOOLEAN
  BY DEF Drag, ItemsInv
<1> QED
  BY <1>5, <1>6, <1>7, QuietStep DEF l

-----------------------------------------------------------------------------
(* A wall is placed, a vest is worn down.                                  *)

\* A gun of a slot is held.
LEMMA SlotGunHeld ==
    ASSUME NEW l, Sound(l), Faithful(l), NEW s \in DOMAIN l.guns
    PROVE  /\ l.guns[s].unique \in Numbers /\ l.guns[s].unique \in DOMAIN l.items
           /\ l.items[l.guns[s].unique].data \in Firearms
<1>1. l.guns[s] \in GunAts
  BY DEF Sound, Typed, Table
<1>2. s \in DOMAIN l.equip /\ l.equip[s] = l.guns[s]
  BY DEF Sound, Shown
<1>3. l.equip[s].unique \in DOMAIN l.items /\ l.items[l.equip[s].unique].data = l.equip[s].data
  BY <1>2 DEF Faithful
<1> QED
  BY <1>1, <1>2, <1>3 DEF GunAts

\* The gun that the hand goes back to.
Target(l) == IF IsWeaponUID(l, l.before) THEN l.before ELSE BestWeaponUID(l)

\* The gun that a thrown item falls back to is held, or there is none.
LEMMA TargetIs ==
    ASSUME NEW l, Sound(l), Faithful(l)
    PROVE  \/ Target(l) \in Numbers /\ Target(l) \in DOMAIN l.items /\ l.items[Target(l)].data \in Firearms
           \/ Target(l) = 0 /\ l.guns = Nothing
<1>1. CASE IsWeaponUID(l, l.before)
  <2>1. PICK s \in DOMAIN l.guns : l.guns[s].unique = l.before
    BY <1>1 DEF IsWeaponUID, SlotsOf
  <2>2. Target(l) = l.guns[s].unique
    BY <1>1, <2>1 DEF Target
  <2> QED
    BY <2>2, SlotGunHeld
<1>2. CASE ~ IsWeaponUID(l, l.before)
  <2>1. Target(l) = BestWeaponUID(l)
    BY <1>2 DEF Target
  <2>2. CASE \E s \in DOMAIN l.guns : BestWeaponUID(l) = l.guns[s].unique
    BY <2>1, <2>2, SlotGunHeld
  <2>3. CASE ~ \E s \in DOMAIN l.guns : BestWeaponUID(l) = l.guns[s].unique
    <3>1. "primary1" \notin DOMAIN l.guns /\ "primary2" \notin DOMAIN l.guns /\ "pistol" \notin DOMAIN l.guns
      BY <2>3 DEF BestWeaponUID
    <3>2. BestWeaponUID(l) = 0
      BY <3>1 DEF BestWeaponUID
    <3>3. Table(l.guns, GunSlots, GunAts)
      BY DEF Sound, Typed
    <3>4. DOMAIN l.guns = {}
      BY <3>1, <3>3 DEF Table, GunSlots
    <3> QED
      BY <2>1, <3>2, <3>3, <3>4, NothingIs
  <2> QED
    BY <2>2, <2>3
<1> QED
  BY <1>1, <1>2

\* m is l without its last wall.
WallOut(m, l, u) ==
    /\ Shaped(m) /\ m.uid = l.uid /\ m.before = 0 /\ m.items = Less(l.items, u) /\ m.guns = l.guns
    /\ m.equip = Less(l.equip, "building") /\ m.mounts = l.mounts
    /\ m.hand = (IF Target(l) # 0 THEN Target(l) ELSE l.hand)

\* A wall thrown from its stack takes one off it, and the hand with the last.
LEMMA ThrownIs ==
    ASSUME NEW l, Shaped(l), NEW u
    PROVE  WallOut(Thrown(l, u), l, u)
<1> DEFINE h == IF Target(l) # 0 THEN Target(l) ELSE l.hand
           rest == Less(l.items, u)
           n == [l EXCEPT !.items = rest, !.before = 0, !.hand = h]
           m == ClearEquip(n, "building")
<1>1. Thrown(l, u) = m
  BY DEF Thrown, Target
<1> HIDE DEF h, rest
<1>5. n = [l EXCEPT !.items = rest, !.before = 0, !.hand = h]
  OBVIOUS
<1> HIDE DEF n
<1>2. /\ Shaped(n) /\ n.uid = l.uid /\ n.before = 0 /\ n.items = rest /\ n.guns = l.guns
      /\ n.equip = l.equip /\ n.mounts = l.mounts /\ n.hand = h
  BY <1>5 DEF Shaped
<1>3. /\ Shaped(m) /\ Same(n, m) /\ m.items = n.items /\ m.guns = n.guns
      /\ m.equip = Less(n.equip, "building") /\ m.hand = n.hand /\ m.mounts = n.mounts
  BY <1>2, ClearEquipIs
<1> HIDE DEF m
<1>4. /\ Shaped(m) /\ m.uid = l.uid /\ m.before = 0 /\ m.items = rest /\ m.guns = l.guns
      /\ m.equip = Less(l.equip, "building") /\ m.mounts = l.mounts /\ m.hand = h
  BY <1>2, <1>3 DEF Same
<1> QED
  BY <1>1, <1>4 DEF WallOut, h, rest

\* What is left after a wall was thrown is sound.
LEMMA ThrownSound ==
    ASSUME NEW l, Sound(l), Faithful(l), NEW u \in DOMAIN l.items, l.items[u].data = "gloo", NEW m, WallOut(m, l, u)
    PROVE  Sound(m) /\ Faithful(m) /\ GunNumbers(m) = GunNumbers(l)
<1>1. Typed(l) /\ Table(l.items, Numbers, ItemRecords) /\ Table(l.equip, Slots, Ats)
  BY DEF Sound, Typed
<1>2. /\ Table(m.items, Numbers, ItemRecords) /\ DOMAIN m.items = DOMAIN l.items \ {u}
      /\ \A v \in DOMAIN m.items : m.items[v] = l.items[v]
  <2>1. /\ Table(Less(l.items, u), Numbers, ItemRecords) /\ DOMAIN Less(l.items, u) = DOMAIN l.items \ {u}
        /\ \A v \in DOMAIN l.items \ {u} : Less(l.items, u)[v] = l.items[v]
    BY <1>1, LessIs
  <2>2. m.items = Less(l.items, u)
    BY DEF WallOut
  <2> QED
    BY <2>1, <2>2
<1>3. /\ Table(m.equip, Slots, Ats) /\ DOMAIN m.equip = DOMAIN l.equip \ {"building"}
      /\ \A s \in DOMAIN m.equip : m.equip[s] = l.equip[s]
  <2>1. /\ Table(Less(l.equip, "building"), Slots, Ats) /\ DOMAIN Less(l.equip, "building") = DOMAIN l.equip \ {"building"}
        /\ \A s \in DOMAIN l.equip \ {"building"} : Less(l.equip, "building")[s] = l.equip[s]
    BY <1>1, LessIs
  <2>2. m.equip = Less(l.equip, "building")
    BY DEF WallOut
  <2> QED
    BY <2>1, <2>2
<1>4. \/ Target(l) \in Numbers /\ Target(l) \in DOMAIN l.items /\ l.items[Target(l)].data \in Firearms
      \/ Target(l) = 0 /\ l.guns = Nothing
  BY TargetIs
<1>5. m.hand \in 0 .. MaxUnique /\ m.before \in 0 .. MaxUnique
  BY <1>1, <1>4, MatchItemsAssumption DEF WallOut, Typed, Numbers
<1>6. Typed(m)
  BY <1>1, <1>2, <1>3, <1>5 DEF Typed, WallOut
<1>7. \A s \in DOMAIN l.guns : s # "building"
  BY <1>1 DEF Typed, Table, GunSlots
<1>8. Shown(m)
  BY <1>3, <1>7 DEF Sound, Shown, WallOut
<1>9. Sound(m)
  BY <1>2, <1>6, <1>8 DEF Sound, Single, WallOut
<1>10. \A s \in DOMAIN m.equip : l.equip[s].unique # u
  <2> SUFFICES ASSUME NEW s \in DOMAIN m.equip, l.equip[s].unique = u PROVE FALSE
    OBVIOUS
  <2>1. s \in DOMAIN l.equip /\ l.equip[s].data = "gloo" /\ Fits(s, l.equip[s].data)
    BY <1>3 DEF Faithful, Sound, Shown
  <2> QED
    BY <1>3, <2>1 DEF Fits, PlaceItem
<1>11. \A x \in m.mounts : x.gun \in DOMAIN m.items /\ m.items[x.gun].data \in Firearms
  BY <1>2 DEF Faithful, WallOut, Firearms, Guns
<1>12. InHand(m)
  <2>1. CASE Target(l) # 0
    <3>1. m.hand = Target(l) /\ Target(l) # u
      BY <1>4, <2>1 DEF WallOut, Firearms, Guns
    <3> QED
      BY <1>2, <1>4, <2>1, <3>1 DEF InHand
  <2>2. CASE Target(l) = 0
    BY <1>4, <2>2, MatchItemsAssumption DEF InHand, WallOut, Numbers
  <2> QED
    BY <2>1, <2>2
<1>13. GunNumbers(m) = GunNumbers(l)
  BY <1>2 DEF GunNumbers, Guns
<1>14. \A s \in DOMAIN m.equip : m.equip[s].unique \in DOMAIN m.items /\ m.items[m.equip[s].unique].data = m.equip[s].data
  BY <1>2, <1>3, <1>10 DEF Faithful
<1>15. \A s, t \in DOMAIN m.equip : m.equip[s].unique = m.equip[t].unique => s = t
  BY <1>3 DEF Faithful
<1> QED
  BY <1>9, <1>11, <1>12, <1>13, <1>14, <1>15 DEF Faithful

\* A wall less in the stack.
LEMMA OneWallLess ==
    ASSUME NEW l, Sound(l), Faithful(l), NEW u \in DOMAIN l.items, l.items[u].data = "gloo", l.items[u].count # 1
    PROVE  LET m == [l EXCEPT !.items[u].count = @ - 1]
           IN  Sound(m) /\ Faithful(m) /\ GunNumbers(m) = GunNumbers(l)
<1> DEFINE f == l.items
           it == [f[u] EXCEPT !.count = @ - 1]
<1>1. Shaped(l) /\ Table(f, Numbers, ItemRecords) /\ f[u].unique = u /\ l.uid # 0
  BY DEF Sound, Typed
<1>2. f[u] \in ItemRecords
  BY <1>1 DEF Table
<1>3. it \in ItemRecords /\ it.unique = u /\ it.data = "gloo"
  BY <1>1, <1>2 DEF ItemRecords
<1>4. f = [x \in DOMAIN f |-> f[x]] /\ DOMAIN f \cup {u} = DOMAIN f
  BY <1>1 DEF Table
<1>5. [f EXCEPT ![u].count = @ - 1] = With(f, u, it)
  <2>1. [f EXCEPT ![u].count = @ - 1] = [f EXCEPT ![u] = it]
    OBVIOUS
  <2> HIDE DEF it, f
  <2> QED
    BY <1>4, <2>1 DEF With
<1>6. [l EXCEPT !.items[u].count = @ - 1] = [l EXCEPT !.items = [f EXCEPT ![u].count = @ - 1]]
  OBVIOUS
<1>7. [l EXCEPT !.items = With(f, u, it)] = Track(l, it)
  BY <1>3 DEF Track
<1>8. [l EXCEPT !.items[u].count = @ - 1] = Track(l, it)
  BY <1>5, <1>6, <1>7
<1>9. \A w \in DOMAIN l.items \ {it.unique} : it.data \in Stackable => l.items[w].data # it.data
  BY <1>3 DEF Sound, Single
<1>10. it.data \notin Guns /\ l.items[it.unique].data = it.data
  BY <1>3 DEF Guns
<1> HIDE DEF it
<1>11. Sound(Track(l, it)) /\ Faithful(Track(l, it)) /\ GunNumbers(Track(l, it)) = GunNumbers(l)
  BY <1>1, <1>3, <1>9, <1>10, TrackSound
<1> QED
  BY <1>8, <1>11

\* A wall that is placed keeps the invariant, and the walls their cap.
LEMMA PlaceStep == ASSUME ItemsInv, ~ clashed, NEW p \in Fighters, PlaceIcewall(p) PROVE ItemsInv'
<1> DEFINE l == loadout[p]
           gloo == TrackedByData(l, "gloo", 0)
           equipped == {u \in gloo : "building" \in DOMAIN l.equip /\ l.equip["building"].unique = u}
<1>1. Sound(l) /\ Faithful(l) /\ walls \in Seq(Fighters) /\ WallsCapped
  BY DEF ItemsInv
<1>2. PICK u \in (IF equipped # {} THEN equipped ELSE gloo) :
        loadout' = [loadout EXCEPT ![p] = IF unlimitedAmmo THEN l
                                          ELSE IF l.items[u].count = 1 THEN Thrown(l, u)
                                          ELSE [l EXCEPT !.items[u].count = @ - 1]]
  BY DEF PlaceIcewall
<1>3. u \in DOMAIN l.items /\ l.items[u].data = "gloo"
  BY <1>2 DEF TrackedByData
<1> HIDE DEF l, gloo, equipped
<1> DEFINE m == IF unlimitedAmmo THEN l
                ELSE IF l.items[u].count = 1 THEN Thrown(l, u)
                ELSE [l EXCEPT !.items[u].count = @ - 1]
<1>4. Sound(m) /\ Faithful(m) /\ GunNumbers(m) = GunNumbers(l)
  <2>1. CASE unlimitedAmmo
    BY <1>1, <2>1
  <2>2. CASE ~ unlimitedAmmo /\ l.items[u].count = 1
    <3>1. WallOut(Thrown(l, u), l, u)
      BY <1>1, ThrownIs DEF Sound, Typed
    <3> QED
      BY <1>1, <1>3, <2>2, <3>1, ThrownSound
  <2>3. CASE ~ unlimitedAmmo /\ l.items[u].count # 1
    BY <1>1, <1>3, <2>3, OneWallLess
  <2> QED
    BY <2>1, <2>2, <2>3
<1>5. loadout' = [loadout EXCEPT ![p] = m]
  BY <1>2
<1> HIDE DEF m
<1>6. walls' \in Seq(Fighters) /\ WallsCapped'
  BY <1>1, PlacedWalls DEF PlaceIcewall
<1>7. UNCHANGED <<revived, issued>> /\ boxes' = boxes /\ boxes' \in Boxes /\ clashed' = clashed /\ clashed' \in BOOLEAN
  BY DEF PlaceIcewall, ItemsInv
<1> QED
  BY <1>4, <1>5, <1>6, <1>7, GunlessStep DEF l

\* m is l without that vest, or with another one in its place.
VestOff(m, l, old) ==
    /\ Shaped(m) /\ m.uid = l.uid /\ m.before = l.before /\ m.hand = l.hand /\ m.guns = l.guns
    /\ m.mounts = l.mounts /\ m.items = Less(l.items, old) /\ m.equip = Less(l.equip, "vest")

\* A vest taken off leaves a sound loadout.
LEMMA VestOffSound ==
    ASSUME NEW l, Sound(l), Faithful(l), "vest" \in DOMAIN l.equip, NEW m, VestOff(m, l, l.equip["vest"].unique)
    PROVE  /\ Sound(m) /\ Faithful(m) /\ GunNumbers(m) = GunNumbers(l) /\ m.uid = l.uid /\ DOMAIN m.items \subseteq DOMAIN l.items
           /\ "vest" \notin DOMAIN m.guns /\ "vest" \notin DOMAIN m.equip
<1> DEFINE old == l.equip["vest"].unique
<1>1. Typed(l) /\ Table(l.items, Numbers, ItemRecords) /\ Table(l.equip, Slots, Ats)
  BY DEF Sound, Typed
<1>2. /\ Table(m.items, Numbers, ItemRecords) /\ DOMAIN m.items = DOMAIN l.items \ {old}
      /\ \A v \in DOMAIN m.items : m.items[v] = l.items[v]
  <2>1. m.items = Less(l.items, old)
    BY DEF VestOff
  <2> HIDE DEF old
  <2>2. /\ Table(Less(l.items, old), Numbers, ItemRecords) /\ DOMAIN Less(l.items, old) = DOMAIN l.items \ {old}
        /\ \A v \in DOMAIN l.items \ {old} : Less(l.items, old)[v] = l.items[v]
    BY <1>1, LessIs
  <2> QED
    BY <2>1, <2>2
<1>3. /\ Table(m.equip, Slots, Ats) /\ DOMAIN m.equip = DOMAIN l.equip \ {"vest"}
      /\ \A s \in DOMAIN m.equip : m.equip[s] = l.equip[s]
  <2>1. /\ Table(Less(l.equip, "vest"), Slots, Ats) /\ DOMAIN Less(l.equip, "vest") = DOMAIN l.equip \ {"vest"}
        /\ \A s \in DOMAIN l.equip \ {"vest"} : Less(l.equip, "vest")[s] = l.equip[s]
    BY <1>1, LessIs
  <2>2. m.equip = Less(l.equip, "vest")
    BY DEF VestOff
  <2> QED
    BY <2>1, <2>2
<1>4. Typed(m) /\ m.guns = l.guns
  BY <1>1, <1>2, <1>3 DEF Typed, VestOff
<1>5. \A s \in DOMAIN l.guns : s # "vest"
  BY <1>1 DEF Typed, Table, GunSlots
<1>6. Shown(m)
  BY <1>3, <1>4, <1>5 DEF Sound, Shown
<1>7. Sound(m)
  BY <1>2, <1>4, <1>6 DEF Sound, Single, VestOff
<1>8. old \in DOMAIN l.items /\ l.items[old].data = "vest"
  <2>1. old \in DOMAIN l.items /\ l.items[old].data = l.equip["vest"].data /\ Fits("vest", l.equip["vest"].data)
    BY DEF Faithful, Sound, Shown
  <2> QED
    BY <2>1 DEF Fits, PlaceItem
<1> HIDE DEF old
<1>9. \A s \in DOMAIN m.equip : m.equip[s].unique \in DOMAIN m.items /\ m.items[m.equip[s].unique].data = m.equip[s].data
  BY <1>2, <1>3 DEF Faithful, old
<1>10. \A s, t \in DOMAIN m.equip : m.equip[s].unique = m.equip[t].unique => s = t
  BY <1>3 DEF Faithful
<1>11. \A x \in m.mounts : x.gun \in DOMAIN m.items /\ m.items[x.gun].data \in Firearms
  BY <1>2, <1>8 DEF Faithful, VestOff, Firearms, Guns
<1>12. InHand(m)
  <2>1. m.hand = l.hand
    BY DEF VestOff
  <2>2. InHand(l)
    BY DEF Faithful
  <2> QED
    BY <1>2, <1>4, <1>8, <2>1, <2>2 DEF InHand, Firearms, Guns
<1>13. GunNumbers(m) = GunNumbers(l)
  BY <1>2, <1>8 DEF GunNumbers, Guns
<1>14. Faithful(m)
  BY <1>9, <1>10, <1>11, <1>12 DEF Faithful
<1>15. m.uid = l.uid
  BY DEF VestOff
<1> QED
  BY <1>2, <1>3, <1>4, <1>5, <1>7, <1>13, <1>14, <1>15

\* Without the vest, with that number and armour.
Unvested(l, u, worn) == [l EXCEPT !.uid = u, !.armour = worn, !.items = Less(@, l.equip["vest"].unique), !.equip = Less(@, "vest")]

\* A loadout without its vest, under whichever number comes next.
LEMMA UnvestedSound ==
    ASSUME NEW l, Sound(l), Faithful(l), "vest" \in DOMAIN l.equip, NEW u \in 0 .. MaxUnique, u # 0 \/ l.uid = 0, NEW worn
    PROVE  LET m == Unvested(l, u, worn)
           IN  /\ Sound(m) /\ Faithful(m) /\ GunNumbers(m) = GunNumbers(l) /\ DOMAIN m.items \subseteq DOMAIN l.items
               /\ m.uid = u /\ "vest" \notin DOMAIN m.guns /\ "vest" \notin DOMAIN m.equip
<1> DEFINE old == l.equip["vest"].unique
           its == Less(l.items, old)
           eq == Less(l.equip, "vest")
           m == Unvested(l, u, worn)
           n == [l EXCEPT !.items = its, !.equip = eq]
<1>1. Shaped(l)
  BY DEF Sound, Typed
<1>2. m = [l EXCEPT !.uid = u, !.armour = worn, !.items = its, !.equip = eq]
  BY DEF Unvested
<1>13. old = l.equip["vest"].unique
  OBVIOUS
<1> HIDE DEF old
<1>14. its = Less(l.items, old) /\ eq = Less(l.equip, "vest")
  OBVIOUS
<1> HIDE DEF its, eq, m
<1>3. /\ Shaped(m) /\ m.uid = u /\ m.before = l.before /\ m.hand = l.hand /\ m.guns = l.guns /\ m.mounts = l.mounts
      /\ m.items = its /\ m.equip = eq
  BY <1>1, <1>2 DEF Shaped
<1>15. n = [l EXCEPT !.items = its, !.equip = eq]
  OBVIOUS
<1> HIDE DEF n
<1>4. /\ Shaped(n) /\ n.uid = l.uid /\ n.before = l.before /\ n.hand = l.hand /\ n.guns = l.guns /\ n.mounts = l.mounts
      /\ n.items = its /\ n.equip = eq
  BY <1>1, <1>15 DEF Shaped
<1>5. VestOff(n, l, l.equip["vest"].unique)
  BY <1>4, <1>13, <1>14 DEF VestOff
<1>6. /\ Sound(n) /\ Faithful(n) /\ GunNumbers(n) = GunNumbers(l) /\ DOMAIN n.items \subseteq DOMAIN l.items
      /\ "vest" \notin DOMAIN n.guns /\ "vest" \notin DOMAIN n.equip
  BY <1>5, VestOffSound
<1>7. m.items = n.items /\ m.equip = n.equip /\ m.guns = n.guns /\ m.hand = n.hand /\ m.mounts = n.mounts
  BY <1>3, <1>4
<1>8. Typed(m)
  BY <1>3, <1>4, <1>6 DEF Sound, Typed
<1>9. Sound(m)
  BY <1>3, <1>4, <1>6, <1>7, <1>8 DEF Sound, Shown, Single
<1>10. Faithful(m) /\ GunNumbers(m) = GunNumbers(n)
  BY <1>6, <1>7 DEF Faithful, InHand, GunNumbers
<1>11. DOMAIN m.items \subseteq DOMAIN l.items /\ m.uid = u /\ "vest" \notin DOMAIN m.guns /\ "vest" \notin DOMAIN m.equip
  BY <1>3, <1>6, <1>7
<1> QED
  BY <1>6, <1>9, <1>10, <1>11 DEF m

\* A loadout is its fields.
LEMMA ByFields ==
    ASSUME NEW l, Shaped(l), NEW m, Shaped(m), m.uid = l.uid, m.items = l.items, m.guns = l.guns, m.equip = l.equip,
           m.hand = l.hand, m.before = l.before, m.mounts = l.mounts, m.armour = l.armour
    PROVE  m = l
  BY DEF Shaped

\* A vest in the place of the one that was worn.
Revested(l, new) ==
    SetEquip(Track([l EXCEPT !.uid = new, !.items = Less(@, l.equip["vest"].unique)], Item(new, "vest", 1)), "vest", "vest", new)

\* A new vest is the old one gone and one equipped.
LEMMA RevestedIs ==
    ASSUME NEW l, Sound(l), "vest" \in DOMAIN l.equip, NEW new
    PROVE  Revested(l, new) = SetEquip(Track(Unvested(l, new, l.armour), Item(new, "vest", 1)), "vest", "vest", new)
<1> DEFINE its == Less(l.items, l.equip["vest"].unique)
           it == Item(new, "vest", 1)
           q == [l EXCEPT !.uid = new, !.items = its]
           n == Unvested(l, new, l.armour)
           t == Track(q, it)
           r == Track(n, it)
           a == SetEquip(t, "vest", "vest", new)
           b == SetEquip(r, "vest", "vest", new)
           eq == Less(l.equip, "vest")
<1>1. Shaped(l)
  BY DEF Sound, Typed
<1>2. Revested(l, new) = a
  BY DEF Revested
<1>3. n = [l EXCEPT !.uid = new, !.armour = l.armour, !.items = its, !.equip = eq] /\ q = [l EXCEPT !.uid = new, !.items = its]
  BY DEF Unvested
<1> HIDE DEF its, n, q
<1>4. /\ Shaped(q) /\ q.uid = new /\ q.items = its /\ q.guns = l.guns /\ q.equip = l.equip /\ q.hand = l.hand
      /\ q.before = l.before /\ q.mounts = l.mounts /\ q.armour = l.armour
  BY <1>1, <1>3 DEF Shaped
<1> HIDE DEF eq
<1>5. /\ Shaped(n) /\ n.uid = new /\ n.items = its /\ n.guns = l.guns /\ n.equip = eq /\ n.hand = l.hand
      /\ n.before = l.before /\ n.mounts = l.mounts /\ n.armour = l.armour
  BY <1>1, <1>3 DEF Shaped
<1> HIDE DEF it
<1>6. /\ Shaped(t) /\ Same(q, t) /\ t.items = With(its, it.unique, it) /\ t.guns = q.guns
      /\ t.equip = q.equip /\ t.hand = q.hand /\ t.mounts = q.mounts
  BY <1>4, TrackIs
<1>7. /\ Shaped(r) /\ Same(n, r) /\ r.items = With(its, it.unique, it) /\ r.guns = n.guns
      /\ r.equip = n.equip /\ r.hand = n.hand /\ r.mounts = n.mounts
  BY <1>5, TrackIs
<1> HIDE DEF t, r
<1>8. /\ Shaped(a) /\ Same(t, a) /\ a.items = t.items /\ a.guns = t.guns
      /\ a.equip = With(t.equip, "vest", At(new, "vest")) /\ a.hand = t.hand /\ a.mounts = t.mounts
  BY <1>6, SetEquipIs
<1>9. /\ Shaped(b) /\ Same(r, b) /\ b.items = r.items /\ b.guns = r.guns
      /\ b.equip = With(r.equip, "vest", At(new, "vest")) /\ b.hand = r.hand /\ b.mounts = r.mounts
  BY <1>7, SetEquipIs
<1>10. \A v : With(l.equip, "vest", v) = With(eq, "vest", v)
  <2> SUFFICES ASSUME NEW v PROVE With(l.equip, "vest", v) = With(eq, "vest", v)
    OBVIOUS
  <2> DEFINE D == DOMAIN l.equip
             f == l.equip
  <2>1. DOMAIN eq = D \ {"vest"} /\ \A s \in D \ {"vest"} : eq[s] = f[s]
    BY DEF eq, Less
  <2>2. (D \ {"vest"}) \cup {"vest"} = D /\ D \cup {"vest"} = D
    OBVIOUS
  <2>3. With(f, "vest", v) = [s \in D |-> IF s = "vest" THEN v ELSE f[s]]
    BY <2>2 DEF With
  <2>4. With(eq, "vest", v) = [s \in D |-> IF s = "vest" THEN v ELSE eq[s]]
    BY <2>1, <2>2 DEF With
  <2> HIDE DEF D, f
  <2>5. \A s \in D : (IF s = "vest" THEN v ELSE eq[s]) = (IF s = "vest" THEN v ELSE f[s])
    BY <2>1
  <2>6. With(f, "vest", v) = With(eq, "vest", v)
    BY <2>3, <2>4, <2>5
  <2> QED
    BY <2>6 DEF f
<1> HIDE DEF a, b
<1>11. a.equip = b.equip
  BY <1>4, <1>5, <1>6, <1>7, <1>8, <1>9, <1>10
<1>12. /\ a.uid = b.uid /\ a.items = b.items /\ a.guns = b.guns /\ a.hand = b.hand /\ a.before = b.before
       /\ a.mounts = b.mounts /\ a.armour = b.armour
  BY <1>4, <1>5, <1>6, <1>7, <1>8, <1>9 DEF Same
<1>13. a = b
  BY <1>8, <1>9, <1>11, <1>12, ByFields
<1> QED
  BY <1>2, <1>13 DEF b, r, n, it

\* A new vest under a number that is free keeps a loadout faithful.
LEMMA RevestedSound ==
    ASSUME NEW l, Sound(l), Faithful(l), "vest" \in DOMAIN l.equip, NEW new \in Numbers
    PROVE  /\ Sound(Revested(l, new))
           /\ new \notin DOMAIN l.items => Faithful(Revested(l, new)) /\ GunNumbers(Revested(l, new)) = GunNumbers(l)
<1> DEFINE n == Unvested(l, new, l.armour)
           it == Item(new, "vest", 1)
           k == Track(n, it)
           m == SetEquip(k, "vest", "vest", new)
<1>1. new \in 0 .. MaxUnique /\ new # 0
  BY MatchItemsAssumption DEF Numbers
<1>2. /\ Sound(n) /\ Faithful(n) /\ GunNumbers(n) = GunNumbers(l) /\ DOMAIN n.items \subseteq DOMAIN l.items
      /\ n.uid = new /\ "vest" \notin DOMAIN n.guns /\ "vest" \notin DOMAIN n.equip
  BY <1>1, UnvestedSound
<1> HIDE DEF n
<1>3. it \in ItemRecords /\ it.data \notin Guns /\ it.data \notin Stackable /\ it.unique = new /\ it.data = "vest"
  BY DEF Item, ItemRecords, Kinds, Guns, Stackable
<1> HIDE DEF it
<1>4. /\ Sound(k) /\ Same(n, k) /\ Extends(k.items, n.items, it.unique, it) /\ k.guns = n.guns
      /\ k.equip = n.equip /\ k.hand = n.hand /\ k.mounts = n.mounts
      /\ Faithful(n) /\ (it.unique \in DOMAIN n.items => n.items[it.unique].data = it.data)
            => Faithful(k) /\ GunNumbers(k) = GunNumbers(n)
  BY <1>1, <1>2, <1>3, TrackSound
<1> HIDE DEF k
<1>5. "vest" \in Slots /\ "vest" \in Kinds /\ Fits("vest", "vest") /\ "vest" \notin DOMAIN k.guns
  BY <1>2, <1>4 DEF Slots, Kinds, Fits, PlaceItem
<1>6. /\ Sound(m)
      /\ (/\ Faithful(k) /\ new \in DOMAIN k.items /\ k.items[new].data = "vest"
          /\ \A t \in DOMAIN k.equip : k.equip[t].unique = new => t = "vest")
         => Faithful(m) /\ GunNumbers(m) = GunNumbers(k)
  BY <1>4, <1>5, PlacedSound
<1> HIDE DEF m
<1>7. m = Revested(l, new)
  BY RevestedIs DEF m, k, n, it
<1>8. ASSUME new \notin DOMAIN l.items PROVE Faithful(m) /\ GunNumbers(m) = GunNumbers(l)
  <2>1. Faithful(k) /\ GunNumbers(k) = GunNumbers(n)
    BY <1>2, <1>3, <1>4, <1>8
  <2>2. new \in DOMAIN k.items /\ k.items[new].data = "vest"
    BY <1>3, <1>4 DEF Extends
  <2>3. \A t \in DOMAIN k.equip : k.equip[t].unique # new
    BY <1>2, <1>4, <1>8 DEF Faithful
  <2> QED
    BY <1>2, <1>6, <2>1, <2>2, <2>3
<1> QED
  BY <1>6, <1>7, <1>8

\* Wearing out a vest keeps the invariant.
LEMMA WearStep == ASSUME ItemsInv, ~ clashed, NEW p \in Fighters, WearArmor(p) PROVE ItemsInv'
<1> DEFINE l == loadout[p]
           worn == "vest" \in DOMAIN l.equip
           old == l.equip["vest"].unique
           data == l.equip["vest"].data
           new == l.uid + 1
<1>1. Sound(l) /\ Faithful(l) /\ Typed(l) /\ l.uid \in 0 .. MaxUnique
  BY DEF ItemsInv, Sound, Typed
<1>2. \/ /\ worn /\ new <= MaxUnique
         /\ loadout' = [loadout EXCEPT ![p] =
                SetEquip(Track([l EXCEPT !.uid = new, !.items = Less(@, old)], Item(new, data, 1)), "vest", data, new)]
         /\ clashed' = (clashed \/ Meets(l, 1))
      \/ /\ loadout' = [loadout EXCEPT ![p] =
                IF worn THEN ClearEquip([l EXCEPT !.armour = FALSE, !.items = Less(@, old)], "vest")
                        ELSE [l EXCEPT !.armour = FALSE]]
         /\ UNCHANGED clashed
  BY DEF WearArmor
<1>3. UNCHANGED <<boxes, walls, revived, issued>>
  BY DEF WearArmor
<1>4. clashed \in BOOLEAN
  BY DEF ItemsInv
<1> HIDE DEF l
<1>5. CASE /\ worn /\ new <= MaxUnique
           /\ loadout' = [loadout EXCEPT ![p] =
                  SetEquip(Track([l EXCEPT !.uid = new, !.items = Less(@, old)], Item(new, data, 1)), "vest", data, new)]
           /\ clashed' = (clashed \/ Meets(l, 1))
  <2>1. data = "vest"
    <3>1. Fits("vest", l.equip["vest"].data)
      BY <1>1, <1>5 DEF Sound, Shown
    <3> QED
      BY <3>1 DEF Fits, PlaceItem
  <2>2. new \in Numbers
    BY <1>1, <1>5, MatchItemsAssumption DEF Numbers
  <2> DEFINE m == Revested(l, new)
  <2>3. loadout' = [loadout EXCEPT ![p] = m]
    BY <1>5, <2>1 DEF Revested
  <2>4. ~ clashed' => new \notin DOMAIN l.items
    <3>1. ASSUME ~ clashed' PROVE ~ Meets(l, 1)
      BY <1>5, <3>1, Zenon
    <3>2. new \in (l.uid + 1) .. (l.uid + 1)
      BY <1>1
    <3> HIDE DEF new
    <3> QED
      BY <3>1, <3>2, Zenon DEF Meets
  <2> HIDE DEF new
  <2>5. Sound(m) /\ (new \notin DOMAIN l.items => Faithful(m) /\ GunNumbers(m) = GunNumbers(l))
    BY <1>1, <1>5, <2>2, RevestedSound
  <2>6. clashed' \in BOOLEAN
    BY <1>4, <1>5 DEF Meets
  <2> HIDE DEF m
  <2> QED
    BY <1>3, <2>3, <2>4, <2>5, <2>6, QuietStep DEF l
<1>6. CASE worn /\ loadout' = [loadout EXCEPT ![p] = ClearEquip([l EXCEPT !.armour = FALSE, !.items = Less(@, old)], "vest")] /\ UNCHANGED clashed
  <2> DEFINE m == Unvested(l, l.uid, FALSE)
             its == Less(l.items, old)
             q == [l EXCEPT !.armour = FALSE, !.items = its]
             a == ClearEquip(q, "vest")
             eq == Less(l.equip, "vest")
  <2>1. m = [l EXCEPT !.uid = l.uid, !.armour = FALSE, !.items = its, !.equip = eq] /\ q = [l EXCEPT !.armour = FALSE, !.items = its]
    BY DEF Unvested
  <2>2. loadout' = [loadout EXCEPT ![p] = a]
    BY <1>6
  <2>3. Sound(m) /\ Faithful(m) /\ GunNumbers(m) = GunNumbers(l)
    <3>1. l.uid # 0 \/ l.uid = 0
      OBVIOUS
    <3>2. "vest" \in DOMAIN l.equip /\ l.uid \in 0 .. MaxUnique
      BY <1>1, <1>6
    <3> DEFINE u == l.uid
               w == FALSE
    <3>3. u = l.uid /\ u \in 0 .. MaxUnique /\ (u # 0 \/ l.uid = 0)
      BY <3>1, <3>2
    <3> HIDE DEF m, u, w
    <3>4. /\ Sound(Unvested(l, u, w)) /\ Faithful(Unvested(l, u, w))
          /\ GunNumbers(Unvested(l, u, w)) = GunNumbers(l)
      BY <1>1, <3>2, <3>3, UnvestedSound
    <3> QED
      BY <3>3, <3>4, Zenon DEF m, w
  <2>9. Shaped(l)
    BY <1>1 DEF Typed
  <2> HIDE DEF its, m, q, eq
  <2>4. /\ Shaped(m) /\ m.uid = l.uid /\ m.items = its /\ m.guns = l.guns /\ m.equip = eq /\ m.hand = l.hand
        /\ m.before = l.before /\ m.mounts = l.mounts /\ m.armour = FALSE
    BY <2>1, <2>9 DEF Shaped
  <2>5. /\ Shaped(q) /\ q.uid = l.uid /\ q.items = its /\ q.guns = l.guns /\ q.equip = l.equip /\ q.hand = l.hand
        /\ q.before = l.before /\ q.mounts = l.mounts /\ q.armour = FALSE
    BY <2>1, <2>9 DEF Shaped
  <2>6. /\ Shaped(a) /\ Same(q, a) /\ a.items = q.items /\ a.guns = q.guns
        /\ a.equip = Less(q.equip, "vest") /\ a.hand = q.hand /\ a.mounts = q.mounts
    BY <2>5, ClearEquipIs
  <2> HIDE DEF a
  <2>7. a.equip = eq
    BY <2>5, <2>6 DEF eq
  <2>8. a = m
    BY <2>4, <2>5, <2>6, <2>7, ByFields DEF Same
  <2>10. clashed' \in BOOLEAN
    BY <1>4, <1>6
  <2> QED
    BY <1>3, <2>2, <2>3, <2>8, <2>10, QuietStep DEF l
<1>7. CASE ~ worn /\ loadout' = [loadout EXCEPT ![p] = [l EXCEPT !.armour = FALSE]] /\ UNCHANGED clashed
  <2> DEFINE m == [l EXCEPT !.armour = FALSE]
  <2>1. m = [l EXCEPT !.armour = FALSE]
    OBVIOUS
  <2>2. loadout' = [loadout EXCEPT ![p] = m]
    BY <1>7
  <2>9. Shaped(l)
    BY <1>1 DEF Typed
  <2> HIDE DEF m
  <2>3. /\ Shaped(m) /\ m.uid = l.uid /\ m.items = l.items /\ m.guns = l.guns /\ m.equip = l.equip /\ m.hand = l.hand
        /\ m.before = l.before /\ m.mounts = l.mounts
    BY <2>1, <2>9 DEF Shaped
  <2>4. Typed(m)
    BY <1>1, <2>3 DEF Typed
  <2>5. Sound(m)
    BY <1>1, <2>3, <2>4 DEF Sound, Shown, Single
  <2>6. Faithful(m) /\ GunNumbers(m) = GunNumbers(l)
    BY <1>1, <2>3 DEF Faithful, InHand, GunNumbers
  <2>7. clashed' \in BOOLEAN
    BY <1>4, <1>7
  <2> QED
    BY <1>3, <2>2, <2>5, <2>6, <2>7, QuietStep DEF l
<1> QED
  BY <1>2, <1>5, <1>6, <1>7

-----------------------------------------------------------------------------
(* Loadouts are given and refilled.                                        *)

\* What a loadout starts from.
Blank(u, before) == [Bare EXCEPT !.uid = u, !.before = before]

\* A loadout with nothing in it is sound.
LEMMA BlankSound ==
    ASSUME NEW u \in Numbers, NEW before \in 0 .. MaxUnique
    PROVE  LET m == Blank(u, before)
           IN  /\ Sound(m) /\ Faithful(m) /\ GunNumbers(m) = {} /\ m.uid = u /\ m.items = Nothing /\ m.guns = Nothing
               /\ m.equip = Nothing /\ m.mounts = {}
<1> DEFINE m == Blank(u, before)
<1>1. /\ m = [uid |-> u, items |-> Nothing, guns |-> Nothing, equip |-> Nothing,
              hand |-> 0, before |-> before, mounts |-> {}, armour |-> FALSE]
  <2> DEFINE none == FALSE
  <2>1. Bare = [uid |-> 0, items |-> Nothing, guns |-> Nothing, equip |-> Nothing,
                hand |-> 0, before |-> 0, mounts |-> {}, armour |-> none]
    BY Zenon DEF Bare
  <2>2. m = [Bare EXCEPT !.uid = u, !.before = before]
    BY DEF Blank
  <2> HIDE DEF m, none
  <2>3. m = [uid |-> u, items |-> Nothing, guns |-> Nothing, equip |-> Nothing,
             hand |-> 0, before |-> before, mounts |-> {}, armour |-> none]
    BY <2>1, <2>2
  <2> QED
    BY <2>3, Zenon DEF none
<1>2. Nothing = [x \in DOMAIN Nothing |-> Nothing[x]] /\ DOMAIN Nothing = {}
  BY DEF Nothing
<1> HIDE DEF m
<1>3. /\ m.uid = u /\ m.items = Nothing /\ m.guns = Nothing /\ m.equip = Nothing /\ m.hand = 0 /\ m.before = before
      /\ m.mounts = {} /\ m.armour = FALSE /\ Shaped(m)
  BY <1>1 DEF Shaped
<1>4. u \in 0 .. MaxUnique /\ 0 \in 0 .. MaxUnique /\ u # 0
  BY MatchItemsAssumption DEF Numbers
<1>5. Typed(m)
  BY <1>2, <1>3, <1>4 DEF Typed, Table
<1>6. Sound(m)
  BY <1>2, <1>3, <1>4, <1>5 DEF Sound, Shown, Single
<1>7. Faithful(m)
  BY <1>2, <1>3 DEF Faithful, InHand
<1>8. GunNumbers(m) = {}
  BY <1>2, <1>3 DEF GunNumbers
<1> QED
  BY <1>3, <1>6, <1>7, <1>8 DEF m

\* Two medkits to start with.
Kitted(u, before) == Track(Blank(u, before), Item(u, "medkit", 2))

\* A fresh loadout begins with its medkits.
LEMMA KittedIs ==
    ASSUME NEW u, NEW before
    PROVE  [Track(Bare, Item(u, "medkit", 2)) EXCEPT !.uid = u, !.before = before] = Kitted(u, before)
  BY DEF Kitted, Track, Blank, Bare

\* A loadout of medkits alone is sound.
LEMMA KittedSound ==
    ASSUME NEW u \in Numbers, NEW before \in 0 .. MaxUnique
    PROVE  LET m == Kitted(u, before)
           IN  /\ Sound(m) /\ Faithful(m) /\ GunNumbers(m) = {} /\ m.uid = u /\ DOMAIN m.items = {u} /\ m.guns = Nothing
               /\ m.equip = Nothing /\ m.mounts = {}
<1> DEFINE b == Blank(u, before)
           it == Item(u, "medkit", 2)
           m == Track(b, it)
<1>1. /\ Sound(b) /\ Faithful(b) /\ GunNumbers(b) = {} /\ b.uid = u /\ b.items = Nothing /\ b.guns = Nothing
      /\ b.equip = Nothing /\ b.mounts = {}
  BY BlankSound
<1> HIDE DEF b
<1>2. it \in ItemRecords /\ it.data \notin Guns /\ it.unique = u /\ it.data = "medkit"
  BY DEF Item, ItemRecords, Kinds, Guns
<1> HIDE DEF it
<1>3. DOMAIN b.items = {} /\ b.uid # 0
  BY <1>1, MatchItemsAssumption DEF Nothing, Numbers
<1>4. /\ Sound(m) /\ Same(b, m) /\ Extends(m.items, b.items, it.unique, it) /\ m.guns = b.guns
      /\ m.equip = b.equip /\ m.hand = b.hand /\ m.mounts = b.mounts
      /\ Faithful(b) /\ (it.unique \in DOMAIN b.items => b.items[it.unique].data = it.data)
           => Faithful(m) /\ GunNumbers(m) = GunNumbers(b)
  BY <1>1, <1>2, <1>3, TrackSound
<1> HIDE DEF m
<1>5. m.uid = u /\ DOMAIN m.items = {u}
  BY <1>1, <1>2, <1>3, <1>4 DEF Same, Extends
<1> QED
  BY <1>1, <1>3, <1>4, <1>5 DEF m, b, it, Kitted

\* And a pistol with its ammunition.
Armed(base, gun) == HandIs(Slotted(Track(base, Item(gun, "pistol", 1)), "pistol", "pistol", gun), gun)
Loaded(base, gun) == GiveAmmoStacks(BuildWeaponAttachments(Armed(base, gun), gun, "pistol"), "pistol")

\* A given loadout is the medkits, and the pistol unless the room has none.
LEMMA GivenIs ==
    ASSUME NEW l
    PROVE  GiveLoadout(l) = (IF noLoadout THEN Kitted(l.uid + 2, l.before)
                             ELSE Loaded(Kitted(l.uid + 2, l.before), l.uid + 1))
<1>1. [Track(Bare, Item(l.uid + 2, "medkit", 2)) EXCEPT !.uid = l.uid + 2, !.before = l.before] = Kitted(l.uid + 2, l.before)
  BY KittedIs
<1> QED
  BY <1>1, Zenon DEF GiveLoadout, Loaded, Armed, HandIs, Slotted

\* m is the base with a pistol and its ammunition.
Pistoled(m, base, gun) ==
    /\ Typed(m) /\ m.uid = base.uid + 1 /\ DOMAIN m.items = DOMAIN base.items \cup {gun, base.uid + 1}
    /\ m.items[gun].data = "pistol" /\ m.items[base.uid + 1].data = "pistol rounds"
    /\ \A v \in DOMAIN base.items : m.items[v] = base.items[v]
    /\ Extends(m.guns, base.guns, "pistol", At(gun, "pistol"))
    /\ Extends(m.equip, base.equip, "pistol", At(gun, "pistol"))
    /\ m.hand = gun /\ \A x \in m.mounts : x \in base.mounts \/ x.gun = gun

\* The pistol of a given loadout, its rounds and its slot.
LEMMA LoadedIs ==
    ASSUME NEW base, Typed(base), NEW gun \in Numbers, gun \notin DOMAIN base.items, base.uid + 1 \in Numbers,
           base.uid + 1 \notin DOMAIN base.items, gun # base.uid + 1
    PROVE  Pistoled(Loaded(base, gun), base, gun)
<1> DEFINE it == Item(gun, "pistol", 1)
           t == Track(base, it)
           s == Slotted(t, "pistol", "pistol", gun)
           h == HandIs(s, gun)
           w == BuildWeaponAttachments(h, gun, "pistol")
           m == GiveAmmoStacks(w, "pistol")
           last == base.uid + 1
           shots == Item(last, "pistol rounds", 1)
<1>1. it \in ItemRecords /\ it.unique = gun /\ it.data = "pistol"
  BY DEF Item, ItemRecords, Kinds
<1>2. shots.data = "pistol rounds" /\ Ammo["pistol"] = "pistol rounds"
  BY DEF Item, Ammo
<1>3. base.uid \in 0 .. MaxUnique /\ "pistol" \in Firearms /\ "pistol" \in GunSlots /\ gun \in 0 .. MaxUnique
  BY MatchItemsAssumption DEF Typed, Firearms, Guns, GunSlots, Numbers
<1>4. Len(WeaponMaxAttachments["pistol"]) = 0
  BY DEF WeaponMaxAttachments
<1> HIDE DEF it
<1>5. /\ Typed(t) /\ Same(base, t) /\ Extends(t.items, base.items, it.unique, it) /\ t.guns = base.guns
      /\ t.equip = base.equip /\ t.hand = base.hand /\ t.mounts = base.mounts
  BY <1>1, TrackTyped
<1> HIDE DEF t
<1>6. /\ Typed(s) /\ Same(t, s) /\ s.items = t.items /\ Extends(s.guns, t.guns, "pistol", At(gun, "pistol"))
      /\ Extends(s.equip, t.equip, "pistol", At(gun, "pistol")) /\ s.hand = t.hand /\ s.mounts = t.mounts
  BY <1>3, <1>5, SlottedTyped
<1> HIDE DEF s
<1>7. /\ Typed(h) /\ h.hand = gun /\ Same(s, h) /\ h.items = s.items
      /\ h.guns = s.guns /\ h.equip = s.equip /\ h.mounts = s.mounts
  BY <1>3, <1>6, HandTyped
<1> HIDE DEF h
<1>8. h.uid = base.uid
  BY <1>5, <1>6, <1>7 DEF Same
<1>9. /\ Typed(w) /\ w.uid = base.uid /\ DOMAIN w.items = DOMAIN h.items
      /\ \A v \in DOMAIN h.items : w.items[v] = h.items[v]
      /\ w.guns = h.guns /\ w.equip = h.equip /\ w.hand = h.hand
      /\ \A x \in w.mounts : x \in h.mounts \/ x.gun = gun
  <2> DEFINE n == Len(WeaponMaxAttachments["pistol"])
             numbers == (h.uid + 1) .. (h.uid + n)
  <2>1. h.uid + n \in 0 .. MaxUnique
    BY <1>3, <1>4, <1>8
  <2>2. /\ Typed(w) /\ w.uid = h.uid + n /\ w.before = h.before /\ w.armour = h.armour
        /\ DOMAIN w.items = numbers \cup DOMAIN h.items
        /\ \A v \in numbers : w.items[v].data = "magazine"
        /\ \A v \in DOMAIN h.items \ numbers : w.items[v] = h.items[v]
        /\ w.guns = h.guns /\ w.equip = h.equip /\ w.hand = h.hand
        /\ \A x \in w.mounts : x \in h.mounts \/ x.gun = gun
    BY <1>3, <1>7, <2>1, BuildTyped
  <2>3. numbers = {} /\ h.uid + n = base.uid
    BY <1>3, <1>4, <1>8
  <2> HIDE DEF n, numbers, w
  <2> QED
    BY <2>2, <2>3
<1> HIDE DEF w
<1>10. /\ Typed(m) /\ m.uid = w.uid + 1
       /\ Extends(m.items, w.items, w.uid + 1, Item(w.uid + 1, Ammo["pistol"], 1)) /\ m.guns = w.guns
       /\ m.equip = w.equip /\ m.hand = w.hand /\ m.mounts = w.mounts
  BY <1>3, <1>9, AmmoTyped
<1> HIDE DEF m
<1>11. m.uid = last /\ Extends(m.items, w.items, last, shots)
  BY <1>2, <1>9, <1>10
<1> HIDE DEF shots
<1>12. DOMAIN w.items = DOMAIN base.items \cup {gun} /\ w.items[gun] = it /\ \A v \in DOMAIN base.items : w.items[v] = base.items[v]
  BY <1>1, <1>5, <1>6, <1>7, <1>9 DEF Extends
<1> HIDE DEF last
<1>13. /\ DOMAIN m.items = DOMAIN base.items \cup {gun, last} /\ m.items[gun].data = "pistol" /\ m.items[last].data = "pistol rounds"
       /\ \A v \in DOMAIN base.items : m.items[v] = base.items[v]
  <2>1. gun # last /\ last \notin DOMAIN base.items
    BY DEF last
  <2> QED
    BY <1>1, <1>2, <1>11, <1>12, <2>1 DEF Extends
<1>14. /\ Extends(m.guns, base.guns, "pistol", At(gun, "pistol")) /\ Extends(m.equip, base.equip, "pistol", At(gun, "pistol"))
       /\ m.hand = gun /\ \A x \in m.mounts : x \in base.mounts \/ x.gun = gun
  BY <1>5, <1>6, <1>7, <1>9, <1>10
<1>15. Pistoled(m, base, gun)
  BY <1>10, <1>11, <1>13, <1>14 DEF Pistoled, last
<1> QED
  BY <1>15 DEF Loaded, Armed, m, w, h, s, t, it

\* A given loadout is sound and holds one gun.
LEMMA LoadedSound ==
    ASSUME NEW base, Sound(base), Faithful(base), GunNumbers(base) = {}, base.guns = Nothing, NEW gun \in Numbers,
           gun \notin DOMAIN base.items, base.uid + 1 \in Numbers, base.uid + 1 \notin DOMAIN base.items, gun # base.uid + 1,
           NEW m, Pistoled(m, base, gun)
    PROVE  Sound(m) /\ Faithful(m) /\ GunNumbers(m) = {gun} /\ m.uid # 0
<1> DEFINE last == base.uid + 1
<1>1. "pistol" \in GunSlots /\ "pistol" \in Guns /\ Fits("pistol", "pistol")
  BY DEF GunSlots, Guns, Fits
<1>2. m.uid = last /\ last # 0
  <2>1. m.uid = last
    BY DEF Pistoled
  <2>2. last \in 1 .. MaxUnique
    BY DEF Numbers
  <2> HIDE DEF last
  <2>3. last # 0
    BY <2>2, MatchItemsAssumption
  <2> QED
    BY <2>1, <2>3
<1>3. gun # last /\ last \notin DOMAIN base.items
  OBVIOUS
<1>4. /\ Typed(m) /\ DOMAIN m.items = DOMAIN base.items \cup {gun, last}
      /\ m.items[gun].data = "pistol" /\ m.items[last].data = "pistol rounds"
      /\ \A v \in DOMAIN base.items : m.items[v] = base.items[v]
      /\ Extends(m.guns, base.guns, "pistol", At(gun, "pistol"))
      /\ Extends(m.equip, base.equip, "pistol", At(gun, "pistol"))
      /\ m.hand = gun /\ \A x \in m.mounts : x \in base.mounts \/ x.gun = gun
  BY DEF Pistoled
<1> HIDE DEF last
<1>5. Grown(base, m)
  BY <1>4 DEF Grown, Stackable
<1>6. Sound(m)
  BY <1>1, <1>2, <1>4, <1>5, GunTakes DEF Firearms, Guns
<1>7. GunIn(m, base, "pistol", "pistol", gun, {}, {gun, last})
  <2>1. "pistol" \notin DOMAIN base.guns
    BY DEF Nothing
  <2>2. \A v \in {gun, last} \ {gun} : m.items[v].data \notin Guns
    BY <1>4 DEF Guns
  <2>3. DOMAIN m.items = (DOMAIN base.items \ {}) \cup {gun, last} /\ {gun, last} \cap DOMAIN base.items = {}
    BY <1>3, <1>4
  <2> QED
    BY <1>1, <1>4, <2>1, <2>2, <2>3 DEF GunIn, Firearms, Guns
<1>8. Faithful(m) /\ GunNumbers(m) = (GunNumbers(base) \ {}) \cup {gun}
  BY <1>7, GunHeld DEF Comes, Goes, Guns
<1> QED
  BY <1>2, <1>6, <1>8

\* Whoever gets a loadout has at most its pistol.
LEMMA GivenSound ==
    ASSUME NEW l, l.uid \in Nat, l.before \in 0 .. MaxUnique, l.uid + 3 <= MaxUnique
    PROVE  LET m == GiveLoadout(l)
           IN  Sound(m) /\ Faithful(m) /\ GunNumbers(m) = (IF noLoadout THEN {} ELSE {l.uid + 1}) /\ m.uid # 0
<1> DEFINE gun == l.uid + 1
           kit == l.uid + 2
           base == Kitted(kit, l.before)
<1>1. gun \in Numbers /\ kit \in Numbers /\ kit + 1 \in Numbers /\ gun # kit /\ gun # kit + 1 /\ kit # kit + 1 /\ kit # 0
  BY MatchItemsAssumption DEF Numbers
<1>2. GiveLoadout(l) = (IF noLoadout THEN base ELSE Loaded(base, gun))
  BY GivenIs
<1> HIDE DEF gun, kit
<1>3. /\ Sound(base) /\ Faithful(base) /\ GunNumbers(base) = {} /\ base.uid = kit /\ DOMAIN base.items = {kit}
      /\ base.guns = Nothing /\ base.equip = Nothing /\ base.mounts = {}
  BY <1>1, KittedSound
<1> HIDE DEF base
<1>4. Typed(base) /\ gun \notin DOMAIN base.items /\ base.uid + 1 \in Numbers /\ base.uid + 1 \notin DOMAIN base.items /\ gun # base.uid + 1
  BY <1>1, <1>3 DEF Sound
<1>5. Pistoled(Loaded(base, gun), base, gun)
  BY <1>1, <1>4, LoadedIs
<1>6. Sound(Loaded(base, gun)) /\ Faithful(Loaded(base, gun)) /\ GunNumbers(Loaded(base, gun)) = {gun} /\ Loaded(base, gun).uid # 0
  BY <1>1, <1>3, <1>4, <1>5, LoadedSound
<1>7. CASE noLoadout
  BY <1>1, <1>2, <1>3, <1>7
<1>8. CASE ~ noLoadout
  BY <1>2, <1>6, <1>8 DEF gun
<1> QED
  BY <1>7, <1>8

\* Nothing lies in no box.
LEMMA GroundCleared == NoBoxes \in Boxes /\ GunsIn(NoBoxes) = 0
<1>1. NoBoxes \in Boxes /\ DOMAIN NoBoxes = 1 .. MaxBoxes /\ \A b \in 1 .. MaxBoxes : DOMAIN NoBoxes[b] = {}
  BY EmptySeq DEF NoBoxes, Boxes
<1> DEFINE G == [b \in 1 .. MaxBoxes |-> GunPlaces(NoBoxes[b])]
<1>2. \A b \in 1 .. MaxBoxes : G[b] = {}
  BY <1>1 DEF GunPlaces
<1>3. GunsIn(NoBoxes) = Cardinality(PairsOf(1 .. MaxBoxes, G))
  BY <1>1, InIsPairs
<1> HIDE DEF G
<1>4. PairsOf(1 .. MaxBoxes, G) = {}
  BY <1>2 DEF PairsOf
<1> QED
  BY <1>1, <1>3, <1>4, FS_EmptySet

\* Who enters gets a loadout of its own, and the guns add up.
LEMMA EnterStep == ASSUME ItemsInv, ~ clashed, NEW p \in Fighters, Enter(p) PROVE ItemsInv'
<1> DEFINE l == loadout[p]
           m == GiveLoadout(l)
<1>1. Sound(l) /\ l.uid \in 0 .. MaxUnique /\ l.before \in 0 .. MaxUnique
  BY DEF ItemsInv, Sound, Typed
<1>2. l.uid = 0
  BY <1>1, MatchItemsAssumption DEF Enter, Plays
<1>3. GunNumbers(l) = {}
  BY <1>1, <1>2 DEF Sound, GunNumbers
<1>4. loadout' = [loadout EXCEPT ![p] = m] /\ boxes' = NoBoxes /\ UNCHANGED <<walls, revived, clashed>>
      /\ issued' = issued - GunsIn(boxes) + (IF noLoadout THEN 0 ELSE 1)
  BY DEF Enter
<1> HIDE DEF l
<1>5. Sound(m) /\ Faithful(m) /\ GunNumbers(m) = (IF noLoadout THEN {} ELSE {l.uid + 1})
  BY <1>1, <1>2, MatchItemsAssumption, GivenSound
<1> HIDE DEF m
<1>6. Cardinality(GunNumbers(l)) = 0 /\ Cardinality(GunNumbers(m)) = (IF noLoadout THEN 0 ELSE 1)
  BY <1>3, <1>5, FS_EmptySet, FS_Singleton
<1>7. NoBoxes \in Boxes /\ GunsIn(NoBoxes) = 0
  BY GroundCleared
<1>8. issued \in Int /\ GunsIn(boxes) \in Nat
  BY IssuedIs
<1>9. issued' = issued + (Cardinality(GunNumbers(m)) - Cardinality(GunNumbers(l))) + (GunsIn(boxes') - GunsIn(boxes))
  BY <1>4, <1>6, <1>7, <1>8
<1>10. walls' \in Seq(Fighters) /\ WallsCapped' /\ revived' \subseteq Fighters /\ clashed' \in BOOLEAN /\ boxes' \in Boxes
  BY <1>4, <1>7 DEF ItemsInv, WallsCapped
<1> QED
  BY <1>4, <1>5, <1>9, <1>10, OneLoadout DEF l

\* A survivor's medkits are two again.
LEMMA ReissuedSound ==
    ASSUME NEW l, Sound(l), Faithful(l), l.uid # 0, l.uid < MaxUnique
    PROVE  LET m == ReissueLoadout(l)
           IN  /\ Sound(m)
               /\ ~ (TrackedByData(l, "medkit", 0) = {} /\ Meets(l, 1)) => Faithful(m) /\ GunNumbers(m) = GunNumbers(l)
<1> DEFINE medkits == TrackedByData(l, "medkit", 0)
           new == l.uid + 1
           m == ReissueLoadout(l)
<1>1. l.uid \in 0 .. MaxUnique /\ DOMAIN l.items \subseteq Numbers /\ 0 \notin DOMAIN l.items
  BY DEF Sound, Typed, Table, Numbers
<1>2. new \in Numbers /\ new \in 0 .. MaxUnique /\ new # 0
  BY <1>1, MatchItemsAssumption DEF Numbers
<1>3. CASE medkits = {}
  <2> DEFINE it == Item(new, "medkit", 2)
             k == Track(l, it)
             r == LastIs(k, new)
  <2>1. it \in ItemRecords /\ it.data \notin Guns /\ it.unique = new /\ it.data = "medkit"
    BY <1>2 DEF Item, ItemRecords, Kinds, Guns
  <2>2. \A w \in DOMAIN l.items : l.items[w].data # "medkit"
    BY <1>1, <1>3 DEF TrackedByData
  <2>3. m = [k EXCEPT !.uid = @ + 1]
    BY <1>3 DEF ReissueLoadout
  <2> HIDE DEF it, new, m
  <2>4. /\ Sound(k) /\ Same(l, k) /\ Extends(k.items, l.items, it.unique, it) /\ k.guns = l.guns
        /\ k.equip = l.equip /\ k.hand = l.hand /\ k.mounts = l.mounts
        /\ Faithful(l) /\ (it.unique \in DOMAIN l.items => l.items[it.unique].data = it.data)
             => Faithful(k) /\ GunNumbers(k) = GunNumbers(l)
    BY <2>1, <2>2, TrackSound
  <2> HIDE DEF k
  <2>5. m = r
    <3>1. k.uid + 1 = new
      BY <2>4 DEF Same, new
    <3>2. [k EXCEPT !.uid = @ + 1] = [k EXCEPT !.uid = k.uid + 1]
      OBVIOUS
    <3> QED
      BY <2>3, <3>1, <3>2 DEF LastIs
  <2>6. /\ Typed(r) /\ r.uid = new /\ r.before = k.before /\ r.armour = k.armour /\ r.items = k.items
        /\ r.guns = k.guns /\ r.equip = k.equip /\ r.hand = k.hand /\ r.mounts = k.mounts
    BY <1>2, <2>4, LastTyped DEF Sound
  <2> HIDE DEF r
  <2>7. Sound(r)
    BY <1>2, <2>4, <2>6 DEF Sound, Shown, Single
  <2>8. ASSUME ~ Meets(l, 1) PROVE Faithful(r) /\ GunNumbers(r) = GunNumbers(l)
    <3>1. new \notin DOMAIN l.items
      <4>1. new \in (l.uid + 1) .. (l.uid + 1)
        BY <1>1 DEF new
      <4> QED
        BY <2>8, <4>1, Zenon DEF Meets
    <3>2. Faithful(k) /\ GunNumbers(k) = GunNumbers(l)
      BY <2>1, <2>4, <3>1
    <3> QED
      BY <2>6, <3>2 DEF Faithful, InHand, GunNumbers
  <2> QED
    BY <1>3, <2>5, <2>7, <2>8 DEF m
<1>4. CASE medkits # {}
  <2> DEFINE u == CHOOSE v \in medkits : TRUE
             it == Item(u, "medkit", 2)
             k == Track(l, it)
  <2>1. u \in medkits
    BY <1>4
  <2>2. m = k
    BY <1>4 DEF ReissueLoadout
  <2> HIDE DEF u
  <2>3. u \in DOMAIN l.items /\ l.items[u].data = "medkit" /\ u \in Numbers
    BY <1>1, <2>1 DEF TrackedByData
  <2>4. it \in ItemRecords /\ it.data \notin Guns /\ it.unique = u /\ it.data = "medkit"
    BY <2>3 DEF Item, ItemRecords, Kinds, Guns
  <2> HIDE DEF it, m, medkits
  <2>5. \A w \in DOMAIN l.items \ {it.unique} : it.data \in Stackable => l.items[w].data # it.data
    BY <2>3, <2>4 DEF Sound, Single
  <2>6. /\ Sound(k) /\ Faithful(k) /\ GunNumbers(k) = GunNumbers(l)
    BY <2>3, <2>4, <2>5, TrackSound
  <2> QED
    BY <2>2, <2>6 DEF m
<1> QED
  BY <1>3, <1>4

-----------------------------------------------------------------------------
(* The rounds.                                                             *)

\* Who has what, of finitely many who each have finitely much.
LEMMA PairsFinite ==
    ASSUME NEW A, IsFiniteSet(A), NEW F, \A a \in A : IsFiniteSet(F[a])
    PROVE  IsFiniteSet(PairsOf(A, F)) /\ Cardinality(PairsOf(A, F)) \in Nat
<1>1. CASE A = {}
  <2>1. PairsOf(A, F) = {}
    BY <1>1 DEF PairsOf
  <2> QED
    BY <2>1, FS_EmptySet
<1>2. CASE A # {}
  <2>1. PICK b \in A : TRUE
    BY <1>2
  <2>2. IsFiniteSet(PairsOf(A, F))
    BY <2>1, PairsSplit
  <2> QED
    BY <2>2, FS_CardinalityType
<1> QED
  BY <1>1, <1>2

\* What two groups have, and what a group has of which each has one thing.
LEMMA PairsUnion ==
    ASSUME NEW A, IsFiniteSet(A), NEW B, IsFiniteSet(B), A \cap B = {}, NEW F, \A a \in A \cup B : IsFiniteSet(F[a])
    PROVE  Cardinality(PairsOf(A \cup B, F)) = Cardinality(PairsOf(A, F)) + Cardinality(PairsOf(B, F))
<1> DEFINE P == PairsOf(A, F)
           R == PairsOf(B, F)
<1>1. IsFiniteSet(P) /\ Cardinality(P) \in Nat /\ IsFiniteSet(R) /\ Cardinality(R) \in Nat
  BY PairsFinite
<1>2. PairsOf(A \cup B, F) = P \cup R
  BY DEF PairsOf
<1>3. P \cap R = {}
  BY DEF PairsOf
<1> HIDE DEF P, R
<1>4. Cardinality(P \cup R) = Cardinality(P) + Cardinality(R) - Cardinality(P \cap R)
  BY <1>1, FS_Union
<1>5. Cardinality(P \cup R) = Cardinality(P) + Cardinality(R) - Cardinality({})
  BY <1>3, <1>4, Zenon
<1>6. Cardinality(P \cup R) = Cardinality(P) + Cardinality(R)
  BY <1>1, <1>5, FS_EmptySet
<1> QED
  BY <1>2, <1>6 DEF P, R

\* One number each is as many pairs as holders.
LEMMA PairsOne ==
    ASSUME NEW A, IsFiniteSet(A), NEW F, NEW g, \A a \in A : F[a] = {g[a]}
    PROVE  Cardinality(PairsOf(A, F)) = Cardinality(A)
<1> DEFINE P == PairsOf(A, F)
           f == [a \in A |-> <<a, g[a]>>]
<1>1. P = {<<a, g[a]>> : a \in A}
  <2>1. \A a \in A : {a} \X F[a] = {<<a, g[a]>>}
    OBVIOUS
  <2> QED
    BY <2>1 DEF PairsOf
<1> HIDE DEF P
<1>2. f \in [A -> P] /\ DOMAIN f = A
  BY <1>1
<1>3. \A x, y \in A : f[x] = f[y] => x = y
  OBVIOUS
<1>4. \A y \in P : \E x \in A : f[x] = y
  BY <1>1
<1> HIDE DEF f
<1>5. f \in Bijection(A, P)
  BY <1>2, <1>3, <1>4 DEF Bijection, Injection, Surjection, IsInjective
<1> QED
  BY <1>5, FS_Bijection DEF ExistsBijection, P

\* The guns of loadouts as they are after a step.
LEMMA HeldAfter ==
    ASSUME NEW S PROVE GunsHeld(S)' = Cardinality(PairsOf(S, [q \in S |-> GunNumbers(loadout'[q])]))
<1>1. UNION {{q} \X {u \in DOMAIN loadout'[q].items : loadout'[q].items[u].data \in Guns} : q \in S}
        = PairsOf(S, [q \in S |-> GunNumbers(loadout'[q])])
  BY DEF PairsOf, GunNumbers
<1> QED
  BY <1>1 DEF GunsHeld

\* Pairs of the same are the same.
LEMMA PairsSame ==
    ASSUME NEW A, NEW F, NEW G, \A a \in A : F[a] = G[a]
    PROVE  PairsOf(A, F) = PairsOf(A, G)
  BY DEF PairsOf

\* Everybody's loadout that is refilled, and who is not: none of the latter.
Refilled(q, S) == IF q \in S THEN ReissueLoadout(loadout[q]) ELSE loadout[q]

\* The loadouts of a new round, given anew or refilled, are sound.
LEMMA RefilledSound ==
    ASSUME ItemsInv, ~ clashed, NEW S \in SUBSET Fighters, \A q \in S : Plays(q), Reissued(S), NEW p \in Fighters
    PROVE  /\ Sound(Refilled(p, S)) /\ clashed' \in BOOLEAN
           /\ ~ clashed' => Faithful(Refilled(p, S)) /\ GunNumbers(Refilled(p, S)) = GunNumbers(loadout[p])
<1> DEFINE l == loadout[p]
<1>1. Sound(l) /\ Faithful(l) /\ l.uid \in 0 .. MaxUnique
  BY DEF ItemsInv, Sound, Typed
<1>2. clashed' = (clashed \/ \E q \in S : (TrackedByData(loadout[q], "medkit", 0) = {} /\ Meets(loadout[q], 1)))
  BY DEF Reissued
<1>3. clashed' \in BOOLEAN
  BY <1>2 DEF ItemsInv
<1>4. CASE p \notin S
  BY <1>1, <1>3, <1>4 DEF Refilled
<1>5. CASE p \in S
  <2>1. l.uid # 0 /\ l.uid < MaxUnique
    BY <1>1, <1>5, MatchItemsAssumption DEF Reissued, Plays
  <2>2. ~ clashed' => ~ (TrackedByData(l, "medkit", 0) = {} /\ Meets(l, 1))
    BY <1>2, <1>5, Zenon
  <2>3. Refilled(p, S) = ReissueLoadout(l)
    BY <1>5 DEF Refilled
  <2> HIDE DEF l
  <2>4. /\ Sound(ReissueLoadout(l))
        /\ ~ (TrackedByData(l, "medkit", 0) = {} /\ Meets(l, 1)) =>
              Faithful(ReissueLoadout(l)) /\ GunNumbers(ReissueLoadout(l)) = GunNumbers(l)
    BY <1>1, <2>1, ReissuedSound
  <2> QED
    BY <1>3, <2>2, <2>3, <2>4 DEF l
<1> QED
  BY <1>4, <1>5

\* The reset of a round keeps the invariant.
LEMMA ResetStep == ASSUME ItemsInv, ~ clashed, RoundReset PROVE ItemsInv'
<1> DEFINE S == {q \in Fighters : Plays(q)}
<1>1. /\ walls' = <<>> /\ UNCHANGED <<boxes, issued>>
      /\ \E dead \in SUBSET S :
            /\ revived' = dead
            /\ IF dead = {}
                 THEN /\ Reissued(S)
                      /\ loadout' = [q \in Fighters |-> IF Plays(q) THEN ReissueLoadout(loadout[q]) ELSE loadout[q]]
                 ELSE UNCHANGED <<loadout, clashed>>
  BY DEF RoundReset
<1>2. walls' \in Seq(Fighters) /\ WallsCapped' /\ revived' \subseteq Fighters /\ boxes' \in Boxes
  <2>1. walls' \in Seq(Fighters) /\ WallsCapped'
    BY <1>1, NoWalls
  <2> QED
    BY <1>1, <2>1 DEF ItemsInv
<1>3. CASE UNCHANGED <<loadout, clashed>>
  <2>1. GunsHeld(Fighters)' = GunsHeld(Fighters) /\ GunsIn(boxes') = GunsIn(boxes)
    BY <1>1, <1>3 DEF GunsHeld
  <2> QED
    BY <1>1, <1>2, <1>3, <2>1 DEF ItemsInv
<1>4. CASE /\ Reissued(S)
           /\ loadout' = [q \in Fighters |-> IF Plays(q) THEN ReissueLoadout(loadout[q]) ELSE loadout[q]]
  <2>1. S \in SUBSET Fighters /\ \A q \in S : Plays(q)
    OBVIOUS
  <2>2. \A q \in Fighters : loadout'[q] = Refilled(q, S)
    BY <1>4 DEF Refilled
  <2>3. loadout' = [q \in Fighters |-> loadout'[q]]
    BY <1>4
  <2> HIDE DEF S
  <2>4. \A q \in Fighters :
          /\ Sound(Refilled(q, S)) /\ clashed' \in BOOLEAN
          /\ ~ clashed' => Faithful(Refilled(q, S)) /\ GunNumbers(Refilled(q, S)) = GunNumbers(loadout[q])
    BY <1>4, <2>1, RefilledSound
  <2>5. clashed' \in BOOLEAN
    BY <2>4, MatchItemsAssumption
  <2>6. ASSUME ~ clashed' PROVE GunsHeld(Fighters)' + GunsIn(boxes') = issued'
    <3> DEFINE F == [q \in Fighters |-> GunNumbers(loadout[q])]
               G == [q \in Fighters |-> GunNumbers(loadout'[q])]
    <3>1. GunsHeld(Fighters)' = Cardinality(PairsOf(Fighters, G)) /\ GunsHeld(Fighters) = Cardinality(PairsOf(Fighters, F))
      BY HeldIsPairs, HeldAfter
    <3>2. \A q \in Fighters : F[q] = G[q]
      BY <2>2, <2>4, <2>6
    <3> HIDE DEF F, G
    <3>3. PairsOf(Fighters, F) = PairsOf(Fighters, G)
      BY <3>2, PairsSame
    <3> QED
      BY <1>1, <3>1, <3>3 DEF ItemsInv
  <2> QED
    BY <1>2, <2>2, <2>3, <2>4, <2>5, <2>6 DEF ItemsInv
<1> QED
  BY <1>1, <1>3, <1>4

\* The guns after the new loadouts: those of who did not die, and one for each who did.
LEMMA GunsRespawn ==
    ASSUME NEW S \in SUBSET Fighters, \A q \in Fighters : Sound(loadout'[q]),
           \A q \in Fighters \ S : GunNumbers(loadout'[q]) = GunNumbers(loadout[q]),
           \A q \in S : GunNumbers(loadout'[q]) = (IF noLoadout THEN {} ELSE {loadout[q].uid + 1})
    PROVE  /\ GunsHeld(Fighters)' = GunsHeld(Fighters \ S) + (IF noLoadout THEN 0 ELSE Cardinality(S))
           /\ GunsHeld(Fighters)' \in Nat
<1> DEFINE A == Fighters \ S
           F == [q \in A |-> GunNumbers(loadout[q])]
           G == [q \in Fighters |-> GunNumbers(loadout'[q])]
           g == [q \in S |-> loadout[q].uid + 1]
<1>1. IsFiniteSet(Fighters) /\ IsFiniteSet(S) /\ IsFiniteSet(A) /\ A \cap S = {} /\ A \cup S = Fighters
  <2>1. IsFiniteSet(Fighters) /\ A \in SUBSET Fighters
    BY MatchItemsAssumption
  <2>2. A \cap S = {} /\ A \cup S = Fighters
    OBVIOUS
  <2> HIDE DEF A
  <2> QED
    BY <2>1, <2>2, FS_Subset
<1>2. GunsHeld(Fighters)' = Cardinality(PairsOf(Fighters, G)) /\ GunsHeld(A) = Cardinality(PairsOf(A, F))
  BY HeldIsPairs, HeldAfter
<1>3. \A q \in Fighters : IsFiniteSet(G[q])
  BY GunsCounted DEF Sound
<1>4. \A q \in A : F[q] = G[q]
  OBVIOUS
<1>5. \A q \in S : G[q] = (IF noLoadout THEN {} ELSE {g[q]})
  OBVIOUS
<1>6. Cardinality(S) \in Nat
  BY <1>1, FS_CardinalityType
<1> HIDE DEF A, F, G, g
<1>7. Cardinality(PairsOf(A \cup S, G)) = Cardinality(PairsOf(A, G)) + Cardinality(PairsOf(S, G))
  BY <1>1, <1>3, PairsUnion
<1>8. PairsOf(A, F) = PairsOf(A, G)
  BY <1>4, PairsSame
<1>9. Cardinality(PairsOf(S, G)) = (IF noLoadout THEN 0 ELSE Cardinality(S))
  <2>1. CASE noLoadout
    <3>1. PairsOf(S, G) = {}
      BY <1>5, <2>1 DEF PairsOf
    <3> QED
      BY <2>1, <3>1, FS_EmptySet
  <2>2. CASE ~ noLoadout
    <3>1. \A q \in S : G[q] = {g[q]}
      BY <1>5, <2>2
    <3> QED
      BY <1>1, <2>2, <3>1, PairsOne
  <2> QED
    BY <2>1, <2>2
<1>10. Cardinality(PairsOf(Fighters, G)) \in Nat
  BY <1>1, <1>3, PairsFinite
<1>11. GunsHeld(Fighters)' = GunsHeld(A) + (IF noLoadout THEN 0 ELSE Cardinality(S))
  BY <1>1, <1>2, <1>7, <1>8, <1>9
<1> QED
  BY <1>2, <1>10, <1>11 DEF A

\* A respawn keeps the invariant.
LEMMA RespawnStep == ASSUME ItemsInv, ~ clashed, Respawn PROVE ItemsInv'
<1> DEFINE S == {q \in Fighters : Plays(q)} \ revived
<1>1. /\ \A q \in revived : loadout[q].uid + 3 <= MaxUnique
      /\ Reissued(S)
      /\ loadout' = [q \in Fighters |-> CASE q \in revived -> GiveLoadout(loadout[q])
                                          [] Plays(q) /\ q \notin revived -> ReissueLoadout(loadout[q])
                                          [] OTHER -> loadout[q]]
      /\ boxes' = NoBoxes /\ walls' = walls /\ revived' = {}
      /\ issued' = GunsHeld(Fighters \ revived) + (IF noLoadout THEN 0 ELSE Cardinality(revived))
  BY DEF Respawn
<1>2. S \in SUBSET Fighters /\ (\A q \in S : Plays(q)) /\ revived \in SUBSET Fighters
  BY DEF ItemsInv
<1>3. loadout' = [q \in Fighters |-> loadout'[q]]
  BY <1>1
<1>4. \A q \in revived : loadout'[q] = GiveLoadout(loadout[q])
  BY <1>1, <1>2
<1>5. \A q \in Fighters \ revived : loadout'[q] = Refilled(q, S)
  BY <1>1 DEF Refilled
<1> HIDE DEF S
<1>6. \A q \in Fighters :
        /\ Sound(Refilled(q, S)) /\ clashed' \in BOOLEAN
        /\ ~ clashed' => Faithful(Refilled(q, S)) /\ GunNumbers(Refilled(q, S)) = GunNumbers(loadout[q])
  BY <1>1, <1>2, RefilledSound
<1>7. clashed' \in BOOLEAN
  BY <1>6, MatchItemsAssumption
<1>8. \A q \in revived :
        /\ Sound(GiveLoadout(loadout[q])) /\ Faithful(GiveLoadout(loadout[q]))
        /\ GunNumbers(GiveLoadout(loadout[q])) = (IF noLoadout THEN {} ELSE {loadout[q].uid + 1})
  <2> SUFFICES ASSUME NEW q \in revived
               PROVE  /\ Sound(GiveLoadout(loadout[q])) /\ Faithful(GiveLoadout(loadout[q]))
                      /\ GunNumbers(GiveLoadout(loadout[q])) = (IF noLoadout THEN {} ELSE {loadout[q].uid + 1})
    OBVIOUS
  <2>1. loadout[q].uid \in 0 .. MaxUnique /\ loadout[q].before \in 0 .. MaxUnique
    BY <1>2 DEF ItemsInv, Sound, Typed
  <2>2. loadout[q].uid \in Nat
    BY <2>1
  <2>3. loadout[q].uid + 3 <= MaxUnique
    BY <1>1
  <2> QED
    BY <2>1, <2>2, <2>3, GivenSound
<1>9. \A q \in Fighters : Sound(loadout'[q])
  BY <1>4, <1>5, <1>6, <1>8
<1>10. ASSUME ~ clashed' PROVE \A q \in Fighters : Faithful(loadout'[q])
  BY <1>4, <1>5, <1>6, <1>8, <1>10
<1>11. NoBoxes \in Boxes /\ GunsIn(NoBoxes) = 0
  BY GroundCleared
<1>12. ASSUME ~ clashed' PROVE GunsHeld(Fighters)' + GunsIn(boxes') = issued'
  <2>1. \A q \in Fighters \ revived : GunNumbers(loadout'[q]) = GunNumbers(loadout[q])
    BY <1>5, <1>6, <1>12
  <2>2. \A q \in revived : GunNumbers(loadout'[q]) = (IF noLoadout THEN {} ELSE {loadout[q].uid + 1})
    BY <1>4, <1>8
  <2>3. /\ GunsHeld(Fighters)' = GunsHeld(Fighters \ revived) + (IF noLoadout THEN 0 ELSE Cardinality(revived))
        /\ GunsHeld(Fighters)' \in Nat
    BY <1>2, <1>9, <2>1, <2>2, GunsRespawn
  <2> QED
    BY <1>1, <1>11, <2>3
<1>13. WallsCapped'
  BY <1>1 DEF ItemsInv, WallsCapped
<1>14. walls' \in Seq(Fighters) /\ revived' \subseteq Fighters /\ boxes' \in Boxes
  BY <1>1, <1>11 DEF ItemsInv
<1> QED
  BY <1>3, <1>7, <1>9, <1>10, <1>12, <1>13, <1>14 DEF ItemsInv

\* A match starts with nothing held and nothing on the ground.
LEMMA ItemsStarts == ItemsInit => ItemsInv
<1> SUFFICES ASSUME ItemsInit PROVE ItemsInv
  OBVIOUS
<1>1. /\ loadout = [p \in Fighters |-> IF p = Earliest THEN GiveLoadout(Bare) ELSE Bare]
      /\ boxes = NoBoxes /\ walls = <<>> /\ revived = {} /\ clashed = FALSE
      /\ issued = IF noLoadout THEN 0 ELSE 1
  BY DEF ItemsInit
<1>3. /\ Sound(Bare) /\ Faithful(Bare) /\ GunNumbers(Bare) = {} /\ Bare.uid = 0 /\ Bare.before = 0
  <2> DEFINE none == FALSE
  <2>1. Bare = [uid |-> 0, items |-> Nothing, guns |-> Nothing, equip |-> Nothing,
                hand |-> 0, before |-> 0, mounts |-> {}, armour |-> none]
    BY Zenon DEF Bare
  <2> HIDE DEF none
  <2>2. Nothing = [x \in DOMAIN Nothing |-> Nothing[x]] /\ DOMAIN Nothing = {}
    BY DEF Nothing
  <2>3. /\ Bare.uid = 0 /\ Bare.items = Nothing /\ Bare.guns = Nothing /\ Bare.equip = Nothing /\ Bare.hand = 0
        /\ Bare.before = 0 /\ Bare.mounts = {} /\ Shaped(Bare)
    BY <2>1 DEF Shaped
  <2>4. 0 \in 0 .. MaxUnique
    BY MatchItemsAssumption
  <2>5. Typed(Bare)
    BY <2>2, <2>3, <2>4 DEF Typed, Table
  <2>6. Sound(Bare)
    BY <2>2, <2>3, <2>5 DEF Sound, Shown, Single
  <2>7. Faithful(Bare)
    BY <2>2, <2>3 DEF Faithful, InHand
  <2>8. GunNumbers(Bare) = {}
    BY <2>2, <2>3 DEF GunNumbers
  <2> QED
    BY <2>3, <2>6, <2>7, <2>8
<1> DEFINE g == GiveLoadout(Bare)
<1>4. Sound(g) /\ Faithful(g) /\ GunNumbers(g) = (IF noLoadout THEN {} ELSE {Bare.uid + 1})
  <2>1. Bare.uid \in Nat /\ Bare.before \in 0 .. MaxUnique /\ Bare.uid + 3 <= MaxUnique
    BY <1>3, MatchItemsAssumption
  <2> QED
    BY <2>1, GivenSound
<1> HIDE DEF g
<1>5. \A p \in Fighters : loadout[p] = IF p = Earliest THEN g ELSE Bare
  BY <1>1 DEF g
<1>6. /\ loadout = [p \in Fighters |-> loadout[p]] /\ \A p \in Fighters : Sound(loadout[p]) /\ Faithful(loadout[p])
  BY <1>1, <1>3, <1>4, <1>5
<1>7. NoBoxes \in Boxes /\ GunsIn(NoBoxes) = 0
  BY GroundCleared
<1>8. GunsHeld(Fighters) = IF noLoadout THEN 0 ELSE 1
  <2> DEFINE A == Fighters \ {Earliest}
             B == {Earliest}
             F == [q \in Fighters |-> GunNumbers(loadout[q])]
  <2>1. IsFiniteSet(A) /\ IsFiniteSet(B) /\ A \cap B = {} /\ A \cup B = Fighters
    <3>1. IsFiniteSet(Fighters) /\ A \in SUBSET Fighters /\ A \cap B = {} /\ A \cup B = Fighters
      BY MatchItemsAssumption
    <3> HIDE DEF A
    <3> QED
      BY <3>1, FS_Subset, FS_Singleton
  <2>2. GunsHeld(Fighters) = Cardinality(PairsOf(Fighters, F))
    BY HeldIsPairs
  <2>3. \A q \in Fighters : IsFiniteSet(F[q])
    BY <1>6, GunsCounted DEF Sound
  <2>4. \A q \in A : F[q] = {}
    BY <1>3, <1>5
  <2>5. F[Earliest] = (IF noLoadout THEN {} ELSE {1})
    BY <1>3, <1>4, <1>5, MatchItemsAssumption
  <2> HIDE DEF A, F
  <2>6. PairsOf(A, F) = {}
    BY <2>4 DEF PairsOf
  <2> DEFINE one == <<Earliest, 1>>
  <2>7. PairsOf(B, F) = (IF noLoadout THEN {} ELSE {one})
    BY <2>5 DEF PairsOf
  <2> HIDE DEF B, one
  <2>8. Cardinality(PairsOf(A \cup B, F)) = Cardinality(PairsOf(A, F)) + Cardinality(PairsOf(B, F))
    BY <2>1, <2>3, PairsUnion
  <2>9. Cardinality(PairsOf(A, F)) = 0 /\ Cardinality(PairsOf(B, F)) = IF noLoadout THEN 0 ELSE 1
    BY <2>6, <2>7, FS_EmptySet, FS_Singleton
  <2> QED
    BY <2>1, <2>2, <2>8, <2>9
<1>9. WallsCapped
  <2>1. \A r \in Fighters : {i \in DOMAIN <<>> : <<>>[i] = r} = {}
    OBVIOUS
  <2>2. Cardinality({}) = 0 /\ 0 <= GlooWallCap
    BY FS_EmptySet, MatchItemsAssumption
  <2> QED
    BY <1>1, <2>1, <2>2 DEF WallsCapped
<1>10. walls \in Seq(Fighters) /\ revived \subseteq Fighters /\ clashed \in BOOLEAN /\ boxes \in Boxes
  BY <1>1, <1>7, EmptySeq
<1>11. GunsHeld(Fighters) + GunsIn(boxes) = issued
  BY <1>1, <1>7, <1>8
<1> QED
  BY <1>6, <1>9, <1>10, <1>11 DEF ItemsInv

\* No handler breaks the items' invariant.
LEMMA ItemsStep == ItemsInv /\ [ItemsNext]_itemVars => ItemsInv'
<1> SUFFICES ASSUME ItemsInv, [ItemsNext]_itemVars PROVE ItemsInv'
  OBVIOUS
<1>1. CASE UNCHANGED itemVars
  <2>1. UNCHANGED <<loadout, boxes, walls, revived, clashed, issued>>
    BY <1>1 DEF itemVars
  <2>2. WallsCapped' = WallsCapped /\ GunsHeld(Fighters)' = GunsHeld(Fighters)
    BY <2>1 DEF WallsCapped, GunsHeld
  <2> QED
    BY <2>1, <2>2 DEF ItemsInv
<1>2. CASE ItemsNext
  <2>1. ~ clashed
    BY <1>2 DEF ItemsNext
  <2>2. \/ \E p \in Buyers, data \in OnSale : IF data \in Firearms THEN PurchaseGun(p, data) ELSE PurchaseItem(p, data)
        \/ \E p \in Fighters : \/ Pickup(p) \/ Drop(p) \/ Drag(p) \/ ChangeHeldItem(p)
                               \/ PlaceIcewall(p) \/ WearArmor(p) \/ Enter(p)
        \/ WallsFall \/ RoundReset \/ Respawn
    BY <1>2, Zenon DEF ItemsNext
  <2>3. ASSUME NEW p \in Buyers, NEW data \in OnSale, IF data \in Firearms THEN PurchaseGun(p, data) ELSE PurchaseItem(p, data)
        PROVE  ItemsInv'
    <3>1. p \in Fighters /\ data \in {"rifle", "pistol", "groza", "gloo", "grenade", "vest", "kit"}
      BY <2>3, MatchItemsAssumption
    <3>2. CASE data \in Firearms
      BY <2>1, <2>3, <3>1, <3>2, PurchaseGunStep
    <3>3. CASE data \notin Firearms
      <4>1. data \in {"gloo", "grenade", "vest", "kit"}
        BY <3>1, <3>3 DEF Firearms, Guns
      <4> QED
        BY <2>1, <2>3, <3>1, <3>3, <4>1, PurchaseItemStep
    <3> QED
      BY <3>2, <3>3
  <2>4. ASSUME NEW p \in Fighters, \/ Pickup(p) \/ Drop(p) \/ Drag(p) \/ ChangeHeldItem(p)
                                   \/ PlaceIcewall(p) \/ WearArmor(p) \/ Enter(p)
        PROVE  ItemsInv'
    BY <2>1, <2>4, PickupStep, DropStep, DragStep, HeldStep, PlaceStep, WearStep, EnterStep
  <2>5. CASE WallsFall \/ RoundReset \/ Respawn
    BY <2>1, <2>5, WallsFallStep, ResetStep, RespawnStep
  <2> QED
    BY <2>2, <2>3, <2>4, <2>5, Zenon
<1> QED
  BY <1>1, <1>2

\* The invariant says what the runs check.
LEMMA ItemsAre == ItemsInv => ItemsTypeOK /\ ItemsSound
<1> SUFFICES ASSUME ItemsInv PROVE ItemsTypeOK /\ ItemsSound
  OBVIOUS
<1>1. ItemsTypeOK
  <2>1. ASSUME NEW p \in Fighters
        PROVE  /\ loadout[p].uid \in 0 .. MaxUnique
               /\ \A u \in DOMAIN loadout[p].items : loadout[p].items[u].unique = u /\ loadout[p].items[u].count \in Nat \ {0}
               /\ \A s \in DOMAIN loadout[p].equip : loadout[p].equip[s].unique \in 1 .. MaxUnique
               /\ {loadout[p].hand, loadout[p].before} \subseteq 0 .. MaxUnique
    <3>1. Typed(loadout[p])
      BY DEF ItemsInv, Sound
    <3> QED
      BY <3>1 DEF Typed, Table, ItemRecords, Ats, Numbers
  <2>2. \A b \in DOMAIN boxes : \A i \in DOMAIN boxes[b] : boxes[b][i].unique \in 1 .. MaxUnique
    <3> SUFFICES ASSUME NEW b \in DOMAIN boxes, NEW i \in DOMAIN boxes[b] PROVE boxes[b][i].unique \in 1 .. MaxUnique
      OBVIOUS
    <3>1. boxes[b] \in Seq(ItemRecords)
      BY DEF ItemsInv, Boxes
    <3>2. boxes[b][i] \in ItemRecords
      BY <3>1, ElementOfSeq, LenProperties
    <3> QED
      BY <3>2 DEF ItemRecords, Numbers
  <2> QED
    BY <2>1, <2>2 DEF ItemsTypeOK, ItemsInv
<1>2. GunsAreEquipped
  BY DEF GunsAreEquipped, ItemsInv, Sound, Shown
<1>3. OneStack
  <2> SUFFICES ASSUME NEW p \in Fighters, NEW data \in Stackable PROVE Cardinality(TrackedByData(loadout[p], data, 0)) <= 1
    BY DEF OneStack
  <2> DEFINE T == TrackedByData(loadout[p], data, 0)
  <2>1. \A u, v \in T : u = v
    BY DEF TrackedByData, ItemsInv, Sound, Single
  <2> HIDE DEF T
  <2>2. CASE T = {}
    BY <2>2, FS_EmptySet DEF T
  <2>3. CASE T # {}
    <3>1. PICK u \in T : TRUE
      BY <2>3
    <3>2. T = {u}
      BY <2>1, <3>1
    <3> QED
      BY <3>2, FS_Singleton DEF T
  <2> QED
    BY <2>2, <2>3
<1>4. NothingAstray
  <2> SUFFICES ASSUME ~ clashed
               PROVE  /\ \A p \in Fighters :
                           /\ \A s \in DOMAIN loadout[p].equip :
                                 /\ loadout[p].equip[s].unique \in DOMAIN loadout[p].items
                                 /\ loadout[p].items[loadout[p].equip[s].unique].data = loadout[p].equip[s].data
                           /\ \A m \in loadout[p].mounts : m.gun \in DOMAIN loadout[p].items
                           /\ loadout[p].hand \in DOMAIN loadout[p].items \cup {0} \/ loadout[p].guns = Nothing
                      /\ GunsHeld(Fighters) + GunsIn(boxes) = issued
    BY DEF NothingAstray
  <2> QED
    BY DEF ItemsInv, Faithful, InHand
<1> QED
  BY <1>1, <1>2, <1>3, <1>4 DEF ItemsSound, ItemsInv

\* The loadouts and the ground, whoever buys, drops, picks up, drags, throws and dies, in
\* whatever order: a gun of a slot is what the slot shows, a kind is one stack, walls keep to
\* their cap; and until two items meet under a number, what is shown or mounted is held and
\* no gun is lost or doubled.
THEOREM ItemsHold == ItemsInit /\ [][ItemsNext]_itemVars => [](ItemsTypeOK /\ ItemsSound)
<1> QED
  BY ItemsStarts, ItemsStep, ItemsAre, PTL

-----------------------------------------------------------------------------
(* What gives a player HP back, for any amounts and any number of hits,    *)
(* uses and purchases.                                                     *)

\* The properties; and the energy that has become HP is counted from zero.
VitalsInv ==
    /\ VitalsTypeOK /\ HealsStop /\ EnergyBounded
    /\ fromEp \in Nat

\* The amounts are positive, and a revived player is not above the maximum.
LEMMA VitalsNats ==
    /\ MaxHP \in Nat /\ MaxHP >= 1 /\ KnockdownHP \in Nat /\ KnockdownHP >= 1 /\ ReviveHP \in Nat /\ ReviveHP >= 1
    /\ MedkitSteps \in Nat /\ MedkitSteps >= 1 /\ EpPerMushroom \in Nat /\ MaxEP \in Nat
    /\ MushroomsPerRound \in Nat /\ ReviveHP <= MaxHP
BY MatchVitalsAssumption DEF MatchVitalsAssumption

\* A heal ends when its steps are given, at full HP, or when the player has fallen.
LEMMA StepHealIs ==
    ASSUME VitalsInv, NEW d \in 0 .. 2
    PROVE  /\ StepHeal(d).hp \in Nat /\ StepHeal(d).applied \in 0 .. MedkitSteps 
           /\ lifeState # "alive" => StepHeal(d).hp = hp /\ StepHeal(d).healing = FALSE
           /\ lifeState = "alive" => hp <= StepHeal(d).hp /\ StepHeal(d).hp <= MaxHP
<1>1. /\ hp \in Nat /\ applied \in 0 .. MedkitSteps
      /\ lifeState = "alive" => hp <= MaxHP
      /\ MaxHP \in Nat /\ MedkitSteps \in Nat
  BY VitalsNats DEF VitalsInv, VitalsTypeOK, HealsStop
<1>2. CASE ~healing \/ lifeState # "alive"
  <2>1. StepHeal(d) = [hp |-> hp, healing |-> FALSE, applied |-> applied]
    BY <1>2 DEF StepHeal
  <2> QED
    BY <1>1, <2>1
<1>3. CASE ~ (~healing \/ lifeState # "alive")
  <2> DEFINE want == AtMost(applied + d, MedkitSteps)
             healed == AtMost(hp + want - applied, MaxHP)
  <2>1. StepHeal(d) = [hp |-> healed, applied |-> want, healing |-> want < MedkitSteps /\ healed < MaxHP]
    BY <1>3 DEF StepHeal
  <2>2. StepHeal(d).hp = healed /\ StepHeal(d).applied = want
    BY <2>1
  <2>3. want \in applied .. MedkitSteps
    BY <1>1 DEF AtMost
  <2> HIDE DEF want
  <2>4. healed \in hp .. MaxHP
    BY <1>1, <1>3, <2>3 DEF AtMost
  <2> HIDE DEF healed
  <2> QED
    BY <1>1, <1>3, <2>2, <2>3, <2>4
<1> QED
  BY <1>2, <1>3

\* Energy becomes HP one for one, only of who stands and is hurt, and time is banked only
\* without energy.
LEMMA StepEPIs ==
    ASSUME VitalsInv, NEW h \in Nat, NEW e \in 0 .. 1, lifeState = "alive" => h <= MaxHP
    PROVE  /\ StepEP(h, e).hp \in Nat /\ StepEP(h, e).ep \in Nat /\ StepEP(h, e).banked \in 0 .. 2
           /\ StepEP(h, e).hp + StepEP(h, e).ep = h + ep
           /\ h <= StepEP(h, e).hp /\ StepEP(h, e).ep <= ep
           /\ lifeState # "alive" \/ h = 0 => StepEP(h, e).hp = h
           /\ lifeState = "alive" => StepEP(h, e).hp <= MaxHP
           /\ StepEP(h, e).ep > 0 => StepEP(h, e).banked = 0
BY VitalsNats DEF VitalsInv, VitalsTypeOK, StepEP, AtMost

\* No step of the player, the fight or the tick breaks the invariant.
LEMMA VitalsStep == VitalsInv /\ [VitalsNext]_vitalVars => VitalsInv'
<1> SUFFICES ASSUME VitalsInv, [VitalsNext]_vitalVars PROVE VitalsInv'
  OBVIOUS
<1>0. /\ hp \in Nat /\ lifeState \in {"alive", "knocked", "dead"} /\ applied \in 0 .. MedkitSteps
      /\ kits \in 0 .. 2 /\ banked \in 0 .. 2 /\ mushrooms \in 0 .. MushroomsPerRound /\ ep \in Nat /\ fromEp \in Nat
  BY DEF VitalsInv, VitalsTypeOK
<1>1. /\ lifeState = "dead" <=> hp = 0
      /\ lifeState = "alive" => hp <= MaxHP
      /\ lifeState = "knocked" => hp <= KnockdownHP
      /\ ticked /\ lifeState # "alive" => ~healing /\ ~channeling
      /\ ep <= MaxEP /\ ep + fromEp <= EpPerMushroom * mushrooms
      /\ ep > 0 => banked = 0
  BY DEF VitalsInv, HealsStop, EnergyBounded
<1>2. CASE TryUseInventory \/ UseInventory \/ FightEnds
  <2>1. VitalsTypeOK' /\ (fromEp \in Nat)'
    BY <1>0, <1>2, VitalsNats DEF VitalsTypeOK, TryUseInventory, UseInventory, FightEnds, medkit, energy
  <2>2. HealsStop'
    BY <1>0, <1>1, <1>2, VitalsNats DEF HealsStop, TryUseInventory, UseInventory, FightEnds, medkit, energy
  <2>3. EnergyBounded'
    BY <1>0, <1>1, <1>2, VitalsNats DEF EnergyBounded, TryUseInventory, UseInventory, FightEnds, medkit, energy
  <2> QED
    BY <2>1, <2>2, <2>3 DEF VitalsInv
<1>3. CASE GrantMushroom
  <2>1. EpPerMushroom * (mushrooms + 1) = EpPerMushroom * mushrooms + EpPerMushroom
    BY <1>0, VitalsNats
  <2>2. VitalsTypeOK' /\ (fromEp \in Nat)'
    BY <1>0, <1>3, VitalsNats, <2>1 DEF VitalsTypeOK, GrantMushroom, AtMost, medkit
  <2>3. HealsStop'
    BY <1>0, <1>1, <1>3, VitalsNats, <2>1 DEF HealsStop, GrantMushroom, AtMost, medkit
  <2>4. EnergyBounded'
    BY <1>0, <1>1, <1>3, VitalsNats, <2>1 DEF EnergyBounded, GrantMushroom, AtMost, medkit
  <2> QED
    BY <2>2, <2>3, <2>4 DEF VitalsInv
<1>4. CASE Damage
  <2>1. PICK dmg \in 1 .. MaxHP :
          \/ lifeState = "alive" /\ hp > dmg /\ hp' = hp - dmg /\ lifeState' = lifeState
          \/ lifeState = "alive" /\ hp' = 0 /\ lifeState' = "dead"
          \/ lifeState = "alive" /\ hp' = KnockdownHP /\ lifeState' = "knocked"
          \/ lifeState = "knocked" /\ hp > dmg /\ hp' = hp - dmg /\ lifeState' = "knocked"
          \/ lifeState = "knocked" /\ hp' = 0 /\ lifeState' = "dead"
    BY <1>0, <1>4, VitalsNats DEF Damage
  <2>2. ticked' = FALSE /\ UNCHANGED <<medkit, energy, fightOver>>
    BY <1>4 DEF Damage
  <2>3. VitalsTypeOK' /\ (fromEp \in Nat)'
    BY <1>0, <2>1, <2>2, VitalsNats DEF VitalsTypeOK, medkit, energy
  <2>4. HealsStop'
    BY <1>0, <1>1, <2>1, <2>2, VitalsNats DEF HealsStop, medkit, energy
  <2>5. EnergyBounded'
    BY <1>0, <1>1, <2>1, <2>2, VitalsNats DEF EnergyBounded, medkit, energy
  <2> QED
    BY <2>3, <2>4, <2>5 DEF VitalsInv
<1>5. CASE CompleteRescue
  <2>1. VitalsTypeOK' /\ (fromEp \in Nat)'
    BY <1>0, <1>5, VitalsNats DEF VitalsTypeOK, CompleteRescue, medkit, energy
  <2>2. HealsStop'
    BY <1>0, <1>1, <1>5, VitalsNats DEF HealsStop, CompleteRescue, medkit, energy
  <2>3. EnergyBounded'
    BY <1>0, <1>1, <1>5, VitalsNats DEF EnergyBounded, CompleteRescue, medkit, energy
  <2> QED
    BY <2>1, <2>2, <2>3 DEF VitalsInv
<1>6. CASE VitalsReset
  <2>1. EpPerMushroom * 0 = 0
    BY VitalsNats
  <2>2. VitalsTypeOK' /\ (fromEp \in Nat)'
    BY <1>0, <1>6, VitalsNats, <2>1 DEF VitalsTypeOK, VitalsReset
  <2>3. HealsStop'
    BY <1>0, <1>1, <1>6, VitalsNats, <2>1 DEF HealsStop, VitalsReset
  <2>4. EnergyBounded'
    BY <1>0, <1>1, <1>6, VitalsNats, <2>1 DEF EnergyBounded, VitalsReset
  <2> QED
    BY <2>2, <2>3, <2>4 DEF VitalsInv
<1>7. CASE VitalsTick
  <2>1. PICK d \in 0 .. 2, e \in 0 .. 1, timeout \in BOOLEAN :
           LET heal == StepHeal(d)
               regen == StepEP(heal.hp, e)
           IN  /\ hp' = regen.hp /\ healing' = heal.healing /\ applied' = heal.applied
               /\ ep' = regen.ep /\ banked' = regen.banked
               /\ fromEp' = fromEp + regen.hp - heal.hp
               /\ channeling' = (channeling /\ lifeState = "alive" /\ ~timeout)
    BY <1>7 DEF VitalsTick
  <2>2. PICK h \in Nat :
             /\ h = StepHeal(d).hp
             /\ lifeState # "alive" => h = hp
             /\ lifeState = "alive" => hp <= h /\ h <= MaxHP
    BY StepHealIs
  <2>3. PICK a \in Nat, b \in Nat, c \in 0 .. 2 :
             /\ a = StepEP(h, e).hp /\ b = StepEP(h, e).ep /\ c = StepEP(h, e).banked
             /\ a + b = h + ep /\ h <= a /\ b <= ep
             /\ lifeState # "alive" \/ h = 0 => a = h
             /\ lifeState = "alive" => a <= MaxHP
             /\ b > 0 => c = 0
    <3> DEFINE r == StepEP(h, e)
    <3>1. lifeState = "alive" => h <= MaxHP
      BY <2>2
    <3>2. /\ r.hp \in Nat /\ r.ep \in Nat /\ r.banked \in 0 .. 2
          /\ r.hp + r.ep = h + ep
          /\ h <= r.hp /\ r.ep <= ep
          /\ lifeState # "alive" \/ h = 0 => r.hp = h
          /\ lifeState = "alive" => r.hp <= MaxHP
          /\ r.ep > 0 => r.banked = 0
      BY <3>1, StepEPIs
    <3> QED
      BY <3>2
  <2>4. hp' = a /\ ep' = b /\ banked' = c /\ fromEp' = fromEp + a - h
    BY <2>1, <2>2, <2>3, Zenon
  <2>5. fromEp + a - h \in Nat /\ b + (fromEp + a - h) = ep + fromEp
    <3>1. ep \in Nat /\ fromEp \in Nat
      BY <1>0
    <3>2. a + b = h + ep /\ h <= a /\ b <= ep
      BY <2>3
    <3> QED
      BY <3>1, <3>2
  <2>6. fromEp' \in Nat /\ ep' + fromEp' = ep + fromEp
    BY <2>4, <2>5
  <2>7. applied' \in 0 .. MedkitSteps /\ (lifeState # "alive" => ~healing' /\ ~channeling')
    BY <2>1, StepHealIs
  <2>8. UNCHANGED <<lifeState, kits, mushrooms, fightOver>> /\ ticked' = TRUE
    BY <1>7 DEF VitalsTick
  <2>9. VitalsTypeOK'
    BY <1>0, <2>3, <2>4, <2>7, <2>8 DEF VitalsTypeOK
  <2>10. HealsStop'
    <3>1. CASE lifeState = "alive"
      <4>1. a > 0 /\ a <= MaxHP
        BY <1>0, <1>1, <2>2, <2>3, <3>1
      <4> QED
        BY <2>4, <2>8, <3>1, <4>1 DEF HealsStop
    <3>2. CASE lifeState # "alive"
      <4>1. a = hp
        BY <2>2, <2>3, <3>2
      <4> QED
        BY <1>0, <1>1, <2>4, <2>7, <2>8, <3>2, <4>1 DEF HealsStop
    <3> QED
      BY <3>1, <3>2
  <2>11. EnergyBounded'
    <3>1. b <= MaxEP
      BY <1>0, <1>1, <2>3, VitalsNats
    <3> QED
      BY <1>1, <2>3, <2>4, <2>6, <2>8, <3>1 DEF EnergyBounded
  <2> QED
    BY <2>6, <2>9, <2>10, <2>11 DEF VitalsInv
<1>8. CASE UNCHANGED vitalVars
  BY <1>8 DEF vitalVars, VitalsInv, VitalsTypeOK, HealsStop, EnergyBounded
<1> QED
  BY <1>2, <1>3, <1>4, <1>5, <1>6, <1>7, <1>8 DEF VitalsNext

\* A player starts at the maximum, with nothing armed and nothing bought.
LEMMA VitalsStart == VitalsInit => VitalsInv
<1>1. EpPerMushroom * 0 = 0
  BY VitalsNats
<1> QED
  <2> SUFFICES ASSUME VitalsInit PROVE VitalsInv
    OBVIOUS
  <2>1. VitalsTypeOK
    BY VitalsNats DEF VitalsInit, VitalsTypeOK
  <2>2. HealsStop
    BY VitalsNats DEF VitalsInit, HealsStop
  <2>3. EnergyBounded /\ fromEp \in Nat
    BY <1>1, VitalsNats DEF VitalsInit, EnergyBounded
  <2> QED
    BY <2>1, <2>2, <2>3 DEF VitalsInv

\* Whichever heal is armed, by a medkit or by energy, and whatever hits, rescues and resets
\* come in between: nobody who is dead has HP, nobody is healed who has fallen or beyond the
\* maximum, and energy is what was bought and has not become HP.
THEOREM VitalsHold == VitalsInit /\ [][VitalsNext]_vitalVars => [](VitalsTypeOK /\ HealsStop /\ EnergyBounded)
<1>1. VitalsInv => VitalsTypeOK /\ HealsStop /\ EnergyBounded
  BY DEF VitalsInv
<1> QED
  BY <1>1, VitalsStart, VitalsStep, PTL

-----------------------------------------------------------------------------
(* The parts of a match beside each other.                                 *)

\* The part a behaviour steps keeps its invariant; the others rest.
PartsInv ==
    /\ focus = "items" => ItemsInv
    /\ focus = "coins" => CoinsInv
    /\ focus = "vitals" => VitalsInv

\* A step is one of the chosen part, whose own invariant it keeps.
LEMMA PartsStep == PartsInv /\ [Next]_rulesVars => PartsInv'
<1> SUFFICES ASSUME PartsInv, [Next]_rulesVars PROVE PartsInv'
  OBVIOUS
<1>1. focus' = focus
  BY DEF Next, StepRooms, StepItems, StepCoins, StepVitals, rulesVars
<1>2. ASSUME focus = "items" PROVE ItemsInv'
  <2>1. [ItemsNext]_itemVars
    BY <1>2 DEF Next, StepRooms, StepItems, StepCoins, StepVitals, rulesVars
  <2> QED
    BY <1>2, <2>1, ItemsStep DEF PartsInv
<1>3. ASSUME focus = "coins" PROVE CoinsInv'
  <2>1. [CoinsNext]_coinVars
    BY <1>3 DEF Next, StepRooms, StepItems, StepCoins, StepVitals, rulesVars
  <2> QED
    BY <1>3, <2>1, CoinsStep DEF PartsInv
<1>4. ASSUME focus = "vitals" PROVE VitalsInv'
  <2>1. [VitalsNext]_vitalVars
    BY <1>4 DEF Next, StepRooms, StepItems, StepCoins, StepVitals, rulesVars
  <2> QED
    BY <1>4, <2>1, VitalsStep DEF PartsInv
<1> QED
  BY <1>1, <1>2, <1>3, <1>4 DEF PartsInv

\* In every match, of any players and of any length: what they hold is where its tables say
\* and no gun is lost or doubled, a balance is what the rounds earned less the purchases, and
\* no heal raises the dead, each part under whatever order of its handlers.
THEOREM RulesHold == Spec => []MatchHolds
<1>1. Init => PartsInv
  BY ItemsStarts, CoinsStart, VitalsStart DEF Init, PartsInv
<1>2. PartsInv => MatchHolds
  <2> SUFFICES ASSUME PartsInv PROVE MatchHolds
    OBVIOUS
  <2>1. focus = "items" => ItemsTypeOK /\ ItemsSound
    BY ItemsAre DEF PartsInv
  <2>2. focus = "coins" => CoinsTypeOK /\ BalanceFollowsStory
    BY CoinsAre DEF PartsInv
  <2>3. focus = "vitals" => VitalsTypeOK /\ HealsStop /\ EnergyBounded
    BY DEF PartsInv, VitalsInv
  <2>4. CASE focus = "items"
    BY <2>1, <2>4 DEF MatchHolds
  <2>5. CASE focus = "coins"
    BY <2>2, <2>5 DEF MatchHolds
  <2>6. CASE focus = "vitals"
    BY <2>3, <2>6 DEF MatchHolds
  <2>7. CASE focus \notin {"items", "coins", "vitals"}
    BY <2>7 DEF MatchHolds
  <2> QED
    BY <2>4, <2>5, <2>6, <2>7
<1> QED
  BY <1>1, <1>2, PartsStep, PTL DEF Spec
=============================================================================
