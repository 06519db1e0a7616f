---------------------------- MODULE TrafficProofs ----------------------------
(***************************************************************************)
(* What passes between the clients, the gateway and the match servers, for *)
(* any number of them and of steps: the fleet of match servers and the     *)
(* matches of each, the HTTP router with its replay guard and the document *)
(* a session caches, the frames of a TCP connection, what the members of a *)
(* custom room are told, and the rules that its match is played by.        *)
(***************************************************************************)
EXTENDS HttpRouter, MatchFleet, Connection, RoomNotices, MatchSettings,
        FiniteSetTheorems, SequenceTheorems, WellFoundedInduction, TLAPS

-----------------------------------------------------------------------------
(* Numbers and sequences.                                                  *)

\* A non-empty set of naturals has a least element.
LEMMA LeastNat ==
    ASSUME NEW S, S \subseteq Nat, S # {}
    PROVE  \E x \in S : \A y \in S : x <= y
<1> DEFINE R == OpToRel(<, Nat)
<1>1. IsWellFoundedOn(R, Nat)
  BY NatLessThanWellFounded
<1>2. PICK x \in S : \A y \in S : <<y, x>> \notin R
  <2> HIDE DEF R
  <2> QED BY <1>1, WFMin
<1>3. \A y \in S : ~(y < x)
  BY <1>2 DEF OpToRel
<1> HIDE DEF R
<1>4. \A y \in S : x <= y
  BY <1>3
<1>5. QED
  BY <1>4

\* Induction over the natural numbers: a set of them that has 0 and with each number the next.
LEMMA AllNat ==
    ASSUME NEW P \in SUBSET Nat, 0 \in P, \A n \in P : n + 1 \in P
    PROVE  \A n \in Nat : n \in P
<1> SUFFICES ASSUME Nat \ P # {} PROVE FALSE
  OBVIOUS
<1>1. PICK x \in Nat \ P : \A y \in Nat \ P : x <= y
  BY LeastNat
<1>2. x # 0 /\ x - 1 \in Nat
  BY <1>1
<1>3. x - 1 \in P
  BY <1>1, <1>2
<1>4. (x - 1) + 1 \in P
  BY <1>3
<1> QED
  BY <1>1, <1>4

\* What is appended to a sequence, one fact at a time.
LEMMA AppendedIn == ASSUME NEW S, NEW a \in Seq(S), NEW y \in S PROVE Append(a, y) \in Seq(S)
  BY AppendProperties
LEMMA AppendedLen == ASSUME NEW S, NEW a \in Seq(S), NEW y \in S PROVE Len(Append(a, y)) = Len(a) + 1
  BY AppendProperties
LEMMA AppendedLast == ASSUME NEW S, NEW a \in Seq(S), NEW y \in S PROVE Append(a, y)[Len(a) + 1] = y
  BY AppendProperties
LEMMA AppendedFirst == ASSUME NEW S, NEW a \in Seq(S), NEW y \in S, NEW i \in 1 .. Len(a) PROVE Append(a, y)[i] = a[i]
  BY AppendProperties

\* A sequence without its i-th element.
LEMMA RemovedAt ==
    ASSUME NEW S, NEW q \in Seq(S), NEW i \in DOMAIN q
    PROVE  /\ RemoveAt(q, i) \in Seq(S) /\ Len(RemoveAt(q, i)) = Len(q) - 1
           /\ \A k \in 1 .. Len(q) - 1 : RemoveAt(q, i)[k] = q[IF k < i THEN k ELSE k + 1]
<1> DEFINE a == SubSeq(q, 1, i - 1)  b == SubSeq(q, i + 1, Len(q))
<1>1. i \in 1 .. Len(q) /\ Len(q) \in Nat /\ \A k \in 1 .. Len(q) : q[k] \in S
  BY LenProperties, ElementOfSeq
<1>2. a \in Seq(S) /\ Len(a) = i - 1 /\ \A k \in 1 .. i - 1 : a[k] = q[k]
  <2>1. 1 \in Int /\ i - 1 \in Int /\ \A k \in 1 .. i - 1 : q[k] \in S
    BY <1>1
  <2>2. /\ a \in Seq(S) /\ Len(a) = IF 1 <= i - 1 THEN (i - 1) - 1 + 1 ELSE 0
        /\ \A k \in 1 .. (i - 1) - 1 + 1 : a[k] = q[1 + k - 1]
    BY <2>1, SubSeqProperties
  <2> HIDE DEF a
  <2>3. Len(a) = i - 1 /\ (i - 1) - 1 + 1 = i - 1
    BY <1>1, <2>2
  <2>4. \A k \in 1 .. i - 1 : 1 + k - 1 = k
    OBVIOUS
  <2> QED
    BY <2>2, <2>3, <2>4
<1>3. b \in Seq(S) /\ Len(b) = Len(q) - i /\ \A k \in 1 .. Len(q) - i : b[k] = q[i + k]
  <2>1. i + 1 \in Int /\ Len(q) \in Int /\ \A k \in i + 1 .. Len(q) : q[k] \in S
    BY <1>1
  <2>2. /\ b \in Seq(S) /\ Len(b) = IF i + 1 <= Len(q) THEN Len(q) - (i + 1) + 1 ELSE 0
        /\ \A k \in 1 .. Len(q) - (i + 1) + 1 : b[k] = q[(i + 1) + k - 1]
    BY <2>1, SubSeqProperties
  <2> HIDE DEF b
  <2>3. Len(b) = Len(q) - i /\ Len(q) - (i + 1) + 1 = Len(q) - i
    BY <1>1, <2>2
  <2>4. \A k \in 1 .. Len(q) - i : (i + 1) + k - 1 = i + k
    BY <1>1
  <2> QED
    BY <2>2, <2>3, <2>4
<1>4. RemoveAt(q, i) = a \o b
  BY Zenon DEF RemoveAt
<1> HIDE DEF a, b
<1>5. /\ a \o b \in Seq(S) /\ Len(a \o b) = Len(a) + Len(b)
      /\ \A k \in 1 .. Len(a) + Len(b) : (a \o b)[k] = IF k <= Len(a) THEN a[k] ELSE b[k - Len(a)]
  BY <1>2, <1>3, ConcatProperties
<1> DEFINE r == a \o b
<1>8. Len(a) + Len(b) = Len(q) - 1
  BY <1>1, <1>2, <1>3
<1>6. r \in Seq(S) /\ Len(r) = Len(q) - 1
      /\ \A k \in 1 .. Len(q) - 1 : r[k] = IF k <= Len(a) THEN a[k] ELSE b[k - Len(a)]
  BY <1>5, <1>8
<1>7. \A k \in 1 .. Len(q) - 1 : r[k] = q[IF k < i THEN k ELSE k + 1]
  <2> HIDE DEF r
  <2> SUFFICES ASSUME NEW k \in 1 .. Len(q) - 1 PROVE r[k] = q[IF k < i THEN k ELSE k + 1]
    OBVIOUS
  <2>1. CASE k < i
    <3>1. k \in 1 .. i - 1 /\ k <= Len(a)
      BY <1>1, <1>2, <2>1
    <3>2. r[k] = a[k] /\ a[k] = q[k]
      BY <1>2, <1>6, <3>1
    <3> QED
      BY <2>1, <3>2
  <2>2. CASE k >= i
    <3>1. k - Len(a) \in 1 .. Len(q) - i /\ i + (k - Len(a)) = k + 1 /\ ~ (k <= Len(a)) /\ ~ (k < i)
      BY <1>1, <1>2, <2>2
    <3>2. r[k] = b[k - Len(a)]
      BY <1>6, <3>1
    <3>3. b[k - Len(a)] = q[i + (k - Len(a))]
      BY <1>3, <3>1
    <3> QED
      BY <3>1, <3>2, <3>3
  <2> QED
    BY <1>1, <2>1, <2>2
<1> QED
  BY <1>4, <1>6, <1>7

\* What a sequence has once it has once without any of its elements.
LEMMA RemovedApart ==
    ASSUME NEW S, NEW q \in Seq(S), NEW i \in DOMAIN q, NEW k \in DOMAIN RemoveAt(q, i), NEW m \in DOMAIN RemoveAt(q, i)
    PROVE  \E x, y \in DOMAIN q : RemoveAt(q, i)[k] = q[x] /\ RemoveAt(q, i)[m] = q[y] /\ (x = y => k = m)
<1> DEFINE r == RemoveAt(q, i)
           x == IF k < i THEN k ELSE k + 1
           y == IF m < i THEN m ELSE m + 1
<1>1. r \in Seq(S) /\ Len(r) = Len(q) - 1 /\ \A j \in 1 .. Len(q) - 1 : r[j] = q[IF j < i THEN j ELSE j + 1]
  BY RemovedAt
<1> HIDE DEF r
<1>2. DOMAIN r = 1 .. Len(q) - 1 /\ DOMAIN q = 1 .. Len(q) /\ Len(q) \in Nat
  BY <1>1, LenProperties
<1>3. k \in 1 .. Len(q) - 1 /\ m \in 1 .. Len(q) - 1
  BY <1>2 DEF r
<1>4. r[k] = q[x] /\ r[m] = q[y]
  BY <1>1, <1>3
<1>5. x \in DOMAIN q /\ y \in DOMAIN q /\ (x = y => k = m)
  BY <1>2, <1>3
<1> HIDE DEF x, y
<1> QED
  BY <1>4, <1>5 DEF r

-----------------------------------------------------------------------------
(* The fleet.                                                              *)

\* How far behind the clock and each other the fleet's timers are: a heartbeat and a refresh
\* are never overdue, so who was heard last is one interval old for each failure and one more.
Timely ==
    /\ fetch.at <= hour /\ hour <= fetch.at + RefreshEvery
    /\ fetch.got <= hour /\ fetch.at <= fetch.got + RefreshEvery * fetch.failed
    /\ \A h \in Hosts : /\ beat[h].heard <= hour
                        /\ beat[h].at <= beat[h].heard + BeatEvery * beat[h].failed
                        /\ h \in up => hour <= beat[h].at + BeatEvery

Stamp == [at : Int, heard : Int, failed : Nat]
FetchStamp == [at : Int, got : Int, failed : Nat]

\* The sorted set has the last heartbeat of a server or nothing, the list whom it had at the
\* last refresh; who was pruned failed for longer than MaxAge.
FleetInv ==
    /\ FleetTypeOK /\ beat \in [Hosts -> Stamp] /\ fetch \in FetchStamp
    /\ Timely
    /\ \A h \in Hosts : score[h] \in {Never, beat[h].heard}
    /\ \A h \in list : beat[h].heard >= fetch.got - MaxAge
    /\ \A h \in up : score[h] = Never /\ beat[h].heard # Never => BeatEvery * (1 + beat[h].failed) > MaxAge
    /\ SteadyIsOffered

\* The periods and the roster are positive numbers.
LEMMA FleetNats == /\ {RefreshEvery, BeatEvery, RosterCap} \subseteq Nat \ {0}
                   /\ {MaxAge, MaxFleetTime, MaxMisses, MaxDeaths, MaxJoins, MaxResumes} \subseteq Nat
BY MatchFleetAssumption DEF MatchFleetAssumption

\* It holds at the start.
LEMMA FleetStarts == FleetInit => FleetInv
<1> SUFFICES ASSUME FleetInit PROVE FleetInv
  OBVIOUS
<1>1. /\ hour = 0 /\ up = Hosts /\ score = [h \in Hosts |-> -1] /\ list = {} /\ misses = 0 /\ deaths = 0
      /\ beat = [h \in Hosts |-> [at |-> -BeatEvery, heard |-> -1, failed |-> 0]]
      /\ fetch = [at |-> -RefreshEvery, got |-> -1, failed |-> 0]
  BY DEF FleetInit, Never
<1>2. RefreshEvery \in Nat /\ RefreshEvery >= 1 /\ BeatEvery \in Nat /\ BeatEvery >= 1 /\ MaxAge \in Nat
      /\ MaxFleetTime \in Nat /\ MaxMisses \in Nat /\ MaxDeaths \in Nat
  BY FleetNats
<1>3. FleetTypeOK /\ beat \in [Hosts -> Stamp] /\ fetch \in FetchStamp
  BY <1>1, <1>2 DEF FleetTypeOK, Stamp, FetchStamp, Never
<1>4. Timely
  <2>1. fetch.at = -RefreshEvery /\ fetch.got = -1 /\ fetch.failed = 0
        /\ \A h \in Hosts : beat[h].at = -BeatEvery /\ beat[h].heard = -1 /\ beat[h].failed = 0
    BY <1>1
  <2>2. RefreshEvery * 0 = 0 /\ BeatEvery * 0 = 0
    BY <1>2
  <2> QED
    BY <1>1, <1>2, <2>1, <2>2 DEF Timely
<1> QED
  BY <1>1, <1>3, <1>4 DEF FleetInv, Never, SteadyIsOffered

\* Every step keeps it.
LEMMA FleetStep == FleetInv /\ [FleetNext]_fleetVars => FleetInv'
<1> SUFFICES ASSUME FleetInv, [FleetNext]_fleetVars PROVE FleetInv'
  OBVIOUS
<1>0. /\ RefreshEvery \in Nat /\ RefreshEvery >= 1 /\ BeatEvery \in Nat /\ BeatEvery >= 1 /\ MaxAge \in Nat
      /\ MaxFleetTime \in Nat /\ MaxMisses \in Nat /\ MaxDeaths \in Nat
  BY FleetNats
<1>1. /\ hour \in Nat /\ hour <= MaxFleetTime /\ up \subseteq Hosts /\ list \subseteq Hosts
      /\ score \in [Hosts -> -1 .. MaxFleetTime]
      /\ misses \in 0 .. MaxMisses /\ deaths \in 0 .. MaxDeaths
      /\ beat \in [Hosts -> Stamp] /\ fetch \in FetchStamp
      /\ fetch.at \in Int /\ fetch.got \in Int /\ fetch.failed \in Nat
      /\ \A h \in Hosts : beat[h].at \in Int /\ beat[h].heard \in Int /\ beat[h].failed \in Nat
  BY <1>0 DEF FleetInv, FleetTypeOK, Never, Stamp, FetchStamp
<1>2. /\ fetch.at <= hour /\ hour <= fetch.at + RefreshEvery
      /\ fetch.got <= hour /\ fetch.at <= fetch.got + RefreshEvery * fetch.failed
      /\ \A h \in Hosts : /\ beat[h].heard <= hour
                          /\ beat[h].at <= beat[h].heard + BeatEvery * beat[h].failed
                          /\ h \in up => hour <= beat[h].at + BeatEvery
  BY DEF FleetInv, Timely
<1>3. /\ \A h \in Hosts : score[h] \in {-1, beat[h].heard}
      /\ \A h \in list : beat[h].heard >= fetch.got - MaxAge
      /\ \A h \in up : score[h] = -1 /\ beat[h].heard # -1 => BeatEvery * (1 + beat[h].failed) > MaxAge
      /\ \A h \in up : beat[h].heard # -1 /\ beat[h].heard < fetch.got /\ BeatEvery * (1 + beat[h].failed) <= MaxAge
                       => h \in list
  BY DEF FleetInv, SteadyIsOffered, Never
<1>4. CASE FleetTick
  <2>1. /\ hour' = hour + 1 /\ hour < MaxFleetTime /\ hour < fetch.at + RefreshEvery
        /\ \A h \in up : hour < beat[h].at + BeatEvery
        /\ UNCHANGED <<up, score, beat, list, fetch, misses, deaths>>
    BY <1>0, <1>1, <1>4 DEF FleetTick, ListDue, BeatDue
  <2>2. FleetTypeOK' /\ (beat \in [Hosts -> Stamp])' /\ (fetch \in FetchStamp)'
    BY <1>0, <1>1, <2>1 DEF FleetTypeOK, Never
  <2>3. Timely'
    BY <1>0, <1>1, <1>2, <2>1 DEF Timely
  <2> QED
    BY <1>3, <2>1, <2>2, <2>3 DEF FleetInv, Never, SteadyIsOffered
<1>5. ASSUME NEW h \in Hosts, RegisterServer(h) PROVE FleetInv'
  <2>1. /\ score' = [score EXCEPT ![h] = hour] /\ h \in up
        /\ beat' = [beat EXCEPT ![h] = [at |-> hour, heard |-> hour, failed |-> 0]]
        /\ UNCHANGED <<hour, up, list, fetch, misses, deaths>>
    BY <1>5 DEF RegisterServer, BeatDue
  <2>2. /\ score'[h] = hour /\ beat'[h].at = hour /\ beat'[h].heard = hour /\ beat'[h].failed = 0
        /\ \A k \in Hosts \ {h} : score'[k] = score[k] /\ beat'[k] = beat[k]
    BY <1>1, <2>1
  <2>3. FleetTypeOK' /\ (beat \in [Hosts -> Stamp])' /\ (fetch \in FetchStamp)'
    BY <1>0, <1>1, <2>1 DEF FleetTypeOK, Never, Stamp
  <2>4. Timely'
    <3>1. BeatEvery * 0 = 0
      BY <1>0
    <3> QED
      BY <1>0, <1>1, <1>2, <2>1, <2>2, <3>1 DEF Timely
  <2>5. SteadyIsOffered'
    BY <1>1, <1>2, <1>3, <2>1, <2>2 DEF SteadyIsOffered, Never
  <2>6. /\ \A k \in Hosts : score'[k] \in {-1, beat'[k].heard}
        /\ \A k \in list' : beat'[k].heard >= fetch'.got - MaxAge
        /\ \A k \in up' : score'[k] = -1 /\ beat'[k].heard # -1 => BeatEvery * (1 + beat'[k].failed) > MaxAge
    <3>1. \A k \in Hosts : score'[k] \in {-1, beat'[k].heard}
      BY <1>3, <2>2
    <3>2. \A k \in list : beat'[k].heard >= fetch.got - MaxAge
      BY <1>0, <1>1, <1>2, <1>3, <2>2
    <3>3. \A k \in up : score'[k] = -1 /\ beat'[k].heard # -1 => BeatEvery * (1 + beat'[k].failed) > MaxAge
      BY <1>1, <1>3, <2>2
    <3> QED
      BY <2>1, <3>1, <3>2, <3>3
  <2> QED
    BY <2>3, <2>4, <2>5, <2>6 DEF FleetInv, Never
<1>6. ASSUME NEW h \in Hosts, RegisterFails(h) PROVE FleetInv'
  <2>1. /\ h \in up /\ hour >= beat[h].at + BeatEvery /\ misses < MaxMisses /\ misses' = misses + 1
        /\ beat' = [beat EXCEPT ![h].at = hour, ![h].failed = @ + 1]
        /\ UNCHANGED <<hour, up, score, list, fetch, deaths>>
    BY <1>6 DEF RegisterFails, BeatDue
  <2>2. /\ beat'[h].at = hour /\ beat'[h].heard = beat[h].heard /\ beat'[h].failed = beat[h].failed + 1
        /\ \A k \in Hosts \ {h} : beat'[k] = beat[k]
        /\ beat' \in [Hosts -> Stamp]
    BY <1>1, <2>1 DEF Stamp
  <2>3. FleetTypeOK' /\ (beat \in [Hosts -> Stamp])' /\ (fetch \in FetchStamp)'
    BY <1>0, <1>1, <2>1, <2>2 DEF FleetTypeOK, Never
  <2>4. /\ BeatEvery * (beat[h].failed + 1) = BeatEvery * beat[h].failed + BeatEvery
        /\ BeatEvery * (1 + (beat[h].failed + 1)) = BeatEvery * (1 + beat[h].failed) + BeatEvery
        /\ BeatEvery * (1 + beat[h].failed) \in Nat
    BY <1>0, <1>1
  <2>5. Timely'
    BY <1>0, <1>1, <1>2, <2>1, <2>2, <2>4 DEF Timely
  <2>6. SteadyIsOffered'
    BY <1>0, <1>1, <1>3, <2>1, <2>2, <2>4 DEF SteadyIsOffered, Never
  <2>7. /\ \A k \in Hosts : score'[k] \in {-1, beat'[k].heard}
        /\ \A k \in list' : beat'[k].heard >= fetch'.got - MaxAge
        /\ \A k \in up' : score'[k] = -1 /\ beat'[k].heard # -1 => BeatEvery * (1 + beat'[k].failed) > MaxAge
    BY <1>0, <1>1, <1>3, <2>1, <2>2, <2>4
  <2> QED
    BY <2>3, <2>5, <2>6, <2>7 DEF FleetInv, Never
<1>7. ASSUME NEW h \in Hosts, HostDies(h) PROVE FleetInv'
  <2>1. /\ deaths < MaxDeaths /\ deaths' = deaths + 1 /\ up' = up \ {h}
        /\ UNCHANGED <<hour, score, beat, list, fetch, misses>>
    BY <1>7 DEF HostDies
  <2>2. FleetTypeOK'
    BY <1>0, <1>1, <2>1 DEF FleetTypeOK, Never
  <2>3. Timely' /\ SteadyIsOffered'
    BY <1>2, <1>3, <2>1 DEF Timely, SteadyIsOffered, Never
  <2> QED
    BY <1>1, <1>3, <2>1, <2>2, <2>3 DEF FleetInv, Never
<1>8. CASE RefreshList
  <2>1. /\ list' = Fresh /\ fetch' = [at |-> hour, got |-> hour, failed |-> 0]
        /\ score' = [h \in Hosts |-> IF h \in Fresh THEN score[h] ELSE -1]
        /\ UNCHANGED <<hour, up, beat, misses, deaths>>
    BY <1>8 DEF RefreshList, Never
  <2>2. /\ fetch'.at = hour /\ fetch'.got = hour /\ fetch'.failed = 0 /\ fetch' \in FetchStamp
    BY <1>1, <2>1 DEF FetchStamp
  <2>3. \A h \in Hosts : h \in Fresh <=> score[h] # -1 /\ score[h] >= hour - MaxAge
    BY DEF Fresh, Never
  <2>4. FleetTypeOK' /\ (beat \in [Hosts -> Stamp])'
    BY <1>0, <1>1, <2>1 DEF FleetTypeOK, Never, Fresh
  <2>5. Timely'
    <3>1. RefreshEvery * 0 = 0
      BY <1>0
    <3> QED
      BY <1>0, <1>1, <1>2, <2>1, <2>2, <3>1 DEF Timely
  <2>6. ASSUME NEW h \in up, beat[h].heard # -1, BeatEvery * (1 + beat[h].failed) <= MaxAge
        PROVE  h \in Fresh
    <3>1. BeatEvery * (1 + beat[h].failed) = BeatEvery * beat[h].failed + BeatEvery
          /\ BeatEvery * beat[h].failed \in Nat
      BY <1>0, <1>1
    <3>2. score[h] = beat[h].heard
      BY <1>0, <1>1, <1>3, <2>6, <3>1
    <3> QED
      BY <1>0, <1>1, <1>2, <2>3, <2>6, <3>1, <3>2
  <2>7. SteadyIsOffered'
    BY <2>1, <2>6 DEF SteadyIsOffered, Never
  <2>8. /\ \A k \in Hosts : score'[k] \in {-1, beat'[k].heard}
        /\ \A k \in list' : beat'[k].heard >= fetch'.got - MaxAge
        /\ \A k \in up' : score'[k] = -1 /\ beat'[k].heard # -1 => BeatEvery * (1 + beat'[k].failed) > MaxAge
    <3>1. \A k \in Hosts : score'[k] \in {-1, beat'[k].heard}
      BY <1>3, <2>1
    <3>2. \A k \in Fresh : k \in Hosts /\ beat[k].heard >= hour - MaxAge
      BY <1>3, <2>3 DEF Fresh
    <3>3. \A k \in up : score'[k] = -1 /\ beat'[k].heard # -1 => BeatEvery * (1 + beat'[k].failed) > MaxAge
      <4> SUFFICES ASSUME NEW k \in up, score'[k] = -1, beat[k].heard # -1,
                          ~ (BeatEvery * (1 + beat[k].failed) > MaxAge)
                   PROVE  FALSE
        BY <2>1
      <4>1. BeatEvery * (1 + beat[k].failed) <= MaxAge
        BY <1>0, <1>1
      <4>2. k \in Fresh
        BY <2>6, <4>1
      <4> QED
        BY <1>1, <2>1, <2>3, <4>2
    <3> QED
      BY <2>1, <2>2, <3>1, <3>2, <3>3
  <2> QED
    BY <2>2, <2>4, <2>5, <2>7, <2>8 DEF FleetInv, Never
<1>9. CASE ListFails
  <2>1. /\ hour >= fetch.at + RefreshEvery /\ misses < MaxMisses /\ misses' = misses + 1
        /\ fetch' = [fetch EXCEPT !.at = hour, !.failed = @ + 1]
        /\ UNCHANGED <<hour, up, score, beat, list, deaths>>
    BY <1>9 DEF ListFails, ListDue
  <2>2. fetch'.at = hour /\ fetch'.got = fetch.got /\ fetch'.failed = fetch.failed + 1 /\ fetch' \in FetchStamp
    <3>1. fetch = [at |-> fetch.at, got |-> fetch.got, failed |-> fetch.failed]
      BY <1>1 DEF FetchStamp
    <3>2. fetch' = [at |-> hour, got |-> fetch.got, failed |-> fetch.failed + 1]
      BY <2>1, <3>1
    <3> QED
      BY <1>1, <3>2 DEF FetchStamp
  <2>3. FleetTypeOK'
    BY <1>0, <1>1, <2>1 DEF FleetTypeOK, Never
  <2>4. Timely'
    <3>1. RefreshEvery * (fetch.failed + 1) = RefreshEvery * fetch.failed + RefreshEvery
      BY <1>0, <1>1
    <3> QED
      BY <1>0, <1>1, <1>2, <2>1, <2>2, <3>1 DEF Timely
  <2> QED
    BY <1>1, <1>3, <2>1, <2>2, <2>3, <2>4 DEF FleetInv, Never, SteadyIsOffered
<1>10. CASE UNCHANGED fleetVars
  BY <1>10 DEF fleetVars, FleetInv, FleetTypeOK, Timely, SteadyIsOffered
<1> QED
  BY <1>4, <1>5, <1>6, <1>7, <1>8, <1>9, <1>10 DEF FleetNext

\* What the invariant says of the match servers that are picked.
LEMMA FleetIs == FleetInv => FleetTypeOK /\ PickedIsFresh /\ SteadyIsOffered
<1> SUFFICES ASSUME FleetInv, NEW h \in PickServer \ {Static}
             PROVE  hour - beat[h].heard <= MaxAge + RefreshEvery * (1 + fetch.failed)
  BY DEF FleetInv, PickedIsFresh
<1>1. h \in list /\ h \in Hosts
  BY DEF PickServer, FleetInv, FleetTypeOK
<1>2. hour \in Int /\ fetch.at \in Int /\ fetch.got \in Int /\ fetch.failed \in Nat /\ beat[h].heard \in Int
      /\ RefreshEvery \in Nat /\ MaxAge \in Nat
  BY <1>1, FleetNats DEF FleetInv, FleetTypeOK, Stamp, FetchStamp
<1>3. /\ hour <= fetch.at + RefreshEvery /\ fetch.at <= fetch.got + RefreshEvery * fetch.failed
      /\ beat[h].heard >= fetch.got - MaxAge
  BY <1>1 DEF FleetInv, Timely
<1>4. RefreshEvery * (1 + fetch.failed) = RefreshEvery * fetch.failed + RefreshEvery
      /\ RefreshEvery * fetch.failed \in Nat
  BY <1>2
<1> QED
  BY <1>2, <1>3, <1>4

\* A process sends a match to a server it heard of within MaxAge, but for the refreshes since,
\* and keeps on its list every server that runs and lost no more heartbeats than fit into
\* MaxAge, whichever heartbeats and refreshes fail and servers die.
THEOREM FleetHolds == FleetInit /\ [][FleetNext]_fleetVars => [](FleetTypeOK /\ PickedIsFresh /\ SteadyIsOffered)
<1> QED
  BY FleetIs, FleetStarts, FleetStep, PTL

-----------------------------------------------------------------------------
(* The matches of a server.                                                *)

Matches == [first : Fighters \cup {NoFighter}, roster : Seq(Fighters \cup {Stranger}), mail : SUBSET Fighters,
            reserved : Nat, running : BOOLEAN, started : BOOLEAN, ended : BOOLEAN, gone : BOOLEAN]

\* The players of a match, let in, on their way or in its mailbox.
TakenOf(m) == Len(m.roster) + Cardinality(m.mail) + (IF m.first = NoFighter THEN 0 ELSE 1)

\* Each has a reservation, and there are no more of these than the match has room for.
Reserving(m) == IsFiniteSet(m.mail) /\ TakenOf(m) <= m.reserved /\ m.reserved <= RosterCap

Open == {w \in DOMAIN hosted : CanAdmit(hosted[w])}

ManagerInv ==
    /\ hosted \in Seq(Matches) /\ playing \subseteq Fighters /\ resumes \in 0 .. MaxResumes
    /\ \A w \in DOMAIN hosted : Reserving(hosted[w])
    /\ Cardinality(Open) <= 1 + resumes

\* A roster one of whose players leaves is one shorter.
LEMMA RemoveAtIs ==
    ASSUME NEW S, NEW s \in Seq(S), NEW i \in DOMAIN s
    PROVE  RemoveAt(s, i) \in Seq(S) /\ Len(RemoveAt(s, i)) = Len(s) - 1
<1>1. i \in 1 .. Len(s) /\ Len(s) \in Nat
  BY LenProperties
<1>2. \A k \in 1 .. Len(s) : s[k] \in S
  BY ElementOfSeq
<1>3. SubSeq(s, 1, i - 1) \in Seq(S) /\ Len(SubSeq(s, 1, i - 1)) = i - 1
  BY <1>1, <1>2, SubSeqProperties
<1>4. SubSeq(s, i + 1, Len(s)) \in Seq(S) /\ Len(SubSeq(s, i + 1, Len(s))) = Len(s) - i
  <2>1. \A k \in i + 1 .. Len(s) : s[k] \in S
    BY <1>1, <1>2
  <2>2. /\ SubSeq(s, i + 1, Len(s)) \in Seq(S)
        /\ Len(SubSeq(s, i + 1, Len(s))) = IF i + 1 <= Len(s) THEN Len(s) - (i + 1) + 1 ELSE 0
    BY <1>1, <2>1, SubSeqProperties
  <2> QED
    BY <1>1, <2>2
<1>5. /\ SubSeq(s, 1, i - 1) \o SubSeq(s, i + 1, Len(s)) \in Seq(S)
      /\ Len(SubSeq(s, 1, i - 1) \o SubSeq(s, i + 1, Len(s))) = (i - 1) + (Len(s) - i)
  BY <1>3, <1>4, ConcatProperties
<1>6. (i - 1) + (Len(s) - i) = Len(s) - 1
  BY <1>1
<1> QED
  BY <1>5, <1>6, Zenon DEF RemoveAt

\* A match that changes, its reservations in order, and admits nobody it did not before.
LEMMA MatchBecomes ==
    ASSUME ManagerInv, NEW w \in DOMAIN hosted, NEW m \in Matches, Reserving(m), hosted' = [hosted EXCEPT ![w] = m],
           CanAdmit(m) => CanAdmit(hosted[w]), UNCHANGED resumes, playing' \subseteq Fighters
    PROVE  ManagerInv'
<1>1. hosted' \in Seq(Matches) /\ DOMAIN hosted' = DOMAIN hosted /\ hosted'[w] = m
      /\ \A v \in DOMAIN hosted : v # w => hosted'[v] = hosted[v]
  BY DEF ManagerInv
<1>2. Open' \subseteq Open
  BY <1>1 DEF Open, CanAdmit
<1>3. IsFiniteSet(Open) /\ Cardinality(Open') <= Cardinality(Open) /\ Cardinality(Open') \in Nat
      /\ Cardinality(Open) \in Nat
  <2>1. IsFiniteSet(DOMAIN hosted)
    <3>1. DOMAIN hosted = 1 .. Len(hosted) /\ Len(hosted) \in Nat
      BY LenProperties DEF ManagerInv
    <3>2. 1 \in Int /\ Len(hosted) \in Int
      BY <3>1
    <3>3. IsFiniteSet(1 .. Len(hosted))
      BY <3>2, FS_Interval, Zenon
    <3> QED
      BY <3>1, <3>3
  <2>2. IsFiniteSet(Open)
    BY <2>1, FS_Subset DEF Open
  <2> QED
    BY <1>2, <2>2, FS_Subset, FS_CardinalityType
<1>4. \A v \in DOMAIN hosted' : Reserving(hosted'[v])
  BY <1>1 DEF ManagerInv
<1>5. (\A v \in DOMAIN hosted : Reserving(hosted[v]))'
  BY <1>4 DEF Reserving, TakenOf
<1>6. resumes \in Nat
  BY FleetNats DEF ManagerInv
<1> QED
  BY <1>1, <1>3, <1>5, <1>6 DEF ManagerInv

\* A match that is added.
LEMMA MatchAdded ==
    ASSUME ManagerInv, NEW m \in Matches, Reserving(m), hosted' = Append(hosted, m), playing' \subseteq Fighters,
           resumes' \in 0 .. MaxResumes, resumes' >= resumes, resumes' > resumes \/ Open = {}
    PROVE  ManagerInv'
<1>1. /\ hosted' \in Seq(Matches) /\ DOMAIN hosted' = DOMAIN hosted \cup {Len(hosted) + 1}
      /\ hosted'[Len(hosted) + 1] = m
      /\ \A v \in DOMAIN hosted : hosted'[v] = hosted[v]
  BY AppendProperties, LenProperties DEF ManagerInv
<1>2. Open' \subseteq Open \cup {Len(hosted) + 1}
  BY <1>1 DEF Open
<1>3. IsFiniteSet(Open)
  <2>1. DOMAIN hosted = 1 .. Len(hosted) /\ Len(hosted) \in Nat
    BY LenProperties DEF ManagerInv
  <2>2. 1 \in Int /\ Len(hosted) \in Int
    BY <2>1
  <2>3. IsFiniteSet(1 .. Len(hosted))
    BY <2>2, FS_Interval, Zenon
  <2> QED
    BY <2>1, <2>3, FS_Subset DEF Open
<1>4. /\ Cardinality(Open \cup {Len(hosted) + 1}) <= Cardinality(Open) + 1
      /\ IsFiniteSet(Open \cup {Len(hosted) + 1}) /\ Cardinality(Open) \in Nat
      /\ Cardinality(Open \cup {Len(hosted) + 1}) \in Nat
  <2> DEFINE k == Len(hosted) + 1
  <2>1. IsFiniteSet(Open \cup {k}) /\ Cardinality(Open \cup {k}) =
           IF k \in Open THEN Cardinality(Open) ELSE Cardinality(Open) + 1
    <3> HIDE DEF k
    <3> QED
      BY <1>3, FS_AddElement, Zenon
  <2>2. Cardinality(Open) \in Nat /\ Cardinality(Open \cup {k}) \in Nat
    BY <1>3, <2>1, FS_CardinalityType, Zenon
  <2> HIDE DEF k
  <2>3. Cardinality(Open \cup {k}) <= Cardinality(Open) + 1
    BY <2>1, <2>2
  <2> QED
    BY <2>1, <2>2, <2>3 DEF k
<1>5. Cardinality(Open') <= Cardinality(Open) + 1 /\ Cardinality(Open') \in Nat
  <2>1. IsFiniteSet(Open') /\ Cardinality(Open') <= Cardinality(Open \cup {Len(hosted) + 1})
    BY <1>2, <1>4, FS_Subset
  <2> QED
    BY <1>4, <2>1, FS_CardinalityType
<1>6. Open = {} => Cardinality(Open) = 0
  BY FS_EmptySet
<1>7. resumes \in Nat /\ resumes' \in Nat /\ Cardinality(Open) <= 1 + resumes
  BY FleetNats DEF ManagerInv
<1>8. Cardinality(Open') <= 1 + resumes'
  BY <1>4, <1>5, <1>6, <1>7
<1>9. (\A v \in DOMAIN hosted : Reserving(hosted[v]))'
  <2>1. \A v \in DOMAIN hosted' : Reserving(hosted'[v])
    BY <1>1 DEF ManagerInv
  <2> QED
    BY <2>1 DEF Reserving, TakenOf
<1> QED
  BY <1>1, <1>8, <1>9 DEF ManagerInv

\* A match one more player has a reservation in.
LEMMA ReservedIs ==
    ASSUME NEW m \in Matches
    PROVE  /\ Reserve(m) \in Matches /\ Reserve(m).reserved = m.reserved + 1 /\ Reserve(m).mail = m.mail
           /\ Reserve(m).roster = m.roster /\ Reserve(m).first = m.first /\ Reserve(m).gone = m.gone
           /\ Reserve(m).ended = m.ended /\ Reserve(m).started = m.started
BY DEF Reserve, Matches

\* A match as one is made, with its first reservation.
LEMMA NewMatchIs ==
    ASSUME NEW p \in Fighters \cup {NoFighter}
    PROVE  /\ Reserve(NewMatch(p)) \in Matches /\ Reserve(NewMatch(p)).mail = {}
           /\ Reserve(NewMatch(p)).roster = <<>> /\ Reserve(NewMatch(p)).reserved = 1
           /\ Reserve(NewMatch(p)).first = p /\ Reserve(NewMatch(p)).started = FALSE
<1> DEFINE m == NewMatch(p)
<1>1. <<>> \in Seq(Fighters \cup {Stranger})
  BY EmptySeq
<1>2. /\ m \in Matches /\ m.mail = {} /\ m.roster = <<>> /\ m.reserved = 0
      /\ m.first = p /\ m.started = FALSE
  BY <1>1 DEF NewMatch, Matches
<1> HIDE DEF m
<1>3. m.reserved + 1 = 1
  BY <1>2
<1>4. Reserve(m) \in Matches /\ Reserve(m).mail = {} /\ Reserve(m).roster = <<>> /\ Reserve(m).reserved = 1
      /\ Reserve(m).first = p /\ Reserve(m).started = FALSE
  BY <1>2, <1>3, ReservedIs
<1> QED
  BY <1>4 DEF m

\* Reservations, by numbers.
LEMMA ReservingIs ==
    ASSUME NEW m \in Matches, IsFiniteSet(m.mail)
    PROVE  /\ Cardinality(m.mail) \in Nat /\ Len(m.roster) \in Nat /\ m.reserved \in Nat
           /\ m.first = NoFighter => TakenOf(m) = Len(m.roster) + Cardinality(m.mail)
           /\ m.first # NoFighter => TakenOf(m) = Len(m.roster) + Cardinality(m.mail) + 1
           /\ Reserving(m) <=> TakenOf(m) <= m.reserved /\ m.reserved <= RosterCap
<1>1. Cardinality(m.mail) \in Nat
  BY FS_CardinalityType, Zenon
<1>2. m.roster \in Seq(Fighters \cup {Stranger}) /\ m.reserved \in Nat
  BY DEF Matches
<1>3. Len(m.roster) \in Nat
  BY <1>2, LenProperties
<1> QED
  BY <1>1, <1>2, <1>3 DEF TakenOf, Reserving

\* Every step keeps it.
LEMMA ManagerStep == ManagerInv /\ [ManagerNext]_managerVars => ManagerInv'
<1> SUFFICES ASSUME ManagerInv, [ManagerNext]_managerVars PROVE ManagerInv'
  OBVIOUS
<1>0. /\ \A w \in DOMAIN hosted : hosted[w] \in Matches /\ Reserving(hosted[w])
      /\ RosterCap \in Nat /\ RosterCap >= 1 /\ resumes \in Nat
  BY FleetNats, ElementOfSeq, LenProperties DEF ManagerInv
<1>1. ASSUME NEW p \in Fighters, ConnectTo(p) PROVE ManagerInv'
  <2>1. UNCHANGED resumes /\ playing' \subseteq Fighters
    BY <1>1 DEF ConnectTo, ManagerInv
  <2>2. CASE Open = {}
    <3>1. hosted' = Append(hosted, Reserve(NewMatch(p)))
      BY <1>1, <2>2 DEF ConnectTo, Open
    <3>2. Reserve(NewMatch(p)) \in Matches /\ Reserving(Reserve(NewMatch(p)))
      <4>1. Len(<<>>) = 0 /\ IsFiniteSet({}) /\ Cardinality({}) = 0
        BY FS_EmptySet
      <4> DEFINE n == Reserve(NewMatch(p))
      <4>2. n \in Matches /\ n.mail = {} /\ n.roster = <<>> /\ n.reserved = 1
        BY NewMatchIs
      <4> HIDE DEF n
      <4>3. /\ n.first = NoFighter => TakenOf(n) = Len(n.roster) + Cardinality(n.mail)
            /\ n.first # NoFighter => TakenOf(n) = Len(n.roster) + Cardinality(n.mail) + 1
            /\ Reserving(n) <=> TakenOf(n) <= n.reserved /\ n.reserved <= RosterCap
        BY <4>1, <4>2, ReservingIs
      <4>4. Reserving(n)
        BY <1>0, <4>1, <4>2, <4>3
      <4> QED
        BY <4>2, <4>4 DEF n
    <3> QED
      BY <1>0, <2>1, <2>2, <3>1, <3>2, MatchAdded DEF ManagerInv
  <2>3. CASE Open # {}
    <3>1. \E w \in Open : \A v \in Open : w <= v
      <4>1. Open \subseteq Nat
        BY LenProperties DEF Open, ManagerInv
      <4> QED
        BY <2>3, <4>1, LeastNat
    <3>2. PICK w \in Open : hosted' = [hosted EXCEPT ![w] = [Reserve(hosted[w]) EXCEPT !.mail = @ \cup {p}]]
      <4>1. hosted' = LET w == CHOOSE w \in Open : \A v \in Open : w <= v IN
                      [hosted EXCEPT ![w] = [Reserve(hosted[w]) EXCEPT !.mail = @ \cup {p}]]
        BY <1>1, <2>3 DEF ConnectTo, Open
      <4> QED
        BY <3>1, <4>1
    <3> DEFINE m == hosted[w]
               n == [Reserve(m) EXCEPT !.mail = @ \cup {p}]
    <3>3. w \in DOMAIN hosted /\ m \in Matches /\ Reserving(m) /\ CanAdmit(m)
      BY <1>0 DEF Open
    <3>4. /\ n \in Matches /\ n.mail = m.mail \cup {p} /\ n.roster = m.roster /\ n.first = m.first
          /\ n.reserved = m.reserved + 1 /\ n.gone = m.gone /\ n.ended = m.ended /\ n.started = m.started
      <4>1. p \in Fighters
        OBVIOUS
      <4> DEFINE r == Reserve(m)
      <4>2. /\ r \in Matches /\ r.reserved = m.reserved + 1 /\ r.mail = m.mail /\ r.roster = m.roster
            /\ r.first = m.first /\ r.gone = m.gone /\ r.ended = m.ended /\ r.started = m.started
        BY <3>3, ReservedIs
      <4>3. n = [r EXCEPT !.mail = @ \cup {p}]
        OBVIOUS
      <4> HIDE DEF n, r
      <4> QED
        BY <4>1, <4>2, <4>3 DEF Matches
    <3>5. m.reserved < RosterCap /\ m.reserved \in Nat /\ Len(m.roster) \in Nat
      BY <3>3, LenProperties DEF CanAdmit, Matches
    <3>6. IsFiniteSet(n.mail) /\ Cardinality(n.mail) <= Cardinality(m.mail) + 1 /\ Cardinality(m.mail) \in Nat
          /\ Cardinality(n.mail) \in Nat
      <4> HIDE DEF n
      <4>1. IsFiniteSet(m.mail)
        BY <3>3 DEF Reserving
      <4>2. IsFiniteSet(m.mail \cup {p}) /\ Cardinality(m.mail \cup {p}) =
               IF p \in m.mail THEN Cardinality(m.mail) ELSE Cardinality(m.mail) + 1
        BY <4>1, FS_AddElement, Zenon
      <4>3. Cardinality(m.mail) \in Nat /\ Cardinality(m.mail \cup {p}) \in Nat
        BY <4>1, <4>2, FS_CardinalityType, Zenon
      <4> QED
        BY <3>4, <4>2, <4>3
    <3>7. Reserving(n)
      <4> HIDE DEF n, m
      <4>1. IsFiniteSet(m.mail)
        BY <3>3 DEF Reserving
      <4>2. /\ m.first = NoFighter => TakenOf(m) = Len(m.roster) + Cardinality(m.mail)
            /\ m.first # NoFighter => TakenOf(m) = Len(m.roster) + Cardinality(m.mail) + 1
            /\ TakenOf(m) <= m.reserved /\ m.reserved <= RosterCap
        BY <3>3, <4>1, ReservingIs
      <4>3. /\ n.first = NoFighter => TakenOf(n) = Len(n.roster) + Cardinality(n.mail)
            /\ n.first # NoFighter => TakenOf(n) = Len(n.roster) + Cardinality(n.mail) + 1
            /\ Reserving(n) <=> TakenOf(n) <= n.reserved /\ n.reserved <= RosterCap
        BY <3>4, <3>6, ReservingIs
      <4> QED
        BY <1>0, <3>4, <3>5, <3>6, <4>2, <4>3
    <3>8. hosted' = [hosted EXCEPT ![w] = n] /\ (CanAdmit(n) => CanAdmit(m))
      <4>1. hosted' = [hosted EXCEPT ![w] = n]
        BY <3>2
      <4> HIDE DEF n
      <4> QED
        BY <3>3, <4>1
    <3> HIDE DEF n
    <3> QED
      BY <2>1, <3>3, <3>4, <3>7, <3>8, MatchBecomes
  <2> QED
    BY <2>2, <2>3
<1>2. CASE Resume
  <2> DEFINE n == [Reserve(NewMatch(NoFighter)) EXCEPT !.roster = <<Stranger>>, !.running = TRUE]
  <2>1. /\ hosted' = Append(hosted, n) /\ resumes' = resumes + 1 /\ resumes < MaxResumes /\ UNCHANGED playing
    BY <1>2 DEF Resume
  <2>2. /\ n \in Matches /\ n.mail = {} /\ n.roster = <<Stranger>> /\ n.reserved = 1 /\ n.first = NoFighter
    <3> DEFINE r == Reserve(NewMatch(NoFighter))
    <3>1. r \in Matches /\ r.mail = {} /\ r.reserved = 1 /\ r.first = NoFighter
      BY NewMatchIs
    <3>2. <<Stranger>> \in Seq(Fighters \cup {Stranger})
      OBVIOUS
    <3>3. n = [r EXCEPT !.roster = <<Stranger>>, !.running = TRUE]
      OBVIOUS
    <3> HIDE DEF n, r
    <3> QED
      BY <3>1, <3>2, <3>3 DEF Matches
  <2>3. Len(<<Stranger>>) = 1 /\ IsFiniteSet({}) /\ Cardinality({}) = 0
    BY FS_EmptySet
  <2>4. Reserving(n)
    <3> HIDE DEF n
    <3>1. /\ TakenOf(n) = Len(n.roster) + Cardinality(n.mail)
          /\ Reserving(n) <=> TakenOf(n) <= n.reserved /\ n.reserved <= RosterCap
      BY <2>2, <2>3, ReservingIs
    <3> QED
      BY <1>0, <2>2, <2>3, <3>1
  <2>5. resumes' \in 0 .. MaxResumes /\ resumes' > resumes /\ resumes' >= resumes
    BY <1>0, <2>1, FleetNats
  <2> HIDE DEF n
  <2> QED
    BY <2>1, <2>2, <2>4, <2>5, MatchAdded DEF ManagerInv
<1>3. ASSUME NEW w \in DOMAIN hosted, AdmitFirst(w) PROVE ManagerInv'
  <2> DEFINE m == hosted[w]
             n == [m EXCEPT !.first = NoFighter, !.roster = <<m.first>>, !.running = TRUE]
  <2>1. m.first # NoFighter /\ hosted' = [hosted EXCEPT ![w] = n] /\ UNCHANGED <<playing, resumes>>
    BY <1>3 DEF AdmitFirst, Becomes
  <2>2. m \in Matches /\ Reserving(m)
    BY <1>0
  <2>3. /\ n \in Matches /\ n.mail = m.mail /\ n.roster = <<m.first>> /\ n.first = NoFighter
        /\ n.reserved = m.reserved /\ n.gone = m.gone /\ n.ended = m.ended /\ n.started = m.started
    <3>1. m.first \in Fighters
      BY <2>1, <2>2 DEF Matches
    <3>2. <<m.first>> \in Seq(Fighters \cup {Stranger})
      BY <3>1
    <3> HIDE DEF m
    <3> QED
      BY <2>2, <3>2 DEF Matches
  <2>4. Len(m.roster) \in Nat /\ Len(<<m.first>>) = 1 /\ Cardinality(m.mail) \in Nat /\ m.reserved \in Nat
    BY <2>2, FS_CardinalityType DEF Matches, Reserving
  <2>5. Reserving(n) /\ (CanAdmit(n) => CanAdmit(m))
    BY <1>0, <2>1, <2>2, <2>3, <2>4 DEF Reserving, TakenOf, CanAdmit
  <2> HIDE DEF n
  <2> QED
    BY <2>1, <2>3, <2>5, MatchBecomes DEF ManagerInv
<1>4. ASSUME NEW w \in DOMAIN hosted, NEW p \in Fighters, AdmitNext(w, p) PROVE ManagerInv'
  <2> DEFINE m == hosted[w]
             n == [m EXCEPT !.mail = @ \ {p}, !.roster = Append(@, p)]
  <2>1. p \in m.mail /\ hosted' = [hosted EXCEPT ![w] = n] /\ UNCHANGED <<playing, resumes>>
    BY <1>4 DEF AdmitNext, Becomes
  <2>2. m \in Matches /\ Reserving(m)
    BY <1>0
  <2>3. /\ n \in Matches /\ n.mail = m.mail \ {p} /\ n.roster = Append(m.roster, p) /\ n.first = m.first
        /\ n.reserved = m.reserved /\ n.gone = m.gone /\ n.ended = m.ended /\ n.started = m.started
    BY <2>1, <2>2, AppendProperties DEF Matches
  <2>4. /\ Len(m.roster) \in Nat /\ Len(n.roster) = Len(m.roster) + 1 /\ m.reserved \in Nat
        /\ Cardinality(m.mail) \in Nat /\ Cardinality(n.mail) = Cardinality(m.mail) - 1 /\ IsFiniteSet(n.mail)
    <3>1. m.roster \in Seq(Fighters \cup {Stranger}) /\ m.reserved \in Nat
      BY <2>2 DEF Matches
    <3>2. Len(m.roster) \in Nat /\ Len(n.roster) = Len(m.roster) + 1
      BY <2>3, <3>1, AppendProperties, LenProperties
    <3>3. IsFiniteSet(m.mail)
      BY <2>2 DEF Reserving
    <3> HIDE DEF n
    <3> QED
      BY <2>1, <2>3, <3>1, <3>2, <3>3, FS_RemoveElement, FS_CardinalityType
  <2> HIDE DEF n
  <2>5. Reserving(n) /\ (CanAdmit(n) => CanAdmit(m))
    BY <1>0, <2>1, <2>2, <2>3, <2>4 DEF Reserving, TakenOf, CanAdmit
  <2> QED
    BY <2>1, <2>3, <2>5, MatchBecomes DEF ManagerInv
<1>5. ASSUME NEW w \in DOMAIN hosted, NEW p \in Fighters, Quit(w, p) PROVE ManagerInv'
  <2> DEFINE m == hosted[w]
  <2>1. PICK i \in DOMAIN m.roster : hosted' = [hosted EXCEPT ![w] = Left(m, i)]
    BY <1>5 DEF Quit, Becomes
  <2>2. playing' \subseteq Fighters /\ UNCHANGED resumes
    BY <1>5 DEF Quit, ManagerInv
  <2>3. m \in Matches /\ Reserving(m) /\ m.roster \in Seq(Fighters \cup {Stranger})
    BY <1>0 DEF Matches
  <2>4. RemoveAt(m.roster, i) \in Seq(Fighters \cup {Stranger}) /\ Len(RemoveAt(m.roster, i)) = Len(m.roster) - 1
    BY <2>3, RemoveAtIs
  <2> DEFINE n == [m EXCEPT !.roster = RemoveAt(@, i)]
  <2>5. /\ n \in Matches /\ n.mail = m.mail /\ n.roster = RemoveAt(m.roster, i) /\ n.first = m.first
        /\ n.reserved = m.reserved /\ n.gone = m.gone /\ n.ended = m.ended /\ n.started = m.started
    BY <2>3, <2>4 DEF Matches
  <2>6. Len(m.roster) \in Nat /\ Cardinality(m.mail) \in Nat /\ m.reserved \in Nat
    BY <2>3, FS_CardinalityType, LenProperties DEF Matches, Reserving
  <2>7. hosted' = [hosted EXCEPT ![w] = n]
    BY <2>1 DEF Left
  <2> HIDE DEF n
  <2>8. Reserving(n) /\ (CanAdmit(n) => CanAdmit(m))
    BY <1>0, <2>3, <2>4, <2>5, <2>6 DEF Reserving, TakenOf, CanAdmit
  <2> QED
    BY <2>2, <2>5, <2>7, <2>8, MatchBecomes
<1>6. ASSUME NEW w \in DOMAIN hosted, LockMatch(w) \/ EndMatch(w) PROVE ManagerInv'
  <2> DEFINE m == hosted[w]
  <2>1. PICK n \in {[m EXCEPT !.started = TRUE], [m EXCEPT !.ended = TRUE]} : hosted' = [hosted EXCEPT ![w] = n]
    BY <1>6 DEF LockMatch, EndMatch, Becomes
  <2>2. UNCHANGED <<playing, resumes>>
    BY <1>6 DEF LockMatch, EndMatch
  <2>3. m \in Matches /\ Reserving(m)
    BY <1>0
  <2>4. /\ n \in Matches /\ n.mail = m.mail /\ n.roster = m.roster /\ n.first = m.first
        /\ n.reserved = m.reserved /\ ~CanAdmit(n)
    BY <2>3 DEF Matches, CanAdmit
  <2>5. Reserving(n)
    BY <2>3, <2>4 DEF Reserving, TakenOf
  <2> QED
    BY <2>1, <2>2, <2>4, <2>5, MatchBecomes DEF ManagerInv
<1>7. ASSUME NEW w \in DOMAIN hosted, Reap(w) PROVE ManagerInv'
  <2> DEFINE m == hosted[w]
             n == [m EXCEPT !.gone = TRUE, !.running = FALSE, !.roster = <<>>, !.mail = {}]
  <2>1. hosted' = [hosted EXCEPT ![w] = n] /\ playing' \subseteq Fighters /\ UNCHANGED resumes
    BY <1>7 DEF Reap, Becomes, ManagerInv
  <2>2. m \in Matches /\ Reserving(m)
    BY <1>0
  <2>3. /\ n \in Matches /\ n.mail = {} /\ n.roster = <<>> /\ n.first = m.first
        /\ n.reserved = m.reserved /\ n.gone = TRUE
    BY <2>2, EmptySeq DEF Matches
  <2>4. Len(<<>>) = 0 /\ IsFiniteSet({}) /\ Cardinality({}) = 0 /\ m.reserved \in Nat
        /\ Len(m.roster) \in Nat /\ Cardinality(m.mail) \in Nat
    BY <2>2, FS_EmptySet, FS_CardinalityType, LenProperties DEF Matches, Reserving
  <2> HIDE DEF n
  <2>5. Reserving(n) /\ ~CanAdmit(n)
    BY <1>0, <2>2, <2>3, <2>4 DEF Reserving, TakenOf, CanAdmit
  <2> QED
    BY <2>1, <2>3, <2>5, MatchBecomes
<1>8. CASE UNCHANGED managerVars
  BY <1>8 DEF managerVars, ManagerInv, Reserving, TakenOf, Open
<1> QED
  BY <1>1, <1>2, <1>3, <1>4, <1>5, <1>6, <1>7, <1>8 DEF ManagerNext

\* It holds at the start.
LEMMA ManagerStarts == ManagerInit => ManagerInv
<1> SUFFICES ASSUME ManagerInit PROVE ManagerInv
  OBVIOUS
<1>1. hosted = <<>> /\ playing = {} /\ resumes = 0
  BY DEF ManagerInit
<1>2. hosted \in Seq(Matches) /\ DOMAIN hosted = {}
  BY <1>1, EmptySeq
<1>3. Open = {} /\ Cardinality({}) = 0
  BY <1>2, FS_EmptySet DEF Open
<1> QED
  BY <1>1, <1>2, <1>3, FleetNats DEF ManagerInv

\* What the invariant says of the matches.
LEMMA ManagerIs == ManagerInv => ManagerTypeOK /\ RosterWithinCap /\ OneGathering
<1> SUFFICES ASSUME ManagerInv PROVE ManagerTypeOK /\ RosterWithinCap /\ OneGathering
  OBVIOUS
<1>1. \A w \in DOMAIN hosted : hosted[w] \in Matches /\ Reserving(hosted[w])
  BY ElementOfSeq, LenProperties DEF ManagerInv
<1>2. ManagerTypeOK
  BY <1>1 DEF ManagerInv, ManagerTypeOK, Matches
<1>3. RosterWithinCap
  <2> SUFFICES ASSUME NEW w \in DOMAIN hosted PROVE TakenOf(hosted[w]) <= RosterCap
    BY DEF RosterWithinCap, TakenOf
  <2>1. /\ TakenOf(hosted[w]) <= hosted[w].reserved /\ hosted[w].reserved <= RosterCap
        /\ hosted[w].reserved \in Nat /\ RosterCap \in Nat /\ Len(hosted[w].roster) \in Nat
        /\ Cardinality(hosted[w].mail) \in Nat
    BY <1>1, FleetNats, LenProperties, FS_CardinalityType DEF Reserving, Matches
  <2> QED
    BY <2>1 DEF TakenOf
<1>4. OneGathering
  BY DEF ManagerInv, OneGathering, Open
<1> QED
  BY <1>2, <1>3, <1>4

\* No match of a server has more players than its roster has room for, let in, in the mailbox
\* or admitted, and all who come while one gathers come into that one.
THEOREM ManagerHolds == ManagerInit /\ [][ManagerNext]_managerVars => [](ManagerTypeOK /\ RosterWithinCap /\ OneGathering)
<1> QED
  BY ManagerIs, ManagerStarts, ManagerStep, PTL
-----------------------------------------------------------------------------
(* The HTTP router, for any requests, window, cap of the guard and time.   *)

Signatures == [sig : Endpoints, exp : Nat]
Requested == [sig : Endpoints, time : Nat]
PostStages == {"done", "token", "handler", "save", "publish"}

RouterTyped ==
    /\ enabled \in BOOLEAN /\ now \in 0 .. MaxTime /\ lastSweep \in 0 .. now
    /\ seen \in Seq(Signatures) /\ recorded \in Seq(Requested) /\ dropped \in Seq(Requested)
    /\ post \in [Posts -> [endpoint : Endpoints \cup {"none"}, at : PostStages]]
    /\ document \in Nat /\ updates \in Nat /\ caching \in {"none", "auth", "live"} /\ blurred \in BOOLEAN
    /\ snapshot \in 0 .. document
    /\ refresh \in Seq(Int) /\ \A i \in DOMAIN refresh : refresh[i] \in -1 .. document

\* The Map: in order of expiry, no signature twice.
InOrder(q) == \A i, j \in DOMAIN q : i < j => q[i].exp <= q[j].exp /\ q[i].sig # q[j].sig

\* Its entries are of requests that were recorded, in their order, and it has each that has not
\* expired and is among the last.
Follows(f, q, done) ==
    /\ f \in [DOMAIN q -> DOMAIN done] /\ \A k, m \in DOMAIN q : k < m => f[k] < f[m]
    /\ \A k \in DOMAIN q : q[k].sig = done[f[k]].sig /\ q[k].exp = done[f[k]].time + Window

HasRecent(f, q, done, t) ==
    \A i \in DOMAIN done :
        done[i].time + Window > t /\ Len(done) - i < MaxSeen => \E k \in DOMAIN q : f[k] = i

Traced(q, done, t) == \E f : Follows(f, q, done) /\ HasRecent(f, q, done, t)

InTime(done, t) ==
    \A i \in DOMAIN done : done[i].time <= t /\ \A j \in DOMAIN done : i < j => done[i].time <= done[j].time

GuardInv ==
    /\ Len(seen) <= MaxSeen /\ InOrder(seen) /\ Traced(seen, recorded, now) /\ InTime(recorded, now)
    /\ ReplaysDropped

Announced == updates = 0 /\ \A p \in Posts : post[p].at # "publish"

SnapshotInv ==
    /\ caching # "live" => refresh = <<>>
    /\ ~ blurred => Len(refresh) <= 1
    /\ ~ blurred /\ caching # "none" /\ Announced =>
           /\ refresh = <<>> => snapshot = document
           /\ refresh # <<>> => refresh[1] \in {-1, document}

RouterInv == RouterTyped /\ GuardInv /\ SnapshotInv

\* What is in the Map when it is sound.
SoundSeen(q, done, t) == q \in Seq(Signatures) /\ InOrder(q) /\ Traced(q, done, t)

\* A function that climbs climbs by one at least in each step.
LEMMA Climbs ==
    ASSUME NEW n \in Nat, NEW f \in [1 .. n -> Nat], \A i, j \in 1 .. n : i < j => f[i] < f[j], NEW k \in 1 .. n
    PROVE  f[k] + (n - k) <= f[n]
<1> DEFINE P == {m \in Nat : k + m <= n => f[k] + m <= f[k + m]}
<1>0. P \in SUBSET Nat /\ k \in Nat /\ f[k] \in Nat
  OBVIOUS
<1>1. 0 \in P
  <2>1. k + 0 = k
    BY <1>0
  <2> QED
    BY <1>0, <2>1
<1>2. \A m \in P : m + 1 \in P
  <2> SUFFICES ASSUME NEW m \in Nat, k + m <= n => f[k] + m <= f[k + m], k + (m + 1) <= n
               PROVE  f[k] + (m + 1) <= f[k + (m + 1)]
    OBVIOUS
  <2>1. k + m \in 1 .. n /\ k + (m + 1) \in 1 .. n /\ k + m < k + (m + 1)
    BY <1>0
  <2>2. f[k + m] \in Nat /\ f[k + (m + 1)] \in Nat
    BY <2>1
  <2>3. f[k + m] < f[k + (m + 1)]
    BY <2>1
  <2>4. f[k] + m <= f[k + m]
    BY <2>1
  <2> QED
    BY <1>0, <2>2, <2>3, <2>4
<1> HIDE DEF P
<1>3. n - k \in P
  <2>1. n - k \in Nat
    BY <1>0
  <2> QED
    BY <1>0, <1>1, <1>2, <2>1, AllNat
<1>4. k + (n - k) = n /\ k + (n - k) <= n
  BY <1>0
<1> USE DEF P
<1>5. f[k] + (n - k) <= f[k + (n - k)]
  BY <1>3, <1>4
<1> QED
  BY <1>4, <1>5

\* Entries can go that have expired or have enough others after them; the rest stay in order.
LEMMA Thinned ==
    ASSUME NEW done \in Seq(Requested), NEW t \in Nat, NEW q, SoundSeen(q, done, t),
           NEW r \in Seq(Signatures), NEW h \in [DOMAIN r -> DOMAIN q],
           \A k, m \in DOMAIN r : k < m => h[k] < h[m], \A k \in DOMAIN r : r[k] = q[h[k]],
           \A k \in DOMAIN q : (\E m \in DOMAIN r : h[m] = k) \/ q[k].exp <= t \/ Len(q) - k >= MaxSeen
    PROVE  SoundSeen(r, done, t)
<1>1. q \in Seq(Signatures) /\ DOMAIN q = 1 .. Len(q) /\ Len(q) \in Nat /\ DOMAIN r = 1 .. Len(r) /\ Len(r) \in Nat
      /\ DOMAIN done = 1 .. Len(done) /\ Len(done) \in Nat
  BY LenProperties DEF SoundSeen
<1>2. \A k \in DOMAIN r : h[k] \in DOMAIN q /\ r[k] = q[h[k]]
  OBVIOUS
<1>3. InOrder(r)
  <2> SUFFICES ASSUME NEW i \in DOMAIN r, NEW j \in DOMAIN r, i < j
               PROVE  r[i].exp <= r[j].exp /\ r[i].sig # r[j].sig
    BY DEF InOrder
  <2>1. h[i] \in DOMAIN q /\ h[j] \in DOMAIN q /\ h[i] < h[j]
    BY <1>2
  <2>2. q[h[i]].exp <= q[h[j]].exp /\ q[h[i]].sig # q[h[j]].sig
    BY <2>1 DEF SoundSeen, InOrder
  <2> QED
    BY <1>2, <2>2
<1>4. Traced(r, done, t)
  <2>1. PICK f : Follows(f, q, done) /\ HasRecent(f, q, done, t)
    BY DEF SoundSeen, Traced
  <2> DEFINE g == [k \in DOMAIN r |-> f[h[k]]]
  <2>2. f \in [DOMAIN q -> DOMAIN done] /\ \A k, m \in DOMAIN q : k < m => f[k] < f[m]
    BY <2>1 DEF Follows
  <2>3. g \in [DOMAIN r -> DOMAIN done] /\ \A k \in DOMAIN r : g[k] = f[h[k]]
    BY <1>2, <2>2
  <2> HIDE DEF g
  <2>4. \A k, m \in DOMAIN r : k < m => g[k] < g[m]
    <3> SUFFICES ASSUME NEW k \in DOMAIN r, NEW m \in DOMAIN r, k < m PROVE g[k] < g[m]
      OBVIOUS
    <3>1. h[k] \in DOMAIN q /\ h[m] \in DOMAIN q /\ h[k] < h[m]
      BY <1>2
    <3> QED
      BY <2>2, <2>3, <3>1
  <2>5. \A k \in DOMAIN r : r[k].sig = done[g[k]].sig /\ r[k].exp = done[g[k]].time + Window
    BY <1>2, <2>1, <2>3 DEF Follows
  <2>6. Follows(g, r, done)
    BY <2>3, <2>4, <2>5 DEF Follows
  <2>7. HasRecent(g, r, done, t)
    <3> SUFFICES ASSUME NEW i \in DOMAIN done, done[i].time + Window > t, Len(done) - i < MaxSeen
                 PROVE  \E k \in DOMAIN r : g[k] = i
      BY DEF HasRecent
    <3>1. PICK k \in DOMAIN q : f[k] = i
      BY <2>1 DEF HasRecent
    <3>2. CASE \E m \in DOMAIN r : h[m] = k
      BY <2>3, <3>1, <3>2
    <3>3. CASE ~ \E m \in DOMAIN r : h[m] = k
      <4>2. q[k].exp = done[i].time + Window /\ q[k] \in Signatures
        BY <1>1, <2>1, <3>1, ElementOfSeq DEF Follows
      <4>3. Len(q) - k >= MaxSeen
        <5>1. q[k].exp \in Nat /\ done[i].time \in Nat /\ Window \in Nat
          <6>1. done[i] \in Requested
            BY <1>1, ElementOfSeq
          <6> QED
            BY <4>2, <6>1, RouterAssumption DEF Signatures, Requested
        <5>2. ~ (q[k].exp <= t)
          BY <4>2, <5>1
        <5> QED
          BY <3>3, <5>2
      <4>4. Len(done) - i >= Len(q) - k
        <5>1. f \in [1 .. Len(q) -> Nat] /\ k \in 1 .. Len(q)
          BY <1>1, <2>2
        <5>4. Len(q) - k \in Nat /\ Len(q) \in DOMAIN q
          BY <1>1
        <5>5. f[k] + (Len(q) - k) <= f[Len(q)]
          BY <1>1, <2>2, <5>1, Climbs
        <5>6. f[Len(q)] \in 1 .. Len(done)
          BY <1>1, <2>2, <5>4
        <5> QED
          BY <1>1, <3>1, <5>4, <5>5, <5>6
      <4> QED
        BY <1>1, <4>3, <4>4, RouterAssumption
    <3> QED
      BY <3>2, <3>3
  <2> QED
    BY <2>6, <2>7 DEF Traced
<1> QED
  BY <1>3, <1>4 DEF SoundSeen

\* The first entries can go.
LEMMA CutFront ==
    ASSUME NEW done \in Seq(Requested), NEW t \in Nat, NEW q, SoundSeen(q, done, t), NEW d \in 0 .. Len(q),
           NEW r \in Seq(Signatures), Len(r) = Len(q) - d, \A k \in 1 .. Len(r) : r[k] = q[d + k],
           \A k \in 1 .. d : q[k].exp <= t \/ Len(q) - k >= MaxSeen
    PROVE  SoundSeen(r, done, t)
<1>1. DOMAIN q = 1 .. Len(q) /\ Len(q) \in Nat /\ DOMAIN r = 1 .. Len(r) /\ Len(r) \in Nat
  BY LenProperties DEF SoundSeen
<1> DEFINE h == [k \in DOMAIN r |-> d + k]
<1>2. h \in [DOMAIN r -> DOMAIN q] /\ \A k \in DOMAIN r : h[k] = d + k
  BY <1>1
<1> HIDE DEF h
<1>3. \A k, m \in DOMAIN r : k < m => h[k] < h[m]
  BY <1>1, <1>2
<1>4. \A k \in DOMAIN r : r[k] = q[h[k]]
  BY <1>1, <1>2
<1>5. \A k \in DOMAIN q : (\E m \in DOMAIN r : h[m] = k) \/ q[k].exp <= t \/ Len(q) - k >= MaxSeen
  <2> SUFFICES ASSUME NEW k \in DOMAIN q, k \notin 1 .. d PROVE \E m \in DOMAIN r : h[m] = k
    OBVIOUS
  <2>1. k - d \in DOMAIN r /\ d + (k - d) = k
    BY <1>1
  <2> QED
    BY <1>2, <2>1
<1> QED
  BY <1>2, <1>3, <1>4, <1>5, Thinned

\* A suffix is as long as what is not cut off.
LEMMA SuffixLen ==
    ASSUME NEW n \in Nat, NEW x \in 0 .. n, NEW l, l = IF x + 1 <= n THEN n - (x + 1) + 1 ELSE 0
    PROVE  l = n - x /\ n - (x + 1) + 1 = n - x
<1>1. CASE x + 1 <= n
  BY <1>1
<1>2. CASE ~ (x + 1 <= n)
  BY <1>2
<1> QED
  BY <1>1, <1>2

\* Where the last max of n entries start.
LEMMA StartOfLast ==
    ASSUME NEW n \in Nat, NEW max \in Nat, NEW s, s = IF n > max THEN n - max + 1 ELSE 1
    PROVE  s \in 1 .. n + 1 /\ n - (s - 1) <= max /\ (s > 1 => n - (s - 1) = max)
<1>1. CASE n > max
  BY <1>1
<1>2. CASE ~ (n > max)
  BY <1>2
<1> QED
  BY <1>1, <1>2

\* sweep takes entries off the front only: the expired ones, and what is over the cap.
LEMMA Swept ==
    ASSUME NEW done \in Seq(Requested), now \in Nat, NEW q, SoundSeen(q, done, now)
    PROVE  SoundSeen(SweptSeen(q), done, now) /\ Len(SweptSeen(q)) <= MaxSeen
<1> DEFINE live == {i \in DOMAIN q : q[i].exp > now}
           expired == IF live = {} THEN Len(q) ELSE (CHOOSE i \in live : \A j \in live : i <= j) - 1
           rest == SubSeq(q, expired + 1, Len(q))
           e == IF Len(rest) > MaxSeen THEN Len(rest) - MaxSeen + 1 ELSE 1
           r == SubSeq(rest, e, Len(rest))
           d == expired + (e - 1)
<1>1. q \in Seq(Signatures) /\ DOMAIN q = 1 .. Len(q) /\ Len(q) \in Nat /\ MaxSeen \in Nat \ {0}
      /\ \A k \in 1 .. Len(q) : q[k] \in Signatures
  BY LenProperties, ElementOfSeq, RouterAssumption DEF SoundSeen
<1>2. expired \in 0 .. Len(q) /\ \A k \in 1 .. expired : q[k].exp <= now
  <2>1. CASE live = {}
    <3>1. \A k \in 1 .. Len(q) : ~ (q[k].exp > now) /\ q[k].exp \in Nat
      BY <1>1, <2>1 DEF Signatures
    <3>2. expired = Len(q)
      BY <2>1
    <3> QED
      BY <1>1, <3>1, <3>2
  <2>2. CASE live # {}
    <3>1. live \subseteq Nat
      BY <1>1
    <3> DEFINE x == CHOOSE i \in live : \A j \in live : i <= j
    <3>2. x \in live /\ \A j \in live : x <= j
      <4> HIDE DEF live
      <4>1. \E i \in live : \A j \in live : i <= j
        BY <2>2, <3>1, LeastNat
      <4> QED
        BY <4>1
    <3>3. expired = x - 1
      BY <2>2
    <3> HIDE DEF x, expired
    <3>4. \A k \in 1 .. x - 1 : k \in DOMAIN q /\ k \notin live
      BY <1>1, <3>1, <3>2
    <3>5. \A k \in 1 .. Len(q) : q[k].exp \in Nat
      BY <1>1 DEF Signatures
    <3>6. \A k \in 1 .. x - 1 : q[k].exp <= now
      BY <1>1, <3>4, <3>5
    <3> QED
      BY <1>1, <3>2, <3>3, <3>6
  <2> QED
    BY <2>1, <2>2
<1> HIDE DEF expired
<1>3. rest \in Seq(Signatures) /\ Len(rest) = Len(q) - expired /\ \A k \in 1 .. Len(rest) : rest[k] = q[expired + k]
  <2>1. expired + 1 \in Int /\ Len(q) \in Int /\ \A k \in expired + 1 .. Len(q) : q[k] \in Signatures
    BY <1>1, <1>2
  <2>2. /\ rest \in Seq(Signatures) /\ Len(rest) = IF expired + 1 <= Len(q) THEN Len(q) - (expired + 1) + 1 ELSE 0
        /\ \A k \in 1 .. Len(q) - (expired + 1) + 1 : rest[k] = q[(expired + 1) + k - 1]
    BY <2>1, SubSeqProperties
  <2> HIDE DEF rest
  <2>3. Len(rest) = Len(q) - expired /\ Len(q) - (expired + 1) + 1 = Len(q) - expired
    BY <1>1, <1>2, <2>2, SuffixLen
  <2>4. \A k \in 1 .. Len(rest) : (expired + 1) + k - 1 = expired + k
    BY <1>2
  <2> QED
    BY <2>2, <2>3, <2>4
<1> HIDE DEF rest
<1>4. e \in 1 .. Len(rest) + 1 /\ Len(rest) - (e - 1) <= MaxSeen /\ (e > 1 => Len(rest) - (e - 1) = MaxSeen) /\ Len(rest) \in Nat
  <2>1. Len(rest) \in Nat /\ MaxSeen \in Nat
    <3>1. rest \in Seq(Signatures)
      BY <1>3
    <3>2. Len(rest) \in Nat
      BY <3>1, LenProperties
    <3> QED
      BY <1>1, <3>2
  <2>2. e = IF Len(rest) > MaxSeen THEN Len(rest) - MaxSeen + 1 ELSE 1
    OBVIOUS
  <2> HIDE DEF e
  <2> QED
    BY <2>1, <2>2, StartOfLast
<1> HIDE DEF e
<1>5. r \in Seq(Signatures) /\ Len(r) = Len(rest) - (e - 1) /\ \A k \in 1 .. Len(r) : r[k] = rest[(e - 1) + k]
  <2>1. e \in Int /\ Len(rest) \in Int /\ \A k \in e .. Len(rest) : rest[k] \in Signatures
    BY <1>3, <1>4, ElementOfSeq
  <2>2. /\ r \in Seq(Signatures) /\ Len(r) = IF e <= Len(rest) THEN Len(rest) - e + 1 ELSE 0
        /\ \A k \in 1 .. Len(rest) - e + 1 : r[k] = rest[e + k - 1]
    BY <2>1, SubSeqProperties
  <2> HIDE DEF r
  <2>3. Len(r) = Len(rest) - (e - 1) /\ Len(rest) - e + 1 = Len(rest) - (e - 1)
    BY <1>4, <2>2
  <2>4. \A k \in 1 .. Len(r) : e + k - 1 = (e - 1) + k
    BY <1>4
  <2> QED
    BY <2>2, <2>3, <2>4
<1> HIDE DEF r
<1>6. d \in 0 .. Len(q) /\ Len(r) = Len(q) - d
  BY <1>1, <1>2, <1>3, <1>4, <1>5
<1>7. \A k \in 1 .. Len(r) : r[k] = q[d + k]
  <2> SUFFICES ASSUME NEW k \in 1 .. Len(r) PROVE r[k] = q[d + k]
    OBVIOUS
  <2>1. (e - 1) + k \in 1 .. Len(rest) /\ expired + ((e - 1) + k) = d + k
    BY <1>2, <1>3, <1>4, <1>5
  <2> QED
    BY <1>3, <1>5, <2>1
<1>8. \A k \in 1 .. d : q[k].exp <= now \/ Len(q) - k >= MaxSeen
  <2> SUFFICES ASSUME NEW k \in 1 .. d, ~ (k <= expired) PROVE Len(q) - k >= MaxSeen
    BY <1>2
  <2>1. e > 1
    BY <1>2, <1>4
  <2>2. Len(q) - d = MaxSeen
    BY <1>3, <1>4, <2>1, <1>1, <1>2
  <2> QED
    BY <1>1, <1>6, <2>2
<1>9. SweptSeen(q) = r
  BY DEF SweptSeen, r, rest, e, expired
<1>10. Len(r) <= MaxSeen
  BY <1>4, <1>5
<1> HIDE DEF d
<1>11. SoundSeen(r, done, now)
  BY <1>5, <1>6, <1>7, <1>8, CutFront
<1> QED
  BY <1>9, <1>10, <1>11

\* Map.delete of an expired signature.
LEMMA DeletedIs ==
    ASSUME NEW done \in Seq(Requested), NEW t \in Nat, NEW q, SoundSeen(q, done, t), NEW s,
           \A i \in DOMAIN q : q[i].sig = s => q[i].exp <= t
    PROVE  /\ SoundSeen(Deleted(q, s), done, t) /\ Len(Deleted(q, s)) <= Len(q)
           /\ \A i \in DOMAIN Deleted(q, s) : Deleted(q, s)[i].sig # s
<1>1. q \in Seq(Signatures) /\ DOMAIN q = 1 .. Len(q) /\ Len(q) \in Nat
  BY LenProperties DEF SoundSeen
<1>2. CASE ~ \E i \in DOMAIN q : q[i].sig = s
  <2>1. Deleted(q, s) = q
    BY <1>2 DEF Deleted
  <2> QED
    BY <1>1, <1>2, <2>1
<1>3. CASE \E i \in DOMAIN q : q[i].sig = s
  <2>1. PICK i \in DOMAIN q : q[i].sig = s /\ Deleted(q, s) = RemoveAt(q, i)
    BY <1>3 DEF Deleted
  <2> DEFINE r == RemoveAt(q, i)  h == [k \in DOMAIN r |-> IF k < i THEN k ELSE k + 1]
  <2>2. r \in Seq(Signatures) /\ Len(r) = Len(q) - 1 /\ \A k \in 1 .. Len(q) - 1 : r[k] = q[IF k < i THEN k ELSE k + 1]
    BY <1>1, RemovedAt
  <2>3. DOMAIN r = 1 .. Len(q) - 1
    BY <2>2, LenProperties
  <2> HIDE DEF r
  <2>4. \A k \in DOMAIN r : h[k] = IF k < i THEN k ELSE k + 1
    OBVIOUS
  <2>5. h \in [DOMAIN r -> DOMAIN q]
    <3>1. \A k \in DOMAIN r : (IF k < i THEN k ELSE k + 1) \in DOMAIN q
      BY <1>1, <2>3
    <3> QED
      BY <3>1
  <2> HIDE DEF h
  <2>6. \A k, m \in DOMAIN r : k < m => h[k] < h[m]
    BY <1>1, <2>3, <2>4
  <2>7. \A k \in DOMAIN r : r[k] = q[h[k]]
    BY <2>2, <2>3, <2>4
  <2>8. \A k \in DOMAIN q : k = i \/ \E m \in DOMAIN r : h[m] = k
    <3> SUFFICES ASSUME NEW k \in DOMAIN q, k # i PROVE \E m \in DOMAIN r : h[m] = k
      OBVIOUS
    <3>1. CASE k < i
      <4>1. k \in DOMAIN r
        BY <1>1, <2>3, <3>1
      <4> QED
        BY <2>4, <3>1, <4>1
    <3>2. CASE k > i
      <4>1. k - 1 \in DOMAIN r /\ ~ (k - 1 < i) /\ (k - 1) + 1 = k
        BY <1>1, <2>3, <3>2
      <4> QED
        BY <2>4, <4>1
    <3> QED
      BY <1>1, <3>1, <3>2
  <2>9. SoundSeen(r, done, t)
    <3>1. \A k \in DOMAIN q : (\E m \in DOMAIN r : h[m] = k) \/ q[k].exp <= t \/ Len(q) - k >= MaxSeen
      BY <2>1, <2>8
    <3> QED
      BY <2>2, <2>5, <2>6, <2>7, <3>1, Thinned
  <2>10. \A k \in DOMAIN r : r[k].sig # s
    <3> SUFFICES ASSUME NEW k \in DOMAIN r PROVE r[k].sig # s
      OBVIOUS
    <3>1. h[k] \in DOMAIN q /\ h[k] # i /\ i \in Nat /\ h[k] \in Nat
      BY <1>1, <2>3, <2>4, <2>5
    <3>2. \A x, y \in DOMAIN q : x < y => q[x].sig # q[y].sig
      BY DEF SoundSeen, InOrder
    <3>3. h[k] < i \/ i < h[k]
      BY <3>1
    <3> QED
      BY <2>1, <2>7, <3>1, <3>2, <3>3
  <2> QED
    BY <1>1, <2>1, <2>2, <2>9, <2>10 DEF r
<1> QED
  BY <1>2, <1>3

\* What is remembered is the newest, of a request recorded in the same step.
LEMMA AppendedSeen ==
    ASSUME NEW done \in Seq(Requested), NEW t \in Nat, NEW q, SoundSeen(q, done, t), InTime(done, t),
           NEW s \in Endpoints, \A i \in DOMAIN q : q[i].sig # s
    PROVE  SoundSeen(Append(q, [sig |-> s, exp |-> t + Window]), Append(done, [sig |-> s, time |-> t]), t)
<1> DEFINE x == [sig |-> s, exp |-> t + Window]  y == [sig |-> s, time |-> t]
           r == Append(q, x)  later == Append(done, y)
<1>1. q \in Seq(Signatures) /\ DOMAIN q = 1 .. Len(q) /\ Len(q) \in Nat /\ DOMAIN done = 1 .. Len(done) /\ Len(done) \in Nat
      /\ \A i \in DOMAIN done : done[i] \in Requested
  BY LenProperties, ElementOfSeq DEF SoundSeen
<1>2. x \in Signatures /\ y \in Requested /\ x.sig = s /\ x.exp = t + Window /\ y.sig = s /\ y.time = t
  BY RouterAssumption DEF Signatures, Requested
<1> HIDE DEF x, y
<1>3. r \in Seq(Signatures) /\ DOMAIN r = 1 .. Len(q) + 1 /\ r[Len(q) + 1] = x /\ \A i \in 1 .. Len(q) : r[i] = q[i]
  BY <1>1, <1>2, AppendedIn, AppendedLen, AppendedLast, AppendedFirst, LenProperties
<1>4. later \in Seq(Requested) /\ Len(later) = Len(done) + 1 /\ DOMAIN later = 1 .. Len(done) + 1
      /\ later[Len(done) + 1] = y /\ \A i \in 1 .. Len(done) : later[i] = done[i]
  BY <1>1, <1>2, AppendedIn, AppendedLen, AppendedLast, AppendedFirst, LenProperties
<1> HIDE DEF r, later
<1>5. PICK f : Follows(f, q, done) /\ HasRecent(f, q, done, t)
  BY DEF SoundSeen, Traced
<1>6. \A k \in DOMAIN q : q[k].exp <= t + Window
  <2> SUFFICES ASSUME NEW k \in DOMAIN q PROVE q[k].exp <= t + Window
    OBVIOUS
  <2>1. f[k] \in DOMAIN done /\ q[k].exp = done[f[k]].time + Window
    BY <1>5 DEF Follows
  <2>2. done[f[k]].time <= t /\ done[f[k]].time \in Nat
    BY <1>1, <2>1 DEF InTime, Requested
  <2> QED
    BY <2>1, <2>2, RouterAssumption
<1>7. InOrder(r)
  <2> SUFFICES ASSUME NEW i \in DOMAIN r, NEW j \in DOMAIN r, i < j
               PROVE  r[i].exp <= r[j].exp /\ r[i].sig # r[j].sig
    BY DEF InOrder
  <2>1. i \in DOMAIN q /\ r[i] = q[i]
    BY <1>1, <1>3
  <2>2. CASE j \in DOMAIN q
    <3>1. r[j] = q[j]
      BY <1>1, <1>3, <2>2
    <3> QED
      BY <2>1, <2>2, <3>1 DEF SoundSeen, InOrder
  <2>3. CASE j = Len(q) + 1
    <3>1. r[j] = x
      BY <1>3, <2>3
    <3> QED
      BY <1>2, <1>6, <2>1, <3>1
  <2> QED
    BY <1>1, <1>3, <2>2, <2>3
<1> DEFINE g == [k \in DOMAIN r |-> IF k \in DOMAIN q THEN f[k] ELSE Len(done) + 1]
<1>8. /\ \A k \in DOMAIN q : k \in DOMAIN r /\ g[k] = f[k] /\ f[k] \in DOMAIN done
      /\ Len(q) + 1 \in DOMAIN r /\ g[Len(q) + 1] = Len(done) + 1
      /\ DOMAIN g = DOMAIN r /\ \A k \in DOMAIN r : k \in DOMAIN q \/ k = Len(q) + 1
  <2>1. f \in [DOMAIN q -> DOMAIN done]
    BY <1>5 DEF Follows
  <2>2. Len(q) + 1 \in DOMAIN r /\ Len(q) + 1 \notin DOMAIN q /\ \A k \in DOMAIN q : k \in DOMAIN r
    BY <1>1, <1>3
  <2>3. \A k \in DOMAIN r : k \in DOMAIN q \/ k = Len(q) + 1
    BY <1>1, <1>3
  <2> QED
    BY <2>1, <2>2, <2>3
<1>9. g \in [DOMAIN r -> DOMAIN later]
  <2>1. \A k \in DOMAIN r : (IF k \in DOMAIN q THEN f[k] ELSE Len(done) + 1) \in DOMAIN later
    <3>1. \A k \in DOMAIN q : f[k] \in DOMAIN later
      <4>1. f \in [DOMAIN q -> DOMAIN done]
        BY <1>5 DEF Follows
      <4>2. \A n \in DOMAIN done : n \in DOMAIN later
        BY <1>1, <1>4
      <4> QED
        BY <4>1, <4>2
    <3>2. Len(done) + 1 \in DOMAIN later
      BY <1>1, <1>4
    <3> QED
      BY <3>1, <3>2
  <2> QED
    BY <2>1
<1> HIDE DEF g
<1>10. Follows(g, r, later)
  <2>1. \A k, m \in DOMAIN r : k < m => g[k] < g[m]
    <3> SUFFICES ASSUME NEW k \in DOMAIN r, NEW m \in DOMAIN r, k < m PROVE g[k] < g[m]
      OBVIOUS
    <3>1. k \in DOMAIN q
      BY <1>1, <1>3
    <3>2. CASE m \in DOMAIN q
      BY <1>5, <1>8, <3>1, <3>2 DEF Follows
    <3>3. CASE m = Len(q) + 1
      BY <1>1, <1>8, <3>1, <3>3
    <3> QED
      BY <1>8, <3>2, <3>3
  <2>2. \A k \in DOMAIN r : r[k].sig = later[g[k]].sig /\ r[k].exp = later[g[k]].time + Window
    <3> SUFFICES ASSUME NEW k \in DOMAIN r PROVE r[k].sig = later[g[k]].sig /\ r[k].exp = later[g[k]].time + Window
      OBVIOUS
    <3>1. CASE k \in DOMAIN q
      <4>1. r[k] = q[k] /\ g[k] = f[k] /\ later[f[k]] = done[f[k]]
        BY <1>1, <1>3, <1>4, <1>8, <3>1
      <4>2. q[k].sig = done[f[k]].sig /\ q[k].exp = done[f[k]].time + Window
        BY <1>5, <3>1 DEF Follows
      <4> QED
        BY <4>1, <4>2
    <3>2. CASE k = Len(q) + 1
      BY <1>2, <1>3, <1>4, <1>8, <3>2
    <3> QED
      BY <1>8, <3>1, <3>2
  <2> QED
    BY <1>9, <2>1, <2>2 DEF Follows
<1>11. HasRecent(g, r, later, t)
  <2> SUFFICES ASSUME NEW i \in DOMAIN later, later[i].time + Window > t, Len(later) - i < MaxSeen
               PROVE  \E k \in DOMAIN r : g[k] = i
    BY DEF HasRecent
  <2>1. CASE i = Len(done) + 1
    BY <1>8, <2>1
  <2>2. CASE i \in DOMAIN done
    <3>1. later[i] = done[i] /\ Len(done) - i < MaxSeen
      BY <1>1, <1>4, <2>2, RouterAssumption
    <3>2. PICK k \in DOMAIN q : f[k] = i
      BY <1>5, <2>2, <3>1 DEF HasRecent
    <3> QED
      BY <1>8, <3>2
  <2> QED
    BY <1>1, <1>4, <2>1, <2>2
<1>12. SoundSeen(r, later, t)
  BY <1>3, <1>7, <1>10, <1>11 DEF SoundSeen, Traced
<1> QED
  BY <1>12 DEF r, later, x, y

\* What the guard holds while it looks at a request.
LEMMA CurrentIs ==
    ASSUME RouterInv
    PROVE  SoundSeen(Current, recorded, now) /\ Len(Current) <= MaxSeen /\ recorded \in Seq(Requested) /\ now \in Nat
<1>1. SoundSeen(seen, recorded, now) /\ Len(seen) <= MaxSeen /\ recorded \in Seq(Requested)
  BY DEF RouterInv, RouterTyped, GuardInv, SoundSeen
<1>2. now \in Nat
  BY RouterAssumption DEF RouterInv, RouterTyped
<1>3. CASE SweepDue
  <2>1. Current = SweptSeen(seen)
    BY <1>3 DEF Current
  <2> QED
    BY <1>1, <1>2, <2>1, Swept
<1>4. CASE ~ SweepDue
  <2>1. Current = seen
    BY <1>4 DEF Current
  <2> QED
    BY <1>1, <1>2, <2>1
<1> QED
  BY <1>3, <1>4

\* What remember leaves, with the request it records.
LEMMA RememberedIs ==
    ASSUME RouterInv, NEW e \in Endpoints, ~ Live(e)
    PROVE  SoundSeen(Remembered(e), Append(recorded, [sig |-> e, time |-> now]), now) /\ Len(Remembered(e)) <= MaxSeen
<1> DEFINE later == Append(recorded, [sig |-> e, time |-> now])
           without == Deleted(Current, e)  added == Append(without, [sig |-> e, exp |-> now + Window])
<1>1. SoundSeen(Current, recorded, now) /\ Len(Current) <= MaxSeen /\ recorded \in Seq(Requested) /\ now \in Nat
  BY CurrentIs
<1>2. \A i \in DOMAIN Current : Current[i].sig = e => Current[i].exp <= now
  <2>1. \A i \in DOMAIN Current : Current[i].exp \in Nat
    <3>1. Current \in Seq(Signatures)
      BY <1>1 DEF SoundSeen
    <3>2. \A i \in DOMAIN Current : Current[i] \in Signatures
      BY <3>1, ElementOfSeq, LenProperties
    <3> QED
      BY <3>2 DEF Signatures
  <2> QED
    BY <1>1, <2>1 DEF Live
<1>3. SoundSeen(without, recorded, now) /\ \A i \in DOMAIN without : without[i].sig # e
  BY <1>1, <1>2, DeletedIs
<1>4. InTime(recorded, now)
  BY DEF RouterInv, GuardInv
<1> HIDE DEF without
<1>5. SoundSeen(added, later, now)
  BY <1>1, <1>3, <1>4, AppendedSeen
<1>6. later \in Seq(Requested)
  <2>1. [sig |-> e, time |-> now] \in Requested
    BY <1>1 DEF Requested
  <2> QED
    BY <1>1, <2>1, AppendedIn
<1>7. Remembered(e) = IF Len(added) > MaxSeen THEN SweptSeen(added) ELSE added
  BY DEF Remembered, added, without
<1>8. Len(added) \in Nat
  BY <1>5, LenProperties DEF SoundSeen
<1> HIDE DEF added, later
<1>9. SoundSeen(Remembered(e), later, now) /\ Len(Remembered(e)) <= MaxSeen
  <2>1. CASE Len(added) > MaxSeen
    <3>1. Remembered(e) = SweptSeen(added)
      BY <1>7, <2>1
    <3> QED
      BY <1>1, <1>5, <1>6, <3>1, Swept
  <2>2. CASE ~ (Len(added) > MaxSeen)
    <3>1. Remembered(e) = added
      BY <1>7, <2>2
    <3>2. Len(added) <= MaxSeen
      BY <1>8, <2>2, RouterAssumption
    <3> QED
      BY <1>5, <3>1, <3>2
  <2> QED
    BY <2>1, <2>2
<1> QED
  BY <1>9 DEF later

-----------------------------------------------------------------------------
(* The guard's steps.                                                      *)

\* Time passing only lets entries expire.
LEMMA TracedLater ==
    ASSUME NEW q, NEW done \in Seq(Requested), NEW t \in Nat, NEW u \in Nat, t <= u, Traced(q, done, t)
    PROVE  Traced(q, done, u)
<1>1. PICK f : Follows(f, q, done) /\ HasRecent(f, q, done, t)
  BY DEF Traced
<1>2. \A i \in DOMAIN done : done[i].time + Window > u => done[i].time + Window > t
  <2>1. \A i \in DOMAIN done : done[i] \in Requested
    BY ElementOfSeq, LenProperties
  <2> QED
    BY <2>1, RouterAssumption DEF Requested
<1>3. HasRecent(f, q, done, u)
  BY <1>1, <1>2 DEF HasRecent
<1> QED
  BY <1>1, <1>3 DEF Traced

LEMMA InTimeLater ==
    ASSUME NEW done \in Seq(Requested), NEW t \in Nat, NEW u \in Nat, t <= u, InTime(done, t)
    PROVE  InTime(done, u)
<1>1. \A i \in DOMAIN done : done[i] \in Requested
  BY ElementOfSeq, LenProperties
<1>2. \A i \in DOMAIN done : done[i].time \in Nat
  BY <1>1 DEF Requested
<1> QED
  BY <1>2 DEF InTime

LEMMA InTimeWith ==
    ASSUME NEW done \in Seq(Requested), NEW t \in Nat, InTime(done, t), NEW y \in Requested, y.time = t
    PROVE  InTime(Append(done, y), t)
<1> DEFINE later == Append(done, y)
<1>1. DOMAIN later = 1 .. Len(done) + 1 /\ later[Len(done) + 1] = y /\ Len(done) \in Nat /\ DOMAIN done = 1 .. Len(done)
      /\ \A i \in 1 .. Len(done) : later[i] = done[i]
  BY AppendedIn, AppendedLen, AppendedLast, AppendedFirst, LenProperties
<1> HIDE DEF later
<1>2. \A i \in DOMAIN later : (i \in DOMAIN done /\ later[i] = done[i]) \/ (i = Len(done) + 1 /\ later[i] = y)
  BY <1>1
<1>3. \A i \in DOMAIN later : later[i].time <= t
  BY <1>2 DEF InTime
<1>4. \A i, j \in DOMAIN later : i < j => later[i].time <= later[j].time
  <2> SUFFICES ASSUME NEW i \in DOMAIN later, NEW j \in DOMAIN later, i < j PROVE later[i].time <= later[j].time
    OBVIOUS
  <2>1. i \in DOMAIN done /\ later[i] = done[i]
    BY <1>1
  <2>2. CASE j \in DOMAIN done
    BY <1>1, <2>1, <2>2 DEF InTime
  <2>3. CASE j = Len(done) + 1
    BY <1>1, <1>3, <2>3
  <2> QED
    BY <1>2, <2>2, <2>3
<1>5. InTime(later, t)
  BY <1>3, <1>4 DEF InTime
<1> QED
  BY <1>5 DEF later

\* What ReplaysDropped says of the requests let pass, and of those dropped.
PassedApart(done) ==
    \A i, j \in DOMAIN done :
        i < j /\ done[i].sig = done[j].sig =>
            \/ done[j].time - done[i].time >= Window
            \/ j - i - 1 >= MaxSeen

Repeats(done, gone) ==
    \A d \in ToSet(gone) : \E r \in ToSet(done) : r.sig = d.sig /\ r.time <= d.time /\ d.time - r.time < Window

LEMMA ReplaysSplit == ReplaysDropped <=> PassedApart(recorded) /\ Repeats(recorded, dropped)
  BY Zenon DEF ReplaysDropped, PassedApart, Repeats

LEMMA ReplaysSplitNext == ReplaysDropped' <=> PassedApart(recorded') /\ Repeats(recorded', dropped')
  BY Zenon DEF ReplaysDropped, PassedApart, Repeats

LEMMA ToSetWith ==
    ASSUME NEW S, NEW q \in Seq(S), NEW y \in S
    PROVE  ToSet(Append(q, y)) = ToSet(q) \cup {y}
<1>1. DOMAIN Append(q, y) = 1 .. Len(q) + 1 /\ Append(q, y)[Len(q) + 1] = y /\ Len(q) \in Nat /\ DOMAIN q = 1 .. Len(q)
      /\ \A i \in 1 .. Len(q) : Append(q, y)[i] = q[i]
  BY AppendedIn, AppendedLen, AppendedLast, AppendedFirst, LenProperties
<1> DEFINE r == Append(q, y)
<1> HIDE DEF r
<1>2. \A i \in DOMAIN r : (i \in DOMAIN q /\ r[i] = q[i]) \/ (i = Len(q) + 1 /\ r[i] = y)
  BY <1>1 DEF r
<1>3. (\A i \in DOMAIN q : i \in DOMAIN r /\ r[i] = q[i]) /\ Len(q) + 1 \in DOMAIN r /\ r[Len(q) + 1] = y
  BY <1>1 DEF r
<1>4. ToSet(r) = ToSet(q) \cup {y}
  BY <1>2, <1>3, Zenon DEF ToSet
<1> QED
  BY <1>4 DEF r

\* A request that is not Live repeats none of the last within the window.
LEMMA FreshApart ==
    ASSUME RouterInv, NEW e \in Endpoints, ~ Live(e)
    PROVE  PassedApart(Append(recorded, [sig |-> e, time |-> now]))
<1> DEFINE y == [sig |-> e, time |-> now]  later == Append(recorded, y)
<1>1. SoundSeen(Current, recorded, now) /\ recorded \in Seq(Requested) /\ now \in Nat
  BY CurrentIs
<1>2. y \in Requested /\ y.sig = e /\ y.time = now
  BY <1>1 DEF Requested
<1> HIDE DEF y
<1>3. DOMAIN later = 1 .. Len(recorded) + 1 /\ later[Len(recorded) + 1] = y /\ Len(recorded) \in Nat
      /\ DOMAIN recorded = 1 .. Len(recorded) /\ \A i \in 1 .. Len(recorded) : later[i] = recorded[i]
  BY <1>1, <1>2, AppendedIn, AppendedLen, AppendedLast, AppendedFirst, LenProperties
<1> HIDE DEF later
<1>4. PassedApart(recorded)
  BY ReplaysSplit DEF RouterInv, GuardInv
<1>5. PICK f : Follows(f, Current, recorded) /\ HasRecent(f, Current, recorded, now)
  BY <1>1 DEF SoundSeen, Traced
<1>6. \A i \in DOMAIN recorded : recorded[i].sig = e => now - recorded[i].time >= Window \/ Len(recorded) - i >= MaxSeen
  <2> SUFFICES ASSUME NEW i \in DOMAIN recorded, recorded[i].sig = e, ~ (now - recorded[i].time >= Window),
                      ~ (Len(recorded) - i >= MaxSeen)
               PROVE  FALSE
    OBVIOUS
  <2>1. recorded[i] \in Requested
    BY <1>1, ElementOfSeq, LenProperties
  <2>2. recorded[i].time \in Nat
    BY <2>1 DEF Requested
  <2>3. recorded[i].time + Window > now /\ Len(recorded) - i < MaxSeen
    BY <1>1, <1>3, <2>2, RouterAssumption
  <2>4. PICK k \in DOMAIN Current : f[k] = i
    BY <1>5, <2>3 DEF HasRecent
  <2>5. Current[k].sig = e /\ Current[k].exp > now
    BY <1>5, <2>3, <2>4 DEF Follows
  <2> QED
    BY <2>5 DEF Live
<1>7. PassedApart(later)
  <2> SUFFICES ASSUME NEW i \in DOMAIN later, NEW j \in DOMAIN later, i < j, later[i].sig = later[j].sig
               PROVE  later[j].time - later[i].time >= Window \/ j - i - 1 >= MaxSeen
    BY DEF PassedApart
  <2>1. i \in DOMAIN recorded /\ later[i] = recorded[i]
    BY <1>3
  <2>2. CASE j \in DOMAIN recorded
    <3>1. later[j] = recorded[j]
      BY <1>3, <2>2
    <3> QED
      BY <1>4, <2>1, <2>2, <3>1 DEF PassedApart
  <2>3. CASE j = Len(recorded) + 1
    <3>1. later[j] = y
      BY <1>3, <2>3
    <3>2. now - recorded[i].time >= Window \/ Len(recorded) - i >= MaxSeen
      BY <1>2, <1>6, <2>1, <3>1
    <3>3. j - i - 1 = Len(recorded) - i
      BY <1>3, <2>3
    <3> QED
      BY <1>2, <2>1, <3>1, <3>2, <3>3
  <2> QED
    BY <1>3, <2>2, <2>3
<1> QED
  BY <1>7 DEF later, y

\* One that is Live repeats one that was let pass within the window.
LEMMA LiveRepeats ==
    ASSUME RouterInv, NEW e \in Endpoints, Live(e)
    PROVE  \E r \in ToSet(recorded) : r.sig = e /\ r.time <= now /\ now - r.time < Window
<1>1. SoundSeen(Current, recorded, now) /\ recorded \in Seq(Requested) /\ now \in Nat
  BY CurrentIs
<1>2. PICK k \in DOMAIN Current : Current[k].sig = e /\ Current[k].exp > now
  BY DEF Live
<1>3. PICK f : Follows(f, Current, recorded)
  BY <1>1 DEF SoundSeen, Traced
<1>4. f[k] \in DOMAIN recorded /\ recorded[f[k]].sig = e /\ recorded[f[k]].time + Window > now
  BY <1>2, <1>3 DEF Follows
<1>5. recorded[f[k]].time <= now
  BY <1>4 DEF RouterInv, GuardInv, InTime
<1>6. recorded[f[k]] \in Requested
  BY <1>1, <1>4, ElementOfSeq, LenProperties
<1>7. now - recorded[f[k]].time < Window
  BY <1>1, <1>4, <1>6, RouterAssumption DEF Requested
<1>8. recorded[f[k]] \in ToSet(recorded)
  BY <1>4, Zenon DEF ToSet
<1> QED
  BY <1>4, <1>5, <1>7, <1>8

GuardTyped ==
    now \in 0 .. MaxTime /\ lastSweep \in 0 .. now
    /\ seen \in Seq(Signatures) /\ recorded \in Seq(Requested) /\ dropped \in Seq(Requested)

\* A request screened: the guard's part of it.
LEMMA ScreenedGuard ==
    ASSUME RouterInv, NEW e \in Endpoints, UNCHANGED <<enabled, now>>, IsReplay(e) \/ IsFresh(e),
           lastSweep' = IF SweepDue THEN now ELSE lastSweep
    PROVE  GuardTyped' /\ GuardInv'
<1>1. SoundSeen(Current, recorded, now) /\ Len(Current) <= MaxSeen /\ recorded \in Seq(Requested) /\ now \in Nat
  BY CurrentIs
<1>2. now' = now /\ now \in 0 .. MaxTime /\ seen \in Seq(Signatures) /\ dropped \in Seq(Requested)
  BY DEF RouterInv, RouterTyped
<1>3. lastSweep' \in 0 .. now
  <2>1. lastSweep \in 0 .. now
    BY DEF RouterInv, RouterTyped
  <2>2. lastSweep' = now \/ lastSweep' = lastSweep
    OBVIOUS
  <2> QED
    BY <1>1, <2>1, <2>2
<1>4. Len(seen) <= MaxSeen /\ SoundSeen(seen, recorded, now) /\ InTime(recorded, now)
      /\ PassedApart(recorded) /\ Repeats(recorded, dropped)
  BY <1>2, ReplaysSplit DEF RouterInv, GuardInv, SoundSeen
<1> DEFINE y == [sig |-> e, time |-> now]
<1>5. y \in Requested /\ y.sig = e /\ y.time = now
  BY <1>1 DEF Requested
<1>6. CASE IsReplay(e)
  <2>1. Live(e) /\ seen' = Current /\ dropped' = Append(dropped, y) /\ recorded' = recorded
    BY <1>6 DEF IsReplay
  <2> HIDE DEF y
  <2>2. dropped' \in Seq(Requested)
    BY <1>2, <1>5, <2>1, AppendedIn
  <2>3. ToSet(dropped') = ToSet(dropped) \cup {y}
    BY <1>2, <1>5, <2>1, ToSetWith
  <2>4. \E r \in ToSet(recorded) : r.sig = y.sig /\ r.time <= y.time /\ y.time - r.time < Window
    BY <1>5, <2>1, LiveRepeats
  <2>5. Repeats(recorded, dropped')
    BY <1>4, <2>3, <2>4, Zenon DEF Repeats
  <2>6. ReplaysDropped'
    BY <1>4, <2>1, <2>5, ReplaysSplitNext
  <2>7. Len(seen') <= MaxSeen /\ SoundSeen(seen', recorded', now')
    BY <1>1, <1>2, <2>1
  <2>8. InTime(recorded', now')
    BY <1>2, <1>4, <2>1
  <2>9. GuardInv'
    BY <2>6, <2>7, <2>8 DEF GuardInv, SoundSeen
  <2> QED
    BY <1>1, <1>2, <1>3, <2>1, <2>2, <2>7, <2>9 DEF GuardTyped, SoundSeen
<1>7. CASE IsFresh(e) /\ enabled
  <2>1. ~ Live(e) /\ seen' = Remembered(e) /\ recorded' = Append(recorded, y) /\ dropped' = dropped
    BY <1>7 DEF IsFresh
  <2> HIDE DEF y
  <2>2. recorded' \in Seq(Requested)
    BY <1>1, <1>5, <2>1, AppendedIn
  <2>3. Len(seen') <= MaxSeen /\ SoundSeen(seen', recorded', now')
    BY <1>2, <2>1, RememberedIs DEF y
  <2>4. InTime(recorded', now')
    BY <1>1, <1>2, <1>4, <1>5, <2>1, InTimeWith
  <2>5. PassedApart(recorded')
    BY <2>1, FreshApart DEF y
  <2>6. ToSet(recorded') = ToSet(recorded) \cup {y}
    BY <1>1, <1>5, <2>1, ToSetWith
  <2>7. Repeats(recorded', dropped')
    BY <1>4, <2>1, <2>6, Zenon DEF Repeats
  <2>8. ReplaysDropped'
    BY <2>5, <2>7, ReplaysSplitNext
  <2>9. GuardInv'
    BY <2>3, <2>4, <2>8 DEF GuardInv, SoundSeen
  <2> QED
    BY <1>1, <1>2, <1>3, <2>1, <2>2, <2>3, <2>9 DEF GuardTyped, SoundSeen
<1>8. CASE IsFresh(e) /\ ~ enabled
  <2>1. seen' = seen /\ recorded' = recorded /\ dropped' = dropped
    BY <1>8 DEF IsFresh
  <2>2. ReplaysDropped'
    BY <1>4, <2>1, ReplaysSplitNext
  <2>3. Len(seen') <= MaxSeen /\ SoundSeen(seen', recorded', now') /\ InTime(recorded', now')
    BY <1>2, <1>4, <2>1
  <2>4. GuardInv'
    BY <2>2, <2>3 DEF GuardInv, SoundSeen
  <2> QED
    BY <1>1, <1>2, <1>3, <2>1, <2>4 DEF GuardTyped
<1> QED
  BY <1>6, <1>7, <1>8

\* A step the guard has no part in.
LEMMA GuardIdle ==
    ASSUME RouterInv, UNCHANGED <<now, guardVars>>
    PROVE  GuardTyped' /\ GuardInv'
<1>1. UNCHANGED <<now, seen, lastSweep, recorded, dropped>>
  BY DEF guardVars
<1>2. PassedApart(recorded) /\ Repeats(recorded, dropped)
  BY ReplaysSplit DEF RouterInv, GuardInv
<1>3. ReplaysDropped'
  BY <1>1, <1>2, ReplaysSplitNext
<1>4. GuardTyped /\ Len(seen) <= MaxSeen /\ InOrder(seen) /\ Traced(seen, recorded, now) /\ InTime(recorded, now)
  BY DEF RouterInv, RouterTyped, GuardInv, GuardTyped
<1> QED
  BY <1>1, <1>3, <1>4 DEF GuardInv, GuardTyped

LEMMA TickGuard ==
    ASSUME RouterInv, Tick
    PROVE  GuardTyped' /\ GuardInv'
<1>1. now' = now + 1 /\ now < MaxTime /\ UNCHANGED <<seen, lastSweep, recorded, dropped>>
  BY DEF Tick, guardVars
<1>2. PassedApart(recorded) /\ Repeats(recorded, dropped)
  BY ReplaysSplit DEF RouterInv, GuardInv
<1>3. ReplaysDropped'
  BY <1>1, <1>2, ReplaysSplitNext
<1>4. GuardTyped /\ Len(seen) <= MaxSeen /\ InOrder(seen) /\ Traced(seen, recorded, now) /\ InTime(recorded, now)
  BY DEF RouterInv, RouterTyped, GuardInv, GuardTyped
<1>5. now \in Nat /\ now + 1 \in Nat /\ now <= now + 1 /\ recorded \in Seq(Requested)
  BY <1>4, RouterAssumption DEF GuardTyped
<1>6. Traced(seen, recorded, now + 1) /\ InTime(recorded, now + 1)
  BY <1>4, <1>5, TracedLater, InTimeLater
<1>7. now + 1 \in 0 .. MaxTime /\ lastSweep \in 0 .. now + 1
  BY <1>1, <1>4, <1>5, RouterAssumption DEF GuardTyped
<1> QED
  BY <1>1, <1>3, <1>4, <1>6, <1>7 DEF GuardInv, GuardTyped

-----------------------------------------------------------------------------
(* The requests' and the session's steps.                                  *)

SessionTyped ==
    /\ enabled \in BOOLEAN
    /\ post \in [Posts -> [endpoint : Endpoints \cup {"none"}, at : PostStages]]
    /\ document \in Nat /\ updates \in Nat /\ caching \in {"none", "auth", "live"} /\ blurred \in BOOLEAN
    /\ snapshot \in 0 .. document
    /\ refresh \in Seq(Int) /\ \A i \in DOMAIN refresh : refresh[i] \in -1 .. document

SessionSound == SessionTyped /\ SnapshotInv

LEMMA RouterParts == RouterInv <=> GuardTyped /\ GuardInv /\ SessionSound
  BY Zenon DEF RouterInv, RouterTyped, GuardTyped, SessionSound, SessionTyped

LEMMA RouterPartsNext == RouterInv' <=> GuardTyped' /\ GuardInv' /\ SessionSound'
  BY Zenon DEF RouterInv, RouterTyped, GuardTyped, SessionSound, SessionTyped

PostCalls == [endpoint : Endpoints \cup {"none"}, at : PostStages]

LEMMA AtIs ==
    ASSUME NEW e \in Endpoints \cup {"none"}, NEW s \in PostStages
    PROVE  At(e, s) \in PostCalls /\ At(e, s).at = s
<1>1. "none" \in Endpoints \cup {"none"} /\ "done" \in PostStages
  BY DEF PostStages
<1>2. CASE s = "done"
  BY <1>1, <1>2 DEF At, Nothing, PostCalls
<1>3. CASE s # "done"
  <2>1. At(e, s) = [endpoint |-> e, at |-> s]
    BY <1>3 DEF At
  <2> QED
    BY <2>1 DEF PostCalls
<1> QED
  BY <1>2, <1>3

\* A request that moves on, from any stage but publish and to any but it.
LEMMA PostMoves ==
    ASSUME SessionSound, NEW p \in Posts, NEW e \in Endpoints \cup {"none"}, NEW s \in PostStages \ {"publish"},
           post[p].at # "publish", post' = [post EXCEPT ![p] = At(e, s)],
           UNCHANGED <<enabled, document, updates, caching, snapshot, refresh, blurred>>
    PROVE  SessionSound'
<1>1. post \in [Posts -> PostCalls]
  BY DEF SessionSound, SessionTyped, PostCalls
<1>2. At(e, s) \in PostCalls /\ At(e, s).at = s
  BY AtIs
<1>3. post' \in [Posts -> PostCalls] /\ post'[p].at = s /\ \A x \in Posts : x # p => post'[x] = post[x]
  BY <1>1, <1>2
<1>4. Announced' => Announced
  BY <1>3 DEF Announced
<1>5. SessionTyped'
  BY <1>3 DEF SessionSound, SessionTyped, PostCalls
<1>6. SnapshotInv'
  BY <1>4 DEF SessionSound, SnapshotInv
<1> QED
  BY <1>5, <1>6 DEF SessionSound

LEMMA ArrivedSound ==
    ASSUME SessionSound, NEW p \in Posts, NEW e \in Endpoints, NEW s \in {"done", "token", "handler"}, Arrived(p, e, s)
    PROVE  SessionSound' /\ UNCHANGED <<enabled, now>>
<1>1. /\ post[p].at = "done" /\ post' = [post EXCEPT ![p] = At(e, s)]
      /\ UNCHANGED <<enabled, now, document, updates, caching, snapshot, refresh, blurred>>
  BY DEF Arrived, gatewayVars
<1>2. s \in PostStages \ {"publish"} /\ post[p].at # "publish"
  BY <1>1 DEF PostStages
<1> QED
  BY <1>1, <1>2, PostMoves

LEMMA StepSound ==
    ASSUME SessionSound, NEW p \in Posts, NEW from \in PostStages \ {"publish"}, NEW to \in PostStages \ {"publish"},
           Step(p, from, to), UNCHANGED <<enabled, document, updates, caching, snapshot, refresh, blurred>>
    PROVE  SessionSound'
<1>1. post[p].endpoint \in Endpoints \cup {"none"}
  BY DEF SessionSound, SessionTyped
<1>2. DOMAIN post = Posts
  BY DEF SessionSound, SessionTyped
<1>3. post[p].at = from /\ post' = [post EXCEPT ![p] = At(post[p].endpoint, to)]
  BY <1>2 DEF Step
<1> QED
  BY <1>1, <1>3, PostMoves

\* Save and publish.
LEMMA SaveSound ==
    ASSUME SessionSound, NEW p \in Posts, Save(p)
    PROVE  SessionSound'
<1>1. /\ post[p].at = "save" /\ post' = [post EXCEPT ![p] = At(post[p].endpoint, "publish")]
      /\ document' = document + 1 /\ UNCHANGED <<enabled, updates, caching, snapshot, refresh, blurred>>
  BY DEF Save, Step, Unscreened, gatewayVars
<1>2. post \in [Posts -> PostCalls] /\ post[p].endpoint \in Endpoints \cup {"none"} /\ "publish" \in PostStages
  BY DEF SessionSound, SessionTyped, PostCalls, PostStages
<1>3. At(post[p].endpoint, "publish") \in PostCalls /\ At(post[p].endpoint, "publish").at = "publish"
  BY <1>2, AtIs
<1>4. post' \in [Posts -> PostCalls] /\ post'[p].at = "publish"
  BY <1>1, <1>2, <1>3
<1>5. ~ Announced'
  BY <1>4 DEF Announced
<1>6. document \in Nat /\ snapshot \in 0 .. document /\ refresh \in Seq(Int) /\ \A i \in DOMAIN refresh : refresh[i] \in -1 .. document
  BY DEF SessionSound, SessionTyped
<1>7. document' \in Nat /\ snapshot' \in 0 .. document' /\ \A i \in DOMAIN refresh : refresh[i] \in -1 .. document'
  BY <1>1, <1>6
<1>8. SessionTyped'
  BY <1>1, <1>4, <1>6, <1>7 DEF SessionSound, SessionTyped, PostCalls
<1>9. SnapshotInv'
  BY <1>1, <1>5 DEF SessionSound, SnapshotInv
<1> QED
  BY <1>8, <1>9 DEF SessionSound

LEMMA PublishSound ==
    ASSUME SessionSound, NEW p \in Posts, Publish(p)
    PROVE  SessionSound'
<1>1. /\ post[p].at = "publish" /\ post' = [post EXCEPT ![p] = At(post[p].endpoint, "done")]
      /\ UNCHANGED <<enabled, document, caching, snapshot, refresh>>
      /\ (updates' = updates + 1 /\ blurred' = blurred) \/ (blurred' = TRUE /\ updates' = updates)
  BY DEF Publish, Step, Unscreened, gatewayVars
<1>2. post \in [Posts -> PostCalls] /\ post[p].endpoint \in Endpoints \cup {"none"} /\ "done" \in PostStages
  BY DEF SessionSound, SessionTyped, PostCalls, PostStages
<1>3. At(post[p].endpoint, "done") \in PostCalls
  BY <1>2, AtIs
<1>4. post' \in [Posts -> PostCalls]
  BY <1>1, <1>2, <1>3
<1>5. updates \in Nat /\ blurred \in BOOLEAN
  BY DEF SessionSound, SessionTyped
<1>6. updates' \in Nat /\ blurred' \in BOOLEAN
  <2>1. updates' = updates + 1 \/ updates' = updates
    BY <1>1
  <2>2. updates' \in Nat
    BY <1>5, <2>1
  <2>3. blurred' \in BOOLEAN
    BY <1>1, <1>5, Zenon
  <2> QED
    BY <2>2, <2>3
<1>7. SessionTyped'
  BY <1>1, <1>4, <1>6 DEF SessionSound, SessionTyped, PostCalls
<1>8. blurred' = TRUE \/ (blurred' = blurred /\ ~ Announced')
  <2>1. CASE updates' = updates + 1 /\ blurred' = blurred
    <3>1. updates' # 0
      BY <1>5, <2>1
    <3> QED
      BY <2>1, <3>1 DEF Announced
  <2> QED
    BY <1>1, <2>1
<1>9. SnapshotInv'
  BY <1>1, <1>8 DEF SessionSound, SnapshotInv
<1> QED
  BY <1>7, <1>9 DEF SessionSound

\* What a step of the session leaves alone.
LEMMA ApartIs ==
    ASSUME Apart
    PROVE  UNCHANGED <<enabled, now, seen, lastSweep, recorded, dropped, post, document>>
  BY DEF Apart, guardVars

LEMMA AuthSound ==
    ASSUME SessionSound, AuthReads \/ AuthRegisters
    PROVE  SessionSound'
<1>0. Apart
  BY DEF AuthReads, AuthRegisters
<1>1. UNCHANGED <<enabled, post, document>>
  BY <1>0, ApartIs
<1>2. SessionTyped /\ SnapshotInv
  BY DEF SessionSound
<1>3. document \in Nat /\ document \in 0 .. document
  BY <1>2 DEF SessionTyped
<1>4. UNCHANGED <<updates, refresh, blurred>> /\ Announced' = Announced
  BY <1>1 DEF AuthReads, AuthRegisters, Announced
<1>5. CASE AuthReads
  <2>1. caching = "none" /\ caching' = "auth" /\ snapshot' = document
    BY <1>5 DEF AuthReads
  <2>2. SessionTyped'
    BY <1>1, <1>2, <1>3, <1>4, <2>1 DEF SessionTyped
  <2>3. refresh = <<>>
    BY <1>2, <2>1 DEF SnapshotInv
  <2>4. SnapshotInv'
    <3>1. Len(<<>>) <= 1
      OBVIOUS
    <3> QED
      BY <1>1, <1>4, <2>1, <2>3, <3>1 DEF SnapshotInv
  <2> QED
    BY <2>2, <2>4 DEF SessionSound
<1>6. CASE AuthRegisters
  <2>1. caching = "auth" /\ caching' = "live" /\ snapshot' = snapshot
    BY <1>6 DEF AuthRegisters
  <2>2. SessionTyped'
    BY <1>1, <1>2, <1>4, <2>1 DEF SessionTyped
  <2>3. SnapshotInv'
    BY <1>1, <1>2, <1>4, <2>1 DEF SnapshotInv
  <2> QED
    BY <2>2, <2>3 DEF SessionSound
<1> QED
  BY <1>5, <1>6

\* An update heard by a session is a refresh asked for.
LEMMA HeardSound ==
    ASSUME SessionSound, HearUpdate
    PROVE  SessionSound'
<1>0. Apart
  BY DEF HearUpdate
<1>1. UNCHANGED <<enabled, post, document, caching, snapshot>>
  BY <1>0, ApartIs DEF HearUpdate
<1>2. SessionTyped /\ SnapshotInv
  BY DEF SessionSound
<1>3. updates \in Nat /\ updates > 0 /\ updates' = updates - 1
      /\ refresh' = IF caching = "live" THEN Append(refresh, -1) ELSE refresh
  BY <1>2 DEF HearUpdate, SessionTyped
<1>4. blurred' <=> (blurred \/ caching = "auth" \/ (caching = "live" /\ refresh # <<>>))
  BY Zenon DEF HearUpdate
<1>5. blurred' \in BOOLEAN
  BY Zenon DEF HearUpdate
<1>6. updates' \in Nat
  BY <1>3
<1>7. document \in Nat /\ refresh \in Seq(Int) /\ \A i \in DOMAIN refresh : refresh[i] \in -1 .. document
  BY <1>2 DEF SessionTyped
<1>8. CASE caching = "live"
  <2>1. refresh' = Append(refresh, -1)
    BY <1>3, <1>8
  <2>2. -1 \in Int
    OBVIOUS
  <2>3. /\ refresh' \in Seq(Int) /\ DOMAIN refresh' = 1 .. Len(refresh) + 1 /\ refresh'[Len(refresh) + 1] = -1
        /\ Len(refresh') = Len(refresh) + 1 /\ Len(refresh) \in Nat /\ DOMAIN refresh = 1 .. Len(refresh)
        /\ \A i \in 1 .. Len(refresh) : refresh'[i] = refresh[i]
    BY <1>7, <2>1, <2>2, AppendedIn, AppendedLen, AppendedLast, AppendedFirst, LenProperties
  <2>4. \A i \in DOMAIN refresh' : refresh'[i] \in -1 .. document
    <3>1. -1 \in -1 .. document
      BY <1>7
    <3>2. \A i \in DOMAIN refresh' : i = Len(refresh) + 1 \/ i \in DOMAIN refresh
      BY <2>3
    <3>3. \A i \in DOMAIN refresh : refresh'[i] = refresh[i]
      BY <2>3
    <3> QED
      BY <1>7, <2>3, <3>1, <3>2, <3>3
  <2>5. SessionTyped'
    BY <1>1, <1>2, <1>5, <1>6, <2>3, <2>4 DEF SessionTyped
  <2>6. ~ blurred' => ~ blurred /\ refresh = <<>>
    BY <1>4, <1>8
  <2>7. ~ blurred' => Len(refresh') = 1 /\ refresh'[1] = -1 /\ refresh' # <<>>
    <3>1. SUFFICES ASSUME refresh = <<>> PROVE Len(refresh') = 1 /\ refresh'[1] = -1 /\ refresh' # <<>>
      BY <2>6
    <3>2. Len(refresh) = 0
      BY <3>1
    <3>3. Len(refresh') = 1 /\ refresh'[1] = -1
      BY <2>3, <3>2
    <3> QED
      BY <3>3
  <2>8. SnapshotInv'
    BY <1>1, <1>8, <2>7 DEF SnapshotInv
  <2> QED
    BY <2>5, <2>8 DEF SessionSound
<1>9. CASE caching # "live"
  <2>1. refresh' = refresh /\ refresh = <<>>
    BY <1>2, <1>3, <1>9 DEF SnapshotInv
  <2>2. SessionTyped'
    BY <1>1, <1>2, <1>5, <1>6, <2>1 DEF SessionTyped
  <2>3. ~ blurred' => caching = "none"
    BY <1>2, <1>4, <1>9 DEF SessionTyped
  <2>4. Len(refresh') <= 1
    <3>1. Len(<<>>) = 0
      OBVIOUS
    <3> QED
      BY <2>1, <3>1
  <2>5. SnapshotInv'
    BY <1>1, <2>1, <2>3, <2>4 DEF SnapshotInv
  <2> QED
    BY <2>2, <2>5 DEF SessionSound
<1> QED
  BY <1>8, <1>9

\* A refresh reads, fails or is assigned.
LEMMA RefreshSound ==
    ASSUME SessionSound, NEW i \in DOMAIN refresh, RefreshReads(i) \/ RefreshFails(i) \/ RefreshAssigns(i)
    PROVE  SessionSound'
<1>0. Apart
  BY DEF RefreshReads, RefreshFails, RefreshAssigns
<1>1. UNCHANGED <<enabled, post, document, caching, updates>>
  BY <1>0, ApartIs DEF RefreshReads, RefreshFails, RefreshAssigns
<1>2. SessionTyped /\ SnapshotInv /\ Announced' = Announced
  BY <1>1 DEF SessionSound, Announced
<1>3. document \in Nat /\ refresh \in Seq(Int) /\ Len(refresh) \in Nat /\ DOMAIN refresh = 1 .. Len(refresh)
      /\ \A k \in DOMAIN refresh : refresh[k] \in -1 .. document
  BY <1>2, LenProperties DEF SessionTyped
<1>4. refresh # <<>> /\ caching = "live" /\ Len(refresh) >= 1
  <2>1. Len(<<>>) = 0
    OBVIOUS
  <2>2. Len(refresh) >= 1
    BY <1>3
  <2>3. refresh # <<>>
    BY <2>1, <2>2
  <2> QED
    BY <1>2, <2>2, <2>3 DEF SnapshotInv
<1>5. ~ blurred => i = 1 /\ Len(refresh) = 1
  BY <1>2, <1>3, <1>4 DEF SnapshotInv
<1>6. CASE RefreshReads(i)
  <2>1. refresh' = [refresh EXCEPT ![i] = document] /\ UNCHANGED <<snapshot, blurred>>
    BY <1>6 DEF RefreshReads
  <2>2. refresh' \in Seq(Int) /\ Len(refresh') = Len(refresh) /\ DOMAIN refresh' = DOMAIN refresh
        /\ refresh'[i] = document /\ \A k \in DOMAIN refresh : k # i => refresh'[k] = refresh[k]
    BY <1>3, <2>1, ExceptSeq
  <2>3. \A k \in DOMAIN refresh' : refresh'[k] \in -1 .. document
    <3>1. document \in -1 .. document
      BY <1>3
    <3> QED
      BY <1>3, <2>2, <3>1
  <2>4. SessionTyped'
    BY <1>1, <1>2, <2>1, <2>2, <2>3 DEF SessionTyped
  <2>5. ~ blurred => Len(refresh') = 1 /\ refresh'[1] = document /\ refresh' # <<>>
    BY <1>5, <2>2
  <2>6. SnapshotInv'
    <3>1. caching' # "live" => refresh' = <<>>
      BY <1>1, <1>4
    <3>2. ~ blurred' => Len(refresh') <= 1
      BY <2>1, <2>5
    <3>3. ~ blurred' => refresh' # <<>> /\ refresh'[1] \in {-1, document'}
      BY <1>1, <2>1, <2>5
    <3> QED
      BY <3>1, <3>2, <3>3, Zenon DEF SnapshotInv
  <2> QED
    BY <2>4, <2>6 DEF SessionSound
<1> DEFINE r == RemoveAt(refresh, i)
<1>7. r \in Seq(Int) /\ Len(r) = Len(refresh) - 1 /\ \A k \in DOMAIN r : r[k] \in -1 .. document
  <2>1. /\ r \in Seq(Int) /\ Len(r) = Len(refresh) - 1
        /\ \A k \in 1 .. Len(refresh) - 1 : r[k] = refresh[IF k < i THEN k ELSE k + 1]
    BY <1>3, RemovedAt
  <2>2. DOMAIN r = 1 .. Len(refresh) - 1
    BY <2>1, LenProperties
  <2> HIDE DEF r
  <2>3. \A k \in DOMAIN r : (IF k < i THEN k ELSE k + 1) \in DOMAIN refresh
    BY <1>3, <2>2
  <2> QED
    BY <1>3, <2>1, <2>2, <2>3
<1>8. CASE RefreshFails(i)
  <2>1. refresh' = r /\ blurred' = TRUE /\ snapshot' = snapshot
    BY <1>8 DEF RefreshFails
  <2> HIDE DEF r
  <2>2. SessionTyped'
    BY <1>1, <1>2, <1>7, <2>1 DEF SessionTyped
  <2>3. SnapshotInv'
    BY <1>1, <1>4, <2>1 DEF SnapshotInv
  <2> QED
    BY <2>2, <2>3 DEF SessionSound
<1>9. CASE RefreshAssigns(i)
  <2>1. refresh' = r /\ blurred' = blurred /\ snapshot' = refresh[i] /\ refresh[i] # -1
    BY <1>9 DEF RefreshAssigns
  <2> HIDE DEF r
  <2>2. snapshot' \in 0 .. document
    BY <1>3, <2>1
  <2>3. SessionTyped'
    BY <1>1, <1>2, <1>7, <2>1, <2>2 DEF SessionTyped
  <2>4. ~ blurred => refresh' = <<>> /\ Len(refresh') = 0
    <3>1. SUFFICES ASSUME ~ blurred PROVE refresh' = <<>> /\ Len(refresh') = 0
      OBVIOUS
    <3>2. Len(r) = 0
      BY <1>5, <1>7, <3>1
    <3>3. r = <<>>
      BY <1>7, <3>2, EmptySeq
    <3> QED
      BY <2>1, <3>2, <3>3
  <2>5. ~ blurred /\ Announced => snapshot' = document
    BY <1>2, <1>4, <1>5, <2>1 DEF SnapshotInv
  <2>6. SnapshotInv'
    BY <1>1, <1>2, <1>4, <2>1, <2>4, <2>5 DEF SnapshotInv
  <2> QED
    BY <2>3, <2>6 DEF SessionSound
<1> QED
  BY <1>6, <1>8, <1>9

-----------------------------------------------------------------------------
(* The router's theorem.                                                   *)

LEMMA RouterStarts == RouterInit => RouterInv
<1> SUFFICES ASSUME RouterInit PROVE RouterInv
  OBVIOUS
<1>1. /\ enabled \in BOOLEAN /\ now = 0 /\ seen = <<>> /\ lastSweep = 0 /\ post = [p \in Posts |-> Nothing]
      /\ recorded = <<>> /\ dropped = <<>> /\ document = 0 /\ updates = 0
      /\ caching = "none" /\ snapshot = 0 /\ refresh = <<>> /\ blurred = FALSE
  BY DEF RouterInit
<1>2. <<>> \in Seq(Signatures) /\ <<>> \in Seq(Requested) /\ <<>> \in Seq(Int) /\ Len(<<>>) = 0 /\ DOMAIN <<>> = {}
  <2>1. Len(<<>>) = 0 /\ DOMAIN <<>> = {}
    OBVIOUS
  <2> QED
    BY <2>1, EmptySeq
<1>3. 0 \in 0 .. MaxTime /\ 0 \in 0 .. 0 /\ 0 \in Nat
  BY RouterAssumption
<1>4. GuardTyped
  BY <1>1, <1>2, <1>3 DEF GuardTyped
<1>5. GuardInv
  <2>1. InOrder(seen) /\ InTime(recorded, now)
    BY <1>1, <1>2 DEF InOrder, InTime
  <2>2. Traced(seen, recorded, now)
    <3> DEFINE f == [k \in {} |-> k]
    <3>1. f \in [DOMAIN seen -> DOMAIN recorded]
      BY <1>1, <1>2
    <3>2. Follows(f, seen, recorded) /\ HasRecent(f, seen, recorded, now)
      BY <1>1, <1>2, <3>1 DEF Follows, HasRecent
    <3> HIDE DEF f
    <3> QED
      BY <3>2 DEF Traced
  <2>3. ReplaysDropped
    BY <1>1, <1>2 DEF ReplaysDropped, ToSet
  <2>4. Len(seen) <= MaxSeen
    BY <1>1, <1>2, RouterAssumption
  <2> QED
    BY <2>1, <2>2, <2>3, <2>4 DEF GuardInv
<1>6. SessionTyped
  <2>1. Nothing \in [endpoint : Endpoints \cup {"none"}, at : PostStages]
    BY DEF Nothing, PostStages
  <2>2. post \in [Posts -> [endpoint : Endpoints \cup {"none"}, at : PostStages]]
    BY <1>1, <2>1
  <2>3. refresh \in Seq(Int) /\ \A i \in DOMAIN refresh : refresh[i] \in -1 .. document
    BY <1>1, <1>2
  <2> QED
    BY <1>1, <1>3, <2>2, <2>3 DEF SessionTyped
<1>7. SnapshotInv
  BY <1>1, <1>2 DEF SnapshotInv
<1> QED
  BY <1>4, <1>5, <1>6, <1>7, RouterParts DEF SessionSound

LEMMA RouterStep ==
    ASSUME RouterInv, [RouterNext]_routerVars
    PROVE  RouterInv'
<1>0. SessionSound
  BY RouterParts
<1>1. CASE Tick
  <2>1. UNCHANGED <<enabled, post, document, updates, caching, snapshot, refresh, blurred>>
    BY <1>1 DEF Tick, gatewayVars
  <2>2. SessionSound'
    BY <1>0, <2>1 DEF SessionSound, SessionTyped, SnapshotInv, Announced
  <2> QED
    BY <1>1, <2>2, TickGuard, RouterPartsNext
<1>2. ASSUME NEW p \in Posts, NEW e \in Endpoints, PassedOn(p, e) PROVE RouterInv'
  <2>1. Arrived(p, e, "done") /\ UNCHANGED guardVars
    BY <1>2 DEF PassedOn
  <2>2. SessionSound' /\ now' = now
    BY <1>0, <2>1, ArrivedSound
  <2> QED
    BY <2>1, <2>2, GuardIdle, RouterPartsNext
<1>3. ASSUME NEW p \in Posts, NEW e \in Endpoints, Screened(p, e) PROVE RouterInv'
  <2>1. PICK s \in {"done", "token", "handler"} : Arrived(p, e, s)
    <3>1. Arrived(p, e, "done") \/ Arrived(p, e, IF IsPublicEndpoint(e) THEN "handler" ELSE "token")
      BY <1>3 DEF Screened
    <3>2. (IF IsPublicEndpoint(e) THEN "handler" ELSE "token") \in {"done", "token", "handler"}
      OBVIOUS
    <3> QED
      BY <3>1, <3>2
  <2>2. SessionSound' /\ UNCHANGED <<enabled, now>>
    BY <1>0, <2>1, ArrivedSound
  <2>3. lastSweep' = (IF SweepDue THEN now ELSE lastSweep) /\ (IsReplay(e) \/ IsFresh(e))
    BY <1>3 DEF Screened
  <2>4. GuardTyped' /\ GuardInv'
    BY <2>2, <2>3, ScreenedGuard
  <2> QED
    BY <2>2, <2>4, RouterPartsNext
<1>4. ASSUME NEW p \in Posts, TokenLookup(p) \/ Handle(p) \/ Save(p) \/ SaveFails(p) \/ Publish(p) PROVE RouterInv'
  <2>1. UNCHANGED <<enabled, now, guardVars>>
    BY <1>4 DEF TokenLookup, Handle, Save, SaveFails, Publish, Unscreened
  <2>2. GuardTyped' /\ GuardInv'
    BY <2>1, GuardIdle
  <2>3. {"done", "token", "handler", "save"} \subseteq PostStages \ {"publish"}
    BY DEF PostStages
  <2>4. ASSUME TokenLookup(p) PROVE SessionSound'
    <3>1. PICK to \in {"handler", "done"} : Step(p, "token", to)
      BY <2>4 DEF TokenLookup
    <3>2. UNCHANGED <<enabled, document, updates, caching, snapshot, refresh, blurred>>
      BY <2>1, <2>4 DEF TokenLookup, gatewayVars
    <3> QED
      BY <1>0, <2>3, <3>1, <3>2, StepSound
  <2>5. ASSUME Handle(p) PROVE SessionSound'
    <3>1. PICK to \in {"done", "save"} : Step(p, "handler", to)
      BY <2>5 DEF Handle
    <3>2. UNCHANGED <<enabled, document, updates, caching, snapshot, refresh, blurred>>
      BY <2>1, <2>5 DEF Handle, gatewayVars
    <3> QED
      BY <1>0, <2>3, <3>1, <3>2, StepSound
  <2>6. ASSUME SaveFails(p) PROVE SessionSound'
    <3>1. Step(p, "save", "done") /\ UNCHANGED <<enabled, document, updates, caching, snapshot, refresh, blurred>>
      BY <2>1, <2>6 DEF SaveFails, gatewayVars
    <3> QED
      BY <1>0, <2>3, <3>1, StepSound
  <2>7. SessionSound'
    BY <1>0, <1>4, <2>4, <2>5, <2>6, SaveSound, PublishSound
  <2> QED
    BY <2>2, <2>7, RouterPartsNext
<1>5. ASSUME AuthReads \/ AuthRegisters \/ HearUpdate PROVE RouterInv'
  <2>1. Apart
    BY <1>5 DEF AuthReads, AuthRegisters, HearUpdate
  <2>2. GuardTyped' /\ GuardInv'
    BY <2>1, GuardIdle DEF Apart
  <2>3. SessionSound'
    BY <1>0, <1>5, AuthSound, HeardSound
  <2> QED
    BY <2>2, <2>3, RouterPartsNext
<1>6. ASSUME NEW i \in DOMAIN refresh, RefreshReads(i) \/ RefreshFails(i) \/ RefreshAssigns(i) PROVE RouterInv'
  <2>1. Apart
    BY <1>6 DEF RefreshReads, RefreshFails, RefreshAssigns
  <2>2. GuardTyped' /\ GuardInv'
    BY <2>1, GuardIdle DEF Apart
  <2>3. SessionSound'
    BY <1>0, <1>6, RefreshSound
  <2> QED
    BY <2>2, <2>3, RouterPartsNext
<1>7. CASE UNCHANGED routerVars
  <2>1. UNCHANGED <<now, guardVars>> /\ UNCHANGED <<enabled, post, document, updates, caching, snapshot, refresh, blurred>>
    BY <1>7 DEF routerVars, guardVars
  <2>2. SessionSound'
    BY <1>0, <2>1 DEF SessionSound, SessionTyped, SnapshotInv, Announced
  <2> QED
    BY <2>1, <2>2, GuardIdle, RouterPartsNext
<1> QED
  BY <1>1, <1>2, <1>3, <1>4, <1>5, <1>6, <1>7 DEF RouterNext

LEMMA RouterIs ==
    ASSUME RouterInv
    PROVE  RouterTypeOK /\ SeenInOrder /\ ReplaysDropped /\ SnapshotFollowsSaves
<1>1. SeenInOrder /\ ReplaysDropped
  BY DEF RouterInv, GuardInv, InOrder, SeenInOrder
<1>2. SnapshotFollowsSaves
  BY DEF RouterInv, SnapshotInv, Announced, SnapshotFollowsSaves
<1>3. \A i \in DOMAIN seen : seen[i].exp \in Window .. now + Window
  <2>1. PICK f : Follows(f, seen, recorded)
    BY DEF RouterInv, GuardInv, Traced
  <2> SUFFICES ASSUME NEW i \in DOMAIN seen PROVE seen[i].exp \in Window .. now + Window
    OBVIOUS
  <2>2. f[i] \in DOMAIN recorded /\ seen[i].exp = recorded[f[i]].time + Window
    BY <2>1 DEF Follows
  <2>3. recorded[f[i]].time <= now
    BY <2>2 DEF RouterInv, GuardInv, InTime
  <2>4. recorded \in Seq(Requested) /\ now \in Nat
    BY RouterAssumption DEF RouterInv, RouterTyped
  <2>5. recorded[f[i]] \in Requested
    BY <2>2, <2>4, ElementOfSeq, LenProperties
  <2>6. recorded[f[i]].time \in Nat
    BY <2>5 DEF Requested
  <2> QED
    BY <2>2, <2>3, <2>4, <2>6, RouterAssumption
<1>4. \A p \in Posts : post[p].endpoint \in Endpoints \cup {"none"} /\ post[p].at \in {"done", "token", "handler", "save", "publish"}
  BY DEF RouterInv, RouterTyped, PostStages
<1>5. RouterTypeOK
  BY <1>3, <1>4 DEF RouterInv, RouterTyped, RouterTypeOK
<1> QED
  BY <1>1, <1>2, <1>5

\* Whatever the window, the cap and the requests, the replay guard's Map is in order of expiry,
\* without duplicates and within its cap, a repeat within the window passes only after MaxSeen
\* others and only repeats are dropped; and a session caches the document last saved when no
\* update is under way, but for the overlaps the model names (replayGuard.js, router.js, gateway.js).
THEOREM RouterHolds ==
    RouterInit /\ [][RouterNext]_routerVars =>
        [](RouterTypeOK /\ SeenInOrder /\ ReplaysDropped /\ SnapshotFollowsSaves)
<1>1. RouterInit => RouterInv
  BY RouterStarts
<1>2. RouterInv /\ [RouterNext]_routerVars => RouterInv'
  BY RouterStep
<1>3. RouterInv => RouterTypeOK /\ SeenInOrder /\ ReplaysDropped /\ SnapshotFollowsSaves
  BY RouterIs
<1> QED
  BY <1>1, <1>2, <1>3, PTL

-----------------------------------------------------------------------------
(* Sequences laid end to end.                                              *)

\* A sequence of sequences laid end to end, position by position.
LaidOut(q, g, S) ==
    /\ g \in [1 .. Len(q) -> Seq(S)] /\ g[1] = q[1]
    /\ \A i \in 2 .. Len(q) : g[i] = g[i - 1] \o q[i]

\* There is such a function, whatever the sequences.
LEMMA LayingOut ==
    ASSUME NEW S, NEW q \in Seq(Seq(S)), q # <<>>
    PROVE  \E g : LaidOut(q, g, S)
<1> DEFINE Upto(g, n) == /\ g \in [1 .. n -> Seq(S)] /\ g[1] = q[1]
                         /\ \A i \in 2 .. n : g[i] = g[i - 1] \o q[i]
           P == {n \in Nat : n + 1 <= Len(q) => \E g : Upto(g, n + 1)}
<1>1. Len(q) \in Nat \ {0} /\ \A i \in 1 .. Len(q) : q[i] \in Seq(S)
  BY LenProperties, ElementOfSeq, EmptySeq
<1>2. 0 \in P
  <2> DEFINE z == [i \in 1 .. 1 |-> q[1]]
  <2>1. q[1] \in Seq(S)
    BY <1>1
  <2>2. z \in [1 .. 1 -> Seq(S)] /\ z[1] = q[1]
    BY <2>1
  <2>3. Upto(z, 1)
    <3> HIDE DEF z
    <3> QED
      BY <2>2
  <2>4. \E g : Upto(g, 0 + 1)
    <3>1. 0 + 1 = 1
      OBVIOUS
    <3> HIDE DEF Upto
    <3> QED
      BY <2>3, <3>1
  <2> QED
    BY <2>4
<1>3. ASSUME NEW n \in P PROVE n + 1 \in P
  <2>0. n \in Nat /\ n + 1 \in Nat
    OBVIOUS
  <2> SUFFICES ASSUME (n + 1) + 1 <= Len(q) PROVE \E g : Upto(g, (n + 1) + 1)
    <3> HIDE DEF Upto
    <3> QED
      BY <2>0
  <2>a. \E g : Upto(g, n + 1)
    <3>1. n + 1 <= Len(q)
      BY <1>1, <2>0
    <3> HIDE DEF Upto
    <3> QED
      BY <3>1
  <2>1. PICK g : Upto(g, n + 1)
    BY <2>a
  <2> DEFINE m == n + 1
             h == [i \in 1 .. m + 1 |-> IF i = m + 1 THEN g[m] \o q[m + 1] ELSE g[i]]
  <2>2. m \in Nat \ {0} /\ m + 1 \in 1 .. Len(q)
    BY <1>1, <2>0
  <2>3. g \in [1 .. m -> Seq(S)] /\ g[1] = q[1] /\ \A i \in 2 .. m : g[i] = g[i - 1] \o q[i]
    BY <2>1
  <2> HIDE DEF m
  <2>4. g[m] \in Seq(S) /\ q[m + 1] \in Seq(S)
    BY <1>1, <2>2, <2>3
  <2>5. g[m] \o q[m + 1] \in Seq(S)
    BY <2>4, ConcatProperties
  <2>6. h \in [1 .. m + 1 -> Seq(S)]
    BY <2>2, <2>3, <2>5
  <2>7. h[1] = q[1]
    BY <2>2, <2>3
  <2>8. ASSUME NEW i \in 2 .. m + 1 PROVE h[i] = h[i - 1] \o q[i]
    <3>1. CASE i = m + 1
      <4>1. i - 1 = m /\ m \in 1 .. m + 1 /\ m # m + 1 /\ m + 1 \in 1 .. m + 1
        BY <2>2, <3>1
      <4>2. h[m + 1] = g[m] \o q[m + 1] /\ h[m] = g[m]
        BY <4>1
      <4> QED
        BY <3>1, <4>1, <4>2
    <3>2. CASE i # m + 1
      <4>1. i \in 2 .. m /\ i - 1 \in 1 .. m + 1 /\ i - 1 # m + 1 /\ i \in 1 .. m + 1
        BY <2>2, <3>2
      <4>2. h[i] = g[i] /\ h[i - 1] = g[i - 1]
        BY <3>2, <4>1
      <4> QED
        BY <2>3, <4>1, <4>2
    <3> QED
      BY <3>1, <3>2
  <2>9. Upto(h, m + 1)
    <3> HIDE DEF h
    <3> QED
      BY <2>6, <2>7, <2>8
  <2> QED
    <3> HIDE DEF Upto
    <3> QED
      BY <2>9 DEF m
<1>4. \A n \in Nat : n \in P
  <2>1. P \in SUBSET Nat
    OBVIOUS
  <2> HIDE DEF P
  <2> QED
    BY <1>2, <1>3, <2>1, AllNat
<1>5. Len(q) - 1 \in Nat /\ (Len(q) - 1) + 1 = Len(q)
  BY <1>1
<1>6. \E g : Upto(g, Len(q))
  <2>1. Len(q) - 1 \in P
    BY <1>4, <1>5
  <2>2. (Len(q) - 1) + 1 <= Len(q) => \E g : Upto(g, (Len(q) - 1) + 1)
    <3> HIDE DEF Upto
    <3> QED
      BY <2>1
  <2> HIDE DEF Upto, P
  <2>3. Len(q) <= Len(q)
    BY <1>1
  <2> QED
    BY <1>5, <2>2, <2>3
<1> QED
  BY <1>6 DEF LaidOut

\* FlattenSeq is its last value.
LEMMA FlattenIs ==
    ASSUME NEW S, NEW q \in Seq(Seq(S)), q # <<>>, NEW g, LaidOut(q, g, S)
    PROVE  FlattenSeq(q) = g[Len(q)] /\ FlattenSeq(q) \in Seq(S)
<1> DEFINE flatten[i \in 1 .. Len(q)] == IF i = 1 THEN q[i] ELSE flatten[i - 1] \o q[i]
           Is(f) == f = [i \in 1 .. Len(q) |-> IF i = 1 THEN q[i] ELSE f[i - 1] \o q[i]]
<1>1. Len(q) \in Nat \ {0}
  BY LenProperties, EmptySeq
<1>2. FlattenSeq(q) = flatten[Len(q)]
  BY <1>1 DEF FlattenSeq
<1>3. flatten = CHOOSE f : Is(f)
  OBVIOUS
<1>4. Is(g)
  <2>1. /\ g \in [1 .. Len(q) -> Seq(S)] /\ g[1] = q[1]
        /\ \A i \in 2 .. Len(q) : g[i] = g[i - 1] \o q[i]
    BY DEF LaidOut
  <2>2. ASSUME NEW i \in 1 .. Len(q) PROVE g[i] = IF i = 1 THEN q[i] ELSE g[i - 1] \o q[i]
    <3>1. i # 1 => i \in 2 .. Len(q)
      BY <1>1
    <3> QED
      BY <2>1, <3>1
  <2>3. g = [i \in 1 .. Len(q) |-> g[i]]
    BY <2>1
  <2> QED
    BY <2>2, <2>3
<1>5. Is(flatten)
  <2> HIDE DEF Is, flatten
  <2> QED
    BY <1>3, <1>4
<1>6. flatten = g
  <2> DEFINE f == flatten
             R == {n \in Nat : n + 1 <= Len(q) => f[n + 1] = g[n + 1]}
  <2>1. f = [i \in 1 .. Len(q) |-> IF i = 1 THEN q[i] ELSE f[i - 1] \o q[i]]
    BY <1>5
  <2> HIDE DEF f
  <2>g. g = [i \in 1 .. Len(q) |-> IF i = 1 THEN q[i] ELSE g[i - 1] \o q[i]]
    BY <1>4
  <2>2. 0 \in R
    BY <1>1, <2>1, <2>g
  <2>3. ASSUME NEW n \in R PROVE n + 1 \in R
    <3> SUFFICES ASSUME (n + 1) + 1 <= Len(q) PROVE f[(n + 1) + 1] = g[(n + 1) + 1]
      OBVIOUS
    <3>1. /\ f[n + 1] = g[n + 1] /\ (n + 1) + 1 \in 1 .. Len(q) /\ (n + 1) + 1 # 1
          /\ ((n + 1) + 1) - 1 = n + 1
      BY <1>1
    <3>2. f[(n + 1) + 1] = f[n + 1] \o q[(n + 1) + 1]
      BY <2>1, <3>1
    <3>3. g[(n + 1) + 1] = g[n + 1] \o q[(n + 1) + 1]
      BY <2>g, <3>1
    <3> QED
      BY <3>1, <3>2, <3>3
  <2>4. \A n \in Nat : n \in R
    <3>1. R \in SUBSET Nat
      OBVIOUS
    <3> HIDE DEF R
    <3> QED
      BY <2>2, <2>3, <3>1, AllNat
  <2>5. ASSUME NEW n \in 1 .. Len(q) PROVE f[n] = g[n]
    <3>1. n - 1 \in Nat /\ (n - 1) + 1 = n /\ n <= Len(q)
      BY <1>1
    <3>2. n - 1 \in R
      BY <2>4, <3>1
    <3> QED
      BY <3>1, <3>2
  <2>6. f = [i \in 1 .. Len(q) |-> f[i]]
    BY <2>1
  <2>7. g = [i \in 1 .. Len(q) |-> g[i]]
    BY <2>g
  <2>8. f = g
    BY <2>5, <2>6, <2>7
  <2> QED
    BY <2>8 DEF f
<1>7. g[Len(q)] \in Seq(S)
  <2>1. Len(q) \in 1 .. Len(q) /\ g \in [1 .. Len(q) -> Seq(S)]
    BY <1>1 DEF LaidOut
  <2> QED
    BY <2>1
<1> QED
  BY <1>2, <1>6, <1>7

\* The whole is of the elements of its parts.
LEMMA FlattenSeqType == ASSUME NEW S, NEW q \in Seq(Seq(S)) PROVE FlattenSeq(q) \in Seq(S)
<1>1. CASE q = <<>>
  BY <1>1, EmptySeq DEF FlattenSeq
<1>2. CASE q # <<>>
  BY <1>2, LayingOut, FlattenIs
<1> QED
  BY <1>1, <1>2

\* Of no parts it is nothing.
LEMMA FlattenNone == FlattenSeq(<<>>) = <<>>
  BY EmptySeq DEF FlattenSeq

\* A part more at the end.
LEMMA FlattenAppend ==
    ASSUME NEW S, NEW q \in Seq(Seq(S)), NEW x \in Seq(S)
    PROVE  FlattenSeq(Append(q, x)) = FlattenSeq(q) \o x
<1> DEFINE r == Append(q, x)
<1>0. Len(q) \in Nat /\ \A i \in 1 .. Len(q) : q[i] \in Seq(S)
  BY LenProperties, ElementOfSeq
<1>1. /\ r \in Seq(Seq(S)) /\ Len(r) = Len(q) + 1 /\ r[Len(q) + 1] = x
      /\ \A i \in 1 .. Len(q) : r[i] = q[i]
  BY AppendedIn, AppendedLen, AppendedLast, AppendedFirst
<1> HIDE DEF r
<1>2. r # <<>>
  BY <1>0, <1>1, EmptySeq
<1>3. CASE q = <<>>
  <2> DEFINE g == [i \in 1 .. 1 |-> x]
  <2>1. Len(q) = 0 /\ Len(r) = 1 /\ r[1] = x
    BY <1>1, <1>3, EmptySeq
  <2>2. g \in [1 .. 1 -> Seq(S)] /\ g[1] = x
    OBVIOUS
  <2>3. LaidOut(r, g, S)
    <3> HIDE DEF g
    <3> QED
      BY <2>1, <2>2 DEF LaidOut
  <2>4. FlattenSeq(r) = x
    <3> HIDE DEF g
    <3> QED
      BY <1>1, <1>2, <2>1, <2>2, <2>3, FlattenIs
  <2>5. FlattenSeq(q) \o x = x
    BY <1>3, FlattenNone, ConcatEmptySeq
  <2> QED
    BY <2>4, <2>5 DEF r
<1>4. CASE q # <<>>
  <2>1. PICK g : LaidOut(q, g, S)
    BY <1>4, LayingOut
  <2>2. Len(q) \in Nat \ {0}
    BY <1>0, <1>4, EmptySeq
  <2>3. FlattenSeq(q) = g[Len(q)] /\ g[Len(q)] \in Seq(S)
    BY <1>4, <2>1, FlattenIs
  <2> DEFINE n == Len(q)
             h == [i \in 1 .. n + 1 |-> IF i = n + 1 THEN g[n] \o x ELSE g[i]]
  <2>4. g \in [1 .. n -> Seq(S)] /\ g[1] = q[1] /\ \A i \in 2 .. n : g[i] = g[i - 1] \o q[i]
    BY <2>1 DEF LaidOut
  <2>5. /\ n \in Nat \ {0} /\ Len(r) = n + 1 /\ r[n + 1] = x
        /\ \A i \in 1 .. n : r[i] = q[i]
    BY <1>1, <2>2
  <2>6. g[n] \o x \in Seq(S)
    BY <2>3, ConcatProperties
  <2> HIDE DEF n
  <2>7. h \in [1 .. n + 1 -> Seq(S)]
    BY <2>4, <2>5, <2>6
  <2>8. h[1] = r[1]
    BY <2>4, <2>5
  <2>9. ASSUME NEW i \in 2 .. n + 1 PROVE h[i] = h[i - 1] \o r[i]
    <3>1. CASE i = n + 1
      <4>1. i - 1 = n /\ n \in 1 .. n + 1 /\ n # n + 1 /\ n + 1 \in 1 .. n + 1
        BY <2>5, <3>1
      <4>2. h[n + 1] = g[n] \o x /\ h[n] = g[n]
        BY <4>1
      <4> QED
        BY <2>5, <3>1, <4>1, <4>2
    <3>2. CASE i # n + 1
      <4>1. i \in 2 .. n /\ i - 1 \in 1 .. n + 1 /\ i - 1 # n + 1 /\ i \in 1 .. n + 1 /\ i \in 1 .. n
        BY <2>5, <3>2
      <4> QED
        BY <2>4, <2>5, <3>2, <4>1
    <3> QED
      BY <3>1, <3>2
  <2>10. h[n + 1] = g[n] \o x
    BY <2>5
  <2>11. LaidOut(r, h, S)
    <3> HIDE DEF h
    <3> QED
      BY <2>5, <2>7, <2>8, <2>9 DEF LaidOut
  <2>12. FlattenSeq(r) = h[Len(r)]
    <3> HIDE DEF h
    <3> QED
      BY <1>1, <1>2, <2>11, FlattenIs
  <2>13. FlattenSeq(r) = g[n] \o x
    BY <2>5, <2>10, <2>12
  <2> QED
    BY <2>3, <2>13 DEF r, n
<1> QED
  BY <1>3, <1>4

\* The first part taken off.
LEMMA FlattenTail ==
    ASSUME NEW S, NEW q \in Seq(Seq(S)), q # <<>>
    PROVE  FlattenSeq(q) = Head(q) \o FlattenSeq(Tail(q))
<1> DEFINE r == Tail(q)
<1>0. Len(q) \in Nat \ {0} /\ Head(q) = q[1] /\ \A i \in 1 .. Len(q) : q[i] \in Seq(S)
  BY LenProperties, ElementOfSeq, HeadTailProperties, EmptySeq
<1>a. \A a, b, c \in Seq(S) : (a \o b) \o c = a \o (b \o c)
  BY ConcatAssociative
<1>1. r \in Seq(Seq(S)) /\ Len(r) = Len(q) - 1 /\ \A i \in 1 .. Len(r) : r[i] = q[i + 1]
  BY HeadTailProperties
<1> HIDE DEF r
<1>3. CASE r = <<>>
  <2> DEFINE g == [i \in 1 .. 1 |-> q[1]]
  <2>1. Len(r) = 0 /\ Len(q) = 1 /\ q[1] \in Seq(S)
    BY <1>0, <1>1, <1>3, EmptySeq
  <2>2. g \in [1 .. 1 -> Seq(S)] /\ g[1] = q[1]
    BY <2>1
  <2>3. LaidOut(q, g, S)
    <3> HIDE DEF g
    <3> QED
      BY <2>1, <2>2 DEF LaidOut
  <2>4. FlattenSeq(q) = q[1]
    <3> HIDE DEF g
    <3> QED
      BY <2>1, <2>2, <2>3, FlattenIs
  <2>5. q[1] \o FlattenSeq(r) = q[1]
    BY <1>3, <2>1, FlattenNone, ConcatEmptySeq
  <2> QED
    BY <1>0, <2>4, <2>5 DEF r
<1>4. CASE r # <<>>
  <2>1. PICK g : LaidOut(r, g, S)
    BY <1>1, <1>4, LayingOut
  <2>3. FlattenSeq(r) = g[Len(r)]
    BY <1>1, <1>4, <2>1, FlattenIs
  <2> DEFINE n == Len(r)
             h == [i \in 1 .. n + 1 |-> IF i = 1 THEN q[1] ELSE q[1] \o g[i - 1]]
  <2>2. n \in Nat \ {0} /\ Len(q) = n + 1 /\ q[1] \in Seq(S)
    <3>1. n \in Nat \ {0}
      BY <1>1, <1>4, EmptySeq
    <3> QED
      BY <1>0, <1>1, <3>1
  <2>4. g \in [1 .. n -> Seq(S)] /\ g[1] = r[1] /\ \A i \in 2 .. n : g[i] = g[i - 1] \o r[i]
    BY <2>1 DEF LaidOut
  <2>5. \A i \in 1 .. n : r[i] = q[i + 1] /\ r[i] \in Seq(S)
    BY <1>0, <1>1, <2>2
  <2> HIDE DEF n
  <2>6. \A i \in 1 .. n : q[1] \o g[i] \in Seq(S)
    BY <2>2, <2>4, ConcatProperties
  <2>7. h \in [1 .. n + 1 -> Seq(S)]
    <3>1. ASSUME NEW i \in 1 .. n + 1 PROVE (IF i = 1 THEN q[1] ELSE q[1] \o g[i - 1]) \in Seq(S)
      <4>1. i # 1 => i - 1 \in 1 .. n
        BY <2>2
      <4> QED
        BY <2>2, <2>6, <4>1
    <3> QED
      BY <3>1
  <2>8. h[1] = q[1]
    BY <2>2
  <2>9. ASSUME NEW i \in 2 .. n + 1 PROVE h[i] = h[i - 1] \o q[i]
    <3>0. i \in 1 .. n + 1 /\ i # 1 /\ i - 1 \in 1 .. n /\ (i - 1) + 1 = i /\ i - 1 \in 1 .. n + 1
      BY <2>2
    <3>1. h[i] = q[1] \o g[i - 1] /\ r[i - 1] = q[i]
      BY <2>5, <3>0
    <3>2. CASE i = 2
      <4>1. i - 1 = 1 /\ h[i - 1] = q[1] /\ g[1] = q[2]
        BY <2>4, <2>8, <3>0, <3>1, <3>2
      <4> QED
        BY <3>1, <3>2, <4>1
    <3>3. CASE i # 2
      <4>1. i - 1 \in 2 .. n /\ i - 1 # 1 /\ (i - 1) - 1 \in 1 .. n
        BY <2>2, <3>3
      <4>2. g[i - 1] = g[(i - 1) - 1] \o q[i] /\ h[i - 1] = q[1] \o g[(i - 1) - 1]
        BY <2>4, <3>0, <3>1, <4>1
      <4>3. g[(i - 1) - 1] \in Seq(S) /\ q[i] \in Seq(S)
        BY <2>4, <2>5, <3>0, <3>1, <4>1
      <4>4. (q[1] \o g[(i - 1) - 1]) \o q[i] = q[1] \o (g[(i - 1) - 1] \o q[i])
        <5> DEFINE a == g[(i - 1) - 1]  b == q[i]  c == q[1]
        <5>1. a \in Seq(S) /\ b \in Seq(S) /\ c \in Seq(S)
          BY <2>2, <4>3
        <5> HIDE DEF a, b, c
        <5>2. (c \o a) \o b = c \o (a \o b)
          BY <1>a, <5>1
        <5> QED
          BY <5>2 DEF a, b, c
      <4> QED
        BY <3>1, <4>2, <4>4
    <3> QED
      BY <3>2, <3>3
  <2>10. h[n + 1] = q[1] \o g[n]
    <3>1. n + 1 # 1 /\ n + 1 \in 1 .. n + 1 /\ (n + 1) - 1 = n
      BY <2>2
    <3> QED
      BY <3>1
  <2>11. LaidOut(q, h, S)
    <3> HIDE DEF h
    <3> QED
      BY <2>2, <2>7, <2>8, <2>9 DEF LaidOut
  <2>12. FlattenSeq(q) = h[Len(q)]
    <3> HIDE DEF h
    <3> QED
      BY <2>11, FlattenIs
  <2>13. FlattenSeq(q) = q[1] \o g[n]
    BY <2>2, <2>10, <2>12
  <2> QED
    BY <1>0, <2>3, <2>13 DEF r, n
<1> QED
  BY <1>3, <1>4

-----------------------------------------------------------------------------
(* The parser.                                                             *)

ByteSeqs == Seq(Nat)
AnyFrames == [cmd : Nat, payload : ByteSeqs]

\* The bytes behind the first frame, and a parse from the parse of those.
BytesBehind(bytes) == SubSeq(bytes, FrameSize(bytes) + 1, Len(bytes))
ParsedWith(tail, bytes) ==
    IF FrameSize(bytes) = 0 THEN [frames |-> <<>>, rest |-> bytes]
    ELSE [frames |-> <<FirstFrame(bytes)>> \o tail.frames, rest |-> tail.rest]

\* A frame has bytes of its own and is within those there are.
LEMMA FrameFits ==
    ASSUME NEW bytes \in ByteSeqs
    PROVE  /\ FrameSize(bytes) \in 0 .. Len(bytes) /\ Len(bytes) \in Nat
           /\ FrameSize(bytes) # 0 => bytes[1] \in Nat /\ FrameSize(bytes) >= 2
<1>1. Len(bytes) \in Nat /\ \A i \in 1 .. Len(bytes) : bytes[i] \in Nat
  BY LenProperties, ElementOfSeq DEF ByteSeqs
<1> QED
  BY <1>1 DEF FrameSize, LengthAt

\* What is behind a frame is shorter.
LEMMA BehindIs ==
    ASSUME NEW bytes \in ByteSeqs
    PROVE  /\ BytesBehind(bytes) \in ByteSeqs
           /\ Len(BytesBehind(bytes)) = Len(bytes) - FrameSize(bytes)
           /\ \A i \in 1 .. Len(bytes) - FrameSize(bytes) : BytesBehind(bytes)[i] = bytes[FrameSize(bytes) + i]
<1> DEFINE n == FrameSize(bytes)
<1>1. n \in 0 .. Len(bytes) /\ Len(bytes) \in Nat
  BY FrameFits
<1>2. \A i \in 1 .. Len(bytes) : bytes[i] \in Nat
  BY ElementOfSeq DEF ByteSeqs
<1> HIDE DEF n
<1>3. n + 1 \in Int /\ Len(bytes) \in Int /\ \A i \in n + 1 .. Len(bytes) : bytes[i] \in Nat
  BY <1>1, <1>2
<1>4. /\ SubSeq(bytes, n + 1, Len(bytes)) \in Seq(Nat)
      /\ Len(SubSeq(bytes, n + 1, Len(bytes))) = IF n + 1 <= Len(bytes) THEN Len(bytes) - (n + 1) + 1 ELSE 0
      /\ \A i \in 1 .. Len(bytes) - (n + 1) + 1 : SubSeq(bytes, n + 1, Len(bytes))[i] = bytes[(n + 1) + i - 1]
  BY <1>3, SubSeqProperties
<1>5. /\ Len(bytes) - (n + 1) + 1 = Len(bytes) - n /\ (n + 1 > Len(bytes) => Len(bytes) - n = 0)
      /\ \A i \in 1 .. Len(bytes) - n : (n + 1) + i - 1 = n + i
  BY <1>1
<1>6. BytesBehind(bytes) = SubSeq(bytes, n + 1, Len(bytes))
  BY DEF BytesBehind, n
<1>7. Len(BytesBehind(bytes)) = Len(bytes) - n
  <2>1. CASE n + 1 <= Len(bytes)
    BY <1>4, <1>5, <1>6, <2>1
  <2>2. CASE ~ (n + 1 <= Len(bytes))
    <3>1. Len(bytes) - n = 0
      BY <1>1, <2>2
    <3>2. Len(BytesBehind(bytes)) = 0
      BY <1>4, <1>6, <2>2
    <3> QED
      BY <3>1, <3>2
  <2> QED
    BY <2>1, <2>2
<1>8. \A i \in 1 .. Len(bytes) - n : BytesBehind(bytes)[i] = bytes[n + i]
  BY <1>4, <1>5, <1>6
<1> QED
  BY <1>4, <1>6, <1>7, <1>8 DEF n, ByteSeqs

Shorter(n) == {bytes \in ByteSeqs : Len(bytes) <= n}
ParsesUpto(f, n) == f = [bytes \in Shorter(n) |-> ParsedWith(f[BytesBehind(bytes)], bytes)]

\* Parsing byte strings of up to n bytes is a function, for every n.
LEMMA ParsersExist == ASSUME NEW n \in Nat PROVE \E f : ParsesUpto(f, n)
<1> DEFINE P == {k \in Nat : \E f : ParsesUpto(f, k)}
<1>1. 0 \in P
  <2> DEFINE f == [bytes \in Shorter(0) |-> [frames |-> <<>>, rest |-> bytes]]
  <2>1. ASSUME NEW bytes \in Shorter(0) PROVE ParsedWith(f[BytesBehind(bytes)], bytes) = [frames |-> <<>>, rest |-> bytes]
    <3>1. bytes \in ByteSeqs /\ Len(bytes) <= 0
      BY DEF Shorter
    <3>2. FrameSize(bytes) = 0
      BY <3>1, FrameFits
    <3> QED
      BY <3>2 DEF ParsedWith
  <2>2. [bytes \in Shorter(0) |-> ParsedWith(f[BytesBehind(bytes)], bytes)] = f
    BY <2>1
  <2>3. ParsesUpto(f, 0)
    <3> HIDE DEF f
    <3> QED
      BY <2>2 DEF ParsesUpto
  <2> QED
    BY <2>3
<1>2. ASSUME NEW k \in P PROVE k + 1 \in P
  <2>0. k \in Nat /\ k + 1 \in Nat
    OBVIOUS
  <2>1. PICK f : ParsesUpto(f, k)
    OBVIOUS
  <2> DEFINE h == [bytes \in Shorter(k + 1) |-> ParsedWith(f[BytesBehind(bytes)], bytes)]
  <2>2. ASSUME NEW bytes \in Shorter(k + 1)
        PROVE  ParsedWith(f[BytesBehind(bytes)], bytes) = ParsedWith(h[BytesBehind(bytes)], bytes)
    <3>1. bytes \in ByteSeqs /\ Len(bytes) <= k + 1
      BY DEF Shorter
    <3>2. CASE FrameSize(bytes) = 0
      BY <3>2 DEF ParsedWith
    <3>3. CASE FrameSize(bytes) # 0
      <4>1. BytesBehind(bytes) \in Shorter(k) /\ BytesBehind(bytes) \in Shorter(k + 1)
        <5>1. BytesBehind(bytes) \in ByteSeqs /\ Len(BytesBehind(bytes)) = Len(bytes) - FrameSize(bytes)
          BY <3>1, BehindIs
        <5>2. FrameSize(bytes) \in 0 .. Len(bytes) /\ Len(bytes) \in Nat
          BY <3>1, FrameFits
        <5>3. Len(BytesBehind(bytes)) <= k /\ Len(BytesBehind(bytes)) <= k + 1
          BY <2>0, <3>1, <3>3, <5>1, <5>2
        <5> QED
          BY <5>1, <5>3 DEF Shorter
      <4>2. h[BytesBehind(bytes)] = ParsedWith(f[BytesBehind(BytesBehind(bytes))], BytesBehind(bytes))
        BY <4>1
      <4>3. f[BytesBehind(bytes)] = ParsedWith(f[BytesBehind(BytesBehind(bytes))], BytesBehind(bytes))
        <5> HIDE DEF h
        <5> QED
          BY <2>1, <4>1 DEF ParsesUpto
      <4> HIDE DEF h
      <4> QED
        BY <4>2, <4>3
    <3> QED
      BY <3>2, <3>3
  <2>3. [bytes \in Shorter(k + 1) |-> ParsedWith(h[BytesBehind(bytes)], bytes)] = h
    BY <2>2
  <2>4. ParsesUpto(h, k + 1)
    <3> HIDE DEF h
    <3> QED
      BY <2>3 DEF ParsesUpto
  <2> HIDE DEF h
  <2> QED
    BY <2>0, <2>4
<1>3. P \in SUBSET Nat
  OBVIOUS
<1>4. n \in P
  <2> HIDE DEF P
  <2> QED
    BY <1>1, <1>2, <1>3, AllNat
<1> QED
  BY <1>4

\* They agree on what they both parse.
LEMMA ParsersAgree ==
    ASSUME NEW n \in Nat, NEW m \in Nat, NEW f, NEW g, ParsesUpto(f, n), ParsesUpto(g, m), n <= m
    PROVE  \A bytes \in Shorter(n) : f[bytes] = g[bytes]
<1> DEFINE P == {k \in Nat : k <= n => \A bytes \in Shorter(k) : f[bytes] = g[bytes]}
<1>0. \A k \in Nat : k <= n => Shorter(k) \subseteq Shorter(n) /\ Shorter(k) \subseteq Shorter(m)
  <2> SUFFICES ASSUME NEW k \in Nat, k <= n, NEW bytes \in Shorter(k) PROVE bytes \in Shorter(n) /\ bytes \in Shorter(m)
    OBVIOUS
  <2>1. bytes \in ByteSeqs /\ Len(bytes) <= k /\ Len(bytes) \in Nat
    BY FrameFits DEF Shorter
  <2>2. Len(bytes) <= n /\ Len(bytes) <= m
    BY <2>1
  <2> QED
    BY <2>1, <2>2 DEF Shorter
<1>1. ASSUME NEW k \in Nat, k <= n, NEW bytes \in Shorter(k),
             FrameSize(bytes) # 0 => f[BytesBehind(bytes)] = g[BytesBehind(bytes)]
      PROVE  f[bytes] = g[bytes]
  <2>1. bytes \in Shorter(n) /\ bytes \in Shorter(m)
    BY <1>0, <1>1
  <2>2. f[bytes] = ParsedWith(f[BytesBehind(bytes)], bytes) /\ g[bytes] = ParsedWith(g[BytesBehind(bytes)], bytes)
    BY <2>1 DEF ParsesUpto
  <2>3. ParsedWith(f[BytesBehind(bytes)], bytes) = ParsedWith(g[BytesBehind(bytes)], bytes)
    BY <1>1 DEF ParsedWith
  <2> QED
    BY <2>2, <2>3
<1>2. 0 \in P
  <2> SUFFICES ASSUME 0 <= n, NEW bytes \in Shorter(0) PROVE f[bytes] = g[bytes]
    OBVIOUS
  <2>1. bytes \in ByteSeqs /\ Len(bytes) <= 0
    BY DEF Shorter
  <2>2. FrameSize(bytes) = 0
    BY <2>1, FrameFits
  <2> QED
    BY <1>1, <2>2
<1>3. ASSUME NEW k \in P PROVE k + 1 \in P
  <2>0. k \in Nat /\ k + 1 \in Nat
    OBVIOUS
  <2> SUFFICES ASSUME k + 1 <= n, NEW bytes \in Shorter(k + 1) PROVE f[bytes] = g[bytes]
    BY <2>0
  <2>1. bytes \in ByteSeqs /\ Len(bytes) <= k + 1
    BY DEF Shorter
  <2>2. FrameSize(bytes) # 0 => f[BytesBehind(bytes)] = g[BytesBehind(bytes)]
    <3> SUFFICES ASSUME FrameSize(bytes) # 0 PROVE f[BytesBehind(bytes)] = g[BytesBehind(bytes)]
      OBVIOUS
    <3>1. BytesBehind(bytes) \in ByteSeqs /\ Len(BytesBehind(bytes)) = Len(bytes) - FrameSize(bytes)
      BY <2>1, BehindIs
    <3>2. FrameSize(bytes) \in 0 .. Len(bytes) /\ Len(bytes) \in Nat
      BY <2>1, FrameFits
    <3>3. Len(BytesBehind(bytes)) <= k
      BY <2>0, <2>1, <3>1, <3>2
    <3>4. BytesBehind(bytes) \in Shorter(k) /\ k <= n
      BY <2>0, <3>1, <3>3 DEF Shorter
    <3> QED
      BY <3>4
  <2> QED
    BY <1>1, <2>0, <2>2
<1>4. P \in SUBSET Nat
  OBVIOUS
<1>5. n \in P
  <2> HIDE DEF P
  <2> QED
    BY <1>2, <1>3, <1>4, AllNat
<1> QED
  BY <1>5

\* parseClientFrames takes the first frame and goes on with the bytes behind it.
LEMMA ParseUnfolds == ASSUME NEW bytes \in ByteSeqs PROVE Parse[bytes] = ParsedWith(Parse[BytesBehind(bytes)], bytes)
<1> DEFINE Is(f) == f = [b \in Seq(Nat) |-> IF FrameSize(b) = 0 THEN [frames |-> <<>>, rest |-> b]
                             ELSE LET n == FrameSize(b)
                                      tail == f[SubSeq(b, n + 1, Len(b))]
                                  IN  [frames |-> <<FirstFrame(b)>> \o tail.frames, rest |-> tail.rest]]
           Upto(n) == CHOOSE f : ParsesUpto(f, n)
           all == [b \in ByteSeqs |-> Upto(Len(b))[b]]
<1>1. ASSUME NEW n \in Nat PROVE ParsesUpto(Upto(n), n)
  BY ParsersExist
<1> HIDE DEF Upto
<1>2. ASSUME NEW b \in ByteSeqs PROVE all[b] = ParsedWith(all[BytesBehind(b)], b)
  <2>1. Len(b) \in Nat /\ b \in Shorter(Len(b)) /\ all[b] = Upto(Len(b))[b]
    BY FrameFits DEF Shorter
  <2>2. all[b] = ParsedWith(Upto(Len(b))[BytesBehind(b)], b)
    <3> HIDE DEF all
    <3>1. ParsesUpto(Upto(Len(b)), Len(b))
      BY <1>1, <2>1
    <3> QED
      BY <2>1, <3>1 DEF ParsesUpto
  <2>3. /\ BytesBehind(b) \in ByteSeqs /\ Len(BytesBehind(b)) \in Nat /\ Len(BytesBehind(b)) <= Len(b)
        /\ BytesBehind(b) \in Shorter(Len(BytesBehind(b)))
    <3>1. BytesBehind(b) \in ByteSeqs /\ Len(BytesBehind(b)) = Len(b) - FrameSize(b) /\ FrameSize(b) \in 0 .. Len(b)
      BY BehindIs, FrameFits
    <3>2. Len(BytesBehind(b)) \in Nat
      BY <3>1, FrameFits
    <3>3. Len(BytesBehind(b)) <= Len(b) /\ Len(BytesBehind(b)) <= Len(BytesBehind(b))
      BY <2>1, <3>1, <3>2
    <3> QED
      BY <3>1, <3>2, <3>3 DEF Shorter
  <2>4. all[BytesBehind(b)] = Upto(Len(BytesBehind(b)))[BytesBehind(b)]
    BY <2>3
  <2> HIDE DEF all
  <2>5. Upto(Len(BytesBehind(b)))[BytesBehind(b)] = Upto(Len(b))[BytesBehind(b)]
    <3>1. ParsesUpto(Upto(Len(b)), Len(b)) /\ ParsesUpto(Upto(Len(BytesBehind(b))), Len(BytesBehind(b)))
      BY <1>1, <2>1, <2>3
    <3> QED
      BY <2>1, <2>3, <3>1, ParsersAgree
  <2> QED
    BY <2>2, <2>4, <2>5
<1>3. Is(all)
  <2>1. all = [b \in ByteSeqs |-> all[b]]
    OBVIOUS
  <2> HIDE DEF all
  <2>2. all = [b \in ByteSeqs |-> ParsedWith(all[BytesBehind(b)], b)]
    BY <1>2, <2>1
  <2> QED
    BY <2>2 DEF ParsedWith, BytesBehind, ByteSeqs
<1>4. Parse = CHOOSE f : Is(f)
  BY DEF Parse
<1>5. Is(Parse)
  <2> HIDE DEF Is, all
  <2> QED
    BY <1>3, <1>4
<1>6. Parse = [b \in ByteSeqs |-> ParsedWith(Parse[BytesBehind(b)], b)]
  BY <1>5 DEF ParsedWith, BytesBehind, ByteSeqs
<1> QED
  BY <1>6

Parses == [frames : Seq(AnyFrames), rest : ByteSeqs]

\* A frame that is taken is a command and its bytes.
LEMMA FirstFrameType ==
    ASSUME NEW bytes \in ByteSeqs, FrameSize(bytes) # 0
    PROVE  FirstFrame(bytes) \in AnyFrames
<1>1. /\ FrameSize(bytes) \in 0 .. Len(bytes) /\ Len(bytes) \in Nat /\ bytes[1] \in Nat
      /\ \A i \in 1 .. Len(bytes) : bytes[i] \in Nat
  BY FrameFits, ElementOfSeq DEF ByteSeqs
<1>2. 7 \in Int /\ FrameSize(bytes) \in Int /\ \A i \in 7 .. FrameSize(bytes) : bytes[i] \in Nat
  BY <1>1
<1>3. SubSeq(bytes, 7, FrameSize(bytes)) \in Seq(Nat)
  BY <1>2, SubSeqProperties
<1>4. <<>> \in Seq(Nat)
  BY EmptySeq
<1> QED
  BY <1>1, <1>3, <1>4 DEF FirstFrame, AnyFrames, ByteSeqs

\* What parsing gives: frames, and the bytes left.
LEMMA ParseType == ASSUME NEW bytes \in ByteSeqs PROVE Parse[bytes] \in Parses
<1> DEFINE P == {k \in Nat : \A b \in Shorter(k) : Parse[b] \in Parses}
<1>0. ASSUME NEW b \in ByteSeqs, FrameSize(b) # 0 => Parse[BytesBehind(b)] \in Parses
      PROVE  Parse[b] \in Parses
  <2>1. Parse[b] = ParsedWith(Parse[BytesBehind(b)], b)
    BY ParseUnfolds
  <2>2. CASE FrameSize(b) = 0
    <3>1. <<>> \in Seq(AnyFrames)
      BY EmptySeq
    <3> QED
      BY <2>1, <2>2, <3>1 DEF ParsedWith, Parses
  <2>3. CASE FrameSize(b) # 0
    <3>1. Parse[BytesBehind(b)].frames \in Seq(AnyFrames) /\ Parse[BytesBehind(b)].rest \in ByteSeqs
      BY <1>0, <2>3 DEF Parses
    <3>2. FirstFrame(b) \in AnyFrames
      BY <2>3, FirstFrameType
    <3>3. <<FirstFrame(b)>> \in Seq(AnyFrames)
      BY <3>2
    <3>4. <<FirstFrame(b)>> \o Parse[BytesBehind(b)].frames \in Seq(AnyFrames)
      BY <3>1, <3>3, ConcatProperties
    <3> QED
      BY <2>1, <2>3, <3>1, <3>4 DEF ParsedWith, Parses
  <2> QED
    BY <2>2, <2>3
<1>1. 0 \in P
  <2> SUFFICES ASSUME NEW b \in Shorter(0) PROVE Parse[b] \in Parses
    OBVIOUS
  <2>1. b \in ByteSeqs /\ Len(b) <= 0
    BY DEF Shorter
  <2>2. FrameSize(b) = 0
    BY <2>1, FrameFits
  <2> QED
    BY <1>0, <2>1, <2>2
<1>2. ASSUME NEW k \in P PROVE k + 1 \in P
  <2>0. k \in Nat /\ k + 1 \in Nat
    OBVIOUS
  <2> SUFFICES ASSUME NEW b \in Shorter(k + 1) PROVE Parse[b] \in Parses
    BY <2>0
  <2>1. b \in ByteSeqs /\ Len(b) <= k + 1
    BY DEF Shorter
  <2>2. ASSUME FrameSize(b) # 0 PROVE BytesBehind(b) \in Shorter(k)
    <3>1. BytesBehind(b) \in ByteSeqs /\ Len(BytesBehind(b)) = Len(b) - FrameSize(b)
      BY <2>1, BehindIs
    <3>2. FrameSize(b) \in 0 .. Len(b) /\ Len(b) \in Nat
      BY <2>1, FrameFits
    <3>3. Len(BytesBehind(b)) <= k
      BY <2>0, <2>1, <2>2, <3>1, <3>2
    <3> QED
      BY <3>1, <3>3 DEF Shorter
  <2> QED
    BY <1>0, <2>1, <2>2
<1>3. P \in SUBSET Nat
  OBVIOUS
<1>4. Len(bytes) \in Nat /\ bytes \in Shorter(Len(bytes))
  BY FrameFits DEF Shorter
<1>5. Len(bytes) \in P
  <2> HIDE DEF P
  <2> QED
    BY <1>1, <1>2, <1>3, <1>4, AllNat
<1> QED
  BY <1>4, <1>5

\* More bytes behind them do not change a frame that is complete.
LEMMA FrameStays ==
    ASSUME NEW a \in ByteSeqs, NEW b \in ByteSeqs, FrameSize(a) # 0
    PROVE  /\ a \o b \in ByteSeqs /\ FrameSize(a \o b) = FrameSize(a) /\ FirstFrame(a \o b) = FirstFrame(a)
           /\ BytesBehind(a \o b) = BytesBehind(a) \o b
<1> DEFINE c == a \o b
           n == FrameSize(a)
<1>1. Len(a) \in Nat /\ Len(b) \in Nat /\ n \in 2 .. Len(a)
  <2>1. Len(a) \in Nat /\ Len(b) \in Nat /\ n \in 0 .. Len(a)
    BY FrameFits
  <2>2. n >= 2
    BY FrameFits
  <2> QED
    BY <2>1, <2>2
<1>2. /\ c \in ByteSeqs /\ Len(c) = Len(a) + Len(b)
      /\ \A i \in 1 .. Len(a) + Len(b) : c[i] = IF i <= Len(a) THEN a[i] ELSE b[i - Len(a)]
  BY ConcatProperties DEF ByteSeqs
<1>3. \A i \in 1 .. Len(a) : a[i] \in Nat /\ c[i] = a[i]
  <2>1. \A i \in 1 .. Len(a) : a[i] \in Nat
    BY ElementOfSeq DEF ByteSeqs
  <2>2. \A i \in 1 .. Len(a) : i \in 1 .. Len(a) + Len(b) /\ i <= Len(a)
    BY <1>1
  <2> QED
    BY <1>2, <2>1, <2>2
<1> HIDE DEF c
<1>4. FrameSize(c) = n
  <2>1. Len(a) >= 2 /\ Len(c) >= 2 /\ c[1] = a[1] /\ a[1] \in Nat
    BY <1>1, <1>2, <1>3
  <2>2. CASE a[1] = HEARTBEAT
    BY <2>1, <2>2 DEF FrameSize, n
  <2>3. CASE a[1] # HEARTBEAT
    <3>1. ~ (Len(a) < 6) /\ ~ (Len(a) < 6 + LengthAt(a)) /\ n = 6 + LengthAt(a)
      BY <1>1, <2>1, <2>3 DEF FrameSize, n
    <3>2. Len(a) >= 6 /\ 6 \in 1 .. Len(a)
      BY <1>1, <3>1
    <3>3. LengthAt(c) = LengthAt(a) /\ LengthAt(a) \in Nat
      BY <1>3, <3>2 DEF LengthAt
    <3>4. ~ (Len(c) < 6) /\ ~ (Len(c) < 6 + LengthAt(c)) /\ ~ (Len(c) < 2)
      BY <1>1, <1>2, <3>1, <3>2, <3>3
    <3>5. c[1] # HEARTBEAT
      BY <2>1, <2>3
    <3> QED
      BY <3>1, <3>3, <3>4, <3>5 DEF FrameSize
  <2> QED
    BY <2>2, <2>3
<1>5. SubSeq(c, 7, n) = SubSeq(a, 7, n)
  <2>1. CASE n >= 7
    <3>1. 7 \in 1 .. Len(a) /\ n \in 1 .. Len(a)
      BY <1>1, <2>1
    <3> QED
      BY <3>1, SubSeqOfConcat1 DEF c, ByteSeqs
  <2>2. CASE ~ (n >= 7)
    <3>1. 7 \in Int /\ n \in Int /\ \A i \in 7 .. n : c[i] \in Nat /\ a[i] \in Nat
      BY <1>1, <2>2
    <3>2. /\ SubSeq(c, 7, n) \in Seq(Nat) /\ Len(SubSeq(c, 7, n)) = IF 7 <= n THEN n - 7 + 1 ELSE 0
          /\ SubSeq(a, 7, n) \in Seq(Nat) /\ Len(SubSeq(a, 7, n)) = IF 7 <= n THEN n - 7 + 1 ELSE 0
      BY <3>1, SubSeqProperties
    <3>3. Len(SubSeq(c, 7, n)) = 0 /\ Len(SubSeq(a, 7, n)) = 0
      BY <1>1, <2>2, <3>2
    <3> QED
      BY <3>2, <3>3, EmptySeq
  <2> QED
    BY <2>1, <2>2
<1>6. FirstFrame(c) = FirstFrame(a)
  <2>1. c[1] = a[1]
    BY <1>1, <1>3
  <2> QED
    BY <1>4, <1>5, <2>1 DEF FirstFrame, n
<1>7. BytesBehind(c) = BytesBehind(a) \o b
  <2>1. /\ BytesBehind(a) \in ByteSeqs /\ Len(BytesBehind(a)) = Len(a) - n
        /\ \A i \in 1 .. Len(a) - n : BytesBehind(a)[i] = a[n + i]
    BY BehindIs DEF n
  <2>2. /\ BytesBehind(c) \in ByteSeqs /\ Len(BytesBehind(c)) = Len(c) - n
        /\ \A i \in 1 .. Len(c) - n : BytesBehind(c)[i] = c[n + i]
    <3>1. /\ BytesBehind(c) \in ByteSeqs /\ Len(BytesBehind(c)) = Len(c) - FrameSize(c)
          /\ \A i \in 1 .. Len(c) - FrameSize(c) : BytesBehind(c)[i] = c[FrameSize(c) + i]
      BY <1>2, BehindIs
    <3> HIDE DEF n
    <3> QED
      BY <1>4, <3>1
  <2> DEFINE x == BytesBehind(a)
             y == BytesBehind(c)
  <2>3. /\ x \o b \in ByteSeqs /\ Len(x \o b) = Len(x) + Len(b)
        /\ \A i \in 1 .. Len(x) + Len(b) : (x \o b)[i] = IF i <= Len(x) THEN x[i] ELSE b[i - Len(x)]
    BY <2>1, ConcatProperties DEF ByteSeqs
  <2> HIDE DEF x, y, n
  <2>4. /\ Len(x) = Len(a) - n /\ Len(y) = (Len(a) + Len(b)) - n /\ Len(x) + Len(b) = (Len(a) + Len(b)) - n
        /\ Len(x) \in Nat
    BY <1>1, <1>2, <2>1, <2>2 DEF x, y
  <2>5. ASSUME NEW i \in 1 .. Len(y) PROVE y[i] = (x \o b)[i]
    <3>1. i \in 1 .. Len(c) - n /\ y[i] = c[n + i] /\ n + i \in 1 .. Len(a) + Len(b) /\ i \in 1 .. Len(x) + Len(b)
      BY <1>1, <1>2, <2>2, <2>4 DEF y
    <3>2. CASE i <= Len(x)
      <4>1. i \in 1 .. Len(a) - n /\ n + i <= Len(a)
        BY <1>1, <2>4, <3>2
      <4>2. c[n + i] = a[n + i] /\ x[i] = a[n + i]
        BY <1>2, <2>1, <3>1, <4>1 DEF x
      <4> QED
        BY <2>3, <3>1, <3>2, <4>2
    <3>3. CASE ~ (i <= Len(x))
      <4>1. ~ (n + i <= Len(a)) /\ (n + i) - Len(a) = i - Len(x)
        BY <1>1, <2>4, <3>3
      <4>2. c[n + i] = b[i - Len(x)]
        BY <1>2, <3>1, <4>1
      <4> QED
        BY <2>3, <3>1, <3>3, <4>2
    <3> QED
      BY <3>2, <3>3
  <2>6. Len(y) = Len(x \o b)
    BY <2>3, <2>4
  <2>7. y = x \o b
    <3>1. y \in Seq(Nat) /\ x \o b \in Seq(Nat)
      BY <2>2, <2>3 DEF y, ByteSeqs
    <3> QED
      BY <2>5, <2>6, <3>1, SeqEqual
  <2> QED
    BY <2>7 DEF x, y
<1> QED
  BY <1>2, <1>4, <1>6, <1>7 DEF c, n

\* However the bytes are cut in two: the frames of the first part, and then those of what it
\* left and the second, are the frames of the whole.
ParsesOn(a, b) ==
    /\ Parse[a \o b].frames = Parse[a].frames \o Parse[Parse[a].rest \o b].frames
    /\ Parse[a \o b].rest = Parse[Parse[a].rest \o b].rest

LEMMA CutAnywhere ==
    ASSUME NEW a \in ByteSeqs, NEW b \in ByteSeqs
    PROVE  ParsesOn(a, b)
<1> DEFINE P == {k \in Nat : \A x \in Shorter(k) : ParsesOn(x, b)}
<1>0. ASSUME NEW x \in ByteSeqs, FrameSize(x) # 0 => ParsesOn(BytesBehind(x), b)
      PROVE  ParsesOn(x, b)
  <2>1. Parse[x] = ParsedWith(Parse[BytesBehind(x)], x)
    BY ParseUnfolds
  <2>2. CASE FrameSize(x) = 0
    <3>1. Parse[x].frames = <<>> /\ Parse[x].rest = x
      BY <2>1, <2>2 DEF ParsedWith
    <3>2. x \o b \in ByteSeqs
      BY ConcatProperties DEF ByteSeqs
    <3>3. Parse[x \o b].frames \in Seq(AnyFrames)
      BY <3>2, ParseType DEF Parses
    <3>4. <<>> \o Parse[x \o b].frames = Parse[x \o b].frames
      BY <3>3, ConcatEmptySeq
    <3> QED
      BY <3>1, <3>4 DEF ParsesOn
  <2>3. CASE FrameSize(x) # 0
    <3> DEFINE y == BytesBehind(x)
               f == <<FirstFrame(x)>>
    <3>1. /\ x \o b \in ByteSeqs /\ FrameSize(x \o b) = FrameSize(x) /\ FirstFrame(x \o b) = FirstFrame(x)
          /\ BytesBehind(x \o b) = y \o b
      BY <2>3, FrameStays
    <3>2. Parse[x \o b] = ParsedWith(Parse[BytesBehind(x \o b)], x \o b)
      BY <3>1, ParseUnfolds
    <3>3. Parse[x \o b].frames = f \o Parse[y \o b].frames /\ Parse[x \o b].rest = Parse[y \o b].rest
      BY <2>3, <3>1, <3>2 DEF ParsedWith
    <3>4. Parse[x].frames = f \o Parse[y].frames /\ Parse[x].rest = Parse[y].rest
      BY <2>1, <2>3 DEF ParsedWith
    <3>5. y \in ByteSeqs /\ f \in Seq(AnyFrames)
      <4>1. FirstFrame(x) \in AnyFrames
        BY <2>3, FirstFrameType
      <4> QED
        BY <4>1, BehindIs
    <3> HIDE DEF y, f
    <3>6. Parse[y].frames \in Seq(AnyFrames) /\ Parse[y].rest \in ByteSeqs
      BY <3>5, ParseType DEF Parses
    <3>7. Parse[y].rest \o b \in ByteSeqs
      BY <3>6, ConcatProperties DEF ByteSeqs
    <3>8. Parse[Parse[y].rest \o b].frames \in Seq(AnyFrames)
      BY <3>7, ParseType DEF Parses
    <3>9. /\ Parse[y \o b].frames = Parse[y].frames \o Parse[Parse[y].rest \o b].frames
          /\ Parse[y \o b].rest = Parse[Parse[y].rest \o b].rest
      BY <1>0, <2>3 DEF ParsesOn, y
    <3> DEFINE p == Parse[y].frames
               r == Parse[Parse[y].rest \o b].frames
    <3>10. p \in Seq(AnyFrames) /\ r \in Seq(AnyFrames)
      BY <3>6, <3>8
    <3>11. Parse[x \o b].frames = f \o (p \o r) /\ Parse[x].frames = f \o p
      BY <3>3, <3>4, <3>9
    <3>12. Parse[Parse[x].rest \o b].frames = r
      BY <3>4
    <3> HIDE DEF p, r
    <3>13. (f \o p) \o r = f \o (p \o r)
      BY <3>5, <3>10, ConcatAssociative
    <3>14. Parse[x \o b].frames = Parse[x].frames \o Parse[Parse[x].rest \o b].frames
      BY <3>11, <3>12, <3>13
    <3> QED
      BY <3>3, <3>4, <3>9, <3>14 DEF ParsesOn
  <2> QED
    BY <2>2, <2>3
<1>1. 0 \in P
  <2> SUFFICES ASSUME NEW x \in Shorter(0) PROVE ParsesOn(x, b)
    OBVIOUS
  <2>1. x \in ByteSeqs /\ Len(x) <= 0
    BY DEF Shorter
  <2>2. FrameSize(x) = 0
    BY <2>1, FrameFits
  <2> QED
    BY <1>0, <2>1, <2>2
<1>2. ASSUME NEW k \in P PROVE k + 1 \in P
  <2>0. k \in Nat /\ k + 1 \in Nat
    OBVIOUS
  <2> SUFFICES ASSUME NEW x \in Shorter(k + 1) PROVE ParsesOn(x, b)
    BY <2>0
  <2>1. x \in ByteSeqs /\ Len(x) <= k + 1
    BY DEF Shorter
  <2>2. ASSUME FrameSize(x) # 0 PROVE BytesBehind(x) \in Shorter(k)
    <3>1. BytesBehind(x) \in ByteSeqs /\ Len(BytesBehind(x)) = Len(x) - FrameSize(x)
      BY <2>1, BehindIs
    <3>2. FrameSize(x) \in 0 .. Len(x) /\ Len(x) \in Nat
      BY <2>1, FrameFits
    <3>3. Len(BytesBehind(x)) <= k
      BY <2>0, <2>1, <2>2, <3>1, <3>2
    <3> QED
      BY <3>1, <3>3 DEF Shorter
  <2> QED
    BY <1>0, <2>1, <2>2
<1>3. P \in SUBSET Nat
  OBVIOUS
<1>4. Len(a) \in Nat /\ a \in Shorter(Len(a))
  BY FrameFits DEF Shorter
<1>5. Len(a) \in P
  <2> HIDE DEF P
  <2> QED
    BY <1>1, <1>2, <1>3, <1>4, AllNat
<1> QED
  BY <1>4, <1>5

\* A payload of the model is a byte sequence of at most two bytes.
LEMMA FrameType ==
    ASSUME NEW f \in Frames
    PROVE  /\ f \in AnyFrames /\ f.cmd \in {AUTH, HEARTBEAT, APP} /\ f.payload \in ByteSeqs
           /\ Len(f.payload) \in 0 .. 2 /\ f = [cmd |-> f.cmd, payload |-> f.payload]
           /\ f.cmd = HEARTBEAT => f.payload = <<>>
<1>1. CASE f = [cmd |-> HEARTBEAT, payload |-> <<>>]
  BY <1>1, EmptySeq DEF AnyFrames, ByteSeqs, AUTH, HEARTBEAT, APP
<1>2. CASE \E token \in 7 .. 9 : f = [cmd |-> AUTH, payload |-> <<token>>]
  <2>1. PICK token \in 7 .. 9 : f = [cmd |-> AUTH, payload |-> <<token>>]
    BY <1>2
  <2>2. <<token>> \in Seq(Nat) /\ Len(<<token>>) = 1
    OBVIOUS
  <2> QED
    BY <2>1, <2>2 DEF AnyFrames, ByteSeqs, AUTH, HEARTBEAT, APP
<1>3. CASE \E p \in {<<>>, <<2, 2>>} : f = [cmd |-> APP, payload |-> p]
  <2>1. PICK p \in {<<>>, <<2, 2>>} : f = [cmd |-> APP, payload |-> p]
    BY <1>3
  <2>2. p \in Seq(Nat) /\ Len(p) \in 0 .. 2
    <3>1. CASE p = <<>>
      BY <3>1, EmptySeq
    <3>2. CASE p = <<2, 2>>
      BY <3>2
    <3> QED
      BY <3>1, <3>2
  <2> QED
    BY <2>1, <2>2 DEF AnyFrames, ByteSeqs, AUTH, HEARTBEAT, APP
<1> QED
  BY <1>1, <1>2, <1>3 DEF Frames

\* What a client writes of a frame is read as that frame.
LEMMA OneFrame ==
    ASSUME NEW f \in Frames
    PROVE  Bytes(f) \in ByteSeqs /\ Parse[Bytes(f)] = [frames |-> <<f>>, rest |-> <<>>]
<1> DEFINE b == Bytes(f)
<1>0. /\ f \in AnyFrames /\ f.cmd \in {AUTH, HEARTBEAT, APP} /\ f.payload \in ByteSeqs
      /\ Len(f.payload) \in 0 .. 2 /\ f = [cmd |-> f.cmd, payload |-> f.payload]
      /\ f.cmd = HEARTBEAT => f.payload = <<>>
  BY FrameType
<1>1. b \in ByteSeqs /\ FrameSize(b) = Len(b) /\ Len(b) \in Nat \ {0} /\ FirstFrame(b) = f
  <2>1. CASE f.cmd = HEARTBEAT
    <3>1. b = <<f.cmd, Region>>
      BY <2>1 DEF Bytes
    <3>2. b \in Seq(Nat) /\ Len(b) = 2 /\ b[1] = HEARTBEAT
      BY <2>1, <3>1 DEF Region, HEARTBEAT
    <3> QED
      BY <1>0, <2>1, <3>2 DEF FrameSize, FirstFrame, ByteSeqs
  <2>2. CASE f.cmd # HEARTBEAT
    <3> DEFINE h == <<f.cmd, Region, 0, 0, 0, Len(f.payload)>>
               p == f.payload
    <3>1. b = h \o p
      BY <2>2 DEF Bytes
    <3>2. /\ h \in Seq(Nat) /\ Len(h) = 6 /\ h[1] = f.cmd /\ h[6] = Len(p) /\ p \in Seq(Nat)
          /\ Len(p) \in 0 .. 2
      BY <1>0 DEF Region, AUTH, HEARTBEAT, APP, ByteSeqs
    <3> HIDE DEF h, p
    <3>3. /\ h \o p \in Seq(Nat) /\ Len(h \o p) = Len(h) + Len(p)
          /\ \A i \in 1 .. Len(h) + Len(p) : (h \o p)[i] = IF i <= Len(h) THEN h[i] ELSE p[i - Len(h)]
      BY <3>2, ConcatProperties
    <3> HIDE DEF b
    <3>4. b \in Seq(Nat) /\ Len(b) = 6 + Len(p) /\ b[1] = f.cmd /\ b[6] = Len(p)
      <4>1. 1 \in 1 .. Len(h) + Len(p) /\ 6 \in 1 .. Len(h) + Len(p) /\ 1 <= Len(h) /\ 6 <= Len(h)
        BY <3>2
      <4> QED
        BY <3>1, <3>2, <3>3, <4>1
    <3>5. FrameSize(b) = Len(b) /\ Len(b) \in Nat \ {0}
      BY <2>2, <3>2, <3>4 DEF FrameSize, LengthAt
    <3>6. SubSeq(b, 7, Len(b)) = p
      <4>1. \A i \in 1 .. Len(b) : b[i] \in Nat
        BY <3>4, ElementOfSeq
      <4>2. 7 \in Int /\ Len(b) \in Int /\ \A i \in 7 .. Len(b) : b[i] \in Nat
        BY <3>2, <3>4, <4>1
      <4>3. /\ SubSeq(b, 7, Len(b)) \in Seq(Nat)
            /\ Len(SubSeq(b, 7, Len(b))) = IF 7 <= Len(b) THEN Len(b) - 7 + 1 ELSE 0
            /\ \A i \in 1 .. Len(b) - 7 + 1 : SubSeq(b, 7, Len(b))[i] = b[7 + i - 1]
        BY <4>2, SubSeqProperties
      <4>4. Len(SubSeq(b, 7, Len(b))) = Len(p)
        BY <3>2, <3>4, <4>3
      <4>5. ASSUME NEW i \in 1 .. Len(p) PROVE SubSeq(b, 7, Len(b))[i] = p[i]
        <5> DEFINE m == Len(p)
        <5>0. m \in Nat /\ i \in 1 .. m /\ Len(h) = 6 /\ Len(b) = 6 + m
          BY <3>2, <3>4
        <5> HIDE DEF m
        <5>1. /\ i \in 1 .. Len(b) - 7 + 1 /\ 7 + i - 1 = 6 + i
              /\ 6 + i \in 1 .. Len(h) + m /\ ~ (6 + i <= Len(h)) /\ (6 + i) - Len(h) = i
          BY <5>0
        <5>2. SubSeq(b, 7, Len(b))[i] = b[6 + i]
          BY <4>3, <5>1
        <5> QED
          BY <3>1, <3>3, <5>1, <5>2 DEF m
      <4>6. \A i \in 1 .. Len(SubSeq(b, 7, Len(b))) : SubSeq(b, 7, Len(b))[i] = p[i]
        BY <4>4, <4>5
      <4> QED
        BY <3>2, <4>3, <4>4, <4>6, SeqEqual
    <3>7. FirstFrame(b) = [cmd |-> f.cmd, payload |-> p]
      BY <2>2, <3>4, <3>5, <3>6 DEF FirstFrame
    <3> QED
      BY <1>0, <3>4, <3>5, <3>7 DEF ByteSeqs, p
  <2> QED
    BY <2>1, <2>2
<1> HIDE DEF b
<1>2. BytesBehind(b) = <<>>
  <2>1. BytesBehind(b) \in Seq(Nat) /\ Len(BytesBehind(b)) = Len(b) - FrameSize(b)
    BY <1>1, BehindIs DEF ByteSeqs
  <2>2. Len(BytesBehind(b)) = 0
    BY <1>1, <2>1
  <2> QED
    BY <2>1, <2>2, EmptySeq
<1>3. Parse[<<>>] = [frames |-> <<>>, rest |-> <<>>]
  <2>1. <<>> \in ByteSeqs /\ Len(<<>>) = 0
    BY EmptySeq DEF ByteSeqs
  <2>2. FrameSize(<<>>) = 0
    BY <2>1, FrameFits
  <2> QED
    BY <2>1, <2>2, ParseUnfolds DEF ParsedWith
<1>4. Parse[b] = [frames |-> <<f>> \o <<>>, rest |-> <<>>]
  <2>1. FrameSize(b) # 0
    BY <1>1
  <2> QED
    <3>1. Parse[b] = ParsedWith(Parse[BytesBehind(b)], b)
      BY <1>1, ParseUnfolds
    <3> QED
      BY <1>1, <1>2, <1>3, <2>1, <3>1 DEF ParsedWith
<1>5. <<f>> \o <<>> = <<f>>
  <2>1. <<f>> \in Seq(AnyFrames)
    BY <1>0
  <2> QED
    BY <2>1, ConcatEmptySeq
<1> QED
  BY <1>1, <1>4, <1>5 DEF b

\* A sequence is its head and its tail.
LEMMA HeadTailIs ==
    ASSUME NEW S, NEW q \in Seq(S), q # <<>>
    PROVE  <<Head(q)>> \o Tail(q) = q
<1> DEFINE h == <<Head(q)>>
           t == Tail(q)
<1>1. /\ Head(q) \in S /\ Head(q) = q[1] /\ t \in Seq(S) /\ Len(t) = Len(q) - 1 /\ Len(q) \in Nat \ {0}
      /\ \A i \in 1 .. Len(t) : t[i] = q[i + 1]
  BY HeadTailProperties, EmptySeq
<1>2. h \in Seq(S) /\ Len(h) = 1 /\ h[1] = q[1]
  BY <1>1
<1> HIDE DEF h, t
<1>3. /\ h \o t \in Seq(S) /\ Len(h \o t) = Len(h) + Len(t)
      /\ \A i \in 1 .. Len(h) + Len(t) : (h \o t)[i] = IF i <= Len(h) THEN h[i] ELSE t[i - Len(h)]
  BY <1>1, <1>2, ConcatProperties
<1>4. Len(h) + Len(t) = Len(q) /\ Len(t) = Len(q) - 1 /\ Len(q) \in Nat \ {0}
  BY <1>1, <1>2
<1>5. ASSUME NEW i \in 1 .. Len(q) PROVE (h \o t)[i] = q[i]
  <2>1. CASE i = 1
    <3>1. i <= Len(h) /\ i \in 1 .. Len(h) + Len(t)
      BY <1>2, <1>4, <2>1
    <3> QED
      BY <1>2, <1>3, <2>1, <3>1
  <2>2. CASE i # 1
    <3>1. ~ (i <= Len(h)) /\ i \in 1 .. Len(h) + Len(t) /\ i - Len(h) = i - 1 /\ i - 1 \in 1 .. Len(t) /\ (i - 1) + 1 = i
      BY <1>2, <1>4, <2>2
    <3> QED
      BY <1>1, <1>3, <3>1
  <2> QED
    BY <2>1, <2>2
<1>6. h \o t = q
  BY <1>3, <1>4, <1>5, SeqEqual
<1> QED
  BY <1>6 DEF h, t

\* The bytes of a client's frames, each on its own.
Writes(s) == [i \in DOMAIN s |-> Bytes(s[i])]

\* They are byte strings, one for each frame, and those of the tail are the tail of them.
LEMMA WritesIs ==
    ASSUME NEW s \in Seq(Frames)
    PROVE  /\ Writes(s) \in Seq(ByteSeqs) /\ Len(Writes(s)) = Len(s)
           /\ s # <<>> => Head(Writes(s)) = Bytes(Head(s)) /\ Tail(Writes(s)) = Writes(Tail(s)) /\ Writes(s) # <<>>
<1>1. Len(s) \in Nat /\ DOMAIN s = 1 .. Len(s) /\ \A i \in 1 .. Len(s) : s[i] \in Frames /\ Bytes(s[i]) \in ByteSeqs
  BY LenProperties, ElementOfSeq, OneFrame
<1>2. Writes(s) \in Seq(ByteSeqs) /\ Len(Writes(s)) = Len(s) /\ \A i \in 1 .. Len(s) : Writes(s)[i] = Bytes(s[i])
  BY <1>1 DEF Writes
<1>3. ASSUME s # <<>> PROVE Head(Writes(s)) = Bytes(Head(s)) /\ Tail(Writes(s)) = Writes(Tail(s)) /\ Writes(s) # <<>>
  <2> DEFINE t == Tail(s)
  <2>1. t \in Seq(Frames) /\ Len(t) = Len(s) - 1 /\ Head(s) = s[1] /\ \A i \in 1 .. Len(t) : t[i] = s[i + 1]
    BY <1>3, HeadTailProperties
  <2>2. Len(s) \in Nat \ {0}
    BY <1>3, EmptySeq
  <2>3. Writes(s) # <<>>
    BY <1>2, <2>2, EmptySeq
  <2>4. /\ Tail(Writes(s)) \in Seq(ByteSeqs) /\ Len(Tail(Writes(s))) = Len(s) - 1 /\ Head(Writes(s)) = Writes(s)[1]
        /\ \A i \in 1 .. Len(s) - 1 : Tail(Writes(s))[i] = Writes(s)[i + 1]
    BY <1>2, <2>3, HeadTailProperties
  <2> HIDE DEF t
  <2>5. Len(t) \in Nat /\ DOMAIN t = 1 .. Len(t) /\ \A i \in 1 .. Len(t) : t[i] \in Frames /\ Bytes(t[i]) \in ByteSeqs
    BY <2>1, LenProperties, ElementOfSeq, OneFrame
  <2>6. Writes(t) \in Seq(ByteSeqs) /\ Len(Writes(t)) = Len(t) /\ \A i \in 1 .. Len(t) : Writes(t)[i] = Bytes(t[i])
    BY <2>5 DEF Writes
  <2>7. ASSUME NEW i \in 1 .. Len(s) - 1 PROVE Tail(Writes(s))[i] = Writes(t)[i]
    <3>1. i \in 1 .. Len(t) /\ i + 1 \in 1 .. Len(s)
      BY <1>1, <2>1, <2>2
    <3>2. Writes(t)[i] = Bytes(t[i]) /\ t[i] = s[i + 1] /\ Writes(s)[i + 1] = Bytes(s[i + 1])
      BY <1>2, <2>1, <2>6, <3>1
    <3> QED
      BY <2>4, <3>2
  <2>8. Tail(Writes(s)) = Writes(t)
    <3>1. Len(Tail(Writes(s))) = Len(Writes(t)) /\ \A i \in 1 .. Len(Tail(Writes(s))) : Tail(Writes(s))[i] = Writes(t)[i]
      BY <2>1, <2>4, <2>6, <2>7
    <3> QED
      BY <2>4, <2>6, <3>1, SeqEqual
  <2>9. Head(Writes(s)) = Bytes(Head(s))
    <3>1. 1 \in 1 .. Len(s)
      BY <2>2
    <3> QED
      BY <1>2, <2>1, <2>4, <3>1
  <2> QED
    BY <2>3, <2>8, <2>9 DEF t
<1> QED
  BY <1>2, <1>3

\* The stream is a byte string, and parsing all of it at once gives the frames that were written.
LEMMA StreamIsRead ==
    ASSUME NEW s \in Seq(Frames)
    PROVE  Stream(s) \in ByteSeqs /\ Parse[Stream(s)].frames = s
<1> DEFINE Good(x) == Stream(x) \in ByteSeqs /\ Parse[Stream(x)].frames = x
           P == {k \in Nat : \A x \in Seq(Frames) : Len(x) = k => Good(x)}
<1>0. ASSUME NEW x \in Seq(Frames) PROVE Stream(x) = FlattenSeq(Writes(x)) /\ Stream(x) \in ByteSeqs
  <2>1. Stream(x) = FlattenSeq(Writes(x))
    BY DEF Stream, Writes
  <2>2. Writes(x) \in Seq(Seq(Nat))
    BY WritesIs DEF ByteSeqs
  <2> QED
    BY <2>1, <2>2, FlattenSeqType DEF ByteSeqs
<1>1. 0 \in P
  <2> SUFFICES ASSUME NEW x \in Seq(Frames), Len(x) = 0 PROVE Good(x)
    OBVIOUS
  <2>1. x = <<>> /\ Len(Writes(x)) = 0 /\ Writes(x) \in Seq(ByteSeqs)
    BY WritesIs, EmptySeq
  <2>2. Writes(x) = <<>>
    BY <2>1, EmptySeq
  <2>3. Stream(x) = <<>>
    BY <1>0, <2>2, FlattenNone
  <2>4. <<>> \in ByteSeqs /\ Len(<<>>) = 0
    BY EmptySeq DEF ByteSeqs
  <2>5. FrameSize(<<>>) = 0
    BY <2>4, FrameFits
  <2>6. Parse[<<>>] = ParsedWith(Parse[BytesBehind(<<>>)], <<>>)
    BY <2>4, ParseUnfolds
  <2>7. Parse[<<>>].frames = <<>>
    BY <2>5, <2>6 DEF ParsedWith
  <2> QED
    BY <2>1, <2>3, <2>4, <2>7
<1>2. ASSUME NEW k \in P PROVE k + 1 \in P
  <2>0. k \in Nat /\ k + 1 \in Nat
    OBVIOUS
  <2> SUFFICES ASSUME NEW x \in Seq(Frames), Len(x) = k + 1 PROVE Good(x)
    BY <2>0
  <2> DEFINE t == Tail(x)
             b == Bytes(Head(x))
  <2>1. x # <<>>
    BY <2>0, EmptySeq
  <2>2. t \in Seq(Frames) /\ Len(t) = k /\ Head(x) \in Frames
    BY <2>0, <2>1, HeadTailProperties
  <2>3. Good(t)
    BY <2>2
  <2>4. Stream(x) = b \o Stream(t)
    <3>1. Writes(x) \in Seq(Seq(Nat)) /\ Writes(x) # <<>> /\ Head(Writes(x)) = b /\ Tail(Writes(x)) = Writes(t)
      BY <2>1, WritesIs DEF ByteSeqs
    <3>2. FlattenSeq(Writes(x)) = Head(Writes(x)) \o FlattenSeq(Tail(Writes(x)))
      BY <3>1, FlattenTail
    <3> HIDE DEF b, t
    <3> QED
      BY <1>0, <2>2, <3>1, <3>2
  <2>5. b \in ByteSeqs /\ Parse[b] = [frames |-> <<Head(x)>>, rest |-> <<>>]
    BY <2>2, OneFrame
  <2>6. Parse[b \o Stream(t)].frames = Parse[b].frames \o Parse[Parse[b].rest \o Stream(t)].frames
    <3>1. Stream(t) \in ByteSeqs
      BY <2>3
    <3> HIDE DEF b, t
    <3> QED
      BY <2>5, <3>1, CutAnywhere DEF ParsesOn
  <2>7. <<>> \o Stream(t) = Stream(t)
    BY <2>3, ConcatEmptySeq DEF ByteSeqs
  <2>8. <<Head(x)>> \o t = x
    BY <2>1, <2>2, HeadTailIs
  <2> HIDE DEF b
  <2>9. Parse[Stream(x)].frames = <<Head(x)>> \o t
    <3>1. Parse[b].frames = <<Head(x)>> /\ Parse[b].rest = <<>>
      BY <2>5
    <3>2. Parse[Stream(t)].frames = t
      BY <2>3
    <3> HIDE DEF t
    <3> QED
      BY <2>4, <2>6, <2>7, <3>1, <3>2
  <2> QED
    BY <1>0, <2>8, <2>9
<1>3. P \in SUBSET Nat
  OBVIOUS
<1>4. Len(s) \in Nat
  BY LenProperties
<1>5. Len(s) \in P
  <2> HIDE DEF P
  <2> QED
    BY <1>1, <1>2, <1>3, <1>4, AllNat
<1> QED
  BY <1>5

\* Handing the first of a sequence over to the end of another keeps what the two make together.
LEMMA HandedOver ==
    ASSUME NEW S, NEW a \in Seq(S), NEW q \in Seq(S), q # <<>>
    PROVE  Append(a, Head(q)) \o Tail(q) = a \o q
<1> DEFINE h == Head(q)
           t == Tail(q)
<1>1. h \in S /\ t \in Seq(S)
  BY HeadTailProperties
<1>2. <<h>> \o t = q
  BY HeadTailIs
<1> HIDE DEF h, t
<1>3. Append(a, h) = a \o <<h>>
  BY <1>1, AppendIsConcat
<1>4. <<h>> \in Seq(S)
  BY <1>1
<1>5. (a \o <<h>>) \o t = a \o (<<h>> \o t)
  BY <1>1, <1>4, ConcatAssociative
<1> QED
  BY <1>2, <1>3, <1>5 DEF h, t

\* The whole of a sequence, cut at n.
LEMMA CutAt ==
    ASSUME NEW S, NEW q \in Seq(S), NEW n \in 0 .. Len(q), NEW m \in n .. Len(q)
    PROVE  /\ SubSeq(q, n + 1, m) \in Seq(S) /\ SubSeq(q, m + 1, Len(q)) \in Seq(S)
           /\ SubSeq(q, n + 1, m) \o SubSeq(q, m + 1, Len(q)) = SubSeq(q, n + 1, Len(q))
<1>1. Len(q) \in Nat /\ \A i \in 1 .. Len(q) : q[i] \in S
  BY LenProperties, ElementOfSeq
<1>2. /\ n + 1 \in Int /\ m + 1 \in Int /\ m \in Int /\ Len(q) \in Int
      /\ \A i \in n + 1 .. m : q[i] \in S
  BY <1>1
<1>3. \A i \in m + 1 .. Len(q) : q[i] \in S
  BY <1>1
<1>4. SubSeq(q, n + 1, m) \in Seq(S)
  BY <1>2, SubSeqProperties
<1>5. SubSeq(q, m + 1, Len(q)) \in Seq(S)
  BY <1>2, <1>3, SubSeqProperties
<1>6. n + 1 \in 1 .. Len(q) + 1 /\ m \in (n + 1) - 1 .. Len(q) /\ Len(q) \in m .. Len(q)
  BY <1>1
<1> QED
  BY <1>4, <1>5, <1>6, ConcatAdjacentSubSeq

\* And all of it is itself.
LEMMA WholeOf == ASSUME NEW S, NEW q \in Seq(S) PROVE SubSeq(q, 0 + 1, Len(q)) = q
<1>1. Len(q) \in Nat /\ \A i \in 1 .. Len(q) : q[i] \in S
  BY LenProperties, ElementOfSeq
<1>2. 0 + 1 = 1 /\ 1 \in Int /\ Len(q) \in Int
  BY <1>1
<1>3. /\ SubSeq(q, 1, Len(q)) \in Seq(S) /\ Len(SubSeq(q, 1, Len(q))) = IF 1 <= Len(q) THEN Len(q) - 1 + 1 ELSE 0
      /\ \A i \in 1 .. Len(q) - 1 + 1 : SubSeq(q, 1, Len(q))[i] = q[1 + i - 1]
  BY <1>1, <1>2, SubSeqProperties
<1>4. Len(SubSeq(q, 1, Len(q))) = Len(q)
  BY <1>1, <1>3
<1>5. ASSUME NEW i \in 1 .. Len(q) PROVE SubSeq(q, 1, Len(q))[i] = q[i]
  <2>1. i \in 1 .. Len(q) - 1 + 1 /\ 1 + i - 1 = i
    BY <1>1
  <2> QED
    BY <1>3, <2>1
<1>6. SubSeq(q, 1, Len(q)) = q
  BY <1>3, <1>4, <1>5, SeqEqual
<1> QED
  BY <1>2, <1>6

Outcomes == [frame : AnyFrames, as : {"echoed", "refused", "none", "player"}, when : {"open", "destroyed", "closed"}]

FramesHandled == [i \in DOMAIN outcomes |-> outcomes[i].frame]
ToCome == buf \o FlattenSeq(queue) \o SubSeq(Stream(script), sent + 1, Len(Stream(script)))

\* An AUTH was accepted, at any time or when the socket had closed.
Accepted(i) == outcomes[i].frame.cmd = AUTH /\ outcomes[i].as = "player"

ConnTypes ==
    /\ script \in Seq(Frames) /\ sent \in 0 .. Len(Stream(script))
    /\ queue \in Seq(ByteSeqs) /\ Len(queue) <= MaxWaiting /\ buf \in ByteSeqs
    /\ frames \in Seq(AnyFrames) /\ outcomes \in Seq(Outcomes)
    /\ pc \in {"idle", "token", "ban"} /\ (pc # "idle" => frames # <<>> /\ Head(frames).cmd = AUTH)
    /\ entry \in {"none", "player"} /\ session \in {"none", "player"}
    /\ socket \in {"open", "destroyed", "closed"}

\* The entry is there once an AUTH was accepted, the session only with it, and after the close
\* event only when one was accepted after it.
ConnInv ==
    /\ ConnTypes
    /\ FramesHandled \o frames \o Parse[ToCome].frames = script
    /\ entry = "player" <=> \E i \in DOMAIN outcomes : Accepted(i)
    /\ session = "player" => entry = "player"
    /\ RoutedForItsAccount /\ ClosedHasNoSession

\* Nothing is lost at first: all of it is to come.
LEMMA ConnStarts == ASSUME ConnectionInit PROVE ConnInv
<1>0. script \in Seq(Frames)
  <2>1. PICK n \in 1 .. MaxFrames : script \in [1 .. n -> Frames]
    BY DEF ConnectionInit
  <2>2. n \in Nat
    BY <2>1, ConnectionAssumption
  <2> QED
    BY <2>1, <2>2
<1>1. Stream(script) \in ByteSeqs /\ Parse[Stream(script)].frames = script /\ Len(Stream(script)) \in Nat
  BY <1>0, StreamIsRead, LenProperties DEF ByteSeqs
<1>2. <<>> \in Seq(ByteSeqs) /\ <<>> \in ByteSeqs /\ <<>> \in Seq(AnyFrames) /\ <<>> \in Seq(Outcomes) /\ Len(<<>>) = 0
  BY EmptySeq DEF ByteSeqs
<1>3. ConnTypes
  BY <1>0, <1>1, <1>2, ConnectionAssumption DEF ConnTypes, ConnectionInit
<1>4. ToCome = Stream(script)
  <2>1. FlattenSeq(queue) = <<>> /\ buf = <<>> /\ sent = 0
    BY FlattenNone DEF ConnectionInit
  <2>2. <<>> \o <<>> = <<>>
    BY <1>2, ConcatEmptySeq
  <2>3. SubSeq(Stream(script), 0 + 1, Len(Stream(script))) = Stream(script)
    BY <1>1, WholeOf DEF ByteSeqs
  <2>4. <<>> \o Stream(script) = Stream(script)
    BY <1>1, ConcatEmptySeq DEF ByteSeqs
  <2> QED
    BY <2>1, <2>2, <2>3, <2>4 DEF ToCome
<1>5. DOMAIN outcomes = {}
  <2>1. outcomes = <<>>
    BY DEF ConnectionInit
  <2>2. Len(outcomes) = 0 /\ DOMAIN outcomes = 1 .. Len(outcomes)
    BY <1>2, <2>1, LenProperties
  <2> QED
    BY <2>2
<1>6. FramesHandled = <<>>
  <2>1. FramesHandled \in Seq(AnyFrames) /\ Len(FramesHandled) = 0
    <3>1. FramesHandled = [i \in 1 .. 0 |-> outcomes[i].frame]
      BY <1>5 DEF FramesHandled
    <3> QED
      BY <3>1
  <2> QED
    BY <2>1, EmptySeq
<1>7. FramesHandled \o frames \o Parse[ToCome].frames = script
  <2>1. <<>> \o <<>> = <<>> /\ <<>> \o script = script
    BY <1>0, <1>2, ConcatEmptySeq
  <2>2. frames = <<>>
    BY DEF ConnectionInit
  <2> QED
    BY <1>1, <1>4, <1>6, <2>1, <2>2
<1>8. RoutedForItsAccount
  BY <1>5 DEF RoutedForItsAccount
<1>9. entry = "none" /\ session = "none" /\ ClosedHasNoSession
  BY DEF ConnectionInit, ClosedHasNoSession
<1> QED
  BY <1>3, <1>5, <1>7, <1>8, <1>9 DEF ConnInv

\* Bytes end to end.
LEMMA BytesJoin ==
    ASSUME NEW a \in ByteSeqs, NEW b \in ByteSeqs, NEW c \in ByteSeqs
    PROVE  (a \o b) \o c = a \o (b \o c)
<1> DEFINE S == Nat
<1>1. a \in Seq(S) /\ b \in Seq(S) /\ c \in Seq(S)
  BY DEF ByteSeqs
<1> HIDE DEF S
<1> QED
  BY <1>1, ConcatAssociative

\* What is to come is bytes, and so is each part of it.
LEMMA ToComeType ==
    ASSUME ConnTypes
    PROVE  /\ Stream(script) \in ByteSeqs /\ FlattenSeq(queue) \in ByteSeqs
           /\ Len(Stream(script)) \in Nat /\ sent \in 0 .. Len(Stream(script))
           /\ SubSeq(Stream(script), sent + 1, Len(Stream(script))) \in ByteSeqs
           /\ ToCome \in ByteSeqs /\ FramesHandled \in Seq(AnyFrames) /\ Len(FramesHandled) = Len(outcomes)
<1>1. script \in Seq(Frames) /\ sent \in 0 .. Len(Stream(script)) /\ queue \in Seq(Seq(Nat)) /\ buf \in Seq(Nat) /\ outcomes \in Seq(Outcomes)
  BY DEF ConnTypes, ByteSeqs
<1>2. Stream(script) \in Seq(Nat) /\ FlattenSeq(queue) \in Seq(Nat)
  BY <1>1, StreamIsRead, FlattenSeqType DEF ByteSeqs
<1>3. Len(Stream(script)) \in Nat
  BY <1>2, LenProperties
<1>4. sent \in 0 .. Len(Stream(script)) /\ Len(Stream(script)) \in sent .. Len(Stream(script))
  BY <1>1, <1>3
<1>5. SubSeq(Stream(script), sent + 1, Len(Stream(script))) \in Seq(Nat)
  BY <1>2, <1>4, CutAt
<1>6. buf \o FlattenSeq(queue) \in Seq(Nat)
  BY <1>1, <1>2, ConcatProperties
<1>7. ToCome \in Seq(Nat)
  BY <1>5, <1>6, ConcatProperties DEF ToCome
<1>8. FramesHandled \in Seq(AnyFrames) /\ Len(FramesHandled) = Len(outcomes)
  <2>1. Len(outcomes) \in Nat /\ DOMAIN outcomes = 1 .. Len(outcomes) /\ \A i \in 1 .. Len(outcomes) : outcomes[i] \in Outcomes
    BY <1>1, LenProperties, ElementOfSeq
  <2>2. \A i \in 1 .. Len(outcomes) : outcomes[i].frame \in AnyFrames
    BY <2>1 DEF Outcomes
  <2> QED
    BY <2>1, <2>2 DEF FramesHandled
<1> QED
  BY <1>1, <1>2, <1>3, <1>5, <1>7, <1>8 DEF ByteSeqs

\* A chunk that is received goes from what was not sent to the end of the queue.
LEMMA ReceiveKeeps ==
    ASSUME ConnTypes, NEW n \in 1 .. Len(Stream(script)) - sent, Receive(n)
    PROVE  ConnTypes' /\ ToCome' = ToCome
<1> DEFINE s == Stream(script)
           c == SubSeq(s, sent + 1, sent + n)
           r == SubSeq(s, sent + n + 1, Len(s))
           w == SubSeq(s, sent + 1, Len(s))
           q == FlattenSeq(queue)
<1>1. /\ s \in ByteSeqs /\ q \in ByteSeqs /\ Len(s) \in Nat /\ sent \in 0 .. Len(s)
  BY ToComeType
<1>2. sent' = sent + n /\ queue' = Append(queue, c) /\ buf' = buf /\ script' = script /\ Len(queue) < MaxWaiting
  BY DEF Receive
<1>3. sent + n \in sent .. Len(s) /\ sent + n \in 0 .. Len(s)
  BY <1>1
<1>4. c \in Seq(Nat) /\ r \in Seq(Nat) /\ c \o r = w
  BY <1>1, <1>3, CutAt DEF ByteSeqs
<1>5. queue \in Seq(ByteSeqs) /\ buf \in Seq(Nat) /\ queue \in Seq(Seq(Nat)) /\ q \in Seq(Nat)
  BY <1>1 DEF ConnTypes, ByteSeqs
<1>6. queue' \in Seq(ByteSeqs) /\ Len(queue') = Len(queue) + 1 /\ Len(queue) \in Nat
  <2>1. c \in ByteSeqs
    BY <1>4 DEF ByteSeqs
  <2> HIDE DEF c
  <2> QED
    BY <1>2, <1>5, <2>1, AppendedIn, AppendedLen, LenProperties
<1>7. FlattenSeq(queue') = q \o c
  <2> HIDE DEF c
  <2> QED
    BY <1>2, <1>4, <1>5, FlattenAppend
<1>8. ToCome' = buf \o FlattenSeq(queue') \o SubSeq(s, sent' + 1, Len(s))
  BY <1>2 DEF ToCome
<1>9. sent' + 1 = sent + n + 1
  BY <1>1, <1>2
<1>10. ToCome' = (buf \o (q \o c)) \o r
  BY <1>7, <1>8, <1>9
<1>11. ToCome = (buf \o q) \o w
  BY DEF ToCome
<1>12. Stream(script') = s
  BY <1>2
<1> HIDE DEF s, c, r, w, q
<1>13. (buf \o q) \o c = buf \o (q \o c) /\ buf \o q \in Seq(Nat)
  <2>1. buf \o q \in Seq(Nat)
    BY <1>5, ConcatProperties
  <2> QED
    BY <1>4, <1>5, <2>1, BytesJoin DEF ByteSeqs
<1>14. ((buf \o q) \o c) \o r = (buf \o q) \o (c \o r)
  BY <1>4, <1>13, BytesJoin DEF ByteSeqs
<1>15. ToCome' = ToCome
  BY <1>4, <1>10, <1>11, <1>13, <1>14
<1>16. MaxWaiting \in Nat
  BY ConnectionAssumption
<1>17. Len(queue') <= MaxWaiting
  BY <1>2, <1>6, <1>16
<1>18. sent' \in 0 .. Len(Stream(script'))
  BY <1>2, <1>3, <1>12
<1>19. ConnTypes'
  BY <1>2, <1>6, <1>17, <1>18 DEF ConnTypes, Receive
<1> QED
  BY <1>15, <1>19

\* A job begins: the frames it takes and what is then to come are the frames that were to come.
LEMMA BeginKeeps ==
    ASSUME ConnTypes, Begin, FramesHandled \o frames \o Parse[ToCome].frames = script
    PROVE  ConnTypes' /\ (FramesHandled \o frames \o Parse[ToCome].frames)' = script
<1> DEFINE h == Head(queue)
           t == FlattenSeq(Tail(queue))
           w == SubSeq(Stream(script), sent + 1, Len(Stream(script)))
           a == buf \o h
           p == Parse[a]
<1>1. /\ frames = <<>> /\ queue # <<>> /\ frames' = p.frames /\ buf' = p.rest /\ queue' = Tail(queue)
      /\ UNCHANGED <<script, sent, pc, entry, session, socket, outcomes>> /\ pc = "idle"
  BY DEF Begin
<1>2. /\ h \in Seq(Nat) /\ Tail(queue) \in Seq(Seq(Nat)) /\ buf \in Seq(Nat)
      /\ queue \in Seq(Seq(Nat)) /\ Len(Tail(queue)) = Len(queue) - 1 /\ Len(queue) \in Nat
  <2>1. queue \in Seq(Seq(Nat)) /\ buf \in Seq(Nat)
    BY DEF ConnTypes, ByteSeqs
  <2> QED
    BY <1>1, <2>1, HeadTailProperties, LenProperties
<1>3. w \in Seq(Nat) /\ t \in Seq(Nat) /\ a \in Seq(Nat) /\ FramesHandled \in Seq(AnyFrames)
  <2>1. w \in Seq(Nat) /\ FramesHandled \in Seq(AnyFrames)
    BY ToComeType DEF ByteSeqs
  <2>2. t \in Seq(Nat)
    BY <1>2, FlattenSeqType
  <2>3. a \in Seq(Nat)
    BY <1>2, ConcatProperties
  <2> QED
    BY <2>1, <2>2, <2>3
<1>4. FlattenSeq(queue) = h \o t
  BY <1>1, <1>2, FlattenTail
<1>5. p.frames \in Seq(AnyFrames) /\ p.rest \in Seq(Nat)
  <2> HIDE DEF a
  <2> QED
    BY <1>3, ParseType DEF Parses, ByteSeqs
<1>6. ToCome = (buf \o (h \o t)) \o w
  BY <1>4 DEF ToCome
<1>7. ToCome' = (p.rest \o t) \o w
  BY <1>1 DEF ToCome
<1>8. FramesHandled' = FramesHandled
  BY <1>1 DEF FramesHandled
<1> HIDE DEF h, t, w, p
<1>9. ToCome = a \o (t \o w)
  <2>1. (buf \o h) \o t = buf \o (h \o t)
    BY <1>2, <1>3, BytesJoin DEF ByteSeqs
  <2>2. (a \o t) \o w = a \o (t \o w)
    <3> HIDE DEF a
    <3> QED
      BY <1>3, BytesJoin DEF ByteSeqs
  <2> QED
    BY <1>6, <2>1, <2>2
<1>10. ToCome' = p.rest \o (t \o w) /\ t \o w \in Seq(Nat)
  <2>1. (p.rest \o t) \o w = p.rest \o (t \o w)
    BY <1>3, <1>5, BytesJoin DEF ByteSeqs
  <2>2. t \o w \in Seq(Nat)
    BY <1>3, ConcatProperties
  <2> QED
    BY <1>7, <2>1, <2>2
<1> HIDE DEF a
<1>11. Parse[a \o (t \o w)].frames = Parse[a].frames \o Parse[Parse[a].rest \o (t \o w)].frames
  <2>1. a \in ByteSeqs /\ t \o w \in ByteSeqs
    BY <1>3, <1>10 DEF ByteSeqs
  <2> QED
    BY <2>1, CutAnywhere DEF ParsesOn
<1>12. Parse[ToCome].frames = p.frames \o Parse[p.rest \o (t \o w)].frames
  BY <1>9, <1>11 DEF p
<1> DEFINE x == p.frames
           y == Parse[p.rest \o (t \o w)].frames
<1>13. y \in Seq(AnyFrames)
  <2>1. p.rest \o (t \o w) \in ByteSeqs
    BY <1>5, <1>10, ConcatProperties DEF ByteSeqs
  <2> QED
    BY <2>1, ParseType DEF Parses
<1>14. (FramesHandled \o frames \o Parse[ToCome].frames)' = (FramesHandled \o x) \o y
  BY <1>1, <1>8, <1>10
<1>15. FramesHandled \o frames = FramesHandled
  BY <1>1, <1>3, ConcatEmptySeq
<1>16. FramesHandled \o frames \o Parse[ToCome].frames = FramesHandled \o (x \o y)
  BY <1>12, <1>15
<1>17. x \in Seq(AnyFrames)
  BY <1>5
<1> HIDE DEF x, y
<1>18. (FramesHandled \o x) \o y = FramesHandled \o (x \o y)
  BY <1>3, <1>13, <1>17, ConcatAssociative
<1>19. MaxWaiting \in Nat /\ Len(queue) <= MaxWaiting
  BY ConnectionAssumption DEF ConnTypes
<1>20. Len(queue') <= MaxWaiting
  BY <1>1, <1>2, <1>19
<1>21. ConnTypes'
  <2>1. queue' \in Seq(ByteSeqs) /\ buf' \in ByteSeqs /\ frames' \in Seq(AnyFrames)
    BY <1>1, <1>2, <1>5 DEF ByteSeqs
  <2> QED
    BY <1>1, <1>20, <2>1 DEF ConnTypes
<1> QED
  BY <1>14, <1>16, <1>18, <1>21

\* A frame handled: it goes from the frames to the outcomes, and nothing else of the bytes moves.
LEMMA HandledKeeps ==
    ASSUME ConnTypes, NEW o \in {"echoed", "refused", "none", "player"}, HandledAs(o), frames # <<>>
    PROVE  /\ ToCome' = ToCome /\ (FramesHandled \o frames)' = FramesHandled \o frames
           /\ outcomes' \in Seq(Outcomes) /\ frames' \in Seq(AnyFrames)
           /\ Len(outcomes') = Len(outcomes) + 1 /\ Len(outcomes) \in Nat
           /\ outcomes'[Len(outcomes) + 1] = [frame |-> Head(frames), as |-> o, when |-> socket]
           /\ \A i \in 1 .. Len(outcomes) : outcomes'[i] = outcomes[i]
           /\ DOMAIN outcomes = 1 .. Len(outcomes) /\ DOMAIN outcomes' = 1 .. Len(outcomes) + 1
<1> DEFINE x == [frame |-> Head(frames), as |-> o, when |-> socket]
<1>1. /\ outcomes' = Append(outcomes, x) /\ frames' = Tail(frames)
      /\ UNCHANGED <<script, sent, queue, buf>>
  BY DEF HandledAs
<1>2. outcomes \in Seq(Outcomes) /\ frames \in Seq(AnyFrames) /\ socket \in {"open", "destroyed", "closed"}
  BY DEF ConnTypes
<1>3. Head(frames) \in AnyFrames /\ Tail(frames) \in Seq(AnyFrames)
  BY <1>2, HeadTailProperties
<1>4. x \in Outcomes /\ x.frame = Head(frames)
  BY <1>2, <1>3 DEF Outcomes
<1> HIDE DEF x
<1>5. /\ outcomes' \in Seq(Outcomes) /\ Len(outcomes') = Len(outcomes) + 1
      /\ outcomes'[Len(outcomes) + 1] = x /\ \A i \in 1 .. Len(outcomes) : outcomes'[i] = outcomes[i]
  BY <1>1, <1>2, <1>4, AppendedIn, AppendedLen, AppendedLast, AppendedFirst
<1>6. /\ Len(outcomes) \in Nat /\ DOMAIN outcomes = 1 .. Len(outcomes) /\ DOMAIN outcomes' = 1 .. Len(outcomes')
  BY <1>2, <1>5, LenProperties
<1>7. ToCome' = ToCome
  BY <1>1 DEF ToCome
<1>8. FramesHandled \in Seq(AnyFrames) /\ Len(FramesHandled) = Len(outcomes)
  BY ToComeType
<1>9. \A i \in 1 .. Len(outcomes) : FramesHandled[i] = outcomes[i].frame
  BY <1>6 DEF FramesHandled
<1>10. FramesHandled' = Append(FramesHandled, Head(frames))
  <2> DEFINE n == Len(outcomes)
             a == Append(FramesHandled, Head(frames))
  <2>1. /\ a \in Seq(AnyFrames) /\ Len(a) = n + 1 /\ a[n + 1] = Head(frames)
        /\ \A i \in 1 .. n : a[i] = FramesHandled[i]
    <3>1. /\ a \in Seq(AnyFrames) /\ Len(a) = Len(FramesHandled) + 1 /\ a[Len(FramesHandled) + 1] = Head(frames)
          /\ \A i \in 1 .. Len(FramesHandled) : a[i] = FramesHandled[i]
      BY <1>3, <1>8, AppendedIn, AppendedLen, AppendedLast, AppendedFirst
    <3> HIDE DEF a
    <3> QED
      BY <1>8, <3>1
  <2>2. FramesHandled' = [i \in 1 .. n + 1 |-> outcomes'[i].frame]
    BY <1>5, <1>6 DEF FramesHandled
  <2>3. outcomes'[n + 1].frame = Head(frames) /\ \A i \in 1 .. n : outcomes'[i].frame = FramesHandled[i]
    BY <1>4, <1>5, <1>9
  <2>4. n \in Nat
    BY <1>6
  <2>5. a = [i \in 1 .. n + 1 |-> a[i]]
    <3> HIDE DEF a
    <3>1. a \in [1 .. n + 1 -> AnyFrames]
      BY <2>1, LenProperties
    <3> QED
      BY <3>1
  <2> HIDE DEF a, n
  <2>6. ASSUME NEW i \in 1 .. n + 1 PROVE outcomes'[i].frame = a[i]
    <3>1. i = n + 1 \/ i \in 1 .. n
      BY <2>4
    <3> QED
      BY <2>1, <2>3, <3>1
  <2>7. FramesHandled' = a
    BY <2>2, <2>5, <2>6
  <2> QED
    BY <2>7 DEF a
<1>11. (FramesHandled \o frames)' = FramesHandled \o frames
  <2>1. Append(FramesHandled, Head(frames)) \o Tail(frames) = FramesHandled \o frames
    BY <1>2, <1>8, HandedOver
  <2>2. (FramesHandled \o frames)' = Append(FramesHandled, Head(frames)) \o Tail(frames)
    BY <1>1, <1>10
  <2> QED
    BY <2>1, <2>2
<1> QED
  BY <1>1, <1>3, <1>5, <1>6, <1>7, <1>11 DEF x

\* What has been handled stays what it was: the frame handled now is judged by the entry.
LEMMA RoutedOn ==
    ASSUME ConnInv, NEW o \in {"echoed", "refused", "none", "player"}, HandledAs(o), frames # <<>>,
           Head(frames).cmd = APP => o = entry
    PROVE  /\ RoutedForItsAccount'
           /\ (\E i \in DOMAIN outcomes' : Accepted(i)') <=>
                  \/ \E i \in DOMAIN outcomes : Accepted(i)
                  \/ Head(frames).cmd = AUTH /\ o = "player"
           /\ \A i \in DOMAIN outcomes : i \in DOMAIN outcomes' /\ outcomes'[i] = outcomes[i]
<1>0. Len(outcomes) \in Nat
  BY HandledKeeps DEF ConnInv
<1>n. PICK n \in Nat : n = Len(outcomes)
  BY <1>0
<1>1. /\ n \in Nat /\ DOMAIN outcomes = 1 .. n /\ DOMAIN outcomes' = 1 .. n + 1
      /\ outcomes'[n + 1].frame = Head(frames) /\ outcomes'[n + 1].as = o
      /\ \A i \in 1 .. n : outcomes'[i] = outcomes[i]
  BY <1>n, HandledKeeps DEF ConnInv
<1>2. \A i \in 1 .. n : Accepted(i)' <=> Accepted(i)
  BY <1>1 DEF Accepted
<1>3. Accepted(n + 1)' <=> Head(frames).cmd = AUTH /\ o = "player"
  BY <1>1 DEF Accepted
<1>4. entry = "player" <=> \E i \in 1 .. n : Accepted(i)
  BY <1>1 DEF ConnInv
<1>5. entry \in {"none", "player"}
  BY DEF ConnInv, ConnTypes
<1>6. \A i \in 1 .. n : outcomes[i].frame.cmd = APP =>
          outcomes[i].as = IF \E j \in 1 .. i - 1 : Accepted(j) THEN "player" ELSE "none"
  BY <1>1 DEF ConnInv, RoutedForItsAccount, Accepted
<1>7. ASSUME NEW i \in 1 .. n + 1, outcomes'[i].frame.cmd = APP
      PROVE  outcomes'[i].as = IF \E j \in 1 .. i - 1 : Accepted(j)' THEN "player" ELSE "none"
  <2>1. CASE i = n + 1
    <3>1. o = entry /\ i - 1 = n
      BY <1>1, <1>7, <2>1
    <3>2. (\E j \in 1 .. i - 1 : Accepted(j)') <=> entry = "player"
      BY <1>2, <1>4, <3>1
    <3> QED
      BY <1>1, <1>5, <2>1, <3>1, <3>2
  <2>2. CASE i # n + 1
    <3>1. i \in 1 .. n /\ \A j \in 1 .. i - 1 : j \in 1 .. n
      BY <1>1, <2>2
    <3>2. (\E j \in 1 .. i - 1 : Accepted(j)') <=> \E j \in 1 .. i - 1 : Accepted(j)
      BY <1>2, <3>1
    <3> QED
      BY <1>1, <1>6, <1>7, <3>1, <3>2
  <2> QED
    BY <2>1, <2>2
<1>8. RoutedForItsAccount'
  BY <1>1, <1>7 DEF RoutedForItsAccount, Accepted
<1>9. (\E i \in 1 .. n + 1 : Accepted(i)') <=> (\E i \in 1 .. n : Accepted(i)) \/ Accepted(n + 1)'
  <2>1. 1 .. n + 1 = (1 .. n) \cup {n + 1}
    BY <1>1
  <2> QED
    BY <1>2, <2>1
<1>10. \A i \in 1 .. n : i \in 1 .. n + 1
  BY <1>1
<1> QED
  BY <1>1, <1>3, <1>8, <1>9, <1>10

\* A socket that closed with a session keeps the AUTH accepted after its close.
LEMMA ClosedOn ==
    ASSUME ClosedHasNoSession, socket' = socket, session' = session \/ socket # "closed",
           \A i \in DOMAIN outcomes : i \in DOMAIN outcomes' /\ outcomes'[i] = outcomes[i]
    PROVE  ClosedHasNoSession'
  BY DEF ClosedHasNoSession

\* A frame handled keeps the invariant, if what it does to entry and session is what its outcome says.
LEMMA HandledOn ==
    ASSUME ConnInv, NEW o \in {"echoed", "refused", "none", "player"}, HandledAs(o), frames # <<>>, pc' = "idle",
           Head(frames).cmd = APP => o = entry,
           socket' \in {"open", "destroyed", "closed"}, socket = "closed" <=> socket' = "closed",
           \/ /\ Head(frames).cmd = AUTH /\ o = "player" /\ socket' = socket
              /\ entry' = "player" /\ session' = "player"
           \/ ~ (Head(frames).cmd = AUTH /\ o = "player") /\ UNCHANGED <<entry, session>>
    PROVE  ConnInv'
<1>1. /\ ToCome' = ToCome /\ (FramesHandled \o frames)' = FramesHandled \o frames
      /\ outcomes' \in Seq(Outcomes) /\ frames' \in Seq(AnyFrames)
      /\ outcomes'[Len(outcomes) + 1] = [frame |-> Head(frames), as |-> o, when |-> socket]
      /\ DOMAIN outcomes' = 1 .. Len(outcomes) + 1 /\ Len(outcomes) \in Nat
  BY HandledKeeps DEF ConnInv
<1>2. UNCHANGED <<script, sent, queue, buf>>
  BY DEF HandledAs
<1>3. ConnTypes'
  BY <1>1, <1>2 DEF ConnInv, ConnTypes
<1>4. (FramesHandled \o frames \o Parse[ToCome].frames = script)'
  BY <1>1, <1>2 DEF ConnInv
<1>5. /\ RoutedForItsAccount'
      /\ (\E i \in DOMAIN outcomes' : Accepted(i)') <=>
             \/ \E i \in DOMAIN outcomes : Accepted(i)
             \/ Head(frames).cmd = AUTH /\ o = "player"
      /\ \A i \in DOMAIN outcomes : i \in DOMAIN outcomes' /\ outcomes'[i] = outcomes[i]
  BY RoutedOn
<1>6. entry = "player" <=> \E i \in DOMAIN outcomes : Accepted(i)
  BY DEF ConnInv
<1>7. (entry = "player" <=> \E i \in DOMAIN outcomes : Accepted(i))'
  <2>1. entry' = "player" <=> \E i \in DOMAIN outcomes' : Accepted(i)'
    BY <1>5, <1>6
  <2> QED
    BY <2>1
<1>8. (session = "player" => entry = "player")'
  BY DEF ConnInv
<1>9. ClosedHasNoSession'
  <2>1. CASE socket # "closed"
    BY <2>1 DEF ClosedHasNoSession
  <2>2. CASE socket = "closed" /\ session' = session
    <3>1. socket' = socket
      BY <2>2
    <3> QED
      BY <1>5, <2>2, <3>1, ClosedOn DEF ConnInv
  <2>3. CASE socket = "closed" /\ Head(frames).cmd = AUTH /\ o = "player"
    <3> DEFINE n == Len(outcomes) + 1
    <3>1. n \in DOMAIN outcomes'
      BY <1>1
    <3>2. outcomes'[n].frame.cmd = AUTH /\ outcomes'[n].as = "player" /\ outcomes'[n].when = "closed"
      BY <1>1, <2>3
    <3> HIDE DEF n
    <3> QED
      BY <3>1, <3>2 DEF ClosedHasNoSession
  <2> QED
    BY <2>1, <2>2, <2>3
<1> QED
  BY <1>3, <1>4, <1>5, <1>7, <1>8, <1>9 DEF ConnInv

\* A step that handles nothing keeps what was handled and what is to be, if it keeps these.
LEMMA UnhandledOn ==
    ASSUME ConnInv, ConnTypes', UNCHANGED <<outcomes, entry, script>>,
           (FramesHandled \o frames \o Parse[ToCome].frames)' = script,
           session' \in {session, "none"}, socket' = "closed" => socket = "closed" \/ session' = "none"
    PROVE  ConnInv'
<1>1. (FramesHandled \o frames \o Parse[ToCome].frames = script)'
  OBVIOUS
<1>2. (entry = "player" <=> \E i \in DOMAIN outcomes : Accepted(i))'
  BY DEF ConnInv, Accepted
<1>3. (session = "player" => entry = "player")'
  BY DEF ConnInv
<1>4. RoutedForItsAccount'
  BY DEF ConnInv, RoutedForItsAccount
<1>5. ClosedHasNoSession'
  BY DEF ConnInv, ClosedHasNoSession
<1> QED
  BY <1>1, <1>2, <1>3, <1>4, <1>5 DEF ConnInv

\* Every step keeps the invariant.
LEMMA ConnStep == ConnInv /\ [ConnectionNext]_connectionVars => ConnInv'
<1> SUFFICES ASSUME ConnInv, [ConnectionNext]_connectionVars PROVE ConnInv'
  OBVIOUS
<1>t. ConnTypes /\ FramesHandled \o frames \o Parse[ToCome].frames = script
  BY DEF ConnInv
<1>k. pc # "idle" => frames # <<>> /\ Head(frames).cmd = AUTH
  BY <1>t DEF ConnTypes
<1>e. entry \in {"none", "player"} /\ session \in {"none", "player"} /\ socket \in {"open", "destroyed", "closed"}
  BY <1>t DEF ConnTypes
<1>s. ASSUME UNCHANGED <<script, sent, queue, buf, frames, outcomes>>
      PROVE  (FramesHandled \o frames \o Parse[ToCome].frames)' = script
  <2>1. ToCome' = ToCome /\ FramesHandled' = FramesHandled
    BY <1>s DEF ToCome, FramesHandled
  <2> QED
    BY <1>s, <1>t, <2>1
<1>c. AUTH # APP /\ AUTH # HEARTBEAT /\ APP # HEARTBEAT
  BY DEF AUTH, APP, HEARTBEAT
<1>1. CASE \E n \in 1 .. Len(Stream(script)) - sent : Receive(n)
  <2>1. PICK n \in 1 .. Len(Stream(script)) - sent : Receive(n)
    BY <1>1
  <2>2. ConnTypes' /\ ToCome' = ToCome
    BY <1>t, <2>1, ReceiveKeeps
  <2>3. UNCHANGED <<script, frames, outcomes, entry, session, socket>>
    BY <2>1 DEF Receive
  <2>4. FramesHandled' = FramesHandled
    BY <2>3 DEF FramesHandled
  <2> QED
    BY <1>t, <2>2, <2>3, <2>4, UnhandledOn
<1>2. CASE Begin
  <2>1. ConnTypes' /\ (FramesHandled \o frames \o Parse[ToCome].frames)' = script
    BY <1>t, <1>2, BeginKeeps
  <2>2. UNCHANGED <<script, outcomes, entry, session, socket>>
    BY <1>2 DEF Begin
  <2> QED
    BY <2>1, <2>2, UnhandledOn
<1>3. CASE Heartbeat
  <2>1. /\ HandledAs("echoed") /\ frames # <<>> /\ Head(frames).cmd = HEARTBEAT /\ pc' = "idle"
        /\ UNCHANGED <<entry, session, socket>>
    BY <1>3 DEF Heartbeat, Begins
  <2> QED
    BY <1>c, <1>e, <2>1, HandledOn
<1>4. CASE AppMessage
  <2>1. /\ HandledAs(entry) /\ frames # <<>> /\ Head(frames).cmd = APP /\ pc' = "idle"
        /\ UNCHANGED <<entry, session, socket>>
    BY <1>4 DEF AppMessage, Begins
  <2> QED
    BY <1>c, <1>e, <2>1, HandledOn
<1>5. CASE AuthBegins
  <2>1. /\ frames # <<>> /\ Head(frames).cmd = AUTH /\ pc' = "token"
        /\ UNCHANGED <<script, sent, queue, buf, frames, entry, session, socket, outcomes>>
    BY <1>5 DEF AuthBegins, Begins
  <2>2. ConnTypes'
    BY <1>t, <2>1 DEF ConnTypes
  <2> QED
    BY <1>s, <2>1, <2>2, UnhandledOn
<1>6. CASE AuthUnknown
  <2>1. /\ HandledAs("refused") /\ pc # "idle" /\ pc' = "idle" /\ socket' = Destroyed /\ UNCHANGED <<entry, session>>
    BY <1>6 DEF AuthUnknown
  <2>2. socket' \in {"open", "destroyed", "closed"} /\ (socket = "closed" <=> socket' = "closed")
    BY <1>e, <2>1 DEF Destroyed
  <2> QED
    BY <1>c, <1>k, <2>1, <2>2, HandledOn
<1>7. CASE AuthKnown
  <2>1. /\ pc # "idle" /\ pc' = "ban"
        /\ UNCHANGED <<script, sent, queue, buf, frames, entry, session, socket, outcomes>>
    BY <1>7 DEF AuthKnown
  <2>2. ConnTypes'
    BY <1>t, <1>k, <2>1 DEF ConnTypes
  <2> QED
    BY <1>s, <2>1, <2>2, UnhandledOn
<1>8. CASE AuthFails
  <2>1. HandledAs("refused") /\ pc # "idle" /\ pc' = "idle" /\ UNCHANGED <<entry, session, socket>>
    BY <1>8 DEF AuthFails
  <2> QED
    BY <1>c, <1>e, <1>k, <2>1, HandledOn
<1>9. CASE AuthBanned
  <2>1. HandledAs("refused") /\ pc # "idle" /\ pc' = "idle" /\ UNCHANGED <<entry, session, socket>>
    BY <1>9 DEF AuthBanned
  <2> QED
    BY <1>c, <1>e, <1>k, <2>1, HandledOn
<1>10. CASE AuthAccepted
  <2>1. /\ HandledAs("player") /\ pc # "idle" /\ pc' = "idle" /\ socket' = socket
        /\ entry' = "player" /\ session' = "player"
    BY <1>10 DEF AuthAccepted
  <2> QED
    BY <1>c, <1>e, <1>k, <2>1, HandledOn
<1>11. CASE KickTimer \/ Hangup
  <2>1. socket' = "destroyed" /\ UNCHANGED <<script, sent, queue, buf, frames, pc, entry, session, outcomes>>
    BY <1>11 DEF KickTimer, Hangup
  <2>2. ConnTypes'
    BY <1>t, <2>1 DEF ConnTypes
  <2> QED
    BY <1>s, <2>1, <2>2, UnhandledOn
<1>12. CASE CloseEvent
  <2>1. /\ socket' = "closed" /\ session' = (IF entry # "none" THEN "none" ELSE session)
        /\ UNCHANGED <<script, sent, queue, buf, frames, pc, entry, outcomes>>
    BY <1>12 DEF CloseEvent
  <2>2. session = "player" => entry = "player"
    BY DEF ConnInv
  <2>3. session' = "none"
    BY <1>e, <2>1, <2>2
  <2>4. ConnTypes'
    BY <1>t, <2>1, <2>3 DEF ConnTypes
  <2> QED
    BY <1>s, <2>1, <2>3, <2>4, UnhandledOn
<1>13. CASE UNCHANGED connectionVars
  <2>1. UNCHANGED <<script, sent, queue, buf, frames, pc, entry, session, socket, outcomes>>
    BY <1>13 DEF connectionVars
  <2>2. ConnTypes'
    BY <1>t, <2>1 DEF ConnTypes
  <2> QED
    BY <1>s, <2>1, <2>2, UnhandledOn
<1> QED
  BY <1>1, <1>2, <1>3, <1>4, <1>5, <1>6, <1>7, <1>8, <1>9, <1>10, <1>11, <1>12, <1>13 DEF ConnectionNext

\* The invariant has what the properties say.
LEMMA ConnIs == ConnInv => ConnectionTypeOK /\ NoByteLost /\ RoutedForItsAccount /\ ClosedHasNoSession
<1> SUFFICES ASSUME ConnInv PROVE ConnectionTypeOK /\ NoByteLost /\ RoutedForItsAccount /\ ClosedHasNoSession
  OBVIOUS
<1>1. ConnectionTypeOK
  BY DEF ConnInv, ConnTypes, ConnectionTypeOK
<1>2. NoByteLost
  BY DEF ConnInv, NoByteLost, FramesHandled, ToCome
<1> QED
  BY <1>1, <1>2 DEF ConnInv

\* parseClientFrames and the promise chain of handleConnection, for streams of any number of frames
\* cut anywhere and any number of chunks waiting: no byte of the stream is lost or read twice, every
\* message is routed for the account of the AUTH before it, and a socket that closed has a session
\* only from an AUTH accepted after its close.
THEOREM ConnectionHolds ==
    ConnectionInit /\ [][ConnectionNext]_connectionVars =>
        [](ConnectionTypeOK /\ NoByteLost /\ RoutedForItsAccount /\ ClosedHasNoSession)
<1>1. ConnectionInit => ConnInv
  BY ConnStarts
<1>2. ConnInv /\ [ConnectionNext]_connectionVars => ConnInv'
  BY ConnStep
<1>3. ConnInv => ConnectionTypeOK /\ NoByteLost /\ RoutedForItsAccount /\ ClosedHasNoSession
  BY ConnIs
<1> QED
  BY <1>1, <1>2, <1>3, PTL

-----------------------------------------------------------------------------
(* What the members of a room are told.                                    *)
(* What is pending, in the order in which it will be heard.                *)

\* Of a notice: it lets a in, sends it out, or carries the whole room to it.
LetsIn(a, n) == a \in n.to /\ n.kind = "join" /\ n.about = a
Ends(a, n) == a \in n.to /\ SendsOut(a, n)
Carries(a, n) == a \in n.to /\ n.kind # "players"

\* Of an operation: its answer shows a the room, or that it has left.
ShownTo(a, op) == op.by = a /\ op.answer = "room"
Gone(a, op) == op.by = a /\ op.answer = "left"

\* What comes later carries the room, or takes a out of it.
CarriedAfter(a, q, i) == \E j \in DOMAIN q : j > i /\ Carries(a, q[j].notice)
EndedAfter(a, q, i) == \E j \in DOMAIN q : j > i /\ Ends(a, q[j].notice)
GoneAfter(a, q, i) == \E j \in DOMAIN q : j > i /\ Gone(a, q[j])

\* a opened the room and its answer is the first it will hear.
Opening(a, q) == \E i \in DOMAIN q : ShownTo(a, q[i]) /\ \A k \in DOMAIN q : k <= i => a \notin q[k].notice.to

\* Who is let in hears of nothing before, and does nothing before it has heard of it.
InFirst(a, q, v, r) ==
    \A i \in DOMAIN q : LetsIn(a, q[i].notice) =>
        /\ v = Outside /\ \A j \in DOMAIN q : (j < i => a \notin q[j].notice.to) /\ ~ ShownTo(a, q[j]) /\ ~ Gone(a, q[j])
        /\ a \in r.members \/ EndedAfter(a, q, i)

\* Who is sent out is no member, and what sends it out is the last it hears.
OutLast(a, q, v, r) ==
    /\ \A i \in DOMAIN q : Ends(a, q[i].notice) =>
           /\ a \notin r.members
           /\ \A j \in DOMAIN q : ~ Gone(a, q[j]) /\ (j > i => a \notin q[j].notice.to)
    /\ \A i \in DOMAIN q : Gone(a, q[i]) =>
           /\ a \notin r.members /\ v # Outside
           /\ \A j \in DOMAIN q : j > i => ~ Gone(a, q[j]) /\ ~ ShownTo(a, q[j])

\* What a member hears is of the room as it is, or it hears the whole of it later.
HeardInOrder(a, q, v, r) ==
    /\ \A i \in DOMAIN q : ShownTo(a, q[i]) =>
           \/ a \in r.members /\ (q[i].notice.room = r \/ CarriedAfter(a, q, i))
           \/ EndedAfter(a, q, i) \/ GoneAfter(a, q, i)
    /\ \A i \in DOMAIN q : a \in q[i].notice.to /\ a \in r.members =>
           \/ CarriedAfter(a, q, i)
           \/ IF q[i].notice.kind = "players" THEN q[i].notice.room.members = r.members ELSE q[i].notice.room = r
    /\ \A i \in DOMAIN q : a \in q[i].notice.to /\ a \notin r.members =>
           \/ v = Outside \/ Ends(a, q[i].notice) \/ EndedAfter(a, q, i) \/ \E k \in DOMAIN q : Gone(a, q[k])

\* A client that missed nothing shows the room, or will.
ShowsSoon(a, q, v, r) ==
    IF a \in r.members
    THEN /\ v = r \/ (\E i \in DOMAIN q : Carries(a, q[i].notice)) \/ Opening(a, q)
         /\ v # Outside \/ (\E i \in DOMAIN q : LetsIn(a, q[i].notice)) \/ Opening(a, q)
    ELSE v = Outside \/ (\E i \in DOMAIN q : Ends(a, q[i].notice)) \/ (\E i \in DOMAIN q : Gone(a, q[i]))

Heard(a, q, v, r) == InFirst(a, q, v, r) /\ OutLast(a, q, v, r) /\ HeardInOrder(a, q, v, r)

\* What gateway g has published and what it has still to say.
GotAnswer(n) == [by |-> "nobody", answer |-> "none", notice |-> n]
PendingOf(c, s) == [i \in DOMAIN c |-> GotAnswer(c[i])] \o s
Pending(g) == PendingOf(channel[g], saved[g])

\* The client of a, if all that changed the record was said by gateway g.
HearsOf(g, a) ==
    IF at[a] = g
    THEN a \in online =>
             /\ Heard(a, Pending(g), view[a], record)
             /\ a \notin missed => ShowsSoon(a, Pending(g), view[a], record)
    ELSE a \notin record.members /\ view[a] = Outside

\* Nothing is said but by g, to clients of g.
SaidBy(g) ==
    /\ \A h \in Gateways : h # g => saved[h] = <<>>
    /\ \A h \in Gateways : \A i \in DOMAIN channel[h] : \A a \in channel[h][i].to : at[a] = g
    /\ \A i \in DOMAIN saved[g] : at[saved[g][i].by] = g /\ \A a \in saved[g][i].notice.to : at[a] = g

Rooms == [owner : Guests, members : SUBSET Guests, edition : 0 .. MaxOps]
RoomRosters == {NoRecord} \cup {r \in Rooms : r.owner \in r.members}
NoticesOf ==
    {n \in [kind : {"none", "join", "leave", "dismiss", "kick", "room", "players"}, about : Guests,
            to : SUBSET Guests, room : {NoRecord} \cup Rooms] :
        n.room = NoRecord => n.kind = "dismiss"}
Operations == {op \in [by : Guests, answer : {"none", "room", "left"}, notice : NoticesOf] :
    /\ op.answer = "room" => op.notice.room # NoRecord /\ op.notice.to = {}
    /\ op.by \in op.notice.to => op.answer = "none"}

NoticeTypes ==
    /\ record \in RoomRosters /\ record.edition <= ops /\ at \in [Guests -> Gateways] /\ online \in SUBSET Guests
    /\ missed \in SUBSET Guests /\ spread \in SUBSET Gateways /\ IsFiniteSet(spread)
    /\ view \in [Guests -> {NoRecord} \cup Rooms]
    /\ DOMAIN saved = Gateways /\ DOMAIN channel = Gateways
    /\ \A g \in Gateways : saved[g] \in Seq(Operations) /\ channel[g] \in Seq(NoticesOf)
    /\ ops \in 0 .. MaxOps /\ losses \in 0 .. MaxMissed

NoticeInv ==
    /\ NoticeTypes
    /\ \A g \in Gateways : spread \subseteq {g} => SaidBy(g) /\ \A a \in Guests : HearsOf(g, a)

-----------------------------------------------------------------------------
(* Less pending, the same for a.                                           *)

\* To a, two operations say the same.
Alike(a, x, y) == x.notice = y.notice /\ (ShownTo(a, x) <=> ShownTo(a, y)) /\ (Gone(a, x) <=> Gone(a, y))
Touches(a, op) == a \in op.notice.to \/ ShownTo(a, op) \/ Gone(a, op)

\* z is q without some operations that are nothing to a.
Within(a, z, q, e) ==
    /\ DOMAIN z \subseteq Nat /\ DOMAIN q \subseteq Nat /\ e \in [DOMAIN z -> DOMAIN q]
    /\ \A i \in DOMAIN z : Alike(a, z[i], q[e[i]])
    /\ \A i, k \in DOMAIN z : i < k <=> e[i] < e[k]
    /\ \A j \in DOMAIN q : Touches(a, q[j]) => \E i \in DOMAIN z : e[i] = j

\* What comes later still does.
LEMMA WithinAfter ==
    ASSUME NEW a, NEW z, NEW q, NEW e, Within(a, z, q, e), NEW i \in DOMAIN z
    PROVE  /\ CarriedAfter(a, q, e[i]) => CarriedAfter(a, z, i)
           /\ EndedAfter(a, q, e[i]) => EndedAfter(a, z, i)
           /\ GoneAfter(a, q, e[i]) => GoneAfter(a, z, i)
<1>1. ASSUME NEW j \in DOMAIN q, j > e[i], Touches(a, q[j])
      PROVE  \E k \in DOMAIN z : k > i /\ e[k] = j /\ Alike(a, z[k], q[j])
  <2>1. PICK k \in DOMAIN z : e[k] = j
    BY <1>1 DEF Within
  <2>2. e[i] \in Nat /\ e[k] \in Nat /\ i \in Nat /\ k \in Nat
    BY DEF Within
  <2>3. i < k
    BY <1>1, <2>1, <2>2 DEF Within
  <2> QED
    BY <2>1, <2>2, <2>3 DEF Within
<1>2. ASSUME CarriedAfter(a, q, e[i]) PROVE CarriedAfter(a, z, i)
  <2>1. PICK j \in DOMAIN q : j > e[i] /\ Carries(a, q[j].notice)
    BY <1>2 DEF CarriedAfter
  <2>2. PICK k \in DOMAIN z : k > i /\ e[k] = j /\ Alike(a, z[k], q[j])
    BY <1>1, <2>1 DEF Touches, Carries
  <2> QED
    BY <2>1, <2>2 DEF CarriedAfter, Alike
<1>3. ASSUME EndedAfter(a, q, e[i]) PROVE EndedAfter(a, z, i)
  <2>1. PICK j \in DOMAIN q : j > e[i] /\ Ends(a, q[j].notice)
    BY <1>3 DEF EndedAfter
  <2>2. PICK k \in DOMAIN z : k > i /\ e[k] = j /\ Alike(a, z[k], q[j])
    BY <1>1, <2>1 DEF Touches, Ends
  <2> QED
    BY <2>1, <2>2 DEF EndedAfter, Alike
<1>4. ASSUME GoneAfter(a, q, e[i]) PROVE GoneAfter(a, z, i)
  <2>1. PICK j \in DOMAIN q : j > e[i] /\ Gone(a, q[j])
    BY <1>4 DEF GoneAfter
  <2>2. PICK k \in DOMAIN z : k > i /\ e[k] = j /\ Alike(a, z[k], q[j])
    BY <1>1, <2>1 DEF Touches
  <2> QED
    BY <2>1, <2>2 DEF GoneAfter, Alike
<1> QED
  BY <1>2, <1>3, <1>4

\* And so does what there is anywhere.
LEMMA WithinSome ==
    ASSUME NEW a, NEW z, NEW q, NEW e, Within(a, z, q, e)
    PROVE  /\ \A j \in DOMAIN q : Touches(a, q[j]) => \E k \in DOMAIN z : e[k] = j /\ Alike(a, z[k], q[j])
           /\ Opening(a, q) => Opening(a, z)
<1>1. ASSUME NEW j \in DOMAIN q, Touches(a, q[j]) PROVE \E k \in DOMAIN z : e[k] = j /\ Alike(a, z[k], q[j])
  <2>1. PICK k \in DOMAIN z : e[k] = j
    BY <1>1 DEF Within
  <2> QED
    BY <2>1 DEF Within
<1>2. ASSUME Opening(a, q) PROVE Opening(a, z)
  <2>1. PICK j \in DOMAIN q : ShownTo(a, q[j]) /\ \A k \in DOMAIN q : k <= j => a \notin q[k].notice.to
    BY <1>2 DEF Opening
  <2>2. PICK i \in DOMAIN z : e[i] = j /\ Alike(a, z[i], q[j])
    BY <1>1, <2>1 DEF Touches
  <2>3. ASSUME NEW k \in DOMAIN z, k <= i PROVE a \notin z[k].notice.to
    <3>1. e[k] \in DOMAIN q /\ e[k] \in Nat /\ e[i] \in Nat /\ k \in Nat /\ i \in Nat
      BY DEF Within
    <3>2. ~ (i < k)
      BY <2>3, <3>1
    <3>3. ~ (e[i] < e[k])
      BY <3>2 DEF Within
    <3>4. e[k] <= j
      BY <2>2, <3>1, <3>3
    <3>5. z[k].notice = q[e[k]].notice
      BY DEF Within, Alike
    <3> QED
      BY <2>1, <3>1, <3>4, <3>5
  <2> QED
    BY <2>1, <2>2, <2>3 DEF Opening, Alike
<1> QED
  BY <1>1, <1>2

\* So all that is known of what a will hear stays.
LEMMA WithinKeeps ==
    ASSUME NEW a, NEW z, NEW q, NEW e, Within(a, z, q, e), NEW v, NEW r, Heard(a, q, v, r)
    PROVE  Heard(a, z, v, r) /\ (ShowsSoon(a, q, v, r) => ShowsSoon(a, z, v, r))
<1>0. /\ \A i \in DOMAIN z : e[i] \in DOMAIN q /\ Alike(a, z[i], q[e[i]])
      /\ \A i, k \in DOMAIN z : i < k <=> e[i] < e[k]
      /\ \A i, k \in DOMAIN z : i > k => e[i] > e[k]
  BY DEF Within
<1>s. \A j \in DOMAIN q : Touches(a, q[j]) => \E k \in DOMAIN z : e[k] = j /\ Alike(a, z[k], q[j])
  BY WithinSome
<1>1. InFirst(a, z, v, r)
  <2> SUFFICES ASSUME NEW i \in DOMAIN z, LetsIn(a, z[i].notice)
               PROVE  /\ v = Outside
                      /\ \A j \in DOMAIN z : (j < i => a \notin z[j].notice.to) /\ ~ ShownTo(a, z[j]) /\ ~ Gone(a, z[j])
                      /\ a \in r.members \/ EndedAfter(a, z, i)
    BY DEF InFirst
  <2>1. LetsIn(a, q[e[i]].notice)
    BY <1>0 DEF Alike
  <2>2. /\ v = Outside
        /\ \A j \in DOMAIN q : (j < e[i] => a \notin q[j].notice.to) /\ ~ ShownTo(a, q[j]) /\ ~ Gone(a, q[j])
        /\ a \in r.members \/ EndedAfter(a, q, e[i])
    BY <1>0, <2>1 DEF Heard, InFirst
  <2>3. ASSUME NEW j \in DOMAIN z PROVE (j < i => a \notin z[j].notice.to) /\ ~ ShownTo(a, z[j]) /\ ~ Gone(a, z[j])
    BY <1>0, <2>2 DEF Alike
  <2> QED
    BY <2>2, <2>3, WithinAfter
<1>2. OutLast(a, z, v, r)
  <2>1. ASSUME NEW i \in DOMAIN z, Ends(a, z[i].notice)
        PROVE  /\ a \notin r.members
               /\ \A j \in DOMAIN z : ~ Gone(a, z[j]) /\ (j > i => a \notin z[j].notice.to)
    <3>1. Ends(a, q[e[i]].notice)
      BY <1>0, <2>1 DEF Alike
    <3>2. /\ a \notin r.members
          /\ \A j \in DOMAIN q : ~ Gone(a, q[j]) /\ (j > e[i] => a \notin q[j].notice.to)
      BY <1>0, <3>1 DEF Heard, OutLast
    <3> QED
      BY <1>0, <3>2 DEF Alike
  <2>2. ASSUME NEW i \in DOMAIN z, Gone(a, z[i])
        PROVE  a \notin r.members /\ v # Outside /\ \A j \in DOMAIN z : j > i => ~ Gone(a, z[j]) /\ ~ ShownTo(a, z[j])
    <3>1. Gone(a, q[e[i]])
      BY <1>0, <2>2 DEF Alike
    <3>2. /\ a \notin r.members /\ v # Outside
          /\ \A j \in DOMAIN q : j > e[i] => ~ Gone(a, q[j]) /\ ~ ShownTo(a, q[j])
      BY <1>0, <3>1 DEF Heard, OutLast
    <3> QED
      BY <1>0, <3>2 DEF Alike
  <2> QED
    BY <2>1, <2>2 DEF OutLast
<1>3. HeardInOrder(a, z, v, r)
  <2>1. ASSUME NEW i \in DOMAIN z, ShownTo(a, z[i])
        PROVE  \/ a \in r.members /\ (z[i].notice.room = r \/ CarriedAfter(a, z, i))
               \/ EndedAfter(a, z, i) \/ GoneAfter(a, z, i)
    <3>1. ShownTo(a, q[e[i]]) /\ z[i].notice = q[e[i]].notice
      BY <1>0, <2>1 DEF Alike
    <3>2. \/ a \in r.members /\ (q[e[i]].notice.room = r \/ CarriedAfter(a, q, e[i]))
          \/ EndedAfter(a, q, e[i]) \/ GoneAfter(a, q, e[i])
      BY <1>0, <3>1 DEF Heard, HeardInOrder
    <3> QED
      BY <3>1, <3>2, WithinAfter
  <2>2. ASSUME NEW i \in DOMAIN z, a \in z[i].notice.to, a \in r.members
        PROVE  \/ CarriedAfter(a, z, i)
               \/ IF z[i].notice.kind = "players" THEN z[i].notice.room.members = r.members ELSE z[i].notice.room = r
    <3>1. z[i].notice = q[e[i]].notice
      BY <1>0 DEF Alike
    <3>2. \/ CarriedAfter(a, q, e[i])
          \/ IF z[i].notice.kind = "players" THEN z[i].notice.room.members = r.members ELSE z[i].notice.room = r
      BY <1>0, <2>2, <3>1 DEF Heard, HeardInOrder
    <3> QED
      BY <3>2, WithinAfter
  <2>3. ASSUME NEW i \in DOMAIN z, a \in z[i].notice.to, a \notin r.members
        PROVE  v = Outside \/ Ends(a, z[i].notice) \/ EndedAfter(a, z, i) \/ \E k \in DOMAIN z : Gone(a, z[k])
    <3>1. z[i].notice = q[e[i]].notice
      BY <1>0 DEF Alike
    <3>2. v = Outside \/ Ends(a, z[i].notice) \/ EndedAfter(a, q, e[i]) \/ \E k \in DOMAIN q : Gone(a, q[k])
      BY <1>0, <2>3, <3>1 DEF Heard, HeardInOrder
    <3>3. (\E k \in DOMAIN q : Gone(a, q[k])) => \E k \in DOMAIN z : Gone(a, z[k])
      BY <1>s DEF Touches, Alike
    <3> QED
      BY <3>2, <3>3, WithinAfter
  <2> QED
    BY <2>1, <2>2, <2>3 DEF HeardInOrder
<1>4. ASSUME ShowsSoon(a, q, v, r) PROVE ShowsSoon(a, z, v, r)
  <2>1. (\E i \in DOMAIN q : Carries(a, q[i].notice)) => \E i \in DOMAIN z : Carries(a, z[i].notice)
    BY <1>s DEF Touches, Alike, Carries
  <2>2. (\E i \in DOMAIN q : LetsIn(a, q[i].notice)) => \E i \in DOMAIN z : LetsIn(a, z[i].notice)
    BY <1>s DEF Touches, Alike, LetsIn
  <2>3. (\E i \in DOMAIN q : Ends(a, q[i].notice)) => \E i \in DOMAIN z : Ends(a, z[i].notice)
    BY <1>s DEF Touches, Alike, Ends
  <2>4. (\E i \in DOMAIN q : Gone(a, q[i])) => \E i \in DOMAIN z : Gone(a, z[i])
    BY <1>s DEF Touches, Alike
  <2>5. Opening(a, q) => Opening(a, z)
    BY WithinSome
  <2> QED
    BY <1>4, <2>1, <2>2, <2>3, <2>4, <2>5 DEF ShowsSoon
<1> QED
  BY <1>1, <1>2, <1>3, <1>4 DEF Heard

\* z is q with the operation at p answered.
AnsweredAt(z, q, p) ==
    /\ DOMAIN q \subseteq Nat /\ DOMAIN z = DOMAIN q /\ p \in DOMAIN q
    /\ z[p] = GotAnswer(q[p].notice) /\ \A i \in DOMAIN q \ {p} : z[i] = q[i]

\* The answer moves no notice, and no other answer.
LEMMA AnswerLeaves ==
    ASSUME NEW a \in Guests, NEW z, NEW q, NEW p, AnsweredAt(z, q, p)
    PROVE  /\ DOMAIN z = DOMAIN q /\ DOMAIN q \subseteq Nat /\ p \in DOMAIN q
           /\ \A i \in DOMAIN q : z[i].notice = q[i].notice
           /\ \A i \in DOMAIN q : ShownTo(a, z[i]) <=> ShownTo(a, q[i]) /\ i # p
           /\ \A i \in DOMAIN q : Gone(a, z[i]) <=> Gone(a, q[i]) /\ i # p
<1>1. a # "nobody"
  BY NoticesAssumption
<1>2. z[p].notice = q[p].notice /\ z[p].by = "nobody"
  BY DEF AnsweredAt, GotAnswer
<1>3. ~ ShownTo(a, z[p]) /\ ~ Gone(a, z[p])
  BY <1>1, <1>2 DEF ShownTo, Gone
<1>4. \A i \in DOMAIN q \ {p} : z[i] = q[i]
  BY DEF AnsweredAt
<1>5. DOMAIN z = DOMAIN q /\ DOMAIN q \subseteq Nat /\ p \in DOMAIN q
  BY DEF AnsweredAt
<1>6. \A i \in DOMAIN q : z[i].notice = q[i].notice
  BY <1>2, <1>4
<1>7. \A i \in DOMAIN q : ShownTo(a, z[i]) <=> ShownTo(a, q[i]) /\ i # p
  BY <1>3, <1>4
<1>8. \A i \in DOMAIN q : Gone(a, z[i]) <=> Gone(a, q[i]) /\ i # p
  BY <1>3, <1>4
<1> QED
  BY <1>5, <1>6, <1>7, <1>8

\* The answer that shows a the room.
LEMMA ShownAnswer ==
    ASSUME NEW a \in Guests, NEW z, NEW q, NEW p, AnsweredAt(z, q, p), NEW v, NEW r, Heard(a, q, v, r),
           ShownTo(a, q[p]), q[p].notice.room # Outside
    PROVE  Heard(a, z, q[p].notice.room, r) /\ ShowsSoon(a, z, q[p].notice.room, r)
<1> DEFINE w == q[p].notice.room
<1>0. /\ DOMAIN z = DOMAIN q /\ DOMAIN q \subseteq Nat /\ p \in DOMAIN q
      /\ \A i \in DOMAIN q : z[i].notice = q[i].notice
      /\ \A i \in DOMAIN q : ShownTo(a, z[i]) <=> ShownTo(a, q[i]) /\ i # p
      /\ \A i \in DOMAIN q : Gone(a, z[i]) <=> Gone(a, q[i]) /\ i # p
  BY AnswerLeaves
<1>1. ~ Gone(a, q[p])
  BY DEF ShownTo, Gone
<1>2. \A i \in DOMAIN q : Gone(a, z[i]) <=> Gone(a, q[i])
  BY <1>0, <1>1
<1>3. \A i \in DOMAIN q : ~ LetsIn(a, q[i].notice)
  BY <1>0 DEF Heard, InFirst
<1>4. \A i \in DOMAIN q : (CarriedAfter(a, q, i) => CarriedAfter(a, z, i)) /\ (EndedAfter(a, q, i) => EndedAfter(a, z, i))
  BY <1>0 DEF CarriedAfter, EndedAfter
<1>5. \A i \in DOMAIN q : GoneAfter(a, q, i) => GoneAfter(a, z, i)
  BY <1>0, <1>2 DEF GoneAfter
<1>6. /\ \A i \in DOMAIN q : Ends(a, q[i].notice) => a \notin r.members /\ \A j \in DOMAIN q : ~ Gone(a, q[j]) /\ (j > i => a \notin q[j].notice.to)
      /\ \A i \in DOMAIN q : Gone(a, q[i]) => a \notin r.members /\ \A j \in DOMAIN q : j > i => ~ Gone(a, q[j]) /\ ~ ShownTo(a, q[j])
  BY DEF Heard, OutLast
<1>7. \/ a \in r.members /\ (w = r \/ CarriedAfter(a, q, p))
      \/ EndedAfter(a, q, p) \/ GoneAfter(a, q, p)
  BY <1>0 DEF Heard, HeardInOrder
<1> HIDE DEF w
<1>8. InFirst(a, z, w, r)
  BY <1>0, <1>3 DEF InFirst
<1>9. OutLast(a, z, w, r)
  <2>1. ASSUME NEW i \in DOMAIN z, Ends(a, z[i].notice)
        PROVE  a \notin r.members /\ \A j \in DOMAIN z : ~ Gone(a, z[j]) /\ (j > i => a \notin z[j].notice.to)
    BY <1>0, <1>2, <1>6, <2>1
  <2>2. ASSUME NEW i \in DOMAIN z, Gone(a, z[i])
        PROVE  a \notin r.members /\ w # Outside /\ \A j \in DOMAIN z : j > i => ~ Gone(a, z[j]) /\ ~ ShownTo(a, z[j])
    BY <1>0, <1>2, <1>6, <2>2 DEF w
  <2> QED
    BY <2>1, <2>2 DEF OutLast
<1>10. HeardInOrder(a, z, w, r)
  <2>1. ASSUME NEW i \in DOMAIN z, ShownTo(a, z[i])
        PROVE  \/ a \in r.members /\ (z[i].notice.room = r \/ CarriedAfter(a, z, i))
               \/ EndedAfter(a, z, i) \/ GoneAfter(a, z, i)
    <3>1. \/ a \in r.members /\ (q[i].notice.room = r \/ CarriedAfter(a, q, i))
          \/ EndedAfter(a, q, i) \/ GoneAfter(a, q, i)
      BY <1>0, <2>1 DEF Heard, HeardInOrder
    <3> QED
      BY <1>0, <1>4, <1>5, <3>1
  <2>2. ASSUME NEW i \in DOMAIN z, a \in z[i].notice.to, a \in r.members
        PROVE  \/ CarriedAfter(a, z, i)
               \/ IF z[i].notice.kind = "players" THEN z[i].notice.room.members = r.members ELSE z[i].notice.room = r
    <3>1. z[i].notice = q[i].notice /\ i \in DOMAIN q
      BY <1>0
    <3>2. \/ CarriedAfter(a, q, i)
          \/ IF z[i].notice.kind = "players" THEN z[i].notice.room.members = r.members ELSE z[i].notice.room = r
      BY <2>2, <3>1 DEF Heard, HeardInOrder
    <3> QED
      BY <1>4, <3>1, <3>2
  <2>3. ASSUME NEW i \in DOMAIN z, a \in z[i].notice.to, a \notin r.members
        PROVE  Ends(a, z[i].notice) \/ EndedAfter(a, z, i) \/ \E k \in DOMAIN z : Gone(a, z[k])
    <3>1. EndedAfter(a, q, p) \/ GoneAfter(a, q, p)
      BY <1>7, <2>3
    <3>2. CASE GoneAfter(a, q, p)
      BY <1>0, <1>2, <3>2 DEF GoneAfter
    <3>3. CASE EndedAfter(a, q, p)
      <4>1. PICK j \in DOMAIN q : j > p /\ Ends(a, q[j].notice)
        BY <3>3 DEF EndedAfter
      <4>2. ~ (i > j)
        BY <1>0, <1>6, <2>3, <4>1
      <4>3. i = j \/ j > i
        BY <1>0, <4>2
      <4> QED
        BY <1>0, <4>1, <4>3 DEF EndedAfter
    <3> QED
      BY <3>1, <3>2, <3>3
  <2> QED
    BY <2>1, <2>2, <2>3 DEF HeardInOrder
<1>11. ShowsSoon(a, z, w, r)
  <2>1. EndedAfter(a, q, p) => a \notin r.members /\ \E i \in DOMAIN z : Ends(a, z[i].notice)
    BY <1>0, <1>6 DEF EndedAfter
  <2>2. GoneAfter(a, q, p) => a \notin r.members /\ \E i \in DOMAIN z : Gone(a, z[i])
    BY <1>0, <1>2, <1>6 DEF GoneAfter
  <2>3. CarriedAfter(a, q, p) => \E i \in DOMAIN z : Carries(a, z[i].notice)
    BY <1>0 DEF CarriedAfter
  <2>4. w # Outside
    BY DEF w
  <2> QED
    BY <1>7, <2>1, <2>2, <2>3, <2>4 DEF ShowsSoon
<1> QED
  BY <1>8, <1>9, <1>10, <1>11 DEF Heard, w

\* The answer that shows a that it has left.
LEMMA GoneAnswer ==
    ASSUME NEW a \in Guests, NEW z, NEW q, NEW p, AnsweredAt(z, q, p), NEW v, NEW r, Heard(a, q, v, r),
           Gone(a, q[p]), \A k \in DOMAIN q : k < p => ~ ShownTo(a, q[k]) /\ ~ Gone(a, q[k])
    PROVE  Heard(a, z, Outside, r) /\ ShowsSoon(a, z, Outside, r)
<1>0. /\ DOMAIN z = DOMAIN q /\ DOMAIN q \subseteq Nat /\ p \in DOMAIN q
      /\ \A i \in DOMAIN q : z[i].notice = q[i].notice
      /\ \A i \in DOMAIN q : ShownTo(a, z[i]) <=> ShownTo(a, q[i]) /\ i # p
      /\ \A i \in DOMAIN q : Gone(a, z[i]) <=> Gone(a, q[i]) /\ i # p
  BY AnswerLeaves
<1>1. a \notin r.members /\ v # Outside /\ \A j \in DOMAIN q : j > p => ~ Gone(a, q[j]) /\ ~ ShownTo(a, q[j])
  BY <1>0 DEF Heard, OutLast
<1>2. \A i \in DOMAIN q : i = p \/ i < p \/ i > p
  BY <1>0
<1>3. \A i \in DOMAIN z : ~ ShownTo(a, z[i]) /\ ~ Gone(a, z[i])
  BY <1>0, <1>1, <1>2
<1>4. \A i \in DOMAIN z : ~ LetsIn(a, z[i].notice) /\ ~ Ends(a, z[i].notice)
  BY <1>0, <1>1 DEF Heard, InFirst, OutLast
<1>5. InFirst(a, z, Outside, r) /\ OutLast(a, z, Outside, r)
  BY <1>3, <1>4 DEF InFirst, OutLast
<1>6. HeardInOrder(a, z, Outside, r)
  BY <1>1, <1>3 DEF HeardInOrder
<1>7. ShowsSoon(a, z, Outside, r)
  BY <1>1 DEF ShowsSoon
<1> QED
  BY <1>5, <1>6, <1>7 DEF Heard

-----------------------------------------------------------------------------
(* What is heard next.                                                     *)

\* z is q without its first operation, which nobody waits for.
TailOf(z, q) ==
    /\ DOMAIN q = 1 .. Len(q) /\ Len(q) \in Nat \ {0} /\ DOMAIN z = 1 .. Len(q) - 1
    /\ \A i \in DOMAIN z : z[i] = q[i + 1]
    /\ q[1].by = "nobody"

\* Every place of q but the first is one of z, and in the same order.
LEMMA TailPlaces ==
    ASSUME NEW a \in Guests, NEW z, NEW q, TailOf(z, q)
    PROVE  /\ DOMAIN z \subseteq Nat /\ DOMAIN q \subseteq Nat /\ 1 \in DOMAIN q /\ \A i \in DOMAIN q : i = 1 \/ i > 1
           /\ \A i \in DOMAIN z : i + 1 \in DOMAIN q /\ i + 1 > 1 /\ z[i] = q[i + 1]
           /\ \A j \in DOMAIN q : j = 1 \/ \E i \in DOMAIN z : j = i + 1
           /\ ~ ShownTo(a, q[1]) /\ ~ Gone(a, q[1])
           /\ \A i \in DOMAIN z : /\ CarriedAfter(a, q, i + 1) => CarriedAfter(a, z, i)
                                  /\ EndedAfter(a, q, i + 1) => EndedAfter(a, z, i)
                                  /\ GoneAfter(a, q, i + 1) => GoneAfter(a, z, i)
           /\ CarriedAfter(a, q, 1) => \E i \in DOMAIN z : Carries(a, z[i].notice)
           /\ EndedAfter(a, q, 1) => \E i \in DOMAIN z : Ends(a, z[i].notice)
<1> DEFINE n == Len(q)
<1>1. /\ DOMAIN q = 1 .. n /\ n \in Nat /\ n >= 1 /\ DOMAIN z = 1 .. n - 1
      /\ \A i \in DOMAIN z : z[i] = q[i + 1]
  BY DEF TailOf
<1> HIDE DEF n
<1>2. \A j \in DOMAIN q : j = 1 \/ (j - 1 \in DOMAIN z /\ j = (j - 1) + 1)
  BY <1>1
<1>3. \A j \in DOMAIN q : j = 1 \/ \E i \in DOMAIN z : j = i + 1
  BY <1>2
<1>4. \A i \in DOMAIN z : i + 1 \in DOMAIN q /\ i + 1 > 1
  BY <1>1
<1>5. DOMAIN z \subseteq Nat /\ DOMAIN q \subseteq Nat /\ 1 \in DOMAIN q /\ \A i \in DOMAIN q : i = 1 \/ i > 1
  BY <1>1
<1>6. ~ ShownTo(a, q[1]) /\ ~ Gone(a, q[1])
  BY NoticesAssumption DEF TailOf, ShownTo, Gone
<1>7. ASSUME NEW i \in DOMAIN z, NEW j \in DOMAIN q, j > i + 1
      PROVE  \E k \in DOMAIN z : k > i /\ z[k] = q[j]
  <2>1. j - 1 \in DOMAIN z /\ (j - 1) + 1 = j /\ j - 1 > i
    BY <1>1, <1>7
  <2> QED
    BY <1>1, <2>1
<1>8. ASSUME NEW i \in DOMAIN z
      PROVE  /\ CarriedAfter(a, q, i + 1) => CarriedAfter(a, z, i)
             /\ EndedAfter(a, q, i + 1) => EndedAfter(a, z, i)
             /\ GoneAfter(a, q, i + 1) => GoneAfter(a, z, i)
  <2>1. CarriedAfter(a, q, i + 1) => CarriedAfter(a, z, i)
    BY <1>7 DEF CarriedAfter
  <2>2. EndedAfter(a, q, i + 1) => EndedAfter(a, z, i)
    BY <1>7 DEF EndedAfter
  <2>3. GoneAfter(a, q, i + 1) => GoneAfter(a, z, i)
    BY <1>7 DEF GoneAfter
  <2> QED
    BY <2>1, <2>2, <2>3
<1>9. \A j \in DOMAIN q : j > 1 => \E i \in DOMAIN z : z[i] = q[j]
  BY <1>1, <1>2
<1>10. CarriedAfter(a, q, 1) => \E i \in DOMAIN z : Carries(a, z[i].notice)
  BY <1>9 DEF CarriedAfter
<1>11. EndedAfter(a, q, 1) => \E i \in DOMAIN z : Ends(a, z[i].notice)
  BY <1>9 DEF EndedAfter
<1>12. \A i \in DOMAIN z : i + 1 \in DOMAIN q /\ i + 1 > 1 /\ z[i] = q[i + 1]
  BY <1>1, <1>4
<1>13. \A i \in DOMAIN z : /\ CarriedAfter(a, q, i + 1) => CarriedAfter(a, z, i)
                           /\ EndedAfter(a, q, i + 1) => EndedAfter(a, z, i)
                           /\ GoneAfter(a, q, i + 1) => GoneAfter(a, z, i)
  BY <1>8
<1> QED
  BY <1>3, <1>5, <1>6, <1>10, <1>11, <1>12, <1>13

\* Whatever was heard, as long as it neither lets a in nor sends it out.
LEMMA TailKeeps ==
    ASSUME NEW a \in Guests, NEW z, NEW q, TailOf(z, q), NEW v, NEW w, NEW r, Heard(a, q, v, r),
           v = Outside <=> w = Outside
    PROVE  Heard(a, z, w, r)
<1>0. /\ DOMAIN z \subseteq Nat /\ DOMAIN q \subseteq Nat /\ 1 \in DOMAIN q
      /\ \A i \in DOMAIN z : i + 1 \in DOMAIN q /\ i + 1 > 1 /\ z[i] = q[i + 1]
      /\ \A j \in DOMAIN q : j = 1 \/ \E i \in DOMAIN z : j = i + 1
      /\ ~ ShownTo(a, q[1]) /\ ~ Gone(a, q[1])
      /\ \A i \in DOMAIN z : /\ CarriedAfter(a, q, i + 1) => CarriedAfter(a, z, i)
                             /\ EndedAfter(a, q, i + 1) => EndedAfter(a, z, i)
                             /\ GoneAfter(a, q, i + 1) => GoneAfter(a, z, i)
  BY TailPlaces
<1>m. \A i, j \in DOMAIN z : (j < i => j + 1 < i + 1) /\ (j > i => j + 1 > i + 1)
  BY <1>0
<1>1. InFirst(a, z, w, r)
  <2> SUFFICES ASSUME NEW i \in DOMAIN z, LetsIn(a, z[i].notice)
               PROVE  /\ w = Outside
                      /\ \A j \in DOMAIN z : (j < i => a \notin z[j].notice.to) /\ ~ ShownTo(a, z[j]) /\ ~ Gone(a, z[j])
                      /\ a \in r.members \/ EndedAfter(a, z, i)
    BY DEF InFirst
  <2>1. /\ v = Outside
        /\ \A j \in DOMAIN q : (j < i + 1 => a \notin q[j].notice.to) /\ ~ ShownTo(a, q[j]) /\ ~ Gone(a, q[j])
        /\ a \in r.members \/ EndedAfter(a, q, i + 1)
    BY <1>0 DEF Heard, InFirst
  <2> QED
    BY <1>0, <1>m, <2>1
<1>2. OutLast(a, z, w, r)
  <2>1. ASSUME NEW i \in DOMAIN z, Ends(a, z[i].notice)
        PROVE  a \notin r.members /\ \A j \in DOMAIN z : ~ Gone(a, z[j]) /\ (j > i => a \notin z[j].notice.to)
    <3>1. a \notin r.members /\ \A j \in DOMAIN q : ~ Gone(a, q[j]) /\ (j > i + 1 => a \notin q[j].notice.to)
      BY <1>0, <2>1 DEF Heard, OutLast
    <3> QED
      BY <1>0, <1>m, <3>1
  <2>2. ASSUME NEW i \in DOMAIN z, Gone(a, z[i])
        PROVE  a \notin r.members /\ w # Outside /\ \A j \in DOMAIN z : j > i => ~ Gone(a, z[j]) /\ ~ ShownTo(a, z[j])
    <3>1. a \notin r.members /\ v # Outside /\ \A j \in DOMAIN q : j > i + 1 => ~ Gone(a, q[j]) /\ ~ ShownTo(a, q[j])
      BY <1>0, <2>2 DEF Heard, OutLast
    <3> QED
      BY <1>0, <1>m, <3>1
  <2> QED
    BY <2>1, <2>2 DEF OutLast
<1>3. HeardInOrder(a, z, w, r)
  <2>1. ASSUME NEW i \in DOMAIN z, ShownTo(a, z[i])
        PROVE  \/ a \in r.members /\ (z[i].notice.room = r \/ CarriedAfter(a, z, i))
               \/ EndedAfter(a, z, i) \/ GoneAfter(a, z, i)
    <3>1. \/ a \in r.members /\ (q[i + 1].notice.room = r \/ CarriedAfter(a, q, i + 1))
          \/ EndedAfter(a, q, i + 1) \/ GoneAfter(a, q, i + 1)
      BY <1>0, <2>1 DEF Heard, HeardInOrder
    <3> QED
      BY <1>0, <3>1
  <2>2. ASSUME NEW i \in DOMAIN z, a \in z[i].notice.to, a \in r.members
        PROVE  \/ CarriedAfter(a, z, i)
               \/ IF z[i].notice.kind = "players" THEN z[i].notice.room.members = r.members ELSE z[i].notice.room = r
    <3>1. z[i].notice = q[i + 1].notice /\ i + 1 \in DOMAIN q
      BY <1>0
    <3>2. \/ CarriedAfter(a, q, i + 1)
          \/ IF z[i].notice.kind = "players" THEN z[i].notice.room.members = r.members ELSE z[i].notice.room = r
      BY <2>2, <3>1 DEF Heard, HeardInOrder
    <3> QED
      BY <1>0, <3>2
  <2>3. ASSUME NEW i \in DOMAIN z, a \in z[i].notice.to, a \notin r.members
        PROVE  w = Outside \/ Ends(a, z[i].notice) \/ EndedAfter(a, z, i) \/ \E k \in DOMAIN z : Gone(a, z[k])
    <3>1. z[i].notice = q[i + 1].notice /\ i + 1 \in DOMAIN q
      BY <1>0
    <3>2. v = Outside \/ Ends(a, z[i].notice) \/ EndedAfter(a, q, i + 1) \/ \E k \in DOMAIN q : Gone(a, q[k])
      BY <2>3, <3>1 DEF Heard, HeardInOrder
    <3>3. (\E k \in DOMAIN q : Gone(a, q[k])) => \E k \in DOMAIN z : Gone(a, z[k])
      BY <1>0
    <3> QED
      BY <1>0, <3>2, <3>3
  <2> QED
    BY <2>1, <2>2, <2>3 DEF HeardInOrder
<1> QED
  BY <1>1, <1>2, <1>3 DEF Heard

\* A notice that is not to a leaves it what it will show.
LEMMA TailUntold ==
    ASSUME NEW a \in Guests, NEW z, NEW q, TailOf(z, q), NEW v, NEW r, a \notin q[1].notice.to, ShowsSoon(a, q, v, r)
    PROVE  ShowsSoon(a, z, v, r)
<1>0. /\ DOMAIN z \subseteq Nat /\ DOMAIN q \subseteq Nat /\ 1 \in DOMAIN q
      /\ \A i \in DOMAIN z : i + 1 \in DOMAIN q /\ z[i] = q[i + 1]
      /\ \A j \in DOMAIN q : j = 1 \/ \E i \in DOMAIN z : j = i + 1
      /\ ~ ShownTo(a, q[1]) /\ ~ Gone(a, q[1])
  BY TailPlaces
<1>1. (\E i \in DOMAIN q : Carries(a, q[i].notice)) => \E i \in DOMAIN z : Carries(a, z[i].notice)
  BY <1>0 DEF Carries
<1>2. (\E i \in DOMAIN q : LetsIn(a, q[i].notice)) => \E i \in DOMAIN z : LetsIn(a, z[i].notice)
  BY <1>0 DEF LetsIn
<1>3. (\E i \in DOMAIN q : Ends(a, q[i].notice)) => \E i \in DOMAIN z : Ends(a, z[i].notice)
  BY <1>0 DEF Ends
<1>4. (\E i \in DOMAIN q : Gone(a, q[i])) => \E i \in DOMAIN z : Gone(a, z[i])
  BY <1>0
<1>5. Opening(a, q) => Opening(a, z)
  <2> SUFFICES ASSUME NEW j \in DOMAIN q, ShownTo(a, q[j]), \A k \in DOMAIN q : k <= j => a \notin q[k].notice.to
               PROVE  Opening(a, z)
    BY DEF Opening
  <2>1. PICK i \in DOMAIN z : j = i + 1
    BY <1>0
  <2>2. \A k \in DOMAIN z : k <= i => k + 1 <= j
    BY <1>0, <2>1
  <2> QED
    BY <1>0, <2>1, <2>2 DEF Opening
<1> QED
  BY <1>1, <1>2, <1>3, <1>4, <1>5 DEF ShowsSoon

\* a is told: it is sent out.
LEMMA ToldToGo ==
    ASSUME NEW a \in Guests, NEW z, NEW q, TailOf(z, q), NEW v, NEW r, Heard(a, q, v, r), Ends(a, q[1].notice)
    PROVE  Heard(a, z, Outside, r) /\ ShowsSoon(a, z, Outside, r)
<1>0. /\ DOMAIN z \subseteq Nat /\ DOMAIN q \subseteq Nat /\ 1 \in DOMAIN q /\ \A i \in DOMAIN q : i = 1 \/ i > 1
      /\ \A i \in DOMAIN z : i + 1 \in DOMAIN q /\ i + 1 > 1 /\ z[i] = q[i + 1]
      /\ ~ ShownTo(a, q[1])
  BY TailPlaces
<1>1. a \notin r.members /\ \A j \in DOMAIN q : ~ Gone(a, q[j]) /\ (j > 1 => a \notin q[j].notice.to)
  BY <1>0 DEF Heard, OutLast
<1>2. \A j \in DOMAIN q : ~ ShownTo(a, q[j])
  <2> SUFFICES ASSUME NEW j \in DOMAIN q, ShownTo(a, q[j]) PROVE FALSE
    OBVIOUS
  <2>1. EndedAfter(a, q, j) \/ GoneAfter(a, q, j)
    BY <1>1 DEF Heard, HeardInOrder
  <2>2. PICK k \in DOMAIN q : k > j /\ (Ends(a, q[k].notice) \/ Gone(a, q[k]))
    BY <2>1 DEF EndedAfter, GoneAfter
  <2>3. k > 1
    BY <1>0, <2>2
  <2> QED
    BY <1>1, <2>2, <2>3 DEF Ends
<1>3. \A i \in DOMAIN z : a \notin z[i].notice.to /\ ~ ShownTo(a, z[i]) /\ ~ Gone(a, z[i])
  BY <1>0, <1>1, <1>2
<1>4. \A i \in DOMAIN z : ~ LetsIn(a, z[i].notice) /\ ~ Ends(a, z[i].notice)
  BY <1>3 DEF LetsIn, Ends
<1>5. InFirst(a, z, Outside, r) /\ OutLast(a, z, Outside, r)
  BY <1>3, <1>4 DEF InFirst, OutLast
<1>6. HeardInOrder(a, z, Outside, r)
  BY <1>3 DEF HeardInOrder
<1>7. ShowsSoon(a, z, Outside, r)
  BY <1>1 DEF ShowsSoon
<1> QED
  BY <1>5, <1>6, <1>7 DEF Heard

\* a is told: it is let in.
LEMMA ToldToCome ==
    ASSUME NEW a \in Guests, NEW z, NEW q, TailOf(z, q), NEW v, NEW r, Heard(a, q, v, r),
           LetsIn(a, q[1].notice), q[1].notice.room # Outside
    PROVE  Heard(a, z, q[1].notice.room, r) /\ ShowsSoon(a, z, q[1].notice.room, r)
<1> DEFINE w == q[1].notice.room
<1>0. /\ DOMAIN z \subseteq Nat /\ DOMAIN q \subseteq Nat /\ 1 \in DOMAIN q /\ \A i \in DOMAIN q : i = 1 \/ i > 1
      /\ \A i \in DOMAIN z : i + 1 \in DOMAIN q /\ i + 1 > 1 /\ z[i] = q[i + 1]
      /\ \A i \in DOMAIN z : /\ CarriedAfter(a, q, i + 1) => CarriedAfter(a, z, i)
                             /\ EndedAfter(a, q, i + 1) => EndedAfter(a, z, i)
      /\ CarriedAfter(a, q, 1) => \E i \in DOMAIN z : Carries(a, z[i].notice)
      /\ EndedAfter(a, q, 1) => \E i \in DOMAIN z : Ends(a, z[i].notice)
  BY TailPlaces
<1>m. \A i, j \in DOMAIN z : j > i => j + 1 > i + 1
  BY <1>0
<1>1. /\ \A j \in DOMAIN q : ~ ShownTo(a, q[j]) /\ ~ Gone(a, q[j])
      /\ a \in r.members \/ EndedAfter(a, q, 1)
  BY <1>0 DEF Heard, InFirst
<1>2. \A i \in DOMAIN z : ~ LetsIn(a, z[i].notice) /\ ~ ShownTo(a, z[i]) /\ ~ Gone(a, z[i])
  <2> SUFFICES ASSUME NEW i \in DOMAIN z PROVE ~ LetsIn(a, q[i + 1].notice)
    BY <1>0, <1>1
  <2>1. 1 < i + 1 /\ i + 1 \in DOMAIN q
    BY <1>0
  <2>2. a \in q[1].notice.to
    BY DEF LetsIn
  <2> QED
    BY <1>0, <2>1, <2>2 DEF Heard, InFirst
<1>3. InFirst(a, z, w, r)
  BY <1>2 DEF InFirst
<1>4. OutLast(a, z, w, r)
  <2>1. ASSUME NEW i \in DOMAIN z, Ends(a, z[i].notice)
        PROVE  a \notin r.members /\ \A j \in DOMAIN z : j > i => a \notin z[j].notice.to
    <3>1. a \notin r.members /\ \A j \in DOMAIN q : j > i + 1 => a \notin q[j].notice.to
      BY <1>0, <2>1 DEF Heard, OutLast
    <3> QED
      BY <1>0, <1>m, <3>1
  <2> QED
    BY <1>2, <2>1 DEF OutLast
<1>5. HeardInOrder(a, z, w, r)
  <2>2. ASSUME NEW i \in DOMAIN z, a \in z[i].notice.to, a \in r.members
        PROVE  \/ CarriedAfter(a, z, i)
               \/ IF z[i].notice.kind = "players" THEN z[i].notice.room.members = r.members ELSE z[i].notice.room = r
    <3>1. z[i].notice = q[i + 1].notice /\ i + 1 \in DOMAIN q
      BY <1>0
    <3>2. \/ CarriedAfter(a, q, i + 1)
          \/ IF z[i].notice.kind = "players" THEN z[i].notice.room.members = r.members ELSE z[i].notice.room = r
      BY <2>2, <3>1 DEF Heard, HeardInOrder
    <3> QED
      BY <1>0, <3>2
  <2>3. ASSUME NEW i \in DOMAIN z, a \in z[i].notice.to, a \notin r.members
        PROVE  Ends(a, z[i].notice) \/ EndedAfter(a, z, i)
    <3>1. EndedAfter(a, q, 1)
      BY <1>1, <2>3
    <3>2. PICK k \in DOMAIN z : Ends(a, z[k].notice)
      BY <1>0, <3>1
    <3>3. ~ (i > k)
      <4>1. Ends(a, q[k + 1].notice) /\ z[i].notice = q[i + 1].notice /\ k + 1 \in DOMAIN q /\ i + 1 \in DOMAIN q
        BY <1>0, <3>2
      <4>2. ~ (i + 1 > k + 1)
        BY <2>3, <4>1 DEF Heard, OutLast
      <4> QED
        BY <1>0, <4>2
    <3>4. i = k \/ k > i
      BY <1>0, <3>3
    <3> QED
      BY <3>2, <3>4 DEF EndedAfter
  <2> QED
    BY <1>2, <2>2, <2>3 DEF HeardInOrder
<1>6. ShowsSoon(a, z, w, r)
  <2>1. CASE a \in r.members
    <3>1. a \in q[1].notice.to /\ q[1].notice.kind = "join"
      BY DEF LetsIn
    <3>2. CarriedAfter(a, q, 1) \/ w = r
      BY <1>0, <2>1, <3>1 DEF Heard, HeardInOrder
    <3> QED
      BY <1>0, <2>1, <3>2 DEF ShowsSoon
  <2>2. CASE a \notin r.members
    BY <1>0, <1>1, <2>2 DEF ShowsSoon
  <2> QED
    BY <2>1, <2>2
<1> QED
  BY <1>3, <1>4, <1>5, <1>6 DEF Heard

\* a is told of a room it does not show: it will be let in later, or never.
LEMMA ToldOutside ==
    ASSUME NEW a \in Guests, NEW z, NEW q, TailOf(z, q), NEW r, Heard(a, q, Outside, r),
           a \in q[1].notice.to, ~ LetsIn(a, q[1].notice), ShowsSoon(a, q, Outside, r)
    PROVE  ShowsSoon(a, z, Outside, r)
<1>0. DOMAIN q \subseteq Nat /\ 1 \in DOMAIN q /\ \A i \in DOMAIN q : i = 1 \/ i > 1
  BY TailPlaces
<1>1. ~ Opening(a, q)
  <2> SUFFICES ASSUME NEW j \in DOMAIN q, \A k \in DOMAIN q : k <= j => a \notin q[k].notice.to PROVE FALSE
    BY DEF Opening
  <2>1. j \in Nat /\ (j = 1 \/ j > 1)
    BY <1>0
  <2>2. 1 <= j
    BY <2>1
  <2> QED
    BY <1>0, <2>2
<1>2. \A i \in DOMAIN q : ~ LetsIn(a, q[i].notice)
  <2> SUFFICES ASSUME NEW i \in DOMAIN q, LetsIn(a, q[i].notice) PROVE FALSE
    OBVIOUS
  <2>1. 1 < i
    BY <1>0
  <2> QED
    BY <1>0, <2>1 DEF Heard, InFirst
<1>3. a \notin r.members
  BY <1>1, <1>2 DEF ShowsSoon
<1> QED
  BY <1>3 DEF ShowsSoon

\* a is told the players of the room it shows.
LEMMA ToldPlayers ==
    ASSUME NEW a \in Guests, NEW z, NEW q, TailOf(z, q), NEW v \in Rooms, NEW r \in RoomRosters, Heard(a, q, v, r),
           a \in q[1].notice.to, q[1].notice.kind = "players", ShowsSoon(a, q, v, r)
    PROVE  ShowsSoon(a, z, [v EXCEPT !.members = q[1].notice.room.members], r)
<1> DEFINE w == [v EXCEPT !.members = q[1].notice.room.members]
<1>0. /\ DOMAIN q \subseteq Nat /\ 1 \in DOMAIN q /\ \A i \in DOMAIN q : i = 1 \/ i > 1
      /\ \A i \in DOMAIN z : z[i] = q[i + 1]
      /\ \A j \in DOMAIN q : j = 1 \/ \E i \in DOMAIN z : j = i + 1
      /\ ~ Gone(a, q[1])
      /\ CarriedAfter(a, q, 1) => \E i \in DOMAIN z : Carries(a, z[i].notice)
  BY TailPlaces
<1>1. ~ Opening(a, q)
  <2> SUFFICES ASSUME NEW j \in DOMAIN q, \A k \in DOMAIN q : k <= j => a \notin q[k].notice.to PROVE FALSE
    BY DEF Opening
  <2>1. j \in Nat /\ (j = 1 \/ j > 1)
    BY <1>0
  <2>2. 1 <= j
    BY <2>1
  <2> QED
    BY <1>0, <2>2
<1>2. v # Outside /\ w # Outside
  BY NoticesAssumption DEF Rooms, Outside, NoRecord
<1>3. ~ Carries(a, q[1].notice) /\ ~ Ends(a, q[1].notice)
  BY DEF Carries, Ends, SendsOut
<1>4. (\E i \in DOMAIN q : Carries(a, q[i].notice)) => \E i \in DOMAIN z : Carries(a, z[i].notice)
  BY <1>0, <1>3
<1>5. (\E i \in DOMAIN q : Ends(a, q[i].notice)) => \E i \in DOMAIN z : Ends(a, z[i].notice)
  BY <1>0, <1>3
<1>6. (\E i \in DOMAIN q : Gone(a, q[i])) => \E i \in DOMAIN z : Gone(a, z[i])
  BY <1>0
<1>7. CASE a \in r.members
  <2>1. CarriedAfter(a, q, 1) \/ q[1].notice.room.members = r.members
    BY <1>0, <1>7 DEF Heard, HeardInOrder
  <2>2. q[1].notice.room.members = r.members /\ v = r => w = r
    BY DEF Rooms
  <2>3. v = r \/ \E i \in DOMAIN q : Carries(a, q[i].notice)
    BY <1>1, <1>7 DEF ShowsSoon
  <2>4. w = r \/ \E i \in DOMAIN z : Carries(a, z[i].notice)
    BY <1>0, <1>4, <2>1, <2>2, <2>3
  <2> HIDE DEF w
  <2>5. ShowsSoon(a, z, w, r)
    BY <1>2, <1>7, <2>4 DEF ShowsSoon
  <2> QED
    BY <2>5 DEF w
<1>8. CASE a \notin r.members
  <2> HIDE DEF w
  <2>1. ShowsSoon(a, z, w, r)
    BY <1>2, <1>5, <1>6, <1>8 DEF ShowsSoon
  <2> QED
    BY <2>1 DEF w
<1> QED
  BY <1>7, <1>8

\* a is told the whole of the room it shows.
LEMMA ToldRoom ==
    ASSUME NEW a \in Guests, NEW z, NEW q, TailOf(z, q), NEW v, NEW r, Heard(a, q, v, r), v # Outside,
           a \in q[1].notice.to, q[1].notice.kind # "players", ~ Ends(a, q[1].notice), q[1].notice.room # Outside
    PROVE  ShowsSoon(a, z, q[1].notice.room, r)
<1> DEFINE w == q[1].notice.room
<1>0. /\ 1 \in DOMAIN q
      /\ \A i \in DOMAIN z : z[i] = q[i + 1]
      /\ \A j \in DOMAIN q : j = 1 \/ \E i \in DOMAIN z : j = i + 1
      /\ ~ Gone(a, q[1])
      /\ CarriedAfter(a, q, 1) => \E i \in DOMAIN z : Carries(a, z[i].notice)
      /\ EndedAfter(a, q, 1) => \E i \in DOMAIN z : Ends(a, z[i].notice)
  BY TailPlaces
<1>1. CASE a \in r.members
  <2>1. CarriedAfter(a, q, 1) \/ w = r
    BY <1>0, <1>1 DEF Heard, HeardInOrder
  <2> QED
    BY <1>0, <1>1, <2>1 DEF ShowsSoon
<1>2. CASE a \notin r.members
  <2>1. EndedAfter(a, q, 1) \/ \E k \in DOMAIN q : Gone(a, q[k])
    BY <1>0, <1>2 DEF Heard, HeardInOrder
  <2>2. (\E k \in DOMAIN q : Gone(a, q[k])) => \E k \in DOMAIN z : Gone(a, z[k])
    BY <1>0
  <2> QED
    BY <1>0, <1>2, <2>1, <2>2 DEF ShowsSoon
<1> QED
  BY <1>1, <1>2

-----------------------------------------------------------------------------
(* What an operation adds.                                                 *)

\* z is q and then o.
AddedTo(z, q, o) ==
    /\ DOMAIN q = 1 .. Len(q) /\ Len(q) \in Nat /\ DOMAIN z = 1 .. Len(q) + 1
    /\ \A i \in DOMAIN q : z[i] = q[i]
    /\ z[Len(q) + 1] = o

\* The places of z are those of q and n.
Places(a, z, q, o, n) ==
    /\ \A i \in DOMAIN z : i = n \/ i \in DOMAIN q
    /\ \A i \in DOMAIN q : i \in DOMAIN z /\ z[i] = q[i] /\ n > i /\ ~ (i > n) /\ ~ (i = n)
    /\ n \in DOMAIN z /\ z[n] = o /\ ~ (n > n) /\ DOMAIN z \subseteq Nat
    /\ \A i \in DOMAIN q : /\ CarriedAfter(a, q, i) => CarriedAfter(a, z, i)
                           /\ EndedAfter(a, q, i) => EndedAfter(a, z, i)
                           /\ GoneAfter(a, q, i) => GoneAfter(a, z, i)
                           /\ Carries(a, o.notice) => CarriedAfter(a, z, i)
                           /\ Ends(a, o.notice) => EndedAfter(a, z, i)
                           /\ Gone(a, o) => GoneAfter(a, z, i)
    /\ Opening(a, q) => Opening(a, z)

LEMMA AddedPlaces ==
    ASSUME NEW a, NEW z, NEW q, NEW o, AddedTo(z, q, o)
    PROVE  Places(a, z, q, o, Len(q) + 1)
<1> DEFINE n == Len(q) + 1
<1>n. DOMAIN q = 1 .. Len(q) /\ Len(q) \in Nat /\ DOMAIN z = 1 .. n /\ z[n] = o
  BY DEF AddedTo
<1>0. DOMAIN q = 1 .. n - 1 /\ n \in Nat \ {0} /\ DOMAIN z = 1 .. n /\ z[n] = o
  BY <1>n
<1> HIDE DEF n
<1>1. \A i \in DOMAIN z : i = n \/ i \in DOMAIN q
  BY <1>0
<1>2. \A i \in DOMAIN q : i \in DOMAIN z /\ z[i] = q[i] /\ n > i /\ ~ (i > n) /\ ~ (i = n)
  BY <1>0 DEF AddedTo
<1>3. n \in DOMAIN z /\ z[n] = o /\ ~ (n > n) /\ DOMAIN z \subseteq Nat
  BY <1>0
<1>4. ASSUME NEW i \in DOMAIN q
      PROVE  /\ CarriedAfter(a, q, i) => CarriedAfter(a, z, i)
             /\ EndedAfter(a, q, i) => EndedAfter(a, z, i)
             /\ GoneAfter(a, q, i) => GoneAfter(a, z, i)
             /\ Carries(a, o.notice) => CarriedAfter(a, z, i)
             /\ Ends(a, o.notice) => EndedAfter(a, z, i)
             /\ Gone(a, o) => GoneAfter(a, z, i)
  <2>1. (CarriedAfter(a, q, i) => CarriedAfter(a, z, i)) /\ (Carries(a, o.notice) => CarriedAfter(a, z, i))
    BY <1>2, <1>3 DEF CarriedAfter
  <2>2. (EndedAfter(a, q, i) => EndedAfter(a, z, i)) /\ (Ends(a, o.notice) => EndedAfter(a, z, i))
    BY <1>2, <1>3 DEF EndedAfter
  <2>3. (GoneAfter(a, q, i) => GoneAfter(a, z, i)) /\ (Gone(a, o) => GoneAfter(a, z, i))
    BY <1>2, <1>3 DEF GoneAfter
  <2> QED
    BY <2>1, <2>2, <2>3
<1>5. Opening(a, q) => Opening(a, z)
  <2> SUFFICES ASSUME NEW i \in DOMAIN q, ShownTo(a, q[i]), \A k \in DOMAIN q : k <= i => a \notin q[k].notice.to
               PROVE  Opening(a, z)
    BY DEF Opening
  <2>1. \A k \in DOMAIN z : k <= i => k \in DOMAIN q
    BY <1>0
  <2> QED
    BY <1>2, <2>1 DEF Opening
<1>6. Places(a, z, q, o, n)
  BY <1>1, <1>2, <1>3, <1>4, <1>5 DEF Places
<1> QED
  BY <1>6 DEF n

\* What an operation o, which made r of s, is to a: it stays, goes, comes or is not concerned.
Stays(a, o, v, r, s) ==
    /\ a \in r.members /\ a \in s.members /\ (s = r \/ Carries(a, o.notice))
    /\ ~ LetsIn(a, o.notice) /\ ~ Ends(a, o.notice) /\ ~ Gone(a, o)
    /\ ShownTo(a, o) => o.notice.room = s /\ v # Outside
    /\ a \in o.notice.to => o.notice.room = s
Goes(a, o, v, r, s) ==
    /\ a \in r.members /\ a \notin s.members
    /\ ~ ShownTo(a, o) /\ ~ LetsIn(a, o.notice)
    /\ \/ Ends(a, o.notice) /\ ~ Gone(a, o)
       \/ Gone(a, o) /\ v # Outside /\ a \notin o.notice.to
Comes(a, o, q, v, r, s) ==
    /\ a \notin r.members /\ a \in s.members /\ v = Outside
    /\ \A i \in DOMAIN q : a \notin q[i].notice.to
    /\ ~ Gone(a, o) /\ o.notice.room = s
    /\ \/ LetsIn(a, o.notice) /\ ~ ShownTo(a, o)
       \/ ShownTo(a, o) /\ a \notin o.notice.to
Aside(a, o, r, s) ==
    a \notin r.members /\ a \notin s.members /\ ~ Touches(a, o)

\* An operation after which a is a member still.
LEMMA Staying ==
    ASSUME NEW a, NEW z, NEW q, NEW o, AddedTo(z, q, o), NEW v, NEW r, NEW s, Heard(a, q, v, r), Stays(a, o, v, r, s)
    PROVE  Heard(a, z, v, s) /\ (ShowsSoon(a, q, v, r) => ShowsSoon(a, z, v, s))
<1> DEFINE n == Len(q) + 1
<1>n. Places(a, z, q, o, n)
  BY AddedPlaces
<1> HIDE DEF n
<1>0. /\ \A i \in DOMAIN z : i = n \/ i \in DOMAIN q
      /\ \A i \in DOMAIN q : i \in DOMAIN z /\ z[i] = q[i] /\ n > i /\ ~ (i > n) /\ ~ (i = n)
      /\ n \in DOMAIN z /\ z[n] = o /\ ~ (n > n)
      /\ \A i \in DOMAIN q : /\ CarriedAfter(a, q, i) => CarriedAfter(a, z, i)
                             /\ Carries(a, o.notice) => CarriedAfter(a, z, i)
      /\ Opening(a, q) => Opening(a, z)
  BY <1>n DEF Places
<1>1. /\ a \in r.members /\ a \in s.members /\ (s = r \/ Carries(a, o.notice))
      /\ ~ LetsIn(a, o.notice) /\ ~ Ends(a, o.notice) /\ ~ Gone(a, o)
      /\ ShownTo(a, o) => o.notice.room = s /\ v # Outside
      /\ a \in o.notice.to => o.notice.room = s
  BY DEF Stays
<1>2. \A i \in DOMAIN q : ~ Ends(a, q[i].notice) /\ ~ Gone(a, q[i]) /\ ~ EndedAfter(a, q, i) /\ ~ GoneAfter(a, q, i)
  BY <1>1 DEF Heard, OutLast, EndedAfter, GoneAfter
<1>3. InFirst(a, z, v, s)
  <2> SUFFICES ASSUME NEW i \in DOMAIN z, LetsIn(a, z[i].notice)
               PROVE  v = Outside /\ \A j \in DOMAIN z : (j < i => a \notin z[j].notice.to) /\ ~ ShownTo(a, z[j]) /\ ~ Gone(a, z[j])
    BY <1>1 DEF InFirst
  <2>1. i \in DOMAIN q /\ LetsIn(a, q[i].notice)
    BY <1>0, <1>1
  <2>2. v = Outside /\ \A j \in DOMAIN q : (j < i => a \notin q[j].notice.to) /\ ~ ShownTo(a, q[j]) /\ ~ Gone(a, q[j])
    BY <2>1 DEF Heard, InFirst
  <2>3. ~ (n < i)
    BY <1>0, <2>1
  <2> QED
    BY <1>0, <1>1, <2>2, <2>3
<1>4. OutLast(a, z, v, s)
  BY <1>0, <1>1, <1>2 DEF OutLast
<1>5. HeardInOrder(a, z, v, s)
  <2>1. ASSUME NEW i \in DOMAIN z, ShownTo(a, z[i])
        PROVE  a \in s.members /\ (z[i].notice.room = s \/ CarriedAfter(a, z, i))
    <3>1. CASE i = n
      BY <1>0, <1>1, <2>1, <3>1
    <3>2. CASE i \in DOMAIN q
      <4>1. z[i] = q[i] /\ (q[i].notice.room = r \/ CarriedAfter(a, q, i))
        BY <1>0, <1>2, <2>1, <3>2 DEF Heard, HeardInOrder
      <4> QED
        BY <1>0, <1>1, <3>2, <4>1
    <3> QED
      BY <1>0, <3>1, <3>2
  <2>2. ASSUME NEW i \in DOMAIN z, a \in z[i].notice.to
        PROVE  \/ CarriedAfter(a, z, i)
               \/ IF z[i].notice.kind = "players" THEN z[i].notice.room.members = s.members ELSE z[i].notice.room = s
    <3>1. CASE i = n
      BY <1>0, <1>1, <2>2, <3>1
    <3>2. CASE i \in DOMAIN q
      <4>1. z[i] = q[i]
        BY <1>0, <3>2
      <4>2. \/ CarriedAfter(a, q, i)
            \/ IF q[i].notice.kind = "players" THEN q[i].notice.room.members = r.members ELSE q[i].notice.room = r
        BY <1>1, <2>2, <3>2, <4>1 DEF Heard, HeardInOrder
      <4>3. CASE s = r
        BY <1>0, <3>2, <4>1, <4>2, <4>3
      <4>4. CASE Carries(a, o.notice)
        BY <1>0, <3>2, <4>4
      <4> QED
        BY <1>1, <4>3, <4>4
    <3> QED
      BY <1>0, <3>1, <3>2
  <2> QED
    BY <1>1, <2>1, <2>2 DEF HeardInOrder
<1>6. ASSUME ShowsSoon(a, q, v, r) PROVE ShowsSoon(a, z, v, s)
  <2>1. /\ v = r \/ (\E i \in DOMAIN q : Carries(a, q[i].notice)) \/ Opening(a, q)
        /\ v # Outside \/ (\E i \in DOMAIN q : LetsIn(a, q[i].notice)) \/ Opening(a, q)
    BY <1>1, <1>6 DEF ShowsSoon
  <2>2. (\E i \in DOMAIN q : Carries(a, q[i].notice)) => \E i \in DOMAIN z : Carries(a, z[i].notice)
    BY <1>0
  <2>3. (\E i \in DOMAIN q : LetsIn(a, q[i].notice)) => \E i \in DOMAIN z : LetsIn(a, z[i].notice)
    BY <1>0
  <2>4. s = r \/ \E i \in DOMAIN z : Carries(a, z[i].notice)
    BY <1>0, <1>1
  <2>5. v = s \/ (\E i \in DOMAIN z : Carries(a, z[i].notice)) \/ Opening(a, z)
    BY <1>0, <2>1, <2>2, <2>4
  <2>6. v # Outside \/ (\E i \in DOMAIN z : LetsIn(a, z[i].notice)) \/ Opening(a, z)
    BY <1>0, <2>1, <2>3
  <2> QED
    BY <1>1, <2>5, <2>6 DEF ShowsSoon
<1> QED
  BY <1>3, <1>4, <1>5, <1>6 DEF Heard

\* An operation that takes a out of the room.
LEMMA Going ==
    ASSUME NEW a, NEW z, NEW q, NEW o, AddedTo(z, q, o), NEW v, NEW r, NEW s, Heard(a, q, v, r), Goes(a, o, v, r, s)
    PROVE  Heard(a, z, v, s) /\ ShowsSoon(a, z, v, s)
<1> DEFINE n == Len(q) + 1
<1>n. Places(a, z, q, o, n)
  BY AddedPlaces
<1> HIDE DEF n
<1>0. /\ \A i \in DOMAIN z : i = n \/ i \in DOMAIN q
      /\ \A i \in DOMAIN q : i \in DOMAIN z /\ z[i] = q[i] /\ n > i /\ ~ (i > n) /\ ~ (i = n)
      /\ n \in DOMAIN z /\ z[n] = o /\ ~ (n > n)
      /\ \A i \in DOMAIN q : (Ends(a, o.notice) => EndedAfter(a, z, i)) /\ (Gone(a, o) => GoneAfter(a, z, i))
  BY <1>n DEF Places
<1>1. /\ a \in r.members /\ a \notin s.members
      /\ ~ ShownTo(a, o) /\ ~ LetsIn(a, o.notice)
      /\ \/ Ends(a, o.notice) /\ ~ Gone(a, o)
         \/ Gone(a, o) /\ v # Outside /\ a \notin o.notice.to
  BY DEF Goes
<1>2. \A i \in DOMAIN q : ~ Ends(a, q[i].notice) /\ ~ Gone(a, q[i])
  BY <1>1 DEF Heard, OutLast
<1>3. InFirst(a, z, v, s)
  <2> SUFFICES ASSUME NEW i \in DOMAIN z, LetsIn(a, z[i].notice)
               PROVE  /\ v = Outside
                      /\ \A j \in DOMAIN z : (j < i => a \notin z[j].notice.to) /\ ~ ShownTo(a, z[j]) /\ ~ Gone(a, z[j])
                      /\ EndedAfter(a, z, i)
    BY DEF InFirst
  <2>1. i \in DOMAIN q /\ LetsIn(a, q[i].notice)
    BY <1>0, <1>1
  <2>2. v = Outside /\ \A j \in DOMAIN q : (j < i => a \notin q[j].notice.to) /\ ~ ShownTo(a, q[j]) /\ ~ Gone(a, q[j])
    BY <2>1 DEF Heard, InFirst
  <2>3. ~ (n < i)
    BY <1>0, <2>1
  <2> QED
    BY <1>0, <1>1, <2>1, <2>2, <2>3
<1>4. OutLast(a, z, v, s)
  <2>1. ASSUME NEW i \in DOMAIN z, Ends(a, z[i].notice)
        PROVE  a \notin s.members /\ \A j \in DOMAIN z : ~ Gone(a, z[j]) /\ (j > i => a \notin z[j].notice.to)
    <3>1. i = n
      BY <1>0, <1>2, <2>1
    <3>2. ~ Gone(a, o)
      BY <1>0, <1>1, <2>1, <3>1 DEF Ends
    <3>3. \A j \in DOMAIN z : ~ Gone(a, z[j])
      BY <1>0, <1>2, <3>2
    <3>4. \A j \in DOMAIN z : ~ (j > i)
      BY <1>0, <3>1
    <3> QED
      BY <1>1, <3>3, <3>4
  <2>2. ASSUME NEW i \in DOMAIN z, Gone(a, z[i])
        PROVE  a \notin s.members /\ v # Outside /\ \A j \in DOMAIN z : j > i => ~ Gone(a, z[j]) /\ ~ ShownTo(a, z[j])
    <3>1. i = n
      BY <1>0, <1>2, <2>2
    <3>2. v # Outside
      BY <1>0, <1>1, <2>2, <3>1
    <3>4. \A j \in DOMAIN z : ~ (j > i)
      BY <1>0, <3>1
    <3> QED
      BY <1>1, <3>2, <3>4
  <2> QED
    BY <2>1, <2>2 DEF OutLast
<1>5. HeardInOrder(a, z, v, s)
  <2>1. ASSUME NEW i \in DOMAIN z, ShownTo(a, z[i]) PROVE EndedAfter(a, z, i) \/ GoneAfter(a, z, i)
    BY <1>0, <1>1, <2>1
  <2>2. ASSUME NEW i \in DOMAIN z, a \in z[i].notice.to
        PROVE  Ends(a, z[i].notice) \/ EndedAfter(a, z, i) \/ \E k \in DOMAIN z : Gone(a, z[k])
    <3>1. CASE i = n
      BY <1>0, <1>1, <2>2, <3>1
    <3>2. CASE i \in DOMAIN q
      BY <1>0, <1>1, <3>2
    <3> QED
      BY <1>0, <3>1, <3>2
  <2> QED
    BY <1>1, <2>1, <2>2 DEF HeardInOrder
<1>6. ShowsSoon(a, z, v, s)
  BY <1>0, <1>1 DEF ShowsSoon
<1> QED
  BY <1>3, <1>4, <1>5, <1>6 DEF Heard

\* An operation that brings a in: it opens the room or enters it.
LEMMA Coming ==
    ASSUME NEW a, NEW z, NEW q, NEW o, AddedTo(z, q, o), NEW v, NEW r, NEW s, Heard(a, q, v, r), Comes(a, o, q, v, r, s)
    PROVE  Heard(a, z, v, s) /\ ShowsSoon(a, z, v, s)
<1> DEFINE n == Len(q) + 1
<1>n. Places(a, z, q, o, n)
  BY AddedPlaces
<1> HIDE DEF n
<1>0. /\ \A i \in DOMAIN z : i = n \/ i \in DOMAIN q
      /\ \A i \in DOMAIN q : i \in DOMAIN z /\ z[i] = q[i] /\ n > i /\ ~ (i > n) /\ ~ (i = n)
      /\ n \in DOMAIN z /\ z[n] = o /\ ~ (n > n) /\ DOMAIN z \subseteq Nat
  BY <1>n DEF Places
<1>1. /\ a \notin r.members /\ a \in s.members /\ v = Outside
      /\ \A i \in DOMAIN q : a \notin q[i].notice.to
      /\ ~ Gone(a, o) /\ o.notice.room = s
      /\ \/ LetsIn(a, o.notice) /\ ~ ShownTo(a, o)
         \/ ShownTo(a, o) /\ a \notin o.notice.to
  BY DEF Comes
<1>2. \A i \in DOMAIN q : ~ Gone(a, q[i])
  BY <1>1 DEF Heard, OutLast
<1>3. \A i \in DOMAIN q : ~ EndedAfter(a, q, i) /\ ~ GoneAfter(a, q, i)
  BY <1>1, <1>2 DEF EndedAfter, GoneAfter, Ends
<1>4. \A i \in DOMAIN q : ~ ShownTo(a, q[i])
  BY <1>1, <1>3 DEF Heard, HeardInOrder
<1>5. \A i \in DOMAIN z : ~ Ends(a, z[i].notice) /\ ~ Gone(a, z[i])
  <2>1. ~ Ends(a, o.notice)
    BY <1>1 DEF LetsIn, Ends, SendsOut
  <2>2. \A i \in DOMAIN q : ~ Ends(a, q[i].notice)
    BY <1>1 DEF Ends
  <2> QED
    BY <1>0, <1>1, <1>2, <2>1, <2>2
<1>6. InFirst(a, z, v, s)
  <2> SUFFICES ASSUME NEW i \in DOMAIN z, LetsIn(a, z[i].notice)
               PROVE  \A j \in DOMAIN z : (j < i => a \notin z[j].notice.to) /\ ~ ShownTo(a, z[j]) /\ ~ Gone(a, z[j])
    BY <1>1 DEF InFirst
  <2>1. i = n
    BY <1>0, <1>1 DEF LetsIn
  <2>2. ~ ShownTo(a, o)
    BY <1>0, <1>1, <2>1 DEF LetsIn
  <2>3. \A j \in DOMAIN z : ~ ShownTo(a, z[j])
    BY <1>0, <1>4, <2>2
  <2>4. ~ (n < n)
    BY <1>0
  <2>5. \A j \in DOMAIN z : j < i => a \notin z[j].notice.to
    BY <1>0, <1>1, <2>1, <2>4
  <2> QED
    BY <1>5, <2>3, <2>5
<1>7. OutLast(a, z, v, s)
  BY <1>5 DEF OutLast
<1>8. HeardInOrder(a, z, v, s)
  <2>1. ASSUME NEW i \in DOMAIN z, ShownTo(a, z[i]) PROVE z[i].notice.room = s
    BY <1>0, <1>1, <1>4, <2>1
  <2>2. ASSUME NEW i \in DOMAIN z, a \in z[i].notice.to
        PROVE  IF z[i].notice.kind = "players" THEN z[i].notice.room.members = s.members ELSE z[i].notice.room = s
    BY <1>0, <1>1, <2>2
  <2> QED
    BY <1>1, <2>1, <2>2 DEF HeardInOrder
<1>9. ShowsSoon(a, z, v, s)
  <2>1. CASE LetsIn(a, o.notice)
    <3>1. Carries(a, o.notice)
      BY <2>1 DEF LetsIn, Carries
    <3> QED
      BY <1>0, <1>1, <2>1, <3>1 DEF ShowsSoon
  <2>2. CASE ShownTo(a, o) /\ a \notin o.notice.to
    <3>1. \A k \in DOMAIN z : a \notin z[k].notice.to
      BY <1>0, <1>1, <2>2
    <3>2. Opening(a, z)
      BY <1>0, <2>2, <3>1 DEF Opening
    <3> QED
      BY <1>1, <3>2 DEF ShowsSoon
  <2> QED
    BY <1>1, <2>1, <2>2
<1> QED
  BY <1>6, <1>7, <1>8, <1>9 DEF Heard

\* An operation in a room that a is not in.
LEMMA NotConcerned ==
    ASSUME NEW a, NEW z, NEW q, NEW o, AddedTo(z, q, o), NEW v, NEW r, NEW s, Heard(a, q, v, r), Aside(a, o, r, s)
    PROVE  Heard(a, z, v, s) /\ (ShowsSoon(a, q, v, r) => ShowsSoon(a, z, v, s))
<1> DEFINE n == Len(q) + 1
<1>n. Places(a, z, q, o, n)
  BY AddedPlaces
<1> HIDE DEF n
<1>0. /\ \A i \in DOMAIN z : i = n \/ i \in DOMAIN q
      /\ \A i \in DOMAIN q : i \in DOMAIN z /\ z[i] = q[i] /\ n > i /\ ~ (i > n) /\ ~ (i = n)
      /\ n \in DOMAIN z /\ z[n] = o /\ ~ (n > n)
      /\ \A i \in DOMAIN q : (EndedAfter(a, q, i) => EndedAfter(a, z, i)) /\ (GoneAfter(a, q, i) => GoneAfter(a, z, i))
  BY <1>n DEF Places
<1>1. a \notin r.members /\ a \notin s.members /\ a \notin o.notice.to /\ ~ ShownTo(a, o) /\ ~ Gone(a, o)
  BY DEF Aside, Touches
<1>2. InFirst(a, z, v, s)
  <2> SUFFICES ASSUME NEW i \in DOMAIN z, LetsIn(a, z[i].notice)
               PROVE  /\ v = Outside
                      /\ \A j \in DOMAIN z : (j < i => a \notin z[j].notice.to) /\ ~ ShownTo(a, z[j]) /\ ~ Gone(a, z[j])
                      /\ EndedAfter(a, z, i)
    BY DEF InFirst
  <2>1. i \in DOMAIN q /\ LetsIn(a, q[i].notice)
    BY <1>0, <1>1 DEF LetsIn
  <2>2. /\ v = Outside /\ \A j \in DOMAIN q : (j < i => a \notin q[j].notice.to) /\ ~ ShownTo(a, q[j]) /\ ~ Gone(a, q[j])
        /\ EndedAfter(a, q, i)
    BY <1>1, <2>1 DEF Heard, InFirst
  <2> QED
    BY <1>0, <1>1, <2>1, <2>2
<1>3. OutLast(a, z, v, s)
  <2>1. ASSUME NEW i \in DOMAIN z, Ends(a, z[i].notice)
        PROVE  a \notin s.members /\ \A j \in DOMAIN z : ~ Gone(a, z[j]) /\ (j > i => a \notin z[j].notice.to)
    <3>1. i \in DOMAIN q /\ Ends(a, q[i].notice)
      BY <1>0, <1>1, <2>1 DEF Ends
    <3>2. \A j \in DOMAIN q : ~ Gone(a, q[j]) /\ (j > i => a \notin q[j].notice.to)
      BY <3>1 DEF Heard, OutLast
    <3> QED
      BY <1>0, <1>1, <3>2
  <2>2. ASSUME NEW i \in DOMAIN z, Gone(a, z[i])
        PROVE  a \notin s.members /\ v # Outside /\ \A j \in DOMAIN z : j > i => ~ Gone(a, z[j]) /\ ~ ShownTo(a, z[j])
    <3>1. i \in DOMAIN q /\ Gone(a, q[i])
      BY <1>0, <1>1, <2>2
    <3>2. v # Outside /\ \A j \in DOMAIN q : j > i => ~ Gone(a, q[j]) /\ ~ ShownTo(a, q[j])
      BY <3>1 DEF Heard, OutLast
    <3> QED
      BY <1>0, <1>1, <3>2
  <2> QED
    BY <2>1, <2>2 DEF OutLast
<1>4. HeardInOrder(a, z, v, s)
  <2>1. ASSUME NEW i \in DOMAIN z, ShownTo(a, z[i]) PROVE EndedAfter(a, z, i) \/ GoneAfter(a, z, i)
    <3>1. i \in DOMAIN q /\ ShownTo(a, q[i])
      BY <1>0, <1>1, <2>1
    <3>2. EndedAfter(a, q, i) \/ GoneAfter(a, q, i)
      BY <1>1, <3>1 DEF Heard, HeardInOrder
    <3> QED
      BY <1>0, <3>1, <3>2
  <2>2. ASSUME NEW i \in DOMAIN z, a \in z[i].notice.to
        PROVE  v = Outside \/ Ends(a, z[i].notice) \/ EndedAfter(a, z, i) \/ \E k \in DOMAIN z : Gone(a, z[k])
    <3>1. i \in DOMAIN q /\ a \in q[i].notice.to /\ z[i] = q[i]
      BY <1>0, <1>1, <2>2
    <3>2. v = Outside \/ Ends(a, q[i].notice) \/ EndedAfter(a, q, i) \/ \E k \in DOMAIN q : Gone(a, q[k])
      BY <1>1, <3>1 DEF Heard, HeardInOrder
    <3> QED
      BY <1>0, <3>1, <3>2
  <2> QED
    BY <1>1, <2>1, <2>2 DEF HeardInOrder
<1>5. ASSUME ShowsSoon(a, q, v, r) PROVE ShowsSoon(a, z, v, s)
  <2>1. v = Outside \/ (\E i \in DOMAIN q : Ends(a, q[i].notice)) \/ (\E i \in DOMAIN q : Gone(a, q[i]))
    BY <1>1, <1>5 DEF ShowsSoon
  <2> QED
    BY <1>0, <1>1, <2>1 DEF ShowsSoon
<1> QED
  BY <1>2, <1>3, <1>4, <1>5 DEF Heard

-----------------------------------------------------------------------------
(* What is pending of a gateway's channel and of what it has to say.       *)

Said == Operations \cup {GotAnswer(n) : n \in NoticesOf}

LEMMA PendingPlaces ==
    ASSUME NEW c \in Seq(NoticesOf), NEW s \in Seq(Operations)
    PROVE  /\ Len(c) \in Nat /\ Len(s) \in Nat
           /\ PendingOf(c, s) \in Seq(Said) /\ Len(PendingOf(c, s)) = Len(c) + Len(s)
           /\ DOMAIN PendingOf(c, s) = 1 .. Len(c) + Len(s)
           /\ \A i \in 1 .. Len(c) : PendingOf(c, s)[i] = GotAnswer(c[i])
           /\ \A i \in 1 .. Len(s) : PendingOf(c, s)[Len(c) + i] = s[i]
<1> DEFINE b == [i \in DOMAIN c |-> GotAnswer(c[i])]
<1>1. Len(c) \in Nat /\ Len(s) \in Nat /\ DOMAIN c = 1 .. Len(c) /\ \A i \in 1 .. Len(c) : c[i] \in NoticesOf
  BY LenProperties, ElementOfSeq
<1>2. b \in [1 .. Len(c) -> Said] /\ \A i \in 1 .. Len(c) : b[i] = GotAnswer(c[i])
  <2>1. \A i \in 1 .. Len(c) : GotAnswer(c[i]) \in Said
    BY <1>1, Zenon DEF Said
  <2> HIDE DEF Said
  <2> QED
    BY <1>1, <2>1
<1> HIDE DEF b
<1>3. b \in Seq(Said) /\ Len(b) = Len(c)
  BY <1>1, <1>2, LenProperties, IsASeq
<1>4. s \in Seq(Said)
  <2>1. \A i \in 1 .. Len(s) : s[i] \in Said
    BY ElementOfSeq DEF Said
  <2>2. s \in [1 .. Len(s) -> Said]
    <3>1. s \in [1 .. Len(s) -> Operations]
      BY LenProperties
    <3> HIDE DEF Said
    <3> QED
      BY <2>1, <3>1
  <2> HIDE DEF Said
  <2> QED
    BY <1>1, <2>2, IsASeq
<1> HIDE DEF Said
<1>5. /\ b \o s \in Seq(Said) /\ Len(b \o s) = Len(b) + Len(s)
      /\ \A i \in 1 .. Len(b) + Len(s) : (b \o s)[i] = IF i <= Len(b) THEN b[i] ELSE s[i - Len(b)]
  BY <1>3, <1>4, ConcatProperties
<1>6. PendingOf(c, s) = b \o s
  BY DEF PendingOf, b
<1> DEFINE q == b \o s
<1>7. q \in Seq(Said) /\ Len(q) = Len(c) + Len(s) /\ DOMAIN q = 1 .. Len(c) + Len(s)
  BY <1>3, <1>5, LenProperties
<1>8. \A i \in 1 .. Len(c) + Len(s) : q[i] = IF i <= Len(c) THEN b[i] ELSE s[i - Len(c)]
  BY <1>3, <1>5
<1> HIDE DEF q
<1>9. \A i \in 1 .. Len(c) : q[i] = GotAnswer(c[i])
  <2>1. \A i \in 1 .. Len(c) : i \in 1 .. Len(c) + Len(s) /\ i <= Len(c)
    BY <1>1
  <2> QED
    BY <1>2, <1>8, <2>1
<1>10. \A i \in 1 .. Len(s) : q[Len(c) + i] = s[i]
  <2>1. \A i \in 1 .. Len(s) : Len(c) + i \in 1 .. Len(c) + Len(s) /\ ~ (Len(c) + i <= Len(c)) /\ (Len(c) + i) - Len(c) = i
    BY <1>1
  <2> QED
    BY <1>8, <2>1
<1> QED
  BY <1>1, <1>6, <1>7, <1>9, <1>10 DEF q

\* An operation more to say.
LEMMA PendingAdded ==
    ASSUME NEW c \in Seq(NoticesOf), NEW s \in Seq(Operations), NEW o \in Operations
    PROVE  AddedTo(PendingOf(c, Append(s, o)), PendingOf(c, s), o)
<1> DEFINE t == Append(s, o)
           q == PendingOf(c, s)
           z == PendingOf(c, t)
           n == Len(c)
           k == Len(s)
<1>1. t \in Seq(Operations) /\ Len(t) = k + 1 /\ t[k + 1] = o /\ \A i \in 1 .. k : t[i] = s[i]
  BY AppendedIn, AppendedLen, AppendedLast, AppendedFirst
<1> HIDE DEF t
<1>2. /\ n \in Nat /\ k \in Nat /\ Len(q) = n + k /\ DOMAIN q = 1 .. n + k
      /\ \A i \in 1 .. n : q[i] = GotAnswer(c[i])
      /\ \A i \in 1 .. k : q[n + i] = s[i]
  BY PendingPlaces
<1>3. /\ DOMAIN z = 1 .. n + (k + 1)
      /\ \A i \in 1 .. n : z[i] = GotAnswer(c[i])
      /\ \A i \in 1 .. k + 1 : z[n + i] = t[i]
  BY <1>1, PendingPlaces
<1> HIDE DEF q, z, n, k
<1>4. DOMAIN z = 1 .. (n + k) + 1 /\ z[(n + k) + 1] = o
  <2>1. n + (k + 1) = (n + k) + 1 /\ k + 1 \in 1 .. k + 1
    BY <1>2
  <2> QED
    BY <1>1, <1>3, <2>1
<1>5. ASSUME NEW i \in 1 .. n + k PROVE z[i] = q[i]
  <2>1. CASE i <= n
    <3>1. i \in 1 .. n
      BY <1>2, <2>1
    <3> QED
      BY <1>2, <1>3, <3>1
  <2>2. CASE i > n
    <3>1. i - n \in 1 .. k /\ i - n \in 1 .. k + 1 /\ n + (i - n) = i
      BY <1>2, <2>2
    <3>2. z[n + (i - n)] = t[i - n] /\ q[n + (i - n)] = s[i - n] /\ t[i - n] = s[i - n]
      BY <1>1, <1>2, <1>3, <3>1
    <3> QED
      BY <3>1, <3>2
  <2> QED
    BY <1>2, <2>1, <2>2
<1>6. AddedTo(z, q, o)
  <2>1. Len(q) \in Nat
    BY <1>2
  <2> QED
    BY <1>2, <1>4, <1>5, <2>1 DEF AddedTo
<1> QED
  BY <1>6 DEF q, z, t

\* A notice less in the channel.
LEMMA PendingTail ==
    ASSUME NEW c \in Seq(NoticesOf), NEW s \in Seq(Operations), c # <<>>
    PROVE  TailOf(PendingOf(Tail(c), s), PendingOf(c, s)) /\ PendingOf(c, s)[1] = GotAnswer(Head(c))
<1> DEFINE d == Tail(c)
           q == PendingOf(c, s)
           z == PendingOf(d, s)
           n == Len(c)
           k == Len(s)
<1>1. d \in Seq(NoticesOf) /\ Len(d) = n - 1 /\ Head(c) = c[1] /\ n # 0 /\ \A i \in 1 .. Len(d) : d[i] = c[i + 1]
  BY HeadTailProperties, EmptySeq
<1> HIDE DEF d
<1>2. /\ n \in Nat /\ k \in Nat /\ Len(q) = n + k /\ DOMAIN q = 1 .. n + k
      /\ \A i \in 1 .. n : q[i] = GotAnswer(c[i])
      /\ \A i \in 1 .. k : q[n + i] = s[i]
  BY PendingPlaces
<1>3. /\ DOMAIN z = 1 .. (n - 1) + k
      /\ \A i \in 1 .. n - 1 : z[i] = GotAnswer(d[i])
      /\ \A i \in 1 .. k : z[(n - 1) + i] = s[i]
  BY <1>1, PendingPlaces
<1>4. \A i \in 1 .. n - 1 : d[i] = c[i + 1]
  BY <1>1
<1> HIDE DEF q, z, n, k
<1>5. ASSUME NEW i \in 1 .. (n - 1) + k PROVE z[i] = q[i + 1]
  <2>1. CASE i <= n - 1
    <3>1. i \in 1 .. n - 1 /\ i + 1 \in 1 .. n
      BY <1>1, <1>2, <2>1
    <3> QED
      BY <1>2, <1>3, <1>4, <3>1
  <2>2. CASE i > n - 1
    <3>1. i - (n - 1) \in 1 .. k /\ (n - 1) + (i - (n - 1)) = i /\ n + (i - (n - 1)) = i + 1
      BY <1>1, <1>2, <2>2
    <3>2. z[(n - 1) + (i - (n - 1))] = s[i - (n - 1)] /\ q[n + (i - (n - 1))] = s[i - (n - 1)]
      BY <1>2, <1>3, <3>1
    <3> QED
      BY <3>1, <3>2
  <2> QED
    BY <1>1, <1>2, <2>1, <2>2
<1>6. q[1] = GotAnswer(Head(c))
  <2>1. 1 \in 1 .. n
    BY <1>1, <1>2
  <2> QED
    BY <1>1, <1>2, <2>1
<1>7. q[1].by = "nobody"
  BY <1>6 DEF GotAnswer
<1>8. DOMAIN q = 1 .. Len(q) /\ Len(q) \in Nat \ {0} /\ DOMAIN z = 1 .. Len(q) - 1
  <2>1. n + k \in Nat \ {0} /\ (n - 1) + k = (n + k) - 1
    BY <1>1, <1>2
  <2> QED
    BY <1>2, <1>3, <2>1
<1>9. \A i \in DOMAIN z : z[i] = q[i + 1]
  BY <1>3, <1>5
<1>10. TailOf(z, q)
  BY <1>7, <1>8, <1>9 DEF TailOf
<1> QED
  BY <1>6, <1>10 DEF q, z, d

\* The first operation to say comes after the notices of the channel, which answer nobody.
LEMMA PendingFirst ==
    ASSUME NEW c \in Seq(NoticesOf), NEW s \in Seq(Operations), s # <<>>, NEW a \in Guests
    PROVE  /\ Len(c) + 1 \in DOMAIN PendingOf(c, s) /\ PendingOf(c, s)[Len(c) + 1] = Head(s)
           /\ \A k \in DOMAIN PendingOf(c, s) :
                  k < Len(c) + 1 => ~ ShownTo(a, PendingOf(c, s)[k]) /\ ~ Gone(a, PendingOf(c, s)[k])
<1> DEFINE q == PendingOf(c, s)
           n == Len(c)
           m == Len(s)
<1>1. Head(s) = s[1] /\ m # 0
  BY HeadTailProperties, EmptySeq
<1>2. /\ n \in Nat /\ m \in Nat /\ DOMAIN q = 1 .. n + m
      /\ \A i \in 1 .. n : q[i] = GotAnswer(c[i])
      /\ \A i \in 1 .. m : q[n + i] = s[i]
  BY PendingPlaces
<1> HIDE DEF q, n, m
<1>3. n + 1 \in DOMAIN q /\ 1 \in 1 .. m
  BY <1>1, <1>2
<1>4. q[n + 1] = Head(s)
  BY <1>1, <1>2, <1>3
<1>5. ASSUME NEW k \in DOMAIN q, k < n + 1 PROVE ~ ShownTo(a, q[k]) /\ ~ Gone(a, q[k])
  <2>1. k \in 1 .. n
    BY <1>2, <1>5
  <2>3. q[k] = GotAnswer(c[k])
    BY <1>2, <2>1
  <2>2. q[k].by = "nobody"
    BY <2>3 DEF GotAnswer
  <2> QED
    BY <2>2, NoticesAssumption DEF ShownTo, Gone
<1> QED
  BY <1>3, <1>4, <1>5 DEF q, n

\* The first operation to say is said: its notice goes to the channel.
LEMMA PendingTold ==
    ASSUME NEW c \in Seq(NoticesOf), NEW s \in Seq(Operations), s # <<>>
    PROVE  AnsweredAt(PendingOf(Append(c, Head(s).notice), Tail(s)), PendingOf(c, s), Len(c) + 1)
<1> DEFINE t == Tail(s)
           x == Head(s).notice
           d == Append(c, x)
           q == PendingOf(c, s)
           z == PendingOf(d, t)
           n == Len(c)
           m == Len(s)
<1>1. /\ t \in Seq(Operations) /\ Len(t) = m - 1 /\ m # 0 /\ Head(s) = s[1] /\ Head(s) \in Operations
      /\ \A i \in 1 .. Len(t) : t[i] = s[i + 1]
  BY HeadTailProperties, EmptySeq
<1>2. x \in NoticesOf
  BY <1>1 DEF Operations
<1> HIDE DEF x, t
<1>3. d \in Seq(NoticesOf) /\ Len(d) = n + 1 /\ d[n + 1] = x /\ \A i \in 1 .. n : d[i] = c[i]
  BY <1>2, AppendedIn, AppendedLen, AppendedLast, AppendedFirst
<1> HIDE DEF d
<1>4. /\ n \in Nat /\ m \in Nat /\ DOMAIN q = 1 .. n + m
      /\ \A i \in 1 .. n : q[i] = GotAnswer(c[i])
      /\ \A i \in 1 .. m : q[n + i] = s[i]
  BY PendingPlaces
<1>5. /\ DOMAIN z = 1 .. (n + 1) + (m - 1)
      /\ \A i \in 1 .. n + 1 : z[i] = GotAnswer(d[i])
      /\ \A i \in 1 .. m - 1 : z[(n + 1) + i] = t[i]
  <2>1. /\ DOMAIN z = 1 .. Len(d) + Len(t)
        /\ \A i \in 1 .. Len(d) : z[i] = GotAnswer(d[i])
        /\ \A i \in 1 .. Len(t) : z[Len(d) + i] = t[i]
    BY <1>1, <1>3, PendingPlaces
  <2>2. Len(d) = n + 1 /\ Len(t) = m - 1
    BY <1>1, <1>3
  <2> HIDE DEF z, n, m
  <2> QED
    BY <2>1, <2>2
<1>6. \A i \in 1 .. m - 1 : t[i] = s[i + 1]
  BY <1>1
<1> HIDE DEF q, z, n, m
<1>7. DOMAIN z = DOMAIN q /\ DOMAIN q \subseteq Nat /\ n + 1 \in DOMAIN q
  <2>1. (n + 1) + (m - 1) = n + m /\ n + 1 \in 1 .. n + m
    BY <1>1, <1>4
  <2> QED
    BY <1>4, <1>5, <2>1
<1>8. q[n + 1].notice = x
  <2>1. 1 \in 1 .. m
    BY <1>1, <1>4
  <2> QED
    BY <1>1, <1>4, <2>1 DEF x
<1>9. z[n + 1] = GotAnswer(q[n + 1].notice)
  <2>1. n + 1 \in 1 .. n + 1
    BY <1>4
  <2> QED
    BY <1>3, <1>5, <1>8, <2>1
<1>10. ASSUME NEW i \in DOMAIN q \ {n + 1} PROVE z[i] = q[i]
  <2>1. CASE i < n + 1
    <3>1. i \in 1 .. n /\ i \in 1 .. n + 1
      BY <1>4, <2>1
    <3> QED
      BY <1>3, <1>4, <1>5, <3>1
  <2>2. CASE i > n + 1
    <3>0. i \in 1 .. n + m
      BY <1>4
    <3>1. i - (n + 1) \in 1 .. m - 1 /\ (n + 1) + (i - (n + 1)) = i
      BY <1>4, <2>2, <3>0
    <3>2. (i - (n + 1)) + 1 \in 1 .. m /\ n + ((i - (n + 1)) + 1) = i
      BY <1>4, <2>2, <3>0
    <3>3. z[(n + 1) + (i - (n + 1))] = t[i - (n + 1)] /\ t[i - (n + 1)] = s[(i - (n + 1)) + 1]
      BY <1>5, <1>6, <3>1
    <3>4. q[n + ((i - (n + 1)) + 1)] = s[(i - (n + 1)) + 1]
      BY <1>4, <3>2
    <3> QED
      BY <3>1, <3>2, <3>3, <3>4
  <2> QED
    BY <1>4, <2>1, <2>2
<1>11. AnsweredAt(z, q, n + 1)
  BY <1>7, <1>9, <1>10 DEF AnsweredAt
<1> QED
  BY <1>11 DEF q, z, n, d, t, x

\* Or it has no notice: it is answered, and that is all.
LEMMA PendingSaid ==
    ASSUME NEW c \in Seq(NoticesOf), NEW s \in Seq(Operations), s # <<>>, NEW y, NEW a \in Guests,
           AnsweredAt(y, PendingOf(c, s), Len(c) + 1), Head(s).notice.to = {}
    PROVE  \E e : Within(a, PendingOf(c, Tail(s)), y, e)
<1> DEFINE t == Tail(s)
           q == PendingOf(c, s)
           z == PendingOf(c, t)
           n == Len(c)
           m == Len(s)
           e == [i \in 1 .. n + (m - 1) |-> IF i < n + 1 THEN i ELSE i + 1]
<1>1. /\ t \in Seq(Operations) /\ Len(t) = m - 1 /\ m # 0
      /\ \A i \in 1 .. Len(t) : t[i] = s[i + 1]
  BY HeadTailProperties, EmptySeq
<1> HIDE DEF t
<1>4. /\ n \in Nat /\ m \in Nat /\ DOMAIN q = 1 .. n + m
      /\ \A i \in 1 .. n : q[i] = GotAnswer(c[i])
      /\ \A i \in 1 .. m : q[n + i] = s[i]
  BY PendingPlaces
<1>5. /\ DOMAIN z = 1 .. n + (m - 1)
      /\ \A i \in 1 .. n : z[i] = GotAnswer(c[i])
      /\ \A i \in 1 .. m - 1 : z[n + i] = t[i]
  BY <1>1, PendingPlaces
<1>6. \A i \in 1 .. m - 1 : t[i] = s[i + 1]
  BY <1>1
<1>7. q[n + 1].notice.to = {}
  BY PendingFirst
<1>8. /\ DOMAIN y = DOMAIN q /\ n + 1 \in DOMAIN q
      /\ y[n + 1] = GotAnswer(q[n + 1].notice) /\ \A i \in DOMAIN q \ {n + 1} : y[i] = q[i]
  BY DEF AnsweredAt
<1> HIDE DEF q, z, n, m
<1>9. /\ e \in [1 .. n + (m - 1) -> 1 .. n + m]
      /\ \A i \in 1 .. n + (m - 1) : e[i] = IF i < n + 1 THEN i ELSE i + 1
  <2>1. \A i \in 1 .. n + (m - 1) : (IF i < n + 1 THEN i ELSE i + 1) \in 1 .. n + m
    BY <1>1, <1>4
  <2> QED
    BY <2>1
<1> HIDE DEF e
<1>10. \A i, k \in 1 .. n + (m - 1) : i < k <=> e[i] < e[k]
  BY <1>4, <1>9
<1>11. ASSUME NEW i \in 1 .. n + (m - 1) PROVE z[i] = y[e[i]] /\ e[i] # n + 1
  <2>1. CASE i < n + 1
    <3>1. i \in 1 .. n /\ e[i] = i /\ i # n + 1 /\ i \in DOMAIN q
      BY <1>1, <1>4, <1>9, <2>1
    <3>2. y[i] = q[i]
      BY <1>8, <3>1
    <3> QED
      BY <1>4, <1>5, <3>1, <3>2
  <2>2. CASE ~ (i < n + 1)
    <3>1. e[i] = i + 1 /\ i - n \in 1 .. m - 1 /\ n + (i - n) = i
      BY <1>4, <1>9, <2>2
    <3>2. (i - n) + 1 \in 1 .. m /\ n + ((i - n) + 1) = i + 1 /\ i + 1 # n + 1 /\ i + 1 \in DOMAIN q
      BY <1>4, <2>2
    <3>3. z[n + (i - n)] = t[i - n] /\ t[i - n] = s[(i - n) + 1]
      BY <1>5, <1>6, <3>1
    <3>4. q[n + ((i - n) + 1)] = s[(i - n) + 1] /\ y[i + 1] = q[i + 1]
      BY <1>4, <1>8, <3>2
    <3> QED
      BY <3>1, <3>2, <3>3, <3>4
  <2> QED
    BY <2>1, <2>2
<1>12. ASSUME NEW j \in DOMAIN q, Touches(a, y[j]) PROVE \E i \in 1 .. n + (m - 1) : e[i] = j
  <2>1. y[n + 1].notice.to = {} /\ y[n + 1].by = "nobody"
    BY <1>7, <1>8 DEF GotAnswer
  <2>2. ~ Touches(a, y[n + 1])
    BY <2>1, NoticesAssumption DEF Touches, ShownTo, Gone
  <2>3. j # n + 1 /\ j \in 1 .. n + m
    BY <1>4, <1>12, <2>2
  <2>4. CASE j < n + 1
    <3>1. j \in 1 .. n + (m - 1) /\ e[j] = j
      BY <1>1, <1>4, <1>9, <2>3, <2>4
    <3> QED
      BY <3>1
  <2>5. CASE j > n + 1
    <3>1. j - 1 \in 1 .. n + (m - 1) /\ ~ (j - 1 < n + 1) /\ (j - 1) + 1 = j
      BY <1>4, <2>3, <2>5
    <3>2. e[j - 1] = j
      BY <1>9, <3>1
    <3> QED
      BY <3>1, <3>2
  <2> QED
    BY <1>4, <2>3, <2>4, <2>5
<1>13. Within(a, z, y, e)
  <2>1. DOMAIN z \subseteq Nat /\ DOMAIN y \subseteq Nat /\ e \in [DOMAIN z -> DOMAIN y]
    BY <1>4, <1>5, <1>8, <1>9
  <2>2. \A i \in DOMAIN z : Alike(a, z[i], y[e[i]])
    BY <1>5, <1>11 DEF Alike
  <2>3. \A i, k \in DOMAIN z : i < k <=> e[i] < e[k]
    BY <1>5, <1>10
  <2>4. \A j \in DOMAIN y : Touches(a, y[j]) => \E i \in DOMAIN z : e[i] = j
    BY <1>5, <1>8, <1>12
  <2> QED
    BY <2>1, <2>2, <2>3, <2>4 DEF Within
<1> QED
  BY <1>13 DEF z, t

-----------------------------------------------------------------------------
(* Operations, and whom they concern.                                      *)

OpOf(a, new, what, about, to, answer) ==
    [by |-> a, answer |-> answer, notice |-> [kind |-> what, about |-> about, to |-> to, room |-> new]]

Enters(b, o, new) ==
    /\ Idle(b) /\ b \notin record.members /\ b \in new.members
    /\ ~ Gone(b, o) /\ o.notice.room = new
    /\ \/ LetsIn(b, o.notice) /\ ~ ShownTo(b, o)
       \/ ShownTo(b, o) /\ b \notin o.notice.to
Concerns(b, o, new) ==
    \/ Stays(b, o, view[b], record, new) \/ Goes(b, o, view[b], record, new)
    \/ Enters(b, o, new) \/ Aside(b, o, record, new)

Sound(a, new, what, about, to, answer) ==
    /\ Operate(a, new, what, about, to, answer)
    /\ new \in RoomRosters /\ new.edition <= ops + 1
    /\ OpOf(a, new, what, about, to, answer) \in Operations
    /\ to \subseteq record.members \cup {a} /\ new.members \subseteq record.members \cup {a}
    /\ a \in record.members \/ new # record
    /\ online' \subseteq online
    /\ \A b \in online' : Concerns(b, OpOf(a, new, what, about, to, answer), new)

LEMMA RecordIs ==
    ASSUME NoticeTypes
    PROVE  /\ record.members \subseteq Guests /\ ops \in Nat /\ record.edition \in Nat /\ record.edition <= ops /\ ops <= MaxOps
           /\ record.members # {} => record \in Rooms /\ record.owner \in record.members /\ record # NoRecord
           /\ record.members = {} => record = NoRecord
<1>1. record \in RoomRosters /\ record.edition <= ops /\ ops \in 0 .. MaxOps /\ MaxOps \in Nat
  BY NoticesAssumption DEF NoticeTypes
<1>2. CASE record = NoRecord
  BY <1>1, <1>2 DEF NoRecord
<1>3. CASE record \in Rooms /\ record.owner \in record.members
  <2>1. record # NoRecord
    BY <1>3, NoticesAssumption DEF NoRecord, Rooms
  <2>2. record.members \subseteq Guests /\ record.edition \in 0 .. MaxOps
    BY <1>3 DEF Rooms
  <2> QED
    BY <1>1, <1>3, <2>1, <2>2
<1> QED
  BY <1>1, <1>2, <1>3 DEF RoomRosters

\* Of an operation, what it is to b.
Means(o, a, new, what, about, to, answer, b) ==
    /\ o.notice.to = to /\ o.notice.room = new
    /\ LetsIn(b, o.notice) <=> b \in to /\ what = "join" /\ about = b
    /\ Ends(b, o.notice) <=> b \in to /\ (what = "dismiss" \/ (what = "kick" /\ about = b))
    /\ Carries(b, o.notice) <=> b \in to /\ what # "players"
    /\ ShownTo(b, o) <=> a = b /\ answer = "room"
    /\ Gone(b, o) <=> a = b /\ answer = "left"

LEMMA OpIs ==
    ASSUME NEW a, NEW new, NEW what, NEW about, NEW to, NEW answer, NEW b
    PROVE  Means(OpOf(a, new, what, about, to, answer), a, new, what, about, to, answer, b)
<1> DEFINE o == OpOf(a, new, what, about, to, answer)
<1>1. /\ o.by = a /\ o.answer = answer /\ o.notice.to = to /\ o.notice.room = new
      /\ o.notice.kind = what /\ o.notice.about = about
  BY DEF OpOf
<1> HIDE DEF o
<1>2. LetsIn(b, o.notice) <=> b \in to /\ what = "join" /\ about = b
  BY <1>1 DEF LetsIn
<1>3. Ends(b, o.notice) <=> b \in to /\ (what = "dismiss" \/ (what = "kick" /\ about = b))
  BY <1>1 DEF Ends, SendsOut
<1>4. Carries(b, o.notice) <=> b \in to /\ what # "players"
  BY <1>1 DEF Carries
<1>5. ShownTo(b, o) <=> a = b /\ answer = "room"
  BY <1>1 DEF ShownTo
<1>6. Gone(b, o) <=> a = b /\ answer = "left"
  BY <1>1 DEF Gone
<1>7. Means(o, a, new, what, about, to, answer, b)
  BY <1>1, <1>2, <1>3, <1>4, <1>5, <1>6 DEF Means
<1> QED
  BY <1>7 DEF o

LEMMA OpType ==
    ASSUME NEW a \in Guests, NEW new \in {NoRecord} \cup Rooms, NEW about \in Guests, NEW to \in SUBSET Guests,
           NEW what \in {"none", "join", "leave", "dismiss", "kick", "room", "players"}, NEW answer \in {"none", "room", "left"},
           new = NoRecord => what = "dismiss",
           answer = "room" => to = {} /\ new # NoRecord, answer = "left" => a \notin to
    PROVE  OpOf(a, new, what, about, to, answer) \in Operations
<1> DEFINE n == [kind |-> what, about |-> about, to |-> to, room |-> new]
           o == [by |-> a, answer |-> answer, notice |-> n]
<1>1. n \in NoticesOf
  BY DEF NoticesOf
<1>2. n.room = new /\ n.to = to /\ n.kind = what
  OBVIOUS
<1> HIDE DEF n
<1>3. o \in [by : Guests, answer : {"none", "room", "left"}, notice : NoticesOf]
  BY <1>1
<1>4. o.notice = n /\ o.answer = answer /\ o.by = a
  OBVIOUS
<1> HIDE DEF o
<1>6. o.answer = "room" => o.notice.room # NoRecord /\ o.notice.to = {}
  BY <1>2, <1>4
<1>7. o.by \in o.notice.to => o.answer = "none"
  BY <1>2, <1>4
<1>8. o \in Operations
  BY <1>3, <1>6, <1>7 DEF Operations
<1> QED
  BY <1>8 DEF o, n, OpOf

\* The record edited.
LEMMA EditedIs ==
    ASSUME NoticeTypes, record.members # {}, ops < MaxOps
    PROVE  /\ Edited \in Rooms /\ Edited.members = record.members /\ Edited.owner = record.owner
           /\ Edited.edition <= ops + 1 /\ Edited \in RoomRosters
           /\ \A a \in Guests : /\ With(a) \in RoomRosters \cap Rooms /\ With(a).members = record.members \cup {a}
                                /\ With(a).edition <= ops + 1
           /\ \A a \in Guests : a # record.owner =>
                  /\ Without(a) \in RoomRosters \cap Rooms /\ Without(a).members = record.members \ {a}
                  /\ Without(a).edition <= ops + 1
           /\ Without(record.owner) = NoRecord
<1>0. /\ record \in Rooms /\ record.owner \in record.members /\ record.edition \in Nat /\ record.edition <= ops
      /\ ops \in Nat /\ ops <= MaxOps /\ MaxOps \in Nat /\ record.members \subseteq Guests
  BY RecordIs, NoticesAssumption
<1>1. /\ Edited = [record EXCEPT !.edition = record.edition + 1] /\ record.edition + 1 \in 0 .. MaxOps
      /\ record.edition + 1 <= ops + 1
  BY <1>0 DEF Edited
<1>2. record = [owner |-> record.owner, members |-> record.members, edition |-> record.edition] /\ record.owner \in Guests
  BY <1>0 DEF Rooms
<1>3. /\ Edited \in Rooms /\ Edited.members = record.members /\ Edited.owner = record.owner
      /\ Edited.edition = record.edition + 1
  BY <1>0, <1>1, <1>2 DEF Rooms
<1>4. Edited \in RoomRosters
  BY <1>0, <1>3 DEF RoomRosters
<1>5. ASSUME NEW a \in Guests
      PROVE  With(a) \in Rooms /\ With(a).members = record.members \cup {a} /\ With(a).owner = record.owner /\ With(a).edition = Edited.edition
  BY <1>0, <1>3 DEF With, Rooms
<1>6. ASSUME NEW a \in Guests, a # record.owner
      PROVE  Without(a) \in Rooms /\ Without(a).members = record.members \ {a} /\ Without(a).owner = record.owner /\ Without(a).edition = Edited.edition
  BY <1>0, <1>3, <1>6 DEF Without, Rooms
<1>7. \A a \in Guests : With(a) \in RoomRosters
  BY <1>0, <1>5 DEF RoomRosters
<1>8. \A a \in Guests : a # record.owner => Without(a) \in RoomRosters
  BY <1>0, <1>6 DEF RoomRosters
<1>9. Without(record.owner) = NoRecord
  BY DEF Without
<1> QED
  BY <1>1, <1>3, <1>4, <1>5, <1>6, <1>7, <1>8, <1>9

\* Opening a room, and entering one.
LEMMA OpensSoundly ==
    ASSUME NoticeTypes, NEW a \in Guests, OpenRoom(a)
    PROVE  \E new, what, about, to, answer : Sound(a, new, what, about, to, answer)
<1> DEFINE new == [owner |-> a, members |-> {a}, edition |-> ops]
           o == OpOf(a, new, "none", a, {}, "room")
<1>1. /\ record = NoRecord /\ Idle(a) /\ Operate(a, new, "none", a, {}, "room") /\ online' = online
      /\ ops < MaxOps /\ ops \in Nat /\ MaxOps \in Nat /\ record.members = {}
  BY RecordIs, NoticesAssumption DEF OpenRoom, Operate, NoRecord
<1>2. new \in Rooms /\ new \in RoomRosters /\ new.members = {a} /\ new # NoRecord /\ new.edition <= ops + 1
  BY <1>1, NoticesAssumption DEF Rooms, RoomRosters, NoRecord
<1> HIDE DEF new
<1>3. o \in Operations
  BY <1>2, OpType
<1>4. ASSUME NEW b \in online' PROVE Concerns(b, o, new)
  <2>m. Means(o, a, new, "none", a, {}, "room", b)
    BY OpIs
  <2> HIDE DEF o
  <2>1. /\ o.notice.to = {} /\ o.notice.room = new /\ (ShownTo(b, o) <=> a = b) /\ ~ Gone(b, o)
    BY <2>m DEF Means
  <2>2. CASE b = a
    BY <1>1, <1>2, <2>1, <2>2 DEF Concerns, Enters
  <2>3. CASE b # a
    BY <1>1, <1>2, <2>1, <2>3 DEF Concerns, Aside, Touches
  <2> QED
    BY <2>2, <2>3
<1> HIDE DEF o
<1>6. new # record
  BY <1>1, <1>2
<1>5. Sound(a, new, "none", a, {}, "room")
  BY <1>1, <1>2, <1>3, <1>4, <1>6 DEF Sound, o
<1> QED
  BY <1>5

LEMMA EntersSoundly ==
    ASSUME NoticeTypes, NEW a \in Guests, EnterRoom(a)
    PROVE  \E new, what, about, to, answer : Sound(a, new, what, about, to, answer)
<1> DEFINE new == With(a)
           to == new.members
           o == OpOf(a, new, "join", a, to, "none")
<1>1. /\ record # NoRecord /\ Idle(a) /\ a \notin record.members /\ Operate(a, new, "join", a, to, "none") /\ online' = online
      /\ ops < MaxOps
  BY DEF EnterRoom, Operate
<1>2. /\ new \in Rooms /\ new \in RoomRosters /\ new.members = record.members \cup {a} /\ new.edition <= ops + 1
      /\ record.members \subseteq Guests
  BY <1>1, RecordIs, EditedIs
<1>3. new # NoRecord /\ to \in SUBSET Guests /\ to = record.members \cup {a} /\ new # record
  BY <1>1, <1>2, NoticesAssumption DEF NoRecord
<1> HIDE DEF new, to
<1>4. o \in Operations
  BY <1>2, <1>3, OpType
<1>5. ASSUME NEW b \in online' PROVE Concerns(b, o, new)
  <2>m. Means(o, a, new, "join", a, to, "none", b)
    BY OpIs
  <2> HIDE DEF o
  <2>1. /\ o.notice.to = to /\ o.notice.room = new /\ ~ ShownTo(b, o) /\ ~ Gone(b, o) /\ (LetsIn(b, o.notice) <=> b \in to /\ a = b)
        /\ ~ Ends(b, o.notice) /\ (Carries(b, o.notice) <=> b \in to)
    BY <2>m DEF Means
  <2>2. CASE b = a
    BY <1>1, <1>2, <1>3, <2>1, <2>2 DEF Concerns, Enters
  <2>3. CASE b # a /\ b \in record.members
    BY <1>1, <1>2, <1>3, <2>1, <2>3 DEF Concerns, Stays
  <2>4. CASE b # a /\ b \notin record.members
    BY <1>1, <1>2, <1>3, <2>1, <2>4 DEF Concerns, Aside, Touches
  <2> QED
    BY <2>2, <2>3, <2>4
<1> HIDE DEF o
<1>6. Sound(a, new, "join", a, to, "none")
  BY <1>1, <1>2, <1>3, <1>4, <1>5 DEF Sound, o
<1> QED
  BY <1>6

\* Leaving, by choice or with the connection.
LEMMA LeavesSoundly ==
    ASSUME NoticeTypes, NEW a \in Guests, LeaveRoom(a) \/ Disconnect(a)
    PROVE  \E new, what, about, to, answer : Sound(a, new, what, about, to, answer)
<1> DEFINE new == Without(a)
           what == LeaveNotice(a)
           to == record.members \ {a}
<1>1. PICK answer \in {"none", "left"} :
          /\ Operate(a, new, what, a, to, answer) /\ ops < MaxOps /\ a \in record.members
          /\ answer = "left" => view[a] # Outside /\ online' = online
          /\ answer = "none" => online' = online \ {a}
  <2>1. CASE LeaveRoom(a)
    <3>1. Operate(a, new, what, a, to, "left") /\ ops < MaxOps /\ a \in record.members /\ view[a] # Outside /\ online' = online
      BY <2>1 DEF LeaveRoom, Shows, Operate
    <3> QED
      BY <3>1
  <2>2. CASE Disconnect(a)
    <3>1. Operate(a, new, what, a, to, "none") /\ ops < MaxOps /\ a \in record.members /\ online' = online \ {a}
      BY <2>2 DEF Disconnect, Operate
    <3> QED
      BY <3>1
  <2> QED
    BY <2>1, <2>2
<1> DEFINE o == OpOf(a, new, what, a, to, answer)
<1>2. /\ new \in RoomRosters /\ new \in {NoRecord} \cup Rooms /\ new.edition <= ops + 1 /\ what \in {"dismiss", "leave"}
      /\ new.members \subseteq record.members \ {a} /\ record.members \subseteq Guests
      /\ a = record.owner => what = "dismiss" /\ new.members = {}
      /\ a # record.owner => what = "leave" /\ new.members = record.members \ {a} /\ new # NoRecord
  <2>0. record.members # {} /\ record.members \subseteq Guests /\ ops \in Nat
    BY <1>1, RecordIs
  <2>1. CASE a = record.owner
    <3>1. new = NoRecord /\ what = "dismiss"
      BY <1>1, <2>0, <2>1, EditedIs DEF LeaveNotice
    <3>2. NoRecord \in RoomRosters /\ NoRecord.edition = 0 /\ NoRecord.members = {}
      BY DEF RoomRosters, NoRecord
    <3> HIDE DEF new, what
    <3> QED
      BY <2>0, <2>1, <3>1, <3>2
  <2>2. CASE a # record.owner
    <3>1. new \in RoomRosters /\ new \in Rooms /\ new.members = record.members \ {a} /\ new.edition <= ops + 1 /\ what = "leave"
      BY <1>1, <2>0, <2>2, EditedIs DEF LeaveNotice
    <3>2. new # NoRecord
      BY <3>1, NoticesAssumption DEF Rooms, NoRecord
    <3> HIDE DEF new, what
    <3> QED
      BY <2>0, <2>2, <3>1, <3>2
  <2> QED
    BY <2>1, <2>2
<1> HIDE DEF new, what
<1>3. to \in SUBSET Guests /\ a \notin to
  BY <1>2
<1> HIDE DEF to
<1>4. o \in Operations
  <2>1. new = NoRecord => what = "dismiss"
    BY <1>2
  <2>2. answer \in {"none", "room", "left"} /\ answer # "room"
    BY <1>1
  <2> QED
    BY <1>2, <1>3, <2>1, <2>2, OpType
<1>5. ASSUME NEW b \in online' PROVE Concerns(b, o, new)
  <2>m. Means(o, a, new, what, a, to, answer, b)
    BY OpIs
  <2> HIDE DEF o
  <2>1. /\ o.notice.to = to /\ o.notice.room = new /\ ~ LetsIn(b, o.notice)
        /\ ~ ShownTo(b, o) /\ (Gone(b, o) <=> a = b /\ answer = "left")
        /\ (Ends(b, o.notice) <=> b \in to /\ what = "dismiss") /\ (Carries(b, o.notice) <=> b \in to)
    BY <1>1, <1>2, <2>m DEF Means
  <2>2. CASE b = a
    <3>1. answer = "left" /\ view[b] # Outside
      BY <1>1, <2>2
    <3>2. b \in record.members /\ b \notin new.members /\ Gone(b, o) /\ b \notin o.notice.to
      BY <1>1, <1>2, <1>3, <2>1, <2>2, <3>1
    <3> QED
      BY <2>1, <3>1, <3>2 DEF Concerns, Goes
  <2>3. CASE b # a /\ b \in record.members
    <3>0. b \in to /\ ~ Gone(b, o)
      BY <2>1, <2>3 DEF to
    <3>1. CASE a = record.owner
      <4>1. b \notin new.members /\ Ends(b, o.notice)
        BY <1>2, <2>1, <3>0, <3>1
      <4> QED
        BY <2>1, <2>3, <3>0, <4>1 DEF Concerns, Goes
    <3>2. CASE a # record.owner
      <4>1. b \in new.members /\ Carries(b, o.notice) /\ ~ Ends(b, o.notice)
        BY <1>2, <2>1, <2>3, <3>0, <3>2
      <4> QED
        BY <2>1, <2>3, <3>0, <4>1 DEF Concerns, Stays
    <3> QED
      BY <3>1, <3>2
  <2>4. CASE b # a /\ b \notin record.members
    <3>1. b \notin new.members /\ b \notin to /\ ~ Gone(b, o)
      BY <1>2, <2>1, <2>4 DEF to
    <3> QED
      BY <2>1, <2>4, <3>1 DEF Concerns, Aside, Touches
  <2> QED
    BY <2>2, <2>3, <2>4
<1> HIDE DEF o
<1>6. online' \subseteq online /\ to \subseteq record.members \cup {a} /\ new.members \subseteq record.members \cup {a}
  BY <1>1, <1>2 DEF to
<1>7. Sound(a, new, what, a, to, answer)
  BY <1>1, <1>2, <1>4, <1>5, <1>6 DEF Sound, o
<1> QED
  BY <1>7

\* The owner sends a guest out.
LEMMA KicksSoundly ==
    ASSUME NoticeTypes, NEW a \in Guests, NEW g \in Guests, KickGuest(a, g)
    PROVE  \E new, what, about, to, answer : Sound(a, new, what, about, to, answer)
<1> DEFINE new == Without(g)
           to == record.members
           o == OpOf(a, new, "kick", g, to, "none")
<1>1. /\ Operate(a, new, "kick", g, to, "none") /\ ops < MaxOps /\ a \in record.members /\ a = record.owner
      /\ g \in record.members /\ g # record.owner /\ online' = online
  BY DEF KickGuest, Shows, Operate
<1>2. /\ new \in RoomRosters /\ new \in Rooms /\ new.members = record.members \ {g} /\ new.edition <= ops + 1
      /\ record.members \subseteq Guests
  BY <1>1, RecordIs, EditedIs
<1>3. new # NoRecord
  BY <1>2, NoticesAssumption DEF Rooms, NoRecord
<1> HIDE DEF new, to
<1>4. o \in Operations
  BY <1>2, <1>3, OpType DEF to
<1>5. ASSUME NEW b \in online' PROVE Concerns(b, o, new)
  <2>m. Means(o, a, new, "kick", g, to, "none", b)
    BY OpIs
  <2> HIDE DEF o
  <2>1. /\ o.notice.to = to /\ o.notice.room = new /\ ~ LetsIn(b, o.notice)
        /\ ~ ShownTo(b, o) /\ ~ Gone(b, o)
        /\ (Ends(b, o.notice) <=> b \in to /\ g = b) /\ (Carries(b, o.notice) <=> b \in to)
    BY <2>m DEF Means
  <2>2. CASE b = g
    BY <1>1, <1>2, <2>1, <2>2 DEF Concerns, Goes, to
  <2>3. CASE b # g /\ b \in record.members
    BY <1>1, <1>2, <2>1, <2>3 DEF Concerns, Stays, to
  <2>4. CASE b # g /\ b \notin record.members
    BY <1>1, <1>2, <2>1, <2>4 DEF Concerns, Aside, Touches, to
  <2> QED
    BY <2>2, <2>3, <2>4
<1> HIDE DEF o
<1>6. Sound(a, new, "kick", g, to, "none")
  BY <1>1, <1>2, <1>4, <1>5 DEF Sound, o, to
<1> QED
  BY <1>6

\* A setting, a seat, the ready tick, and the room shown again.
LEMMA ChangesSoundly ==
    ASSUME NoticeTypes, NEW a \in Guests, ChangeRoom(a) \/ SwitchPlace(a)
    PROVE  \E new, what, about, to, answer : Sound(a, new, what, about, to, answer)
<1> DEFINE new == Edited
           to == record.members
           o == OpOf(a, new, "room", a, to, "none")
<1>1. Operate(a, new, "room", a, to, "none") /\ ops < MaxOps /\ a \in record.members /\ online' = online
  BY DEF ChangeRoom, SwitchPlace, Shows, Operate
<1>2. /\ new \in RoomRosters /\ new \in Rooms /\ new.members = record.members /\ new.edition <= ops + 1
      /\ record.members \subseteq Guests
  BY <1>1, RecordIs, EditedIs
<1>3. new # NoRecord
  BY <1>2, NoticesAssumption DEF Rooms, NoRecord
<1> HIDE DEF new, to
<1>4. o \in Operations
  BY <1>2, <1>3, OpType DEF to
<1>5. ASSUME NEW b \in online' PROVE Concerns(b, o, new)
  <2>m. Means(o, a, new, "room", a, to, "none", b)
    BY OpIs
  <2> HIDE DEF o
  <2>1. /\ o.notice.to = to /\ o.notice.room = new /\ ~ LetsIn(b, o.notice)
        /\ ~ ShownTo(b, o) /\ ~ Gone(b, o) /\ ~ Ends(b, o.notice) /\ (Carries(b, o.notice) <=> b \in to)
    BY <2>m DEF Means
  <2>3. CASE b \in record.members
    BY <1>1, <1>2, <2>1, <2>3 DEF Concerns, Stays, to
  <2>4. CASE b \notin record.members
    BY <1>1, <1>2, <2>1, <2>4 DEF Concerns, Aside, Touches, to
  <2> QED
    BY <2>3, <2>4
<1> HIDE DEF o
<1>6. Sound(a, new, "room", a, to, "none")
  BY <1>1, <1>2, <1>4, <1>5 DEF Sound, o, to
<1> QED
  BY <1>6

LEMMA TicksSoundly ==
    ASSUME NoticeTypes, NEW a \in Guests, TickReady(a) \/ ReturnToRoom(a)
    PROVE  \E new, what, about, to, answer : Sound(a, new, what, about, to, answer)
<1>0. /\ a \in record.members /\ view[a] # Outside /\ online' = online /\ ops \in Nat
      /\ record \in Rooms /\ record # NoRecord /\ record \in RoomRosters /\ record.edition <= ops + 1 /\ record.members \subseteq Guests
  <2>1. a \in record.members /\ view[a] # Outside /\ online' = online
    BY DEF TickReady, ReturnToRoom, Shows
  <2>2. record \in RoomRosters
    BY DEF NoticeTypes
  <2> QED
    BY <2>1, <2>2, RecordIs
<1>1. CASE TickReady(a)
  <2> DEFINE to == record.members
             o == OpOf(a, record, "players", a, to, "none")
  <2>1. Operate(a, record, "players", a, to, "none")
    BY <1>1 DEF TickReady
  <2> HIDE DEF to
  <2>2. o \in Operations
    BY <1>0, OpType DEF to
  <2>3. ASSUME NEW b \in online' PROVE Concerns(b, o, record)
    <3>m. Means(o, a, record, "players", a, to, "none", b)
      BY OpIs
    <3> HIDE DEF o
    <3>1. /\ o.notice.to = to /\ o.notice.room = record /\ ~ LetsIn(b, o.notice)
          /\ ~ ShownTo(b, o) /\ ~ Gone(b, o) /\ ~ Ends(b, o.notice)
      BY <3>m DEF Means
    <3>2. CASE b \in record.members
      BY <3>1, <3>2 DEF Concerns, Stays
    <3>3. CASE b \notin record.members
      BY <3>1, <3>3 DEF Concerns, Aside, Touches, to
    <3> QED
      BY <3>2, <3>3
  <2> HIDE DEF o
  <2>4. Sound(a, record, "players", a, to, "none")
    BY <1>0, <2>1, <2>2, <2>3 DEF Sound, o, to
  <2> QED
    BY <2>4
<1>2. CASE ReturnToRoom(a)
  <2> DEFINE o == OpOf(a, record, "none", a, {}, "room")
  <2>1. Operate(a, record, "none", a, {}, "room")
    BY <1>2 DEF ReturnToRoom
  <2>2. o \in Operations
    BY <1>0, OpType
  <2>3. ASSUME NEW b \in online' PROVE Concerns(b, o, record)
    <3>m. Means(o, a, record, "none", a, {}, "room", b)
      BY OpIs
    <3> HIDE DEF o
    <3>1. /\ o.notice.to = {} /\ o.notice.room = record /\ ~ LetsIn(b, o.notice)
          /\ (ShownTo(b, o) <=> a = b) /\ ~ Gone(b, o) /\ ~ Ends(b, o.notice)
      BY <3>m DEF Means
    <3>2. CASE b \in record.members
      BY <1>0, <3>1, <3>2 DEF Concerns, Stays
    <3>3. CASE b \notin record.members
      BY <1>0, <3>1, <3>3 DEF Concerns, Aside, Touches
    <3> QED
      BY <3>2, <3>3
  <2> HIDE DEF o
  <2>4. Sound(a, record, "none", a, {}, "room")
    BY <1>0, <2>1, <2>2, <2>3 DEF Sound, o
  <2> QED
    BY <2>4
<1> QED
  BY <1>1, <1>2

-----------------------------------------------------------------------------
(* The invariant, step by step.                                            *)

\* What a hears and shows, if it is connected.
NoticesFollow(a, q, v, r, m) == Heard(a, q, v, r) /\ (a \notin m => ShowsSoon(a, q, v, r))

LEMMA HearsIs ==
    ASSUME NEW g, NEW a
    PROVE  HearsOf(g, a) <=>
               IF at[a] = g THEN a \in online => NoticesFollow(a, PendingOf(channel[g], saved[g]), view[a], record, missed)
               ELSE a \notin record.members /\ view[a] = Outside
<1> QED
  BY Zenon DEF HearsOf, NoticesFollow, Pending

\* Whom an operation concerns follows the room as before.
LEMMA ConcernsFollows ==
    ASSUME NoticeTypes, NEW g \in Gateways, NEW b \in Guests, NEW o \in Operations, NEW new,
           NoticesFollow(b, PendingOf(channel[g], saved[g]), view[b], record, missed), Concerns(b, o, new)
    PROVE  NoticesFollow(b, PendingOf(channel[g], Append(saved[g], o)), view[b], new, missed)
<1> DEFINE c == channel[g]
           s == saved[g]
           q == PendingOf(c, s)
           z == PendingOf(c, Append(s, o))
           v == view[b]
<1>1. c \in Seq(NoticesOf) /\ s \in Seq(Operations)
  BY DEF NoticeTypes
<1>2. AddedTo(z, q, o)
  BY <1>1, PendingAdded
<1>3. Heard(b, q, v, record) /\ (b \notin missed => ShowsSoon(b, q, v, record))
  BY DEF NoticesFollow
<1>6. ASSUME Enters(b, o, new) PROVE Comes(b, o, q, v, record, new)
  <2> HIDE DEF c, s, v
  <2>1. \A i \in 1 .. Len(c) : b \notin c[i].to
    <3>1. DOMAIN c = 1 .. Len(c) /\ \A i \in DOMAIN c : b \notin c[i].to
      BY <1>1, <1>6, LenProperties DEF Enters, Idle, c
    <3> QED
      BY <3>1
  <2>2. \A i \in 1 .. Len(s) : b \notin s[i].notice.to
    <3>1. DOMAIN s = 1 .. Len(s) /\ \A i \in DOMAIN s : b \notin s[i].notice.to
      BY <1>1, <1>6, LenProperties DEF Enters, Idle, s
    <3> QED
      BY <3>1
  <2>3. ASSUME NEW i \in DOMAIN q PROVE b \notin q[i].notice.to
    <3>1. /\ Len(c) \in Nat /\ Len(s) \in Nat /\ DOMAIN q = 1 .. Len(c) + Len(s)
          /\ \A k \in 1 .. Len(c) : q[k] = GotAnswer(c[k])
          /\ \A k \in 1 .. Len(s) : q[Len(c) + k] = s[k]
      BY <1>1, PendingPlaces
    <3> HIDE DEF q
    <3>2. CASE i <= Len(c)
      <4>1. i \in 1 .. Len(c)
        BY <3>1, <3>2
      <4>2. q[i] = GotAnswer(c[i])
        BY <3>1, <4>1
      <4>3. q[i].notice = c[i]
        BY <4>2 DEF GotAnswer
      <4> QED
        BY <2>1, <4>1, <4>3
    <3>3. CASE i > Len(c)
      <4>1. i - Len(c) \in 1 .. Len(s) /\ Len(c) + (i - Len(c)) = i
        BY <3>1, <3>3
      <4>2. q[Len(c) + (i - Len(c))] = s[i - Len(c)]
        BY <3>1, <4>1
      <4> QED
        BY <2>2, <4>1, <4>2
    <3> QED
      BY <3>1, <3>2, <3>3
  <2> HIDE DEF q
  <2> QED
    BY <1>6, <2>3 DEF Enters, Idle, Comes, v
<1> HIDE DEF c, s, q, z, v
<1>7. Heard(b, z, v, new) /\ (b \notin missed => ShowsSoon(b, z, v, new))
  <2>1. CASE Stays(b, o, v, record, new)
    BY <1>2, <1>3, <2>1, Staying
  <2>2. CASE Goes(b, o, v, record, new)
    BY <1>2, <1>3, <2>2, Going
  <2>3. CASE Comes(b, o, q, v, record, new)
    BY <1>2, <1>3, <2>3, Coming
  <2>4. CASE Aside(b, o, record, new)
    BY <1>2, <1>3, <2>4, NotConcerned
  <2> QED
    BY <1>6, <2>1, <2>2, <2>3, <2>4 DEF Concerns, v
<1> QED
  BY <1>7 DEF NoticesFollow, c, s, z, v

\* Operations keep the invariant.
LEMMA OperateKeeps ==
    ASSUME NoticeInv, NEW a \in Guests, NEW new, NEW what, NEW about, NEW to, NEW answer,
           Sound(a, new, what, about, to, answer)
    PROVE  NoticeInv'
<1> DEFINE o == OpOf(a, new, what, about, to, answer)
<1>0. NoticeTypes /\ \A g \in Gateways : spread \subseteq {g} => SaidBy(g) /\ \A b \in Guests : HearsOf(g, b)
  BY DEF NoticeInv
<1>1. /\ ops < MaxOps /\ ops' = ops + 1 /\ record' = new
      /\ spread' = IF new = record THEN spread ELSE spread \cup {at[a]}
      /\ saved' = [saved EXCEPT ![at[a]] = Append(@, o)]
      /\ at' = at /\ channel' = channel /\ view' = view /\ missed' = missed /\ losses' = losses
      /\ online' \subseteq online
  BY DEF Sound, Operate, OpOf
<1>2. /\ new \in RoomRosters /\ new.edition <= ops + 1 /\ o \in Operations
      /\ to \subseteq record.members \cup {a} /\ new.members \subseteq record.members \cup {a}
      /\ a \in record.members \/ new # record
      /\ \A b \in online' : Concerns(b, o, new)
  BY DEF Sound
<1>3. o.by = a /\ o.notice.to = to
  BY DEF OpOf
<1> HIDE DEF o
<1>4. /\ ops \in Nat /\ MaxOps \in Nat /\ at \in [Guests -> Gateways] /\ at[a] \in Gateways
      /\ DOMAIN saved = Gateways /\ \A g \in Gateways : saved[g] \in Seq(Operations)
  BY <1>0, NoticesAssumption DEF NoticeTypes
<1>5. /\ DOMAIN saved' = Gateways /\ saved'[at[a]] = Append(saved[at[a]], o)
      /\ \A g \in Gateways \ {at[a]} : saved'[g] = saved[g]
  BY <1>1, <1>4
<1>6. NoticeTypes'
  <2>1. record' \in RoomRosters /\ record'.edition <= ops' /\ ops' \in 0 .. MaxOps /\ online' \in SUBSET Guests
    BY <1>0, <1>1, <1>2, <1>4 DEF NoticeTypes
  <2>2. at' \in [Guests -> Gateways] /\ missed' \in SUBSET Guests /\ view' \in [Guests -> {NoRecord} \cup Rooms] /\ losses' \in 0 .. MaxMissed
    BY <1>0, <1>1 DEF NoticeTypes
  <2>3. spread' \in SUBSET Gateways /\ IsFiniteSet(spread')
    <3>1. IsFiniteSet(spread \cup {at[a]})
      BY <1>0, FS_AddElement DEF NoticeTypes
    <3> QED
      BY <1>0, <1>1, <1>4, <3>1 DEF NoticeTypes
  <2>4. \A g \in Gateways : saved'[g] \in Seq(Operations)
    <3>1. Append(saved[at[a]], o) \in Seq(Operations)
      BY <1>2, <1>4, AppendedIn
    <3> QED
      BY <1>4, <1>5, <3>1
  <2>5. DOMAIN channel' = Gateways /\ \A g \in Gateways : channel'[g] \in Seq(NoticesOf)
    BY <1>0, <1>1 DEF NoticeTypes
  <2> QED
    BY <1>5, <2>1, <2>2, <2>3, <2>4, <2>5 DEF NoticeTypes
<1>7. ASSUME NEW g \in Gateways, spread' \subseteq {g}
      PROVE  SaidBy(g)' /\ \A b \in Guests : HearsOf(g, b)'
  <2>1. spread \subseteq {g} /\ (new # record => at[a] = g)
    BY <1>1, <1>7
  <2>2. SaidBy(g) /\ \A b \in Guests : HearsOf(g, b)
    BY <1>0, <2>1
  <2>3. \A b \in Guests : IF at[b] = g THEN b \in online => NoticesFollow(b, PendingOf(channel[g], saved[g]), view[b], record, missed)
                          ELSE b \notin record.members /\ view[b] = Outside
    BY <2>2, HearsIs
  <2>4. at[a] = g
    BY <1>2, <2>1, <2>3
  <2>5. to \subseteq Guests /\ \A b \in to : at[b] = g
    <3>1. record.members \subseteq Guests
      BY <1>0, RecordIs
    <3>2. \A b \in record.members : at[b] = g
      BY <2>3, <3>1
    <3> QED
      BY <1>2, <2>4, <3>1, <3>2
  <2>6. SaidBy(g)'
    <3>1. /\ \A h \in Gateways : h # g => saved[h] = <<>>
          /\ \A h \in Gateways : \A i \in DOMAIN channel[h] : \A b \in channel[h][i].to : at[b] = g
          /\ \A i \in DOMAIN saved[g] : at[saved[g][i].by] = g /\ \A b \in saved[g][i].notice.to : at[b] = g
      BY <2>2 DEF SaidBy
    <3>2. \A h \in Gateways : h # g => saved'[h] = <<>>
      BY <1>5, <2>4, <3>1
    <3>3. ASSUME NEW i \in DOMAIN saved'[g] PROVE at[saved'[g][i].by] = g /\ \A b \in saved'[g][i].notice.to : at[b] = g
      <4> DEFINE s == saved[g]
      <4>1. s \in Seq(Operations) /\ saved'[g] = Append(s, o)
        BY <1>4, <1>5, <2>4
      <4>3. \A k \in DOMAIN s : at[s[k].by] = g /\ \A b \in s[k].notice.to : at[b] = g
        BY <3>1
      <4> HIDE DEF s
      <4>2. /\ DOMAIN Append(s, o) = 1 .. Len(s) + 1 /\ Len(s) \in Nat /\ DOMAIN s = 1 .. Len(s)
            /\ Append(s, o)[Len(s) + 1] = o /\ \A k \in 1 .. Len(s) : Append(s, o)[k] = s[k]
        BY <1>2, <4>1, AppendProperties, LenProperties
      <4>4. CASE i = Len(s) + 1
        BY <1>3, <2>4, <2>5, <4>1, <4>2, <4>4
      <4>5. CASE i # Len(s) + 1
        <5>1. i \in 1 .. Len(s)
          BY <4>1, <4>2, <4>5
        <5> QED
          BY <4>1, <4>2, <4>3, <5>1
      <4> QED
        BY <4>4, <4>5
    <3> QED
      BY <1>1, <3>1, <3>2, <3>3 DEF SaidBy
  <2>7. ASSUME NEW b \in Guests PROVE HearsOf(g, b)'
    <3>1. CASE at[b] = g
      <4>1. ASSUME b \in online' PROVE NoticesFollow(b, PendingOf(channel[g], Append(saved[g], o)), view[b], new, missed)
        <5>1. b \in online /\ Concerns(b, o, new)
          BY <1>1, <1>2, <4>1
        <5>2. NoticesFollow(b, PendingOf(channel[g], saved[g]), view[b], record, missed)
          BY <2>3, <3>1, <5>1
        <5> QED
          BY <1>0, <1>2, <5>1, <5>2, ConcernsFollows
      <4>2. saved'[g] = Append(saved[g], o)
        BY <1>5, <2>4
      <4>3. b \in online' => NoticesFollow(b, PendingOf(channel'[g], saved'[g]), view'[b], record', missed')
        BY <1>1, <4>1, <4>2, Zenon
      <4>4. at'[b] = g
        BY <1>1, <3>1
      <4> QED
        BY <4>3, <4>4, Zenon DEF HearsOf, NoticesFollow, Pending
    <3>2. CASE at[b] # g
      <4>1. b \notin record.members /\ view[b] = Outside /\ b # a
        BY <2>3, <2>4, <3>2
      <4>2. at'[b] # g /\ b \notin record'.members /\ view'[b] = Outside
        BY <1>1, <1>2, <3>2, <4>1
      <4> QED
        BY <4>2, Zenon DEF HearsOf
    <3> QED
      BY <3>1, <3>2
  <2> QED
    BY <2>6, <2>7
<1> QED
  BY <1>6, <1>7 DEF NoticeInv

\* An answer, to b or to another.
LEMMA AnswerFollows ==
    ASSUME NEW b \in Guests, NEW z, NEW q, NEW p, AnsweredAt(z, q, p), NEW v, NEW r, NEW m, NoticesFollow(b, q, v, r, m),
           \A k \in DOMAIN q : k < p => ~ ShownTo(b, q[k]) /\ ~ Gone(b, q[k]),
           ShownTo(b, q[p]) => q[p].notice.room # Outside, NEW w,
           w = IF ShownTo(b, q[p]) THEN q[p].notice.room ELSE IF Gone(b, q[p]) THEN Outside ELSE v
    PROVE  NoticesFollow(b, z, w, r, m)
<1>0. Heard(b, q, v, r) /\ (b \notin m => ShowsSoon(b, q, v, r))
  BY DEF NoticesFollow
<1>1. CASE ShownTo(b, q[p])
  <2>1. w = q[p].notice.room
    BY <1>1
  <2>2. Heard(b, z, q[p].notice.room, r) /\ ShowsSoon(b, z, q[p].notice.room, r)
    BY <1>0, <1>1, ShownAnswer
  <2> QED
    BY <2>1, <2>2 DEF NoticesFollow
<1>2. CASE Gone(b, q[p])
  <2>1. w = Outside
    BY <1>2 DEF ShownTo, Gone
  <2>2. Heard(b, z, Outside, r) /\ ShowsSoon(b, z, Outside, r)
    BY <1>0, <1>2, GoneAnswer
  <2> QED
    BY <2>1, <2>2 DEF NoticesFollow
<1>3. CASE ~ ShownTo(b, q[p]) /\ ~ Gone(b, q[p])
  <2>1. /\ DOMAIN z = DOMAIN q /\ DOMAIN q \subseteq Nat /\ p \in DOMAIN q
        /\ \A i \in DOMAIN q : z[i].notice = q[i].notice
        /\ \A i \in DOMAIN q : ShownTo(b, z[i]) <=> ShownTo(b, q[i]) /\ i # p
        /\ \A i \in DOMAIN q : Gone(b, z[i]) <=> Gone(b, q[i]) /\ i # p
    BY AnswerLeaves
  <2> DEFINE e == [i \in DOMAIN z |-> i]
  <2>2. e \in [DOMAIN z -> DOMAIN q] /\ \A i \in DOMAIN z : e[i] = i
    BY <2>1
  <2> HIDE DEF e
  <2>3. \A i \in DOMAIN z : Alike(b, z[i], q[e[i]])
    BY <1>3, <2>1, <2>2 DEF Alike
  <2>4. \A i, k \in DOMAIN z : i < k <=> e[i] < e[k]
    BY <2>2
  <2>5. \A j \in DOMAIN q : Touches(b, q[j]) => \E i \in DOMAIN z : e[i] = j
    BY <2>1, <2>2
  <2>6. Within(b, z, q, e)
    BY <2>1, <2>2, <2>3, <2>4, <2>5 DEF Within
  <2>7. w = v
    BY <1>3
  <2> QED
    BY <1>0, <2>6, <2>7, WithinKeeps DEF NoticesFollow
<1> QED
  BY <1>1, <1>2, <1>3

\* What gateway g has to say, said.
LEMMA SayFollows ==
    ASSUME NEW b \in Guests, NEW c \in Seq(NoticesOf), NEW s \in Seq(Operations), s # <<>>, NEW v, NEW r, NEW m,
           NoticesFollow(b, PendingOf(c, s), v, r, m), NEW w, NEW op, op = Head(s),
           w = IF ShownTo(b, op) THEN op.notice.room ELSE IF Gone(b, op) THEN Outside ELSE v
    PROVE  NoticesFollow(b, PendingOf(IF op.notice.to = {} THEN c ELSE Append(c, op.notice), Tail(s)), w, r, m)
<1> DEFINE q == PendingOf(c, s)
           p == Len(c) + 1
<1>1. /\ p \in DOMAIN q /\ q[p] = op
      /\ \A k \in DOMAIN q : k < p => ~ ShownTo(b, q[k]) /\ ~ Gone(b, q[k])
  BY PendingFirst
<1>2. op \in Operations
  BY HeadTailProperties
<1>3. ShownTo(b, op) => op.notice.room # Outside
  BY <1>2 DEF Operations, ShownTo, Outside
<1>4. CASE op.notice.to # {}
  <2> DEFINE z == PendingOf(Append(c, op.notice), Tail(s))
  <2>1. AnsweredAt(z, q, p)
    BY PendingTold
  <2>2. NoticesFollow(b, q, v, r, m)
    OBVIOUS
  <2> HIDE DEF q, p, z
  <2>3. NoticesFollow(b, z, w, r, m)
    BY <1>1, <1>3, <2>1, <2>2, AnswerFollows
  <2> QED
    BY <1>4, <2>3 DEF z
<1>5. CASE op.notice.to = {}
  <2> DEFINE y == [q EXCEPT ![p] = GotAnswer(q[p].notice)]
             z == PendingOf(c, Tail(s))
  <2>0. DOMAIN q \subseteq Nat
    <3>1. DOMAIN q = 1 .. Len(c) + Len(s) /\ Len(c) \in Nat /\ Len(s) \in Nat
      BY PendingPlaces
    <3> HIDE DEF q
    <3> QED
      BY <3>1
  <2>1. AnsweredAt(y, q, p)
    <3>1. \E D, R : q \in [D -> R]
      <4>1. q \in [1 .. Len(q) -> Said]
        BY PendingPlaces, LenProperties
      <4> QED
        BY <4>1
    <3>2. PICK D, R : q \in [D -> R]
      BY <3>1
    <3> HIDE DEF q, p
    <3> QED
      BY <1>1, <2>0, <3>2 DEF AnsweredAt
  <2>2. \E e : Within(b, z, y, e)
    <3> HIDE DEF y
    <3> QED
      BY <1>5, <2>1, PendingSaid
  <2>3. NoticesFollow(b, q, v, r, m)
    OBVIOUS
  <2> HIDE DEF q, p, y, z
  <2>4. NoticesFollow(b, y, w, r, m)
    BY <1>1, <1>3, <2>1, <2>3, AnswerFollows
  <2>5. PICK e : Within(b, z, y, e)
    BY <2>2
  <2>6. Heard(b, z, w, r) /\ (ShowsSoon(b, y, w, r) => ShowsSoon(b, z, w, r))
    BY <2>4, <2>5, WithinKeeps DEF NoticesFollow
  <2>7. NoticesFollow(b, z, w, r, m)
    BY <2>4, <2>6 DEF NoticesFollow
  <2> QED
    BY <1>5, <2>7 DEF z
<1> QED
  BY <1>4, <1>5

\* A notice that b hears.
LEMMA TellFollows ==
    ASSUME NoticeTypes, NEW b \in Guests, NEW z, NEW q, TailOf(z, q), NEW n \in NoticesOf, q[1] = GotAnswer(n), b \in n.to,
           NEW m, NEW k, b \notin k => b \notin m \/ (n.kind # "players" /\ (ToldOf(b, n) # Outside \/ SendsOut(b, n))),
           NoticesFollow(b, q, view[b], record, m)
    PROVE  NoticesFollow(b, z, ToldOf(b, n), record, k)
<1> DEFINE v == view[b]
           w == ToldOf(b, n)
           r == record
<1>0. /\ q[1].notice = n /\ (n.room = NoRecord => n.kind = "dismiss") /\ v \in {NoRecord} \cup Rooms /\ r \in RoomRosters
      /\ Heard(b, q, v, r) /\ (b \notin m => ShowsSoon(b, q, v, r))
      /\ b \in q[1].notice.to
  BY DEF NoticesFollow, GotAnswer, NoticesOf, NoticeTypes
<1>1. CASE SendsOut(b, n)
  <2>1. Ends(b, q[1].notice) /\ w = Outside
    BY <1>0, <1>1 DEF Ends, ToldOf
  <2> HIDE DEF w, r, v
  <2>2. Heard(b, z, Outside, r) /\ ShowsSoon(b, z, Outside, r)
    BY <1>0, <2>1, ToldToGo
  <2> QED
    BY <2>1, <2>2 DEF NoticesFollow, w, r
<1>2. CASE ~ SendsOut(b, n) /\ LetsIn(b, n)
  <2>1. w = n.room /\ n.room # Outside
    BY <1>0, <1>2 DEF ToldOf, LetsIn, SendsOut, Outside
  <2> HIDE DEF w, r, v
  <2>2. Heard(b, z, n.room, r) /\ ShowsSoon(b, z, n.room, r)
    BY <1>0, <1>2, <2>1, ToldToCome
  <2> QED
    BY <2>1, <2>2 DEF NoticesFollow, w, r
<1>3. ASSUME ~ SendsOut(b, n), ~ LetsIn(b, n) PROVE NoticesFollow(b, z, w, r, k)
  <2>0. ~ (n.kind = "join" /\ n.about = b)
    BY <1>3 DEF LetsIn
  <2>1. CASE v = Outside
    <3>1. w = Outside
      BY <1>3, <2>0, <2>1 DEF ToldOf
    <3>2. b \notin k => b \notin m
      BY <1>3, <3>1
    <3> HIDE DEF w, r, v
    <3>3. Heard(b, z, Outside, r)
      BY <1>0, <2>1, TailKeeps
    <3>4. b \notin k => ShowsSoon(b, z, Outside, r)
      BY <1>0, <1>3, <2>1, <3>2, ToldOutside
    <3> QED
      BY <3>1, <3>3, <3>4 DEF NoticesFollow
  <2>2. CASE v # Outside /\ n.kind = "players"
    <3>1. w = [v EXCEPT !.members = n.room.members] /\ (b \notin k => b \notin m)
      BY <1>3, <2>0, <2>2 DEF ToldOf
    <3>2. v \in Rooms
      BY <1>0, <2>2 DEF Outside
    <3> HIDE DEF v, r
    <3>3. w # Outside
      BY <3>1, <3>2, NoticesAssumption DEF Rooms, Outside, NoRecord
    <3> HIDE DEF w
    <3>4. Heard(b, z, w, r)
      BY <1>0, <2>2, <3>3, TailKeeps
    <3>5. b \notin k => ShowsSoon(b, z, w, r)
      BY <1>0, <2>2, <3>1, <3>2, ToldPlayers
    <3> QED
      BY <3>4, <3>5 DEF NoticesFollow
  <2>3. CASE v # Outside /\ n.kind # "players"
    <3>1. w = n.room
      BY <1>3, <2>0, <2>3 DEF ToldOf
    <3>2. w # Outside /\ ~ Ends(b, n)
      BY <1>0, <1>3, <3>1 DEF SendsOut, Outside, Ends
    <3> HIDE DEF v, r, w
    <3>3. Heard(b, z, w, r)
      BY <1>0, <2>3, <3>2, TailKeeps
    <3>4. ShowsSoon(b, z, w, r)
      BY <1>0, <2>3, <3>1, <3>2, ToldRoom
    <3> QED
      BY <3>3, <3>4 DEF NoticesFollow
  <2> QED
    BY <2>1, <2>2, <2>3
<1> QED
  BY <1>1, <1>2, <1>3

\* What the invariant says of a gateway g that is the only one to have changed the record.
LEMMA OnlyOne ==
    ASSUME NoticeInv, NEW g \in Gateways, spread \subseteq {g}
    PROVE  /\ \A h \in Gateways : h # g => saved[h] = <<>>
           /\ \A h \in Gateways : \A i \in DOMAIN channel[h] : \A b \in channel[h][i].to : at[b] = g
           /\ \A i \in DOMAIN saved[g] : at[saved[g][i].by] = g /\ \A b \in saved[g][i].notice.to : at[b] = g
           /\ \A b \in Guests : IF at[b] = g THEN b \in online => NoticesFollow(b, PendingOf(channel[g], saved[g]), view[b], record, missed)
                                ELSE b \notin record.members /\ view[b] = Outside
<1>1. SaidBy(g) /\ \A b \in Guests : HearsOf(g, b)
  BY DEF NoticeInv
<1>2. \A b \in Guests : IF at[b] = g THEN b \in online => NoticesFollow(b, PendingOf(channel[g], saved[g]), view[b], record, missed)
                        ELSE b \notin record.members /\ view[b] = Outside
  BY <1>1, HearsIs
<1> QED
  BY <1>1, <1>2 DEF SaidBy

\* And after a step.
LEMMA OnlyOneStill ==
    ASSUME NoticeTypes',
           \A g \in Gateways : spread' \subseteq {g} =>
               /\ \A h \in Gateways : h # g => saved'[h] = <<>>
               /\ \A h \in Gateways : \A i \in DOMAIN channel'[h] : \A b \in channel'[h][i].to : at'[b] = g
               /\ \A i \in DOMAIN saved'[g] : at'[saved'[g][i].by] = g /\ \A b \in saved'[g][i].notice.to : at'[b] = g
               /\ \A b \in Guests :
                      IF at'[b] = g THEN b \in online' => NoticesFollow(b, PendingOf(channel'[g], saved'[g]), view'[b], record', missed')
                      ELSE b \notin record'.members /\ view'[b] = Outside
    PROVE  NoticeInv'
<1>1. ASSUME NEW g \in Gateways, spread' \subseteq {g} PROVE SaidBy(g)'
  BY <1>1 DEF SaidBy
<1>2. ASSUME NEW g \in Gateways, spread' \subseteq {g}, NEW b \in Guests PROVE HearsOf(g, b)'
  <2>1. IF at'[b] = g THEN b \in online' => NoticesFollow(b, PendingOf(channel'[g], saved'[g]), view'[b], record', missed')
        ELSE b \notin record'.members /\ view'[b] = Outside
    BY <1>2
  <2> QED
    BY <2>1, Zenon DEF HearsOf, NoticesFollow, Pending
<1> QED
  BY <1>1, <1>2 DEF NoticeInv

\* The tail of what there is has nothing else.
LEMMA TailHas ==
    ASSUME NEW S, NEW s \in Seq(S), s # <<>>
    PROVE  Tail(s) \in Seq(S) /\ Head(s) \in S /\ 1 \in DOMAIN s /\ Head(s) = s[1] /\ \A i \in DOMAIN Tail(s) : \E k \in DOMAIN s : Tail(s)[i] = s[k]
<1>1. /\ Tail(s) \in Seq(S) /\ Head(s) \in S /\ Head(s) = s[1] /\ Len(Tail(s)) = Len(s) - 1 /\ Len(s) \in Nat /\ Len(s) # 0
      /\ \A i \in 1 .. Len(Tail(s)) : Tail(s)[i] = s[i + 1]
  BY HeadTailProperties, EmptySeq, LenProperties
<1>2. DOMAIN s = 1 .. Len(s) /\ DOMAIN Tail(s) = 1 .. Len(Tail(s))
  BY <1>1, LenProperties
<1>3. \A i \in DOMAIN Tail(s) : i + 1 \in DOMAIN s
  BY <1>1, <1>2
<1> QED
  BY <1>1, <1>2, <1>3

LEMMA BroadcastKeeps == ASSUME NoticeInv, NEW f \in Gateways, Broadcast(f) PROVE NoticeInv'
<1> DEFINE op == Head(saved[f])
<1>0. NoticeTypes
  BY DEF NoticeInv
<1>1. /\ saved[f] # <<>>
      /\ channel' = [h \in Gateways |-> IF op.notice.to = {} THEN channel[h] ELSE Append(channel[h], op.notice)]
      /\ view' = CASE op.answer = "room" -> [view EXCEPT ![op.by] = op.notice.room]
                   [] op.answer = "left" -> [view EXCEPT ![op.by] = Outside]
                   [] OTHER -> view
      /\ saved' = [saved EXCEPT ![f] = Tail(@)]
      /\ UNCHANGED <<record, at, online, missed, spread, ops, losses>>
  BY DEF Broadcast
<1>2. /\ DOMAIN saved = Gateways /\ \A h \in Gateways : saved[h] \in Seq(Operations) /\ channel[h] \in Seq(NoticesOf)
      /\ view \in [Guests -> {NoRecord} \cup Rooms]
  BY <1>0 DEF NoticeTypes
<1>3. op \in Operations /\ Tail(saved[f]) \in Seq(Operations) /\ 1 \in DOMAIN saved[f] /\ op = saved[f][1]
      /\ \A i \in DOMAIN Tail(saved[f]) : \E k \in DOMAIN saved[f] : Tail(saved[f])[i] = saved[f][k]
  BY <1>1, <1>2, TailHas
<1> HIDE DEF op
<1>4. op.by \in Guests /\ op.answer \in {"none", "room", "left"} /\ op.notice \in NoticesOf /\ op.notice.room \in {NoRecord} \cup Rooms
  BY <1>3 DEF Operations, NoticesOf
<1>5. \A b \in Guests : view'[b] = IF ShownTo(b, op) THEN op.notice.room ELSE IF Gone(b, op) THEN Outside ELSE view[b]
  <2>1. CASE op.answer = "room"
    BY <1>1, <1>2, <1>4, <2>1 DEF ShownTo, Gone
  <2>2. CASE op.answer = "left"
    <3>1. view' = [view EXCEPT ![op.by] = Outside]
      BY <1>1, <2>2
    <3> QED
      BY <1>2, <1>4, <2>2, <3>1 DEF ShownTo, Gone
  <2>3. CASE op.answer = "none"
    <3>1. view' = view
      BY <1>1, <2>3
    <3> QED
      BY <2>3, <3>1 DEF ShownTo, Gone
  <2> QED
    BY <1>4, <2>1, <2>2, <2>3
<1>6. view' \in [Guests -> {NoRecord} \cup Rooms]
  <2>1. CASE op.answer = "room"
    BY <1>1, <1>2, <1>4, <2>1
  <2>2. CASE op.answer = "left"
    <3>1. view' = [view EXCEPT ![op.by] = Outside]
      BY <1>1, <2>2
    <3> QED
      BY <1>2, <1>4, <3>1 DEF Outside
  <2>3. CASE op.answer = "none"
    <3>1. view' = view
      BY <1>1, <2>3
    <3> QED
      BY <1>2, <3>1
  <2> QED
    BY <1>4, <2>1, <2>2, <2>3
<1>7. /\ DOMAIN saved' = Gateways /\ saved'[f] = Tail(saved[f]) /\ \A h \in Gateways \ {f} : saved'[h] = saved[h]
      /\ DOMAIN channel' = Gateways
      /\ \A h \in Gateways : channel'[h] = IF op.notice.to = {} THEN channel[h] ELSE Append(channel[h], op.notice)
  BY <1>1, <1>2
<1>8. \A h \in Gateways : saved'[h] \in Seq(Operations) /\ channel'[h] \in Seq(NoticesOf)
  <2> SUFFICES ASSUME NEW h \in Gateways PROVE saved'[h] \in Seq(Operations) /\ channel'[h] \in Seq(NoticesOf)
    OBVIOUS
  <2>1. saved'[h] \in Seq(Operations)
    BY <1>2, <1>3, <1>7
  <2>2. Append(channel[h], op.notice) \in Seq(NoticesOf)
    BY <1>2, <1>4, AppendedIn
  <2> QED
    BY <1>2, <1>7, <2>1, <2>2
<1>9. NoticeTypes'
  BY <1>0, <1>1, <1>6, <1>7, <1>8 DEF NoticeTypes
<1>10. ASSUME NEW g \in Gateways, spread' \subseteq {g}
       PROVE  /\ \A h \in Gateways : h # g => saved'[h] = <<>>
              /\ \A h \in Gateways : \A i \in DOMAIN channel'[h] : \A b \in channel'[h][i].to : at'[b] = g
              /\ \A i \in DOMAIN saved'[g] : at'[saved'[g][i].by] = g /\ \A b \in saved'[g][i].notice.to : at'[b] = g
              /\ \A b \in Guests :
                     IF at'[b] = g THEN b \in online' => NoticesFollow(b, PendingOf(channel'[g], saved'[g]), view'[b], record', missed')
                     ELSE b \notin record'.members /\ view'[b] = Outside
  <2>1. spread \subseteq {g}
    BY <1>1, <1>10
  <2>2. /\ \A h \in Gateways : h # g => saved[h] = <<>>
        /\ \A h \in Gateways : \A i \in DOMAIN channel[h] : \A b \in channel[h][i].to : at[b] = g
        /\ \A i \in DOMAIN saved[g] : at[saved[g][i].by] = g /\ \A b \in saved[g][i].notice.to : at[b] = g
        /\ \A b \in Guests : IF at[b] = g THEN b \in online => NoticesFollow(b, PendingOf(channel[g], saved[g]), view[b], record, missed)
                             ELSE b \notin record.members /\ view[b] = Outside
    BY <2>1, OnlyOne
  <2>3. f = g
    BY <1>1, <2>2
  <2>4. at[op.by] = g /\ \A b \in op.notice.to : at[b] = g
    BY <1>3, <2>2, <2>3
  <2>5. \A h \in Gateways : h # g => saved'[h] = <<>>
    BY <1>7, <2>2, <2>3
  <2>6. ASSUME NEW h \in Gateways, NEW i \in DOMAIN channel'[h], NEW b \in channel'[h][i].to PROVE at[b] = g
    <3>1. CASE op.notice.to = {}
      BY <1>7, <2>2, <2>6, <3>1
    <3>2. CASE op.notice.to # {}
      <4> DEFINE c == channel[h]
      <4>1. c \in Seq(NoticesOf) /\ channel'[h] = Append(c, op.notice)
        BY <1>2, <1>7, <3>2
      <4>3. \A k \in DOMAIN c : \A x \in c[k].to : at[x] = g
        BY <2>2
      <4> HIDE DEF c
      <4>2. /\ DOMAIN Append(c, op.notice) = 1 .. Len(c) + 1 /\ Len(c) \in Nat /\ DOMAIN c = 1 .. Len(c)
            /\ Append(c, op.notice)[Len(c) + 1] = op.notice /\ \A k \in 1 .. Len(c) : Append(c, op.notice)[k] = c[k]
        BY <1>4, <4>1, AppendProperties, LenProperties
      <4>4. CASE i = Len(c) + 1
        BY <2>4, <2>6, <4>1, <4>2, <4>4
      <4>5. CASE i # Len(c) + 1
        <5>1. i \in 1 .. Len(c)
          BY <4>1, <4>2, <4>5
        <5>2. channel'[h][i] = c[i]
          BY <4>1, <4>2, <5>1
        <5> QED
          BY <2>6, <4>2, <4>3, <5>1, <5>2
      <4> QED
        BY <4>4, <4>5
    <3> QED
      BY <3>1, <3>2
  <2>7. \A i \in DOMAIN saved'[g] : at[saved'[g][i].by] = g /\ \A b \in saved'[g][i].notice.to : at[b] = g
    <3>1. saved'[g] = Tail(saved[f])
      BY <1>7, <2>3
    <3>2. ASSUME NEW i \in DOMAIN Tail(saved[f])
          PROVE  at[Tail(saved[f])[i].by] = g /\ \A b \in Tail(saved[f])[i].notice.to : at[b] = g
      <4>1. PICK k \in DOMAIN saved[f] : Tail(saved[f])[i] = saved[f][k]
        BY <1>3
      <4>2. at[saved[f][k].by] = g /\ \A b \in saved[f][k].notice.to : at[b] = g
        BY <2>2, <2>3
      <4> QED
        BY <4>1, <4>2
    <3> QED
      BY <3>1, <3>2
  <2>8. ASSUME NEW b \in Guests
        PROVE  IF at[b] = g THEN b \in online => NoticesFollow(b, PendingOf(channel'[g], saved'[g]), view'[b], record, missed)
               ELSE b \notin record.members /\ view'[b] = Outside
    <3>1. CASE at[b] = g
      <4>1. ASSUME b \in online PROVE NoticesFollow(b, PendingOf(channel'[g], saved'[g]), view'[b], record, missed)
        <5> DEFINE c == channel[g]
                   s == saved[g]
                   v == view[b]
                   w == view'[b]
        <5>1. NoticesFollow(b, PendingOf(c, s), v, record, missed)
          BY <2>2, <3>1, <4>1
        <5>2. c \in Seq(NoticesOf) /\ s \in Seq(Operations) /\ s # <<>> /\ op = Head(s)
          BY <1>1, <1>2, <2>3 DEF op
        <5>3. w = IF ShownTo(b, op) THEN op.notice.room ELSE IF Gone(b, op) THEN Outside ELSE v
          BY <1>5
        <5>4. channel'[g] = (IF op.notice.to = {} THEN c ELSE Append(c, op.notice)) /\ saved'[g] = Tail(s)
          BY <1>7, <2>3
        <5> HIDE DEF c, s, v, w
        <5>5. NoticesFollow(b, PendingOf(IF op.notice.to = {} THEN c ELSE Append(c, op.notice), Tail(s)), w, record, missed)
          BY <5>1, <5>2, <5>3, SayFollows
        <5> QED
          BY <5>4, <5>5 DEF w
      <4> QED
        BY <3>1, <4>1
    <3>2. CASE at[b] # g
      <4>1. b \notin record.members /\ view[b] = Outside /\ b # op.by
        BY <2>2, <2>4, <3>2
      <4>2. view'[b] = Outside
        BY <1>5, <4>1 DEF ShownTo, Gone
      <4> QED
        BY <3>2, <4>1, <4>2
    <3> QED
      BY <3>1, <3>2
  <2>9. at' = at /\ online' = online /\ record' = record /\ missed' = missed
    BY <1>1
  <2>10. \A h \in Gateways : \A i \in DOMAIN channel'[h] : \A b \in channel'[h][i].to : at[b] = g
    BY <2>6
  <2>11. \A b \in Guests : IF at[b] = g THEN b \in online => NoticesFollow(b, PendingOf(channel'[g], saved'[g]), view'[b], record, missed)
                           ELSE b \notin record.members /\ view'[b] = Outside
    BY <2>8
  <2> QED
    BY <2>5, <2>7, <2>9, <2>10, <2>11, Zenon
<1> QED
  BY <1>9, <1>10, OnlyOneStill

\* A notice that a gateway takes from its channel: those it has hear it, or miss it.
LEMMA TakeKeeps ==
    ASSUME NoticeInv, NEW f \in Gateways, channel[f] # <<>>, NEW n, n = Head(channel[f]),
           channel' = [channel EXCEPT ![f] = Tail(@)],
           UNCHANGED <<record, at, online, saved, spread, ops>>, losses' \in 0 .. MaxMissed,
           missed' \in SUBSET Guests, view' \in [Guests -> {NoRecord} \cup Rooms],
           \A b \in Guests \ Here(f, n) : view'[b] = view[b] /\ (b \in missed <=> b \in missed'),
           \/ \A b \in Here(f, n) : /\ view'[b] = ToldOf(b, n)
                                    /\ b \notin missed' => b \notin missed \/ (n.kind # "players" /\ (ToldOf(b, n) # Outside \/ SendsOut(b, n)))
           \/ \A b \in Here(f, n) : view'[b] = view[b] /\ b \in missed'
    PROVE  NoticeInv'
<1>0. NoticeTypes
  BY DEF NoticeInv
<1>1. DOMAIN channel = Gateways /\ \A h \in Gateways : saved[h] \in Seq(Operations) /\ channel[h] \in Seq(NoticesOf)
  BY <1>0 DEF NoticeTypes
<1>2. n \in NoticesOf /\ Tail(channel[f]) \in Seq(NoticesOf) /\ 1 \in DOMAIN channel[f] /\ n = channel[f][1]
      /\ \A i \in DOMAIN Tail(channel[f]) : \E k \in DOMAIN channel[f] : Tail(channel[f])[i] = channel[f][k]
  BY <1>1, TailHas
<1>3. /\ DOMAIN channel' = Gateways /\ channel'[f] = Tail(channel[f])
      /\ \A h \in Gateways \ {f} : channel'[h] = channel[h]
  BY <1>1
<1>4. NoticeTypes'
  <2>1. \A h \in Gateways : channel'[h] \in Seq(NoticesOf)
    BY <1>1, <1>2, <1>3
  <2> QED
    BY <1>0, <1>3, <2>1 DEF NoticeTypes
<1>5. ASSUME NEW g \in Gateways, spread' \subseteq {g}
      PROVE  /\ \A h \in Gateways : h # g => saved'[h] = <<>>
             /\ \A h \in Gateways : \A i \in DOMAIN channel'[h] : \A b \in channel'[h][i].to : at'[b] = g
             /\ \A i \in DOMAIN saved'[g] : at'[saved'[g][i].by] = g /\ \A b \in saved'[g][i].notice.to : at'[b] = g
             /\ \A b \in Guests :
                    IF at'[b] = g THEN b \in online' => NoticesFollow(b, PendingOf(channel'[g], saved'[g]), view'[b], record', missed')
                    ELSE b \notin record'.members /\ view'[b] = Outside
  <2>1. spread \subseteq {g}
    BY <1>5
  <2>2. /\ \A h \in Gateways : h # g => saved[h] = <<>>
        /\ \A h \in Gateways : \A i \in DOMAIN channel[h] : \A b \in channel[h][i].to : at[b] = g
        /\ \A i \in DOMAIN saved[g] : at[saved[g][i].by] = g /\ \A b \in saved[g][i].notice.to : at[b] = g
        /\ \A b \in Guests : IF at[b] = g THEN b \in online => NoticesFollow(b, PendingOf(channel[g], saved[g]), view[b], record, missed)
                             ELSE b \notin record.members /\ view[b] = Outside
    BY <2>1, OnlyOne
  <2>3. \A b \in n.to : at[b] = g
    BY <1>2, <2>2
  <2>4. \A b \in Here(f, n) : b \in n.to /\ at[b] = f /\ at[b] = g
    BY <2>3 DEF Here
  <2>6. ASSUME NEW h \in Gateways, NEW i \in DOMAIN channel'[h], NEW b \in channel'[h][i].to PROVE at[b] = g
    <3>1. CASE h = f
      <4>1. PICK k \in DOMAIN channel[f] : Tail(channel[f])[i] = channel[f][k]
        BY <1>2, <1>3, <2>6, <3>1
      <4>2. b \in channel[f][k].to
        BY <1>3, <2>6, <3>1, <4>1
      <4> QED
        BY <2>2, <4>2
    <3>2. CASE h # f
      <4>1. channel'[h] = channel[h]
        BY <1>3, <3>2
      <4>2. i \in DOMAIN channel[h] /\ b \in channel[h][i].to
        BY <2>6, <4>1
      <4>3. \A k \in DOMAIN channel[h] : \A x \in channel[h][k].to : at[x] = g
        BY <2>2
      <4> QED
        BY <4>2, <4>3
    <3> QED
      BY <3>1, <3>2
  <2>8. ASSUME NEW b \in Guests
        PROVE  IF at[b] = g THEN b \in online => NoticesFollow(b, PendingOf(channel'[g], saved[g]), view'[b], record, missed')
               ELSE b \notin record.members /\ view'[b] = Outside
    <3>1. ASSUME at[b] = g, b \in online PROVE NoticesFollow(b, PendingOf(channel'[g], saved[g]), view'[b], record, missed')
      <4>0. NoticesFollow(b, PendingOf(channel[g], saved[g]), view[b], record, missed)
        BY <2>2, <3>1
      <4>1. CASE f # g
        <5>1. b \notin Here(f, n) /\ channel'[g] = channel[g]
          BY <1>3, <2>4, <4>1
        <5>2. view'[b] = view[b] /\ (b \in missed <=> b \in missed')
          BY <5>1
        <5> QED
          BY <4>0, <5>1, <5>2 DEF NoticesFollow
      <4>2. CASE f = g
        <5> DEFINE z == PendingOf(Tail(channel[g]), saved[g])
                   q == PendingOf(channel[g], saved[g])
        <5>1. TailOf(z, q) /\ q[1] = GotAnswer(n) /\ channel'[g] = Tail(channel[g])
          BY <1>1, <1>3, <4>2, PendingTail
        <5>2. q[1].notice = n
          BY <5>1 DEF GotAnswer
        <5>3. Heard(b, q, view[b], record) /\ (b \notin missed => ShowsSoon(b, q, view[b], record))
          BY <4>0 DEF NoticesFollow
        <5> HIDE DEF z, q
        <5>4. Heard(b, z, view[b], record)
          BY <5>1, <5>3, TailKeeps
        <5>5. CASE b \notin Here(f, n)
          <6>1. b \notin n.to /\ view'[b] = view[b] /\ (b \in missed <=> b \in missed')
            BY <3>1, <4>2, <5>5 DEF Here
          <6>2. b \notin missed => ShowsSoon(b, z, view[b], record)
            BY <5>1, <5>2, <5>3, <6>1, TailUntold
          <6>3. NoticesFollow(b, z, view'[b], record, missed')
            BY <5>4, <6>1, <6>2 DEF NoticesFollow
          <6> QED
            BY <5>1, <6>3 DEF z
        <5>6. CASE b \in Here(f, n)
          <6>1. b \in n.to
            BY <2>4, <5>6
          <6>2. CASE view'[b] = view[b] /\ b \in missed'
            <7>1. NoticesFollow(b, z, view'[b], record, missed')
              BY <5>4, <6>2 DEF NoticesFollow
            <7> QED
              BY <5>1, <7>1 DEF z
          <6>3. CASE /\ view'[b] = ToldOf(b, n)
                     /\ b \notin missed' => b \notin missed \/ (n.kind # "players" /\ (ToldOf(b, n) # Outside \/ SendsOut(b, n)))
            <7> DEFINE k == missed'
            <7>1. /\ b \notin k => b \notin missed \/ (n.kind # "players" /\ (ToldOf(b, n) # Outside \/ SendsOut(b, n)))
                  /\ NoticesFollow(b, q, view[b], record, missed)
              BY <4>0, <6>3 DEF q
            <7> HIDE DEF k
            <7>2. NoticesFollow(b, z, ToldOf(b, n), record, k)
              BY <1>0, <1>2, <5>1, <6>1, <7>1, TellFollows
            <7> QED
              BY <5>1, <6>3, <7>2 DEF z, k
          <6> QED
            BY <5>6, <6>2, <6>3
        <5> QED
          BY <5>5, <5>6
      <4> QED
        BY <4>1, <4>2
    <3>2. ASSUME at[b] # g PROVE b \notin record.members /\ view'[b] = Outside
      <4>1. b \notin Here(f, n)
        BY <2>4, <3>2
      <4> QED
        BY <2>2, <3>2, <4>1
    <3> QED
      BY <3>1, <3>2
  <2>9. \A h \in Gateways : \A i \in DOMAIN channel'[h] : \A b \in channel'[h][i].to : at[b] = g
    BY <2>6
  <2>10. \A b \in Guests : IF at[b] = g THEN b \in online => NoticesFollow(b, PendingOf(channel'[g], saved[g]), view'[b], record, missed')
                           ELSE b \notin record.members /\ view'[b] = Outside
    BY <2>8
  <2>11. saved' = saved /\ at' = at /\ online' = online /\ record' = record
    OBVIOUS
  <2>12. \A h \in Gateways : h # g => saved[h] = <<>>
    BY <2>2
  <2>13. \A i \in DOMAIN saved[g] : at[saved[g][i].by] = g /\ \A b \in saved[g][i].notice.to : at[b] = g
    BY <2>2
  <2>14. \A h \in Gateways : h # g => saved'[h] = <<>>
    BY <2>11, <2>12
  <2>15. \A h \in Gateways : \A i \in DOMAIN channel'[h] : \A b \in channel'[h][i].to : at'[b] = g
    BY <2>9, <2>11
  <2>16. \A i \in DOMAIN saved'[g] : at'[saved'[g][i].by] = g /\ \A b \in saved'[g][i].notice.to : at'[b] = g
    BY <2>11, <2>13
  <2>17. \A b \in Guests : IF at'[b] = g THEN b \in online' => NoticesFollow(b, PendingOf(channel'[g], saved'[g]), view'[b], record', missed')
                           ELSE b \notin record'.members /\ view'[b] = Outside
    BY <2>10, <2>11, Zenon
  <2> QED
    BY <2>14, <2>15, <2>16, <2>17
<1> QED
  BY <1>4, <1>5, OnlyOneStill

LEMMA RelayKeeps == ASSUME NoticeInv, NEW f \in Gateways, Relay(f) PROVE NoticeInv'
<1> DEFINE n == Head(channel[f])
           full(a) == n.kind # "players" /\ (ToldOf(a, n) # Outside \/ SendsOut(a, n))
<1>0. NoticeTypes
  BY DEF NoticeInv
<1>1. /\ channel[f] # <<>> /\ view' = [a \in Guests |-> IF a \in Here(f, n) THEN ToldOf(a, n) ELSE view[a]]
      /\ missed' = missed \ {a \in Here(f, n) : full(a)}
      /\ channel' = [channel EXCEPT ![f] = Tail(@)]
      /\ UNCHANGED <<record, at, online, saved, spread, ops, losses>>
  BY DEF Relay
<1>2. n \in NoticesOf
  <2>1. channel[f] \in Seq(NoticesOf)
    BY <1>0 DEF NoticeTypes
  <2> QED
    BY <1>1, <2>1, TailHas
<1> HIDE DEF n
<1>3. \A a \in Guests : ToldOf(a, n) \in {NoRecord} \cup Rooms
  <2> SUFFICES ASSUME NEW a \in Guests PROVE ToldOf(a, n) \in {NoRecord} \cup Rooms
    OBVIOUS
  <2>1. view[a] \in {NoRecord} \cup Rooms /\ n.room \in {NoRecord} \cup Rooms
    BY <1>0, <1>2 DEF NoticeTypes, NoticesOf
  <2>2. n.room.members \in SUBSET Guests
    BY <2>1 DEF NoRecord, Rooms
  <2>3. view[a] \in Rooms => [view[a] EXCEPT !.members = n.room.members] \in Rooms
    BY <2>2 DEF Rooms
  <2> QED
    BY <2>1, <2>3 DEF ToldOf, Outside
<1>4. view' \in [Guests -> {NoRecord} \cup Rooms]
  BY <1>0, <1>1, <1>3 DEF NoticeTypes
<1>5. Here(f, n) \subseteq Guests /\ missed \subseteq Guests /\ losses \in 0 .. MaxMissed
  BY <1>0, <1>2 DEF Here, NoticesOf, NoticeTypes
<1>6. missed' \in SUBSET Guests /\ losses' \in 0 .. MaxMissed
  BY <1>1, <1>5
<1>7. \A b \in Guests \ Here(f, n) : view'[b] = view[b] /\ (b \in missed <=> b \in missed')
  BY <1>1
<1>8. \A b \in Here(f, n) : view'[b] = ToldOf(b, n) /\ (b \notin missed' => b \notin missed \/ full(b))
  BY <1>1, <1>5
<1>9. n = Head(channel[f]) /\ UNCHANGED <<record, at, online, saved, spread, ops>>
  BY <1>1 DEF n
<1> QED
  BY <1>1, <1>4, <1>6, <1>7, <1>8, <1>9, TakeKeeps

LEMMA MissKeeps == ASSUME NoticeInv, NEW f \in Gateways, MissNotice(f) PROVE NoticeInv'
<1> DEFINE n == Head(channel[f])
<1>0. NoticeTypes
  BY DEF NoticeInv
<1>1. /\ channel[f] # <<>> /\ view' = view /\ losses < MaxMissed /\ losses' = losses + 1
      /\ missed' = missed \cup Here(f, n)
      /\ channel' = [channel EXCEPT ![f] = Tail(@)]
      /\ UNCHANGED <<record, at, online, saved, spread, ops>>
  BY DEF MissNotice
<1>2. n \in NoticesOf
  <2>1. channel[f] \in Seq(NoticesOf)
    BY <1>0 DEF NoticeTypes
  <2> QED
    BY <1>1, <2>1, TailHas
<1>9. n = Head(channel[f])
  OBVIOUS
<1> HIDE DEF n
<1>5. Here(f, n) \subseteq Guests /\ missed \subseteq Guests /\ losses \in 0 .. MaxMissed /\ MaxMissed \in Nat
  BY <1>0, <1>2, NoticesAssumption DEF Here, NoticesOf, NoticeTypes
<1>6. missed' \in SUBSET Guests /\ losses' \in 0 .. MaxMissed
  BY <1>1, <1>5
<1>4. view' \in [Guests -> {NoRecord} \cup Rooms]
  BY <1>0, <1>1 DEF NoticeTypes
<1>7. \A b \in Guests \ Here(f, n) : view'[b] = view[b] /\ (b \in missed <=> b \in missed')
  BY <1>1
<1>8. \A b \in Here(f, n) : view'[b] = view[b] /\ b \in missed'
  BY <1>1
<1> QED
  BY <1>1, <1>4, <1>6, <1>7, <1>8, <1>9, TakeKeeps

LEMMA GatewayDiesKeeps == ASSUME NoticeInv, NEW f \in Gateways, GatewayDies(f) PROVE NoticeInv'
<1>0. NoticeTypes
  BY DEF NoticeInv
<1>1. /\ losses < MaxMissed /\ losses' = losses + 1 /\ online' = {a \in online : at[a] # f}
      /\ missed' = missed \cup UNION {saved[f][i].notice.to : i \in DOMAIN saved[f]}
      /\ saved' = [saved EXCEPT ![f] = <<>>] /\ channel' = [channel EXCEPT ![f] = <<>>]
      /\ record' = record /\ at' = at /\ view' = view /\ spread' = spread /\ ops' = ops
  BY DEF GatewayDies
<1>2. DOMAIN saved = Gateways /\ DOMAIN channel = Gateways
      /\ \A h \in Gateways : saved[h] \in Seq(Operations) /\ channel[h] \in Seq(NoticesOf)
  BY <1>0 DEF NoticeTypes
<1>3. /\ DOMAIN saved' = Gateways /\ saved'[f] = <<>> /\ \A h \in Gateways \ {f} : saved'[h] = saved[h]
      /\ DOMAIN channel' = Gateways /\ channel'[f] = <<>> /\ \A h \in Gateways \ {f} : channel'[h] = channel[h]
  BY <1>1, <1>2
<1>4. NoticeTypes'
  <2>1. \A h \in Gateways : saved'[h] \in Seq(Operations) /\ channel'[h] \in Seq(NoticesOf)
    BY <1>2, <1>3, EmptySeq
  <2>2. missed' \in SUBSET Guests
    <3>1. ASSUME NEW i \in DOMAIN saved[f] PROVE saved[f][i].notice.to \subseteq Guests
      <4>1. saved[f][i] \in Operations
        BY <1>2, ElementOfSeq, LenProperties
      <4> QED
        BY <4>1 DEF Operations, NoticesOf
    <3> QED
      BY <1>0, <1>1, <3>1 DEF NoticeTypes
  <2>3. losses' \in 0 .. MaxMissed
    BY <1>0, <1>1, NoticesAssumption DEF NoticeTypes
  <2>4. online' \in SUBSET Guests
    BY <1>0, <1>1 DEF NoticeTypes
  <2> QED
    BY <1>0, <1>1, <1>3, <2>1, <2>2, <2>3, <2>4 DEF NoticeTypes
<1>5. ASSUME NEW g \in Gateways, spread' \subseteq {g}
      PROVE  /\ \A h \in Gateways : h # g => saved'[h] = <<>>
             /\ \A h \in Gateways : \A i \in DOMAIN channel'[h] : \A b \in channel'[h][i].to : at'[b] = g
             /\ \A i \in DOMAIN saved'[g] : at'[saved'[g][i].by] = g /\ \A b \in saved'[g][i].notice.to : at'[b] = g
             /\ \A b \in Guests :
                    IF at'[b] = g THEN b \in online' => NoticesFollow(b, PendingOf(channel'[g], saved'[g]), view'[b], record', missed')
                    ELSE b \notin record'.members /\ view'[b] = Outside
  <2>1. spread \subseteq {g}
    BY <1>1, <1>5
  <2>2. /\ \A h \in Gateways : h # g => saved[h] = <<>>
        /\ \A h \in Gateways : \A i \in DOMAIN channel[h] : \A b \in channel[h][i].to : at[b] = g
        /\ \A i \in DOMAIN saved[g] : at[saved[g][i].by] = g /\ \A b \in saved[g][i].notice.to : at[b] = g
        /\ \A b \in Guests : IF at[b] = g THEN b \in online => NoticesFollow(b, PendingOf(channel[g], saved[g]), view[b], record, missed)
                             ELSE b \notin record.members /\ view[b] = Outside
    BY <2>1, OnlyOne
  <2>3. \A h \in Gateways : h # g => saved'[h] = <<>>
    BY <1>3, <2>2
  <2>4. ASSUME NEW h \in Gateways, NEW i \in DOMAIN channel'[h], NEW b \in channel'[h][i].to PROVE at[b] = g
    <3>1. CASE h = f
      <4>1. DOMAIN channel'[h] = {}
        BY <1>3, <3>1
      <4> QED
        BY <4>1
    <3>2. CASE h # f
      <4>1. channel'[h] = channel[h]
        BY <1>3, <3>2
      <4>2. i \in DOMAIN channel[h] /\ b \in channel[h][i].to
        BY <2>4, <4>1
      <4>3. \A k \in DOMAIN channel[h] : \A x \in channel[h][k].to : at[x] = g
        BY <2>2
      <4> QED
        BY <4>2, <4>3
    <3> QED
      BY <3>1, <3>2
  <2>5. \A i \in DOMAIN saved'[g] : at[saved'[g][i].by] = g /\ \A b \in saved'[g][i].notice.to : at[b] = g
    <3>1. CASE g = f
      <4>1. DOMAIN saved'[g] = {}
        BY <1>3, <3>1
      <4> QED
        BY <4>1
    <3>2. CASE g # f
      <4>1. saved'[g] = saved[g]
        BY <1>3, <3>2
      <4> QED
        BY <2>2, <4>1
    <3> QED
      BY <3>1, <3>2
  <2>6. ASSUME NEW b \in Guests
        PROVE  IF at[b] = g THEN b \in online' => NoticesFollow(b, PendingOf(channel'[g], saved'[g]), view[b], record, missed')
               ELSE b \notin record.members /\ view[b] = Outside
    <3>1. ASSUME at[b] = g, b \in online' PROVE NoticesFollow(b, PendingOf(channel'[g], saved'[g]), view[b], record, missed')
      <4>1. b \in online /\ f # g
        BY <1>1, <3>1
      <4>2. NoticesFollow(b, PendingOf(channel[g], saved[g]), view[b], record, missed)
        BY <2>2, <3>1, <4>1
      <4>3. channel'[g] = channel[g] /\ saved'[g] = saved[g] /\ (b \notin missed' => b \notin missed)
        BY <1>1, <1>3, <4>1
      <4> QED
        BY <4>2, <4>3 DEF NoticesFollow
    <3> QED
      BY <2>2, <3>1
  <2>7. \A h \in Gateways : \A i \in DOMAIN channel'[h] : \A b \in channel'[h][i].to : at[b] = g
    BY <2>4
  <2>8. \A b \in Guests : IF at[b] = g THEN b \in online' => NoticesFollow(b, PendingOf(channel'[g], saved'[g]), view[b], record, missed')
                          ELSE b \notin record.members /\ view[b] = Outside
    BY <2>6
  <2>9. at' = at /\ view' = view /\ record' = record
    BY <1>1
  <2> QED
    BY <2>3, <2>5, <2>7, <2>8, <2>9, Zenon
<1> QED
  BY <1>4, <1>5, OnlyOneStill

LEMMA NoticesStart == NoticesInit => NoticeInv
<1> SUFFICES ASSUME NoticesInit PROVE NoticeInv
  OBVIOUS
<1>1. /\ record = NoRecord /\ online = Guests /\ at \in [Guests -> Gateways]
      /\ saved = [g \in Gateways |-> <<>>] /\ channel = [g \in Gateways |-> <<>>]
      /\ view = [a \in Guests |-> Outside]
      /\ missed = {} /\ spread = {} /\ ops = 0 /\ losses = 0
  BY DEF NoticesInit
<1>2. NoticeTypes
  <2>1. record \in RoomRosters /\ record.edition <= ops
    BY <1>1 DEF RoomRosters, NoRecord
  <2>2. IsFiniteSet(spread)
    BY <1>1, FS_EmptySet
  <2>3. view \in [Guests -> {NoRecord} \cup Rooms]
    BY <1>1 DEF Outside
  <2>4. /\ DOMAIN saved = Gateways /\ DOMAIN channel = Gateways
        /\ \A g \in Gateways : saved[g] \in Seq(Operations) /\ channel[g] \in Seq(NoticesOf)
    BY <1>1, EmptySeq
  <2>5. ops \in 0 .. MaxOps /\ losses \in 0 .. MaxMissed
    BY <1>1, NoticesAssumption
  <2> QED
    BY <1>1, <2>1, <2>2, <2>3, <2>4, <2>5 DEF NoticeTypes
<1>3. record.members = {} /\ \A a \in Guests : view[a] = Outside
  BY <1>1 DEF NoRecord
<1>4. \A h \in Gateways : saved[h] = <<>> /\ channel[h] = <<>> /\ DOMAIN saved[h] = {} /\ DOMAIN channel[h] = {}
  BY <1>1
<1>5. ASSUME NEW g \in Gateways PROVE SaidBy(g)
  BY <1>4 DEF SaidBy
<1>6. ASSUME NEW g \in Gateways, NEW a \in Guests PROVE HearsOf(g, a)
  <2> DEFINE q == PendingOf(channel[g], saved[g])
  <2>1. DOMAIN q = {}
    <3>1. <<>> \in Seq(NoticesOf) /\ <<>> \in Seq(Operations) /\ Len(<<>>) = 0
      BY EmptySeq
    <3>2. DOMAIN PendingOf(<<>>, <<>>) = 1 .. Len(<<>>) + Len(<<>>)
      BY <3>1, PendingPlaces
    <3>3. 1 .. 0 + 0 = {}
      OBVIOUS
    <3> QED
      BY <1>4, <3>1, <3>2, <3>3
  <2> HIDE DEF q
  <2>2. Heard(a, q, view[a], record)
    BY <2>1 DEF Heard, InFirst, OutLast, HeardInOrder
  <2>3. ShowsSoon(a, q, view[a], record)
    BY <1>3 DEF ShowsSoon
  <2>4. NoticesFollow(a, q, view[a], record, missed)
    BY <2>2, <2>3 DEF NoticesFollow
  <2> QED
    BY <1>3, <2>4, HearsIs DEF q
<1> QED
  BY <1>2, <1>5, <1>6 DEF NoticeInv

LEMMA NoticesStep == NoticeInv /\ [NoticesNext]_noticeVars => NoticeInv'
<1> SUFFICES ASSUME NoticeInv, [NoticesNext]_noticeVars PROVE NoticeInv'
  OBVIOUS
<1>0. NoticeTypes
  BY DEF NoticeInv
<1>1. ASSUME NEW a \in Guests, NEW new, NEW what, NEW about, NEW to, NEW answer, Sound(a, new, what, about, to, answer)
      PROVE  NoticeInv'
  BY <1>1, OperateKeeps
<1>2. ASSUME NEW a \in Guests, OpenRoom(a) PROVE NoticeInv'
  BY <1>0, <1>1, <1>2, OpensSoundly
<1>3. ASSUME NEW a \in Guests, EnterRoom(a) PROVE NoticeInv'
  BY <1>0, <1>1, <1>3, EntersSoundly
<1>4. ASSUME NEW a \in Guests, LeaveRoom(a) \/ Disconnect(a) PROVE NoticeInv'
  BY <1>0, <1>1, <1>4, LeavesSoundly
<1>5. ASSUME NEW a \in Guests, ChangeRoom(a) \/ SwitchPlace(a) PROVE NoticeInv'
  BY <1>0, <1>1, <1>5, ChangesSoundly
<1>6. ASSUME NEW a \in Guests, TickReady(a) \/ ReturnToRoom(a) PROVE NoticeInv'
  BY <1>0, <1>1, <1>6, TicksSoundly
<1>7. ASSUME NEW a \in Guests, NEW b \in Guests, KickGuest(a, b) PROVE NoticeInv'
  BY <1>0, <1>1, <1>7, KicksSoundly
<1>8. ASSUME NEW g \in Gateways, Broadcast(g) \/ Relay(g) \/ MissNotice(g) \/ GatewayDies(g) PROVE NoticeInv'
  BY <1>8, BroadcastKeeps, RelayKeeps, MissKeeps, GatewayDiesKeeps
<1>9. CASE UNCHANGED noticeVars
  <2>1. /\ record' = record /\ at' = at /\ online' = online /\ saved' = saved /\ channel' = channel /\ view' = view
        /\ missed' = missed /\ spread' = spread /\ ops' = ops /\ losses' = losses
    BY <1>9 DEF noticeVars
  <2>2. NoticeTypes'
    BY <1>0, <2>1 DEF NoticeTypes
  <2>3. ASSUME NEW g \in Gateways, spread' \subseteq {g} PROVE SaidBy(g)' /\ \A a \in Guests : HearsOf(g, a)'
    <3>1. SaidBy(g) /\ \A a \in Guests : HearsOf(g, a)
      BY <2>1, <2>3 DEF NoticeInv
    <3>2. SaidBy(g)'
      BY <2>1, <3>1 DEF SaidBy
    <3>3. ASSUME NEW a \in Guests PROVE HearsOf(g, a)'
      <4>1. HearsOf(g, a)
        BY <3>1
      <4> QED
        BY <2>1, <4>1, Zenon DEF HearsOf, Pending
    <3> QED
      BY <3>2, <3>3
  <2> QED
    BY <2>2, <2>3 DEF NoticeInv
<1> QED
  BY <1>2, <1>3, <1>4, <1>5, <1>6, <1>7, <1>8, <1>9 DEF NoticesNext

LEMMA NoticesAre == NoticeInv => NoticesTypeOK /\ RosterShown
<1> SUFFICES ASSUME NoticeInv PROVE NoticesTypeOK /\ RosterShown
  OBVIOUS
<1>0. NoticeTypes
  BY DEF NoticeInv
<1>1. NoticesTypeOK
  <2>1. {online, missed, record.members} \subseteq SUBSET Guests
    BY <1>0, RecordIs DEF NoticeTypes
  <2>2. record.members # {} <=> record.owner \in record.members
    BY <1>0, RecordIs DEF NoticeTypes
  <2>3. ASSUME NEW a \in Guests PROVE view[a].members \subseteq Guests /\ view[a].edition \in 0 .. MaxOps
    <3>1. view[a] \in {NoRecord} \cup Rooms
      BY <1>0 DEF NoticeTypes
    <3>2. CASE view[a] = NoRecord
      BY <3>2, NoticesAssumption DEF NoRecord
    <3>3. CASE view[a] \in Rooms
      BY <3>3 DEF Rooms
    <3> QED
      BY <3>1, <3>2, <3>3
  <2>4. ops \in 0 .. MaxOps /\ losses \in 0 .. MaxMissed
    BY <1>0 DEF NoticeTypes
  <2> QED
    BY <2>1, <2>2, <2>3, <2>4 DEF NoticesTypeOK
<1>2. RosterShown
  <2> SUFFICES ASSUME Cardinality(spread) <= 1, \A g \in Gateways : saved[g] = <<>> /\ channel[g] = <<>>, NEW a \in online \ missed
               PROVE  view[a] = IF a \in record.members THEN record ELSE Outside
    BY DEF RosterShown
  <2>1. a \in Guests /\ at[a] \in Gateways /\ IsFiniteSet(spread) /\ spread \subseteq Gateways
    BY <1>0 DEF NoticeTypes
  <2>2. PICK g \in Gateways : spread \subseteq {g}
    <3>1. CASE spread = {}
      BY <2>1, <3>1
    <3>2. CASE spread # {}
      <4>1. Cardinality(spread) \in Nat /\ Cardinality(spread) # 0
        BY <2>1, <3>2, FS_CardinalityType, FS_EmptySet
      <4>2. Cardinality(spread) = 1
        BY <4>1
      <4>3. PICK x : spread = {x}
        BY <2>1, <4>2, FS_Singleton
      <4> QED
        BY <2>1, <4>3
    <3> QED
      BY <3>1, <3>2
  <2>3. IF at[a] = g THEN a \in online => NoticesFollow(a, PendingOf(channel[g], saved[g]), view[a], record, missed)
        ELSE a \notin record.members /\ view[a] = Outside
    BY <2>1, <2>2, OnlyOne
  <2>4. CASE at[a] # g
    BY <2>3, <2>4
  <2>5. CASE at[a] = g
    <3> DEFINE q == PendingOf(channel[g], saved[g])
    <3>1. DOMAIN q = {}
      <4>1. <<>> \in Seq(NoticesOf) /\ <<>> \in Seq(Operations) /\ Len(<<>>) = 0
        BY EmptySeq
      <4>2. DOMAIN PendingOf(<<>>, <<>>) = 1 .. Len(<<>>) + Len(<<>>)
        BY <4>1, PendingPlaces
      <4>3. 1 .. 0 + 0 = {}
        OBVIOUS
      <4> QED
        BY <2>2, <4>1, <4>2, <4>3
    <3>2. ShowsSoon(a, q, view[a], record)
      BY <2>3, <2>5 DEF NoticesFollow
    <3> HIDE DEF q
    <3>3. ~ Opening(a, q)
      BY <3>1 DEF Opening
    <3> QED
      BY <3>1, <3>2, <3>3 DEF ShowsSoon
  <2> QED
    BY <2>4, <2>5
<1> QED
  BY <1>1, <1>2

\* Whatever the members, the gateways and the operations: when everything has been said of what
\* one gateway did, every client that missed nothing, or was made up for, shows the room as it is
\* (broadcast of src/src/tcp/rooms.js, the gw.push relay of gateway.js).
THEOREM NoticesHold ==
    NoticesInit /\ [][NoticesNext]_noticeVars => [](NoticesTypeOK /\ RosterShown)
<1>1. NoticesInit => NoticeInv
  BY NoticesStart
<1>2. NoticeInv /\ [NoticesNext]_noticeVars => NoticeInv'
  BY NoticesStep
<1>3. NoticeInv => NoticesTypeOK /\ RosterShown
  BY NoticesAre
<1> QED
  BY <1>1, <1>2, <1>3, PTL

-----------------------------------------------------------------------------
(* The bits of a room's settings.                                          *)

IndexNames == {"playerHP", "playerEP", "playerSpeed", "dropList", "playerJump", "roundNum", "initCoin",
               "fightClubRound", "revive"}
FlagNames == {"hideKillInfo", "unlimitedAmmo", "noFallingDamage", "noLoadout", "noAirdrop", "noSkill",
              "noVehicle", "accTotalStats", "noPowerGun", "hideEnemyCloth", "noUav", "noBomb", "replay",
              "noZeppelin", "noHud", "friendlyFire", "inGameChat", "shopFlow", "useRandomMap", "noAuxAim"}

\* Where the bits of a field end: the word and the bit after its last.
LEMMA FieldTable ==
    /\ DOMAIN Indices = IndexNames /\ DOMAIN Flags = FlagNames /\ IndexNames \cap FlagNames = {}
    /\ \A x \in IndexNames : /\ Indices[x] = <<Indices[x][1], Indices[x][2], Indices[x][3]>>
                             /\ Indices[x][1] \in {1, 2} /\ Indices[x][2] \in 0 .. 31 /\ Indices[x][3] \in 2 .. 4
    /\ \A x \in FlagNames : /\ Flags[x] = <<Flags[x][1], Flags[x][2]>>
                            /\ Flags[x][1] \in {1, 2} /\ Flags[x][2] \in 0 .. 31
<1>1. DOMAIN Indices = IndexNames /\ DOMAIN Flags = FlagNames
  BY DEF Indices, Flags, IndexNames, FlagNames
<1>2. IndexNames \cap FlagNames = {}
  BY DEF IndexNames, FlagNames
<1>3. ASSUME NEW x \in IndexNames
      PROVE  /\ Indices[x] = <<Indices[x][1], Indices[x][2], Indices[x][3]>>
             /\ Indices[x][1] \in {1, 2} /\ Indices[x][2] \in 0 .. 31 /\ Indices[x][3] \in 2 .. 4
  BY DEF Indices, IndexNames
<1>4. ASSUME NEW x \in FlagNames
      PROVE  /\ Flags[x] = <<Flags[x][1], Flags[x][2]>>
             /\ Flags[x][1] \in {1, 2} /\ Flags[x][2] \in 0 .. 31
  BY DEF Flags, FlagNames
<1> QED
  BY <1>1, <1>2, <1>3, <1>4

\* Two flags have two bits.
LEMMA FlagsApart == \A x, y \in FlagNames : Flags[x] = Flags[y] => x = y
  BY DEF Flags, FlagNames

\* The fields do not overlap: each has the bits of its word up to the next one's first.
LEMMA IndicesApart ==
    \A x, y \in IndexNames : x # y =>
        \/ Indices[x][1] # Indices[y][1]
        \/ Indices[x][2] + Indices[x][3] <= Indices[y][2]
        \/ Indices[y][2] + Indices[y][3] <= Indices[x][2]
  BY DEF Indices, IndexNames

\* No flag is a bit of another field.
LEMMA FlagsOutside ==
    \A x \in IndexNames, y \in FlagNames :
        \/ Indices[x][1] # Flags[y][1]
        \/ Indices[x][2] + Indices[x][3] <= Flags[y][2]
        \/ Flags[y][2] < Indices[x][2]
  BY DEF Indices, IndexNames, Flags, FlagNames

\* The fields a client sets: a flag, or an index at a value that its bits can hold.
FieldsOK(fields) ==
    /\ DOMAIN fields \subseteq IndexNames \cup FlagNames
    /\ \A f \in DOMAIN fields : /\ f \in FlagNames => fields[f] = 1
                                /\ f \in IndexNames => fields[f] \in 0 .. 2 ^ Indices[f][3] - 1

\* The words have the bits of the indices, and the flags.
LEMMA PackHas ==
    ASSUME NEW fields
    PROVE  \A q : q \in Pack(fields) <=> \/ \E f \in DOMAIN fields \cap IndexNames : q \in BitsOf(fields, f)
                                       \/ \E f \in DOMAIN fields \cap FlagNames : q = Flags[f]
<1> DEFINE A == UNION {BitsOf(fields, f) : f \in DOMAIN fields \cap DOMAIN Indices}
           C == {Flags[f] : f \in DOMAIN fields \cap DOMAIN Flags}
<1>1. \A q : q \in Pack(fields) <=> q \in A \/ q \in C
  BY Zenon DEF Pack
<1>2. DOMAIN Indices = IndexNames /\ DOMAIN Flags = FlagNames
  BY FieldTable
<1>3. \A q : q \in A <=> \E f \in DOMAIN fields \cap IndexNames : q \in BitsOf(fields, f)
  BY <1>2
<1>4. \A q : q \in C <=> \E f \in DOMAIN fields \cap FlagNames : q = Flags[f]
  BY <1>2
<1> HIDE DEF A, C
<1> QED
  BY <1>1, <1>3, <1>4

\* A bit of an index is set where the packed value has it: no other field sets it.
LEMMA PackedIndex ==
    ASSUME NEW fields, FieldsOK(fields), NEW x \in IndexNames, NEW n \in 0 .. Indices[x][3] - 1
    PROVE  <<Indices[x][1], Indices[x][2] + n>> \in Pack(fields)
               <=> x \in DOMAIN fields /\ (fields[x] \div (2 ^ n)) % 2 = 1
<1> DEFINE p == <<Indices[x][1], Indices[x][2] + n>>
<1>1. \A q : q \in Pack(fields) <=> (\E f \in DOMAIN fields \cap IndexNames : q \in BitsOf(fields, f))
                                     \/ (\E f \in DOMAIN fields \cap FlagNames : q = Flags[f])
  BY PackHas
<1>3. Indices[x][1] \in {1, 2} /\ Indices[x][2] \in 0 .. 31 /\ Indices[x][3] \in 2 .. 4
  BY FieldTable
<1>4. ASSUME NEW f \in FlagNames PROVE p # Flags[f]
  <2>1. Flags[f] = <<Flags[f][1], Flags[f][2]>> /\ Flags[f][2] \in 0 .. 31
    BY FieldTable
  <2>2. \/ Indices[x][1] # Flags[f][1]
        \/ Indices[x][2] + Indices[x][3] <= Flags[f][2]
        \/ Flags[f][2] < Indices[x][2]
    BY FlagsOutside
  <2>3. ASSUME p = Flags[f] PROVE Indices[x][1] = Flags[f][1] /\ Indices[x][2] + n = Flags[f][2]
    BY <2>1, <2>3
  <2> QED
    BY <1>3, <2>1, <2>2, <2>3
<1>5. ASSUME NEW f \in IndexNames, NEW b \in 0 .. Indices[f][3] - 1, p = <<Indices[f][1], Indices[f][2] + b>>
      PROVE  f = x /\ b = n
  <2>1. Indices[f][1] \in {1, 2} /\ Indices[f][2] \in 0 .. 31 /\ Indices[f][3] \in 2 .. 4
    BY FieldTable
  <2>2. Indices[x][1] = Indices[f][1] /\ Indices[x][2] + n = Indices[f][2] + b
    BY <1>5
  <2>3. f = x
    <3> SUFFICES ASSUME f # x PROVE FALSE
      OBVIOUS
    <3>1. \/ Indices[x][1] # Indices[f][1]
          \/ Indices[x][2] + Indices[x][3] <= Indices[f][2]
          \/ Indices[f][2] + Indices[f][3] <= Indices[x][2]
      BY IndicesApart
    <3> DEFINE a == Indices[x][2]  c == Indices[f][2]  d == Indices[x][3]  e == Indices[f][3]
    <3>2. a \in Nat /\ c \in Nat /\ d \in Nat /\ e \in Nat /\ n < d /\ b < e /\ n \in Nat /\ b \in Nat /\ a + n = c + b
      BY <1>3, <2>1, <2>2
    <3>3. a + d <= c \/ c + e <= a
      BY <2>2, <3>1
    <3> HIDE DEF a, c, d, e
    <3> QED
      BY <3>2, <3>3
  <2> QED
    BY <1>3, <2>2, <2>3
<1>6. ASSUME p \in Pack(fields) PROVE x \in DOMAIN fields /\ (fields[x] \div (2 ^ n)) % 2 = 1
  <2>1. PICK f \in DOMAIN fields \cap IndexNames : p \in BitsOf(fields, f)
    <3>1. \A f \in FlagNames : p # Flags[f]
      BY <1>4
    <3> HIDE DEF p
    <3> QED
      BY <1>1, <1>6, <3>1
  <2>2. PICK b \in 0 .. Indices[f][3] - 1 : (fields[f] \div (2 ^ b)) % 2 = 1 /\ p = <<Indices[f][1], Indices[f][2] + b>>
    BY <2>1 DEF BitsOf
  <2>3. f = x /\ b = n
    BY <1>5, <2>1, <2>2
  <2> QED
    BY <2>1, <2>2, <2>3
<1>7. ASSUME x \in DOMAIN fields, (fields[x] \div (2 ^ n)) % 2 = 1 PROVE p \in Pack(fields)
  <2>1. p \in BitsOf(fields, x)
    BY <1>7 DEF BitsOf
  <2> HIDE DEF p
  <2> QED
    BY <1>1, <1>7, <2>1
<1> QED
  BY <1>6, <1>7

\* A flag is set when the client set it.
LEMMA PackedFlag ==
    ASSUME NEW fields, FieldsOK(fields), NEW x \in FlagNames
    PROVE  Flags[x] \in Pack(fields) <=> x \in DOMAIN fields
<1>1. \A q : q \in Pack(fields) <=> (\E f \in DOMAIN fields \cap IndexNames : q \in BitsOf(fields, f))
                                     \/ (\E f \in DOMAIN fields \cap FlagNames : q = Flags[f])
  BY PackHas
<1>3. Flags[x] = <<Flags[x][1], Flags[x][2]>> /\ Flags[x][2] \in 0 .. 31
  BY FieldTable
<1>4. ASSUME NEW f \in IndexNames PROVE Flags[x] \notin BitsOf(fields, f)
  <2>1. Indices[f][2] \in 0 .. 31 /\ Indices[f][3] \in 2 .. 4
    BY FieldTable
  <2>2. \/ Indices[f][1] # Flags[x][1]
        \/ Indices[f][2] + Indices[f][3] <= Flags[x][2]
        \/ Flags[x][2] < Indices[f][2]
    BY FlagsOutside
  <2>3. ASSUME NEW b \in 0 .. Indices[f][3] - 1, Flags[x] = <<Indices[f][1], Indices[f][2] + b>>
        PROVE  Indices[f][1] = Flags[x][1] /\ Indices[f][2] + b = Flags[x][2]
    BY <2>3
  <2>4. ASSUME NEW b \in 0 .. Indices[f][3] - 1 PROVE Flags[x] # <<Indices[f][1], Indices[f][2] + b>>
    BY <1>3, <2>1, <2>2, <2>3, <2>4
  <2> QED
    BY <2>4 DEF BitsOf
<1>5. \A f \in FlagNames : Flags[f] = Flags[x] => f = x
  BY FlagsApart
<1>6. \A f \in IndexNames : Flags[x] \notin BitsOf(fields, f)
  BY <1>4
<1> QED
  BY <1>1, <1>5, <1>6

\* A number of at most four bits, from its bits.
LEMMA FromBits ==
    ASSUME NEW v \in 0 .. 15
    PROVE  (v % 2) + 2 * ((v \div 2) % 2) + 4 * ((v \div 4) % 2) + 8 * ((v \div 8) % 2) = v
  OBVIOUS

\* What the decoder reads is what was packed.
LEMMA IdxIs ==
    ASSUME NEW fields, FieldsOK(fields), NEW x \in IndexNames
    PROVE  IdxOf(Pack(fields), Indices[x]) = IF x \in DOMAIN fields THEN fields[x] ELSE 0
<1> DEFINE w == Indices[x][3]  v == IF x \in DOMAIN fields THEN fields[x] ELSE 0
           bit(n) == Bit(Pack(fields), Indices[x], n)
<1>1. w \in {2, 3, 4}
  BY FieldTable
<1>a. 2 ^ 0 = 1 /\ 2 ^ 1 = 2 /\ 2 ^ 2 = 4 /\ 2 ^ 3 = 8 /\ 2 ^ 4 = 16
  OBVIOUS
<1>b. 2 ^ w \in {4, 8, 16} /\ (w = 3 => 2 ^ w = 8) /\ (w = 2 => 2 ^ w = 4)
  <2> HIDE DEF w
  <2> QED
    BY <1>1, <1>a, Zenon
<1>2. v \in 0 .. 2 ^ w - 1
  <2>1. CASE x \in DOMAIN fields
    BY <2>1 DEF FieldsOK
  <2>2. CASE x \notin DOMAIN fields
    BY <1>b, <2>2
  <2> QED
    BY <2>1, <2>2
<1>3. ASSUME NEW n \in 0 .. w - 1 PROVE bit(n) = IF (v \div (2 ^ n)) % 2 = 1 THEN 1 ELSE 0
  <2>1. CASE x \in DOMAIN fields
    BY <1>1, <2>1, PackedIndex DEF Bit
  <2>2. CASE x \notin DOMAIN fields
    <3>1. <<Indices[x][1], Indices[x][2] + n>> \notin Pack(fields)
      BY <2>2, PackedIndex
    <3>2. bit(n) = 0
      BY <3>1 DEF Bit
    <3>3. n \in {0, 1, 2, 3}
      BY <1>1
    <3>4. (v \div (2 ^ n)) % 2 # 1
      <4>1. v = 0 /\ 2 ^ n \in {1, 2, 4, 8}
        BY <1>a, <2>2, <3>3
      <4> DEFINE d == 2 ^ n
      <4>2. d \in {1, 2, 4, 8}
        BY <4>1
      <4> HIDE DEF d
      <4>3. (0 \div d) % 2 # 1
        BY <4>2
      <4> QED
        BY <4>1, <4>3 DEF d
    <3> QED
      BY <3>2, <3>4
  <2> QED
    BY <2>1, <2>2
<1>4. \A n \in 0 .. 3 : ~(n < w) => bit(n) = 0
  BY <1>1 DEF Bit
<1>5. IdxOf(Pack(fields), Indices[x]) = bit(0) + 2 * bit(1) + 4 * bit(2) + 8 * bit(3)
  BY DEF IdxOf
<1> HIDE DEF w, v, bit
<1>6. v \in 0 .. 15
  BY <1>2, <1>b
<1>7. bit(0) = v % 2 /\ bit(1) = (v \div 2) % 2
  <2>1. bit(0) = (IF (v \div (2 ^ 0)) % 2 = 1 THEN 1 ELSE 0) /\ bit(1) = IF (v \div (2 ^ 1)) % 2 = 1 THEN 1 ELSE 0
    <3>1. 0 \in 0 .. w - 1 /\ 1 \in 0 .. w - 1
      BY <1>1
    <3> QED
      BY <1>3, <3>1
  <2>2. 2 ^ 0 = 1 /\ 2 ^ 1 = 2
    OBVIOUS
  <2> QED
    BY <1>6, <2>1, <2>2
<1>8. bit(2) = (v \div 4) % 2
  <2>1. CASE w = 2
    <3>1. 2 ^ 2 = 4
      OBVIOUS
    <3>2. v \in 0 .. 3 /\ bit(2) = 0
      BY <1>2, <1>4, <2>1, <3>1
    <3> QED
      BY <3>2
  <2>2. CASE w # 2
    <3>1. bit(2) = IF (v \div (2 ^ 2)) % 2 = 1 THEN 1 ELSE 0
      <4>1. 2 \in 0 .. w - 1
        BY <1>1, <2>2
      <4> QED
        BY <1>3, <4>1
    <3>2. 2 ^ 2 = 4
      OBVIOUS
    <3> QED
      BY <1>6, <3>1, <3>2
  <2> QED
    BY <2>1, <2>2
<1>9. bit(3) = (v \div 8) % 2
  <2>1. CASE w # 4
    <3>1. 2 ^ 2 = 4 /\ 2 ^ 3 = 8
      OBVIOUS
    <3>2. v \in 0 .. 7 /\ bit(3) = 0
      <4>1. w = 2 \/ w = 3
        BY <1>1, <2>1
      <4>2. v \in 0 .. 7
        BY <1>2, <1>b, <4>1
      <4>3. ~(3 < w) /\ 3 \in 0 .. 3
        BY <4>1
      <4> QED
        BY <1>4, <4>2, <4>3
    <3> QED
      BY <3>2
  <2>2. CASE w = 4
    <3>1. bit(3) = IF (v \div (2 ^ 3)) % 2 = 1 THEN 1 ELSE 0
      BY <1>3, <2>2
    <3>2. 2 ^ 3 = 8
      OBVIOUS
    <3> QED
      BY <1>6, <3>1, <3>2
  <2> QED
    BY <2>1, <2>2
<1>10. (v % 2) + 2 * ((v \div 2) % 2) + 4 * ((v \div 4) % 2) + 8 * ((v \div 8) % 2) = v
  BY <1>6, FromBits
<1> QED
  BY <1>5, <1>7, <1>8, <1>9, <1>10 DEF v

\* What a client packs of the fields is what its bits can hold.
LEMMA PairsOK == ASSUME NEW fields \in FieldPairs PROVE FieldsOK(fields)
<1>0. DOMAIN Indices = IndexNames /\ DOMAIN Flags = FlagNames /\ IndexNames \cap FlagNames = {}
  BY FieldTable
<1>a. PICK full \in {"playerHP", "roundNum", "noLoadout"}, x \in IndexNames \cup FlagNames :
         fields \in PairsOf(full, x)
  BY <1>0 DEF FieldPairs
<1>1. PICK v \in 1 .. Largest(x) : fields = [f \in {full, x} |-> IF f = x THEN v ELSE Largest(f)]
  BY <1>a DEF PairsOf
<1>2. full \in IndexNames \cup FlagNames
  BY DEF IndexNames, FlagNames
<1>3. \A f \in FlagNames : Largest(f) = 1
  BY <1>0 DEF Largest
<1>4. \A f \in IndexNames : Largest(f) = 2 ^ Indices[f][3] - 1 /\ Largest(f) \in Nat
  <2>1. ASSUME NEW f \in IndexNames PROVE Largest(f) = 2 ^ Indices[f][3] - 1
    BY <1>0 DEF Largest
  <2>2. ASSUME NEW f \in IndexNames PROVE 2 ^ Indices[f][3] \in {4, 8, 16}
    <3> DEFINE w == Indices[f][3]
    <3>1. w \in {2, 3, 4}
      BY FieldTable
    <3>2. 2 ^ 2 = 4 /\ 2 ^ 3 = 8 /\ 2 ^ 4 = 16
      OBVIOUS
    <3> HIDE DEF w
    <3>3. 2 ^ w \in {4, 8, 16}
      BY <3>1, <3>2, Zenon
    <3> QED
      BY <3>3 DEF w
  <2> QED
    BY <2>1, <2>2
<1>5. DOMAIN fields = {full, x}
  BY <1>1
<1>6. ASSUME NEW f \in DOMAIN fields
      PROVE  /\ f \in FlagNames => fields[f] = 1
             /\ f \in IndexNames => fields[f] \in 0 .. 2 ^ Indices[f][3] - 1
  <2>1. f \in {full, x} /\ f \in IndexNames \cup FlagNames
    BY <1>2, <1>5
  <2>2. fields[f] = IF f = x THEN v ELSE Largest(f)
    BY <1>1, <2>1
  <2>3. fields[f] \in 1 .. Largest(f) \/ fields[f] = Largest(f)
    BY <2>2
  <2>4. CASE f \in FlagNames
    <3>1. Largest(f) = 1 /\ f \notin IndexNames
      BY <1>0, <1>3, <2>4
    <3> QED
      BY <2>3, <2>4, <3>1
  <2>5. CASE f \in IndexNames
    <3> DEFINE n == Largest(f)
    <3>1. n = 2 ^ Indices[f][3] - 1 /\ n \in Nat /\ f \notin FlagNames
      BY <1>0, <1>4, <2>5
    <3>2. fields[f] \in 0 .. n
      <4> HIDE DEF n
      <4>1. fields[f] \in 1 .. n \/ fields[f] = n
        BY <2>3 DEF n
      <4> QED
        BY <3>1, <4>1
    <3> QED
      BY <3>1, <3>2
  <2> QED
    BY <2>1, <2>4, <2>5
<1> QED
  BY <1>2, <1>5, <1>6 DEF FieldsOK

\* The fields of a room whose blob is looked at.
LEMMA TwoOK == FieldsOK([roundNum |-> 2, initCoin |-> 2])
<1> DEFINE r == [roundNum |-> 2, initCoin |-> 2]
<1>1. DOMAIN r = {"roundNum", "initCoin"} /\ r["roundNum"] = 2 /\ r["initCoin"] = 2
  OBVIOUS
<1>2. DOMAIN r \subseteq IndexNames /\ IndexNames \cap FlagNames = {}
  BY <1>1, FieldTable DEF IndexNames
<1>3. ASSUME NEW f \in DOMAIN r PROVE r[f] \in 0 .. 2 ^ Indices[f][3] - 1
  <2>1. f \in {"roundNum", "initCoin"} /\ r[f] = 2
    BY <1>1
  <2>2. Indices[f][3] = 2
    BY <2>1 DEF Indices
  <2>3. 2 ^ 2 = 4
    OBVIOUS
  <2> DEFINE w == Indices[f][3]
  <2>4. w = 2
    BY <2>2
  <2> HIDE DEF w, r
  <2>5. 2 ^ w = 4
    BY <2>3, <2>4, Zenon
  <2>6. r[f] \in 0 .. 2 ^ w - 1
    BY <2>1, <2>5
  <2> QED
    BY <2>6 DEF w
<1> HIDE DEF r
<1>4. FieldsOK(r)
  BY <1>2, <1>3 DEF FieldsOK
<1> QED
  BY <1>4 DEF r

\* The parts of a blob: rows and events of two bytes, coins of four.
BlobOK(store, eco, rounds) ==
    /\ store \in Seq(Seq(Nat)) /\ \A i \in 1 .. Len(store) : Len(store[i]) = 2
    /\ eco \in Seq(Seq(Nat)) /\ \A i \in 1 .. Len(eco) : Len(eco[i]) = 2
    /\ rounds \in Seq(Seq(Nat)) /\ \A i \in 1 .. Len(rounds) : Len(rounds[i]) = 4

\* Sequences of one and of two.
LEMMA Singles == ASSUME NEW S, NEW a \in S PROVE <<a>> \in Seq(S) /\ Len(<<a>>) = 1 /\ <<a>>[1] = a
  OBVIOUS
LEMMA Doubles ==
    ASSUME NEW S, NEW a \in S, NEW b \in S
    PROVE  <<a, b>> \in Seq(S) /\ Len(<<a, b>>) = 2 /\ <<a, b>>[1] = a /\ <<a, b>>[2] = b
  OBVIOUS

\* What the model's clients put into a blob: BlobOK, each event once, at most two rounds.
LEMMA StoresOK == ASSUME NEW store \in Stores PROVE store \in Seq(Seq(Nat)) /\ \A i \in 1 .. Len(store) : Len(store[i]) = 2
<1>0. ShopSteps \subseteq Nat /\ DOMAIN ShopRows \cup {99} \subseteq Nat
  BY SettingsAssumption DEF ShopRows
<1>1. CASE store = <<>>
  BY <1>1
<1>2. CASE \E i \in DOMAIN ShopRows \cup {99}, step \in ShopSteps : store = << <<i, step>> >>
  <2>1. PICK i \in Nat, step \in Nat : store = << <<i, step>> >>
    BY <1>0, <1>2
  <2>2. <<i, step>> \in Seq(Nat) /\ Len(<<i, step>>) = 2
    BY Doubles
  <2>3. store \in Seq(Seq(Nat)) /\ Len(store) = 1 /\ store[1] = <<i, step>>
    BY <2>1, <2>2, Singles
  <2>4. \A k \in 1 .. 1 : k = 1
    OBVIOUS
  <2> QED
    BY <2>2, <2>3, <2>4
<1>3. CASE store = << <<37, 1>>, <<8, 2>> >>
  <2>1. <<37, 1>> \in Seq(Nat) /\ Len(<<37, 1>>) = 2 /\ <<8, 2>> \in Seq(Nat) /\ Len(<<8, 2>>) = 2
    BY Doubles
  <2>2. store \in Seq(Seq(Nat)) /\ Len(store) = 2 /\ store[1] = <<37, 1>> /\ store[2] = <<8, 2>>
    BY <1>3, <2>1, Doubles
  <2>3. \A k \in 1 .. 2 : k = 1 \/ k = 2
    OBVIOUS
  <2> QED
    BY <2>1, <2>2, <2>3
<1>4. \/ store = <<>> \/ store = << <<37, 1>>, <<8, 2>> >>
      \/ \E i \in DOMAIN ShopRows \cup {99}, step \in ShopSteps : store = << <<i, step>> >>
  BY DEF Stores
<1> QED
  BY <1>1, <1>2, <1>3, <1>4, Zenon

LEMMA EcosOK ==
    ASSUME NEW eco \in Ecos
    PROVE  /\ eco \in Seq(Seq(Nat)) /\ \A i \in 1 .. Len(eco) : Len(eco[i]) = 2
           /\ \A i, j \in 1 .. Len(eco) : eco[i][1] = eco[j][1] => i = j
<1>0. EventSteps \subseteq Nat
  BY SettingsAssumption
<1>1. CASE eco = <<>>
  BY <1>1
<1>2. CASE \E e \in 151 .. 153, step \in EventSteps : eco = << <<e, step>> >>
  <2>1. PICK e \in Nat, step \in Nat : eco = << <<e, step>> >>
    BY <1>0, <1>2
  <2>2. <<e, step>> \in Seq(Nat) /\ Len(<<e, step>>) = 2
    BY Doubles
  <2>3. eco \in Seq(Seq(Nat)) /\ Len(eco) = 1 /\ eco[1] = <<e, step>>
    BY <2>1, <2>2, Singles
  <2>4. \A k \in 1 .. 1 : k = 1
    OBVIOUS
  <2> QED
    BY <2>2, <2>3, <2>4
<1>3. CASE eco = [i \in 1 .. 6 |-> <<151 + i, i>>]
  <2>1. \A i \in 1 .. 6 : eco[i] = <<151 + i, i>>
    BY <1>3
  <2>2. ASSUME NEW i \in 1 .. 6 PROVE eco[i] \in Seq(Nat) /\ Len(eco[i]) = 2 /\ eco[i][1] = 151 + i
    <3>1. 151 + i \in Nat /\ i \in Nat
      OBVIOUS
    <3>2. <<151 + i, i>> \in Seq(Nat) /\ Len(<<151 + i, i>>) = 2 /\ <<151 + i, i>>[1] = 151 + i
      BY <3>1, Doubles
    <3> QED
      BY <2>1, <3>2
  <2>3. eco \in [1 .. 6 -> Seq(Nat)]
    BY <1>3, <2>1, <2>2
  <2>4. eco \in Seq(Seq(Nat)) /\ Len(eco) = 6
    <3>1. Len(eco) = 6
      BY <1>3
    <3> DEFINE S == Seq(Nat)
    <3> HIDE DEF S
    <3>2. eco \in [1 .. 6 -> S]
      BY <2>3 DEF S
    <3>3. eco \in Seq(S)
      <4>1. eco = [i \in 1 .. 6 |-> eco[i]] /\ \A i \in 1 .. 6 : eco[i] \in S
        BY <3>2
      <4>2. [i \in 1 .. 6 |-> eco[i]] \in Seq(S)
        BY <4>1
      <4> QED
        BY <4>1, <4>2, Zenon
    <3> QED
      BY <3>1, <3>3 DEF S
  <2>5. ASSUME NEW i \in 1 .. 6, NEW j \in 1 .. 6, eco[i][1] = eco[j][1] PROVE i = j
    <3>1. eco[i][1] = 151 + i /\ eco[j][1] = 151 + j
      BY <2>2
    <3> DEFINE a == eco[i][1]  b == eco[j][1]
    <3>2. a = 151 + i /\ b = 151 + j /\ a = b
      BY <2>5, <3>1
    <3>3. i \in Int /\ j \in Int
      OBVIOUS
    <3> HIDE DEF a, b
    <3>4. 151 + i = 151 + j
      BY <3>2
    <3> QED
      BY <3>3, <3>4, SMT
  <2> QED
    BY <2>2, <2>4, <2>5
<1>4. \/ eco = <<>> \/ eco = [i \in 1 .. 6 |-> <<151 + i, i>>]
      \/ \E e \in 151 .. 153, step \in EventSteps : eco = << <<e, step>> >>
  BY DEF Ecos
<1> QED
  BY <1>1, <1>2, <1>3, <1>4, Zenon

LEMMA CoinBytesOK ==
    ASSUME NEW c \in CoinBytes
    PROVE  \E top \in 0 .. 255 : /\ c = <<244, 1, 0, top>> /\ c \in Seq(Nat) /\ Len(c) = 4
                                 /\ c[1] = 244 /\ c[2] = 1 /\ c[3] = 0 /\ c[4] = top
<1>1. PICK top \in TopBytes : c = <<244, 1, 0, top>>
  BY DEF CoinBytes
<1>2. top \in 0 .. 255 /\ top \in Nat
  BY SettingsAssumption
<1>3. <<244, 1, 0, top>> \in Seq(Nat) /\ Len(<<244, 1, 0, top>>) = 4
  BY <1>2
<1> QED
  BY <1>1, <1>2, <1>3

LEMMA RoundsOK ==
    ASSUME NEW rs \in Rounds
    PROVE  /\ rs \in Seq(CoinBytes) /\ rs \in Seq(Seq(Nat)) /\ Len(rs) \in 0 .. 2
           /\ \A i \in 1 .. Len(rs) : rs[i] \in CoinBytes /\ Len(rs[i]) = 4
<1>0. \A c \in CoinBytes : c \in Seq(Nat) /\ Len(c) = 4
  BY CoinBytesOK
<1>1. CASE rs = <<>>
  BY <1>1
<1>2. CASE \E c \in CoinBytes : rs = <<c>>
  <2>1. PICK c \in CoinBytes : rs = <<c>>
    BY <1>2
  <2>2. rs \in Seq(CoinBytes) /\ Len(rs) = 1 /\ rs[1] = c
    BY <2>1, Singles
  <2>3. rs \in Seq(Seq(Nat))
    BY <1>0, <2>1, Singles
  <2> QED
    BY <1>0, <2>2, <2>3
<1>3. CASE \E c, d \in CoinBytes : rs = <<c, d>>
  <2>1. PICK c \in CoinBytes, d \in CoinBytes : rs = <<c, d>>
    BY <1>3
  <2>2. rs \in Seq(CoinBytes) /\ Len(rs) = 2 /\ rs[1] = c /\ rs[2] = d
    BY <2>1, Doubles
  <2>3. rs \in Seq(Seq(Nat))
    BY <1>0, <2>1, Doubles
  <2> QED
    BY <1>0, <2>2, <2>3
<1> QED
  BY <1>1, <1>2, <1>3 DEF Rounds

\* Parts of k elements each, laid end to end.
EvenlyLaid(k, q) ==
    /\ FlattenSeq(q) \in Seq(Nat) /\ Len(FlattenSeq(q)) = k * Len(q)
    /\ \A i \in 1 .. Len(q), j \in 1 .. k : FlattenSeq(q)[k * (i - 1) + j] = q[i][j]

\* Laid before the rest, one part more.
LEMMA LaidBefore ==
    ASSUME NEW k \in {2, 4}, NEW q \in Seq(Seq(Nat)), q # <<>>, Len(q[1]) = k, EvenlyLaid(k, Tail(q))
    PROVE  EvenlyLaid(k, q)
<1> DEFINE r == Tail(q)  a == q[1]  b == FlattenSeq(r)
<1>1. r \in Seq(Seq(Nat)) /\ Len(r) = Len(q) - 1 /\ \A i \in 1 .. Len(r) : r[i] = q[i + 1]
  BY HeadTailProperties
<1>2. Head(q) = a /\ a \in Seq(Nat) /\ Len(q) \in Nat \ {0} /\ Len(a) = k
  BY LenProperties, ElementOfSeq, HeadTailProperties, EmptySeq
<1>3. FlattenSeq(q) = a \o b
  BY <1>2, FlattenTail
<1>4. b \in Seq(Nat) /\ Len(b) = k * Len(r) /\ \A i \in 1 .. Len(r), j \in 1 .. k : b[k * (i - 1) + j] = r[i][j]
  BY DEF EvenlyLaid
<1> HIDE DEF a, b, r
<1>5. /\ a \o b \in Seq(Nat) /\ Len(a \o b) = k + Len(b)
      /\ \A n \in 1 .. k + Len(b) : (a \o b)[n] = IF n <= k THEN a[n] ELSE b[n - k]
  BY <1>2, <1>4, ConcatProperties
<1>6. Len(a \o b) = k * Len(q)
  <2>1. CASE k = 2
    BY <1>1, <1>2, <1>4, <1>5, <2>1
  <2>2. CASE k = 4
    BY <1>1, <1>2, <1>4, <1>5, <2>2
  <2> QED
    BY <2>1, <2>2
<1>7. ASSUME NEW i \in 1 .. Len(q), NEW j \in 1 .. k PROVE (a \o b)[k * (i - 1) + j] = q[i][j]
  <2>1. CASE i = 1
    <3>1. k * (i - 1) + j = j /\ j \in 1 .. k + Len(b) /\ j <= k
      BY <1>4, <2>1, LenProperties
    <3> QED
      BY <1>5, <2>1, <3>1 DEF a
  <2>2. CASE i # 1
    <3> DEFINE n == k * (i - 1) + j
    <3>1. i - 1 \in 1 .. Len(r) /\ (i - 1) + 1 = i
      BY <1>1, <1>2, <2>2
    <3>2. n - k = k * ((i - 1) - 1) + j /\ ~(n <= k) /\ n \in 1 .. k * Len(q)
      <4>1. CASE k = 2
        BY <1>1, <1>2, <3>1, <4>1
      <4>2. CASE k = 4
        BY <1>1, <1>2, <3>1, <4>2
      <4> QED
        BY <4>1, <4>2
    <3>3. b[k * ((i - 1) - 1) + j] = q[i][j]
      <4>1. b[k * ((i - 1) - 1) + j] = r[i - 1][j] /\ r[i - 1] = q[(i - 1) + 1]
        BY <1>1, <1>4, <3>1
      <4> QED
        BY <3>1, <4>1
    <3> HIDE DEF n
    <3>4. (a \o b)[n] = q[i][j]
      BY <1>5, <1>6, <3>2, <3>3
    <3> QED
      BY <3>4 DEF n
  <2> QED
    BY <2>1, <2>2
<1>8. FlattenSeq(q) \in Seq(Nat) /\ Len(FlattenSeq(q)) = k * Len(q)
  BY <1>3, <1>5, <1>6
<1>9. \A i \in 1 .. Len(q), j \in 1 .. k : FlattenSeq(q)[k * (i - 1) + j] = q[i][j]
  BY <1>3, <1>7
<1> QED
  BY <1>8, <1>9 DEF EvenlyLaid

LEMMA LaidEvenly ==
    ASSUME NEW k \in {2, 4}, NEW q \in Seq(Seq(Nat)), \A i \in 1 .. Len(q) : Len(q[i]) = k
    PROVE  EvenlyLaid(k, q)
<1> DEFINE P == {n \in Nat : \A t \in Seq(Seq(Nat)) : Len(t) = n /\ (\A i \in 1 .. Len(t) : Len(t[i]) = k) => EvenlyLaid(k, t)}
<1>1. 0 \in P
  <2>1. ASSUME NEW t \in Seq(Seq(Nat)), Len(t) = 0 PROVE EvenlyLaid(k, t)
    <3>1. t = <<>>
      BY <2>1, EmptySeq
    <3>2. FlattenSeq(t) = <<>>
      BY <3>1, FlattenNone
    <3>3. k * Len(t) = 0
      BY <2>1
    <3> QED
      BY <2>1, <3>2, <3>3 DEF EvenlyLaid
  <2> QED
    BY <2>1
<1>2. ASSUME NEW n \in P PROVE n + 1 \in P
  <2>1. ASSUME NEW t \in Seq(Seq(Nat)), Len(t) = n + 1, \A i \in 1 .. Len(t) : Len(t[i]) = k PROVE EvenlyLaid(k, t)
    <3>1. t # <<>> /\ n \in Nat
      BY <2>1, EmptySeq
    <3>2. Tail(t) \in Seq(Seq(Nat)) /\ Len(Tail(t)) = n /\ \A i \in 1 .. Len(Tail(t)) : Tail(t)[i] = t[i + 1]
      BY <2>1, <3>1, HeadTailProperties
    <3>3. \A i \in 1 .. Len(Tail(t)) : Len(Tail(t)[i]) = k
      BY <2>1, <3>1, <3>2
    <3>4. EvenlyLaid(k, Tail(t))
      BY <3>2, <3>3
    <3>5. Len(t[1]) = k
      BY <2>1, <3>1
    <3> QED
      BY <3>1, <3>4, <3>5, LaidBefore
  <2> QED
    BY <2>1
<1> HIDE DEF P
<1>3. \A n \in Nat : n \in P
  <2>1. P \in SUBSET Nat
    BY DEF P
  <2> QED
    BY <1>1, <1>2, <2>1, AllNat
<1>4. Len(q) \in P
  BY <1>3, LenProperties
<1> QED
  BY <1>4 DEF P

\* Where a blob has what was put into it.
BlobLaid(b, store, eco, rs) ==
    LET ls == Len(store)  le == Len(eco)  lr == Len(rs) IN
    /\ b \in Seq(Nat) /\ Len(b) = 3 + 2 * ls + 2 * le + 4 * lr
    /\ b[1] = ls /\ b[2 + 2 * ls] = le /\ b[3 + 2 * ls + 2 * le] = lr
    /\ \A i \in 1 .. ls : b[2 * i] = store[i][1] /\ b[2 * i + 1] = store[i][2]
    /\ \A i \in 1 .. le : b[1 + 2 * ls + 2 * i] = eco[i][1] /\ b[2 + 2 * ls + 2 * i] = eco[i][2]
    /\ \A i \in 1 .. lr, j \in 1 .. 4 : b[3 + 2 * ls + 2 * le + 4 * (i - 1) + j] = rs[i][j]

\* Two sequences joined: how long, and what is where.
LEMMA Joined ==
    ASSUME NEW a \in Seq(Nat), NEW b \in Seq(Nat)
    PROVE  /\ a \o b \in Seq(Nat) /\ Len(a) \in Nat /\ Len(b) \in Nat /\ Len(a \o b) = Len(a) + Len(b)
           /\ \A k \in 1 .. Len(a) : (a \o b)[k] = a[k]
           /\ \A k \in 1 .. Len(b) : (a \o b)[Len(a) + k] = b[k]
<1>1. Len(a) \in Nat /\ Len(b) \in Nat
  BY LenProperties
<1>2. /\ a \o b \in Seq(Nat) /\ Len(a \o b) = Len(a) + Len(b)
      /\ \A k \in 1 .. Len(a) + Len(b) : (a \o b)[k] = IF k <= Len(a) THEN a[k] ELSE b[k - Len(a)]
  BY ConcatProperties
<1>3. ASSUME NEW k \in 1 .. Len(b) PROVE (a \o b)[Len(a) + k] = b[k]
  <2>1. Len(a) + k \in 1 .. Len(a) + Len(b) /\ ~(Len(a) + k <= Len(a)) /\ (Len(a) + k) - Len(a) = k
    BY <1>1
  <2> QED
    BY <1>2, <2>1
<1> QED
  BY <1>1, <1>2, <1>3

LEMMA BlobIsLaid ==
    ASSUME NEW store, NEW eco, NEW rs, BlobOK(store, eco, rs)
    PROVE  BlobLaid(Blob(store, eco, rs), store, eco, rs)
<1> DEFINE ls == Len(store)  le == Len(eco)  lr == Len(rs)
           s == FlattenSeq(store)  e == FlattenSeq(eco)  r == FlattenSeq(rs)
           b1 == <<ls>>  b2 == b1 \o s  b3 == b2 \o <<le>>  b4 == b3 \o e  b5 == b4 \o <<lr>>  b6 == b5 \o r
<1>1. ls \in Nat /\ le \in Nat /\ lr \in Nat
  BY LenProperties DEF BlobOK
<1>2. /\ s \in Seq(Nat) /\ Len(s) = 2 * ls
      /\ \A i \in 1 .. ls, j \in 1 .. 2 : s[2 * (i - 1) + j] = store[i][j]
  <2>1. EvenlyLaid(2, store)
    BY LaidEvenly DEF BlobOK
  <2> QED
    BY <2>1 DEF EvenlyLaid
<1>3. /\ e \in Seq(Nat) /\ Len(e) = 2 * le
      /\ \A i \in 1 .. le, j \in 1 .. 2 : e[2 * (i - 1) + j] = eco[i][j]
  <2>1. EvenlyLaid(2, eco)
    BY LaidEvenly DEF BlobOK
  <2> QED
    BY <2>1 DEF EvenlyLaid
<1>4. /\ r \in Seq(Nat) /\ Len(r) = 4 * lr
      /\ \A i \in 1 .. lr, j \in 1 .. 4 : r[4 * (i - 1) + j] = rs[i][j]
  <2>1. EvenlyLaid(4, rs)
    BY LaidEvenly DEF BlobOK
  <2> QED
    BY <2>1 DEF EvenlyLaid
<1>5. Blob(store, eco, rs) = b6
  BY DEF Blob
<1> HIDE DEF ls, le, lr, s, e, r
<1>6. b1 \in Seq(Nat) /\ Len(b1) = 1 /\ b1[1] = ls
  BY <1>1
<1>a. <<le>> \in Seq(Nat) /\ Len(<<le>>) = 1 /\ <<le>>[1] = le /\ <<lr>> \in Seq(Nat) /\ Len(<<lr>>) = 1 /\ <<lr>>[1] = lr
  BY <1>1
<1> HIDE DEF b1
<1>7. /\ b2 \in Seq(Nat) /\ Len(b2) = 1 + 2 * ls /\ \A k \in 1 .. 1 : b2[k] = b1[k]
      /\ \A k \in 1 .. 2 * ls : b2[1 + k] = s[k]
  <2>1. /\ b1 \o s \in Seq(Nat) /\ Len(b1 \o s) = Len(b1) + Len(s)
        /\ \A k \in 1 .. Len(b1) : (b1 \o s)[k] = b1[k]
        /\ \A k \in 1 .. Len(s) : (b1 \o s)[Len(b1) + k] = s[k]
    BY <1>2, <1>6, Joined
  <2> QED
    BY <1>1, <1>2, <1>6, <2>1
<1> HIDE DEF b2
<1>8. /\ b3 \in Seq(Nat) /\ Len(b3) = 2 + 2 * ls /\ \A k \in 1 .. 1 + 2 * ls : b3[k] = b2[k]
      /\ b3[2 + 2 * ls] = le
  <2> DEFINE c == <<le>>
  <2>1. c \in Seq(Nat) /\ Len(c) = 1 /\ c[1] = le
    BY <1>a
  <2> HIDE DEF c
  <2>2. /\ b2 \o c \in Seq(Nat) /\ Len(b2 \o c) = Len(b2) + Len(c)
        /\ \A k \in 1 .. Len(b2) : (b2 \o c)[k] = b2[k]
        /\ \A k \in 1 .. Len(c) : (b2 \o c)[Len(b2) + k] = c[k]
    BY <1>7, <2>1, Joined
  <2>3. /\ b2 \o c \in Seq(Nat) /\ Len(b2 \o c) = 2 + 2 * ls
        /\ \A k \in 1 .. 1 + 2 * ls : (b2 \o c)[k] = b2[k]
        /\ (b2 \o c)[2 + 2 * ls] = le
    BY <1>1, <1>7, <2>1, <2>2
  <2> QED
    BY <2>3 DEF c
<1> HIDE DEF b3
<1>9. /\ b4 \in Seq(Nat) /\ Len(b4) = 2 + 2 * ls + 2 * le /\ \A k \in 1 .. 2 + 2 * ls : b4[k] = b3[k]
      /\ \A k \in 1 .. 2 * le : b4[2 + 2 * ls + k] = e[k]
  <2>1. /\ b3 \o e \in Seq(Nat) /\ Len(b3 \o e) = Len(b3) + Len(e)
        /\ \A k \in 1 .. Len(b3) : (b3 \o e)[k] = b3[k]
        /\ \A k \in 1 .. Len(e) : (b3 \o e)[Len(b3) + k] = e[k]
    BY <1>3, <1>8, Joined
  <2> QED
    BY <1>1, <1>3, <1>8, <2>1
<1> HIDE DEF b4
<1>10. /\ b5 \in Seq(Nat) /\ Len(b5) = 3 + 2 * ls + 2 * le /\ \A k \in 1 .. 2 + 2 * ls + 2 * le : b5[k] = b4[k]
       /\ b5[3 + 2 * ls + 2 * le] = lr
  <2> DEFINE c == <<lr>>
  <2>1. c \in Seq(Nat) /\ Len(c) = 1 /\ c[1] = lr
    BY <1>a
  <2> HIDE DEF c
  <2>2. /\ b4 \o c \in Seq(Nat) /\ Len(b4 \o c) = Len(b4) + Len(c)
        /\ \A k \in 1 .. Len(b4) : (b4 \o c)[k] = b4[k]
        /\ \A k \in 1 .. Len(c) : (b4 \o c)[Len(b4) + k] = c[k]
    BY <1>9, <2>1, Joined
  <2>3. /\ b4 \o c \in Seq(Nat) /\ Len(b4 \o c) = 3 + 2 * ls + 2 * le
        /\ \A k \in 1 .. 2 + 2 * ls + 2 * le : (b4 \o c)[k] = b4[k]
        /\ (b4 \o c)[3 + 2 * ls + 2 * le] = lr
    <3>1. ls \in Nat /\ le \in Nat /\ Len(b4) = 2 + 2 * ls + 2 * le
      BY <1>1, <1>9
    <3>2. b4 \o c \in Seq(Nat) /\ Len(b4 \o c) = 3 + 2 * ls + 2 * le
      BY <2>1, <2>2, <3>1
    <3>3. \A k \in 1 .. 2 + 2 * ls + 2 * le : (b4 \o c)[k] = b4[k]
      BY <2>2, <3>1
    <3>4. (b4 \o c)[Len(b4) + 1] = c[1]
      BY <2>1, <2>2
    <3>5. Len(b4) + 1 = 3 + 2 * ls + 2 * le
      BY <3>1
    <3> QED
      BY <2>1, <3>2, <3>3, <3>4, <3>5
  <2> QED
    BY <2>3 DEF c
<1> HIDE DEF b5
<1>11. /\ b6 \in Seq(Nat) /\ Len(b6) = 3 + 2 * ls + 2 * le + 4 * lr
       /\ \A k \in 1 .. 3 + 2 * ls + 2 * le : b6[k] = b5[k]
       /\ \A k \in 1 .. 4 * lr : b6[3 + 2 * ls + 2 * le + k] = r[k]
  <2>1. /\ b5 \o r \in Seq(Nat) /\ Len(b5 \o r) = Len(b5) + Len(r)
        /\ \A k \in 1 .. Len(b5) : (b5 \o r)[k] = b5[k]
        /\ \A k \in 1 .. Len(r) : (b5 \o r)[Len(b5) + k] = r[k]
    BY <1>4, <1>10, Joined
  <2> QED
    BY <1>1, <1>4, <1>10, <2>1
<1> HIDE DEF b6
<1>12. b6[1] = ls
  <2>1. b6[1] = b5[1] /\ b5[1] = b4[1] /\ b4[1] = b3[1] /\ b3[1] = b2[1] /\ b2[1] = b1[1]
    BY <1>1, <1>7, <1>8, <1>9, <1>10, <1>11
  <2> QED
    BY <1>6, <2>1
<1>13. ASSUME NEW k \in 1 .. 2 * ls PROVE b6[1 + k] = s[k]
  <2> DEFINE n == 1 + k
  <2>1. n \in 1 .. 1 + 2 * ls
    BY <1>1
  <2> HIDE DEF n
  <2>2. b6[n] = b5[n] /\ b5[n] = b4[n]
    BY <1>1, <1>10, <1>11, <2>1
  <2>3. b4[n] = b3[n] /\ b3[n] = b2[n]
    BY <1>1, <1>8, <1>9, <2>1
  <2> QED
    BY <1>7, <2>2, <2>3 DEF n
<1>14. b6[2 + 2 * ls] = le
  <2> DEFINE k == 2 + 2 * ls
  <2>1. b6[k] = b5[k] /\ b5[k] = b4[k] /\ b4[k] = b3[k]
    BY <1>1, <1>9, <1>10, <1>11
  <2> QED
    BY <1>8, <2>1
<1>15. ASSUME NEW m \in 1 .. 2 * le PROVE b6[2 + 2 * ls + m] = e[m]
  <2> DEFINE k == 2 + 2 * ls + m
  <2>1. k \in 1 .. 2 + 2 * ls + 2 * le
    BY <1>1
  <2> HIDE DEF k
  <2>2. b6[k] = b5[k] /\ b5[k] = b4[k]
    BY <1>1, <1>10, <1>11, <2>1
  <2> QED
    BY <1>9, <2>2 DEF k
<1>16. b6[3 + 2 * ls + 2 * le] = lr
  <2>1. 3 + 2 * ls + 2 * le \in 1 .. 3 + 2 * ls + 2 * le
    BY <1>1
  <2> QED
    BY <1>10, <1>11, <2>1
<1>17. \A i \in 1 .. ls : b6[2 * i] = store[i][1] /\ b6[2 * i + 1] = store[i][2]
  <2> SUFFICES ASSUME NEW i \in 1 .. ls PROVE b6[2 * i] = store[i][1] /\ b6[2 * i + 1] = store[i][2]
    OBVIOUS
  <2> DEFINE m == 2 * (i - 1) + 1  n == 2 * (i - 1) + 2
  <2>1. m \in 1 .. 2 * ls /\ n \in 1 .. 2 * ls /\ 1 + m = 2 * i /\ 1 + n = 2 * i + 1
    BY <1>1
  <2>2. s[m] = store[i][1] /\ s[n] = store[i][2]
    BY <1>2
  <2> HIDE DEF m, n
  <2>3. b6[1 + m] = s[m] /\ b6[1 + n] = s[n]
    BY <1>13, <2>1
  <2> QED
    BY <2>1, <2>2, <2>3
<1>18. \A i \in 1 .. le : b6[1 + 2 * ls + 2 * i] = eco[i][1] /\ b6[2 + 2 * ls + 2 * i] = eco[i][2]
  <2> SUFFICES ASSUME NEW i \in 1 .. le PROVE b6[1 + 2 * ls + 2 * i] = eco[i][1] /\ b6[2 + 2 * ls + 2 * i] = eco[i][2]
    OBVIOUS
  <2> DEFINE m == 2 * (i - 1) + 1  n == 2 * (i - 1) + 2
  <2>1. m \in 1 .. 2 * le /\ n \in 1 .. 2 * le /\ 2 + 2 * ls + m = 1 + 2 * ls + 2 * i /\ 2 + 2 * ls + n = 2 + 2 * ls + 2 * i
    BY <1>1
  <2>2. e[m] = eco[i][1] /\ e[n] = eco[i][2]
    BY <1>3
  <2> HIDE DEF m, n
  <2>3. b6[2 + 2 * ls + m] = e[m] /\ b6[2 + 2 * ls + n] = e[n]
    BY <1>15, <2>1
  <2> QED
    BY <2>1, <2>2, <2>3
<1>19. \A i \in 1 .. lr, j \in 1 .. 4 : b6[3 + 2 * ls + 2 * le + 4 * (i - 1) + j] = rs[i][j]
  <2> SUFFICES ASSUME NEW i \in 1 .. lr, NEW j \in 1 .. 4 PROVE b6[3 + 2 * ls + 2 * le + 4 * (i - 1) + j] = rs[i][j]
    OBVIOUS
  <2> DEFINE m == 4 * (i - 1) + j
  <2>1. m \in 1 .. 4 * lr /\ 3 + 2 * ls + 2 * le + m = 3 + 2 * ls + 2 * le + 4 * (i - 1) + j
    BY <1>1
  <2>2. r[m] = rs[i][j]
    BY <1>4
  <2> HIDE DEF m
  <2>3. b6[3 + 2 * ls + 2 * le + m] = r[m]
    BY <1>11, <2>1
  <2> QED
    BY <2>1, <2>2, <2>3
<1> DEFINE b == Blob(store, eco, rs)
<1>20. b = b6
  BY <1>5
<1> HIDE DEF b
<1>21. BlobLaid(b, store, eco, rs)
  BY <1>11, <1>12, <1>14, <1>16, <1>17, <1>18, <1>19, <1>20 DEF BlobLaid, ls, le, lr
<1> QED
  BY <1>21 DEF b

\* A blob that has arrived.
LEMMA BlobArrived ==
    ASSUME NEW store, NEW eco, NEW rs, NEW b, BlobLaid(b, store, eco, rs), BlobOK(store, eco, rs)
    PROVE  /\ EcoAt(b) = 2 + 2 * Len(store) /\ RoundsAt(b) = 3 + 2 * Len(store) + 2 * Len(eco) /\ EndOf(b) = Len(b)
           /\ b[EcoAt(b)] = Len(eco) /\ b[RoundsAt(b)] = Len(rs) /\ b[1] = Len(store)
           /\ Whole(b) /\ Len(store) \in Nat /\ Len(eco) \in Nat /\ Len(rs) \in Nat
<1>1. Len(store) \in Nat /\ Len(eco) \in Nat /\ Len(rs) \in Nat
  BY LenProperties DEF BlobOK
<1> DEFINE ls == Len(store)  le == Len(eco)  lr == Len(rs)
<1>2. b \in Seq(Nat) /\ Len(b) = 3 + 2 * ls + 2 * le + 4 * lr /\ b[1] = ls /\ b[2 + 2 * ls] = le /\ b[3 + 2 * ls + 2 * le] = lr
  BY DEF BlobLaid
<1> HIDE DEF ls, le, lr
<1>3. EcoAt(b) = 2 + 2 * ls
  BY <1>2 DEF EcoAt
<1>4. RoundsAt(b) = 3 + 2 * ls + 2 * le
  <2>1. b[EcoAt(b)] = le
    BY <1>2, <1>3
  <2>2. le \in Nat /\ ls \in Nat
    BY <1>1 DEF le, ls
  <2> QED
    BY <1>3, <2>1, <2>2 DEF RoundsAt
<1>5. EndOf(b) = Len(b)
  BY <1>1, <1>2, <1>4 DEF EndOf, ls, le, lr
<1>6. Whole(b)
  BY <1>1, <1>2, <1>3, <1>4, <1>5 DEF Whole, ls, le, lr
<1> QED
  BY <1>1, <1>2, <1>3, <1>4, <1>5, <1>6 DEF ls, le, lr

\* A blob that was cut is not whole.
LEMMA CutIsNotWhole ==
    ASSUME NEW store, NEW eco, NEW rs, NEW b, BlobLaid(b, store, eco, rs), BlobOK(store, eco, rs),
           NEW n \in 0 .. Len(b) - 1
    PROVE  ~ Whole(SubSeq(b, 1, n))
<1> DEFINE c == SubSeq(b, 1, n)
<1>1. /\ EcoAt(b) = 2 + 2 * Len(store) /\ RoundsAt(b) = 3 + 2 * Len(store) + 2 * Len(eco) /\ EndOf(b) = Len(b)
      /\ b[EcoAt(b)] = Len(eco) /\ b[RoundsAt(b)] = Len(rs) /\ b[1] = Len(store)
      /\ Len(store) \in Nat /\ Len(eco) \in Nat /\ Len(rs) \in Nat
  BY BlobArrived
<1>2. b \in Seq(Nat)
  BY DEF BlobLaid
<1>3. Len(c) = n /\ \A k \in 1 .. n : c[k] = b[k]
  <2>1. \A k \in 1 .. n : b[k] \in Nat
    BY <1>2, ElementOfSeq, LenProperties
  <2> QED
    BY <2>1, SubSeqProperties
<1> HIDE DEF c
<1>4. ASSUME Whole(c) PROVE FALSE
  <2>1. n >= 3 /\ EcoAt(c) <= n /\ RoundsAt(c) <= n /\ EndOf(c) <= n
    BY <1>3, <1>4 DEF Whole
  <2>2. c[1] = Len(store) /\ EcoAt(c) = 2 + 2 * Len(store)
    <3>1. 1 \in 1 .. n
      BY <2>1
    <3>2. c[1] = b[1]
      BY <1>3, <3>1
    <3> QED
      BY <1>1, <3>2 DEF EcoAt
  <2>3. c[EcoAt(c)] = Len(eco) /\ RoundsAt(c) = 3 + 2 * Len(store) + 2 * Len(eco)
    <3>1. EcoAt(c) = EcoAt(b) /\ EcoAt(c) \in 1 .. n
      BY <1>1, <2>1, <2>2
    <3>2. c[EcoAt(c)] = Len(eco)
      BY <1>1, <1>3, <3>1
    <3> QED
      BY <1>1, <2>2, <3>2 DEF RoundsAt
  <2>4. EndOf(c) = EndOf(b)
    <3>1. RoundsAt(c) = RoundsAt(b) /\ RoundsAt(c) \in 1 .. n
      BY <1>1, <2>1, <2>3
    <3>2. c[RoundsAt(c)] = b[RoundsAt(b)]
      BY <1>3, <3>1
    <3> QED
      BY <3>1, <3>2 DEF EndOf
  <2> QED
    BY <1>1, <2>1, <2>4
<1> QED
  BY <1>4 DEF c

\* The rows and the events are read as they were packed.
LEMMA PartsRead ==
    ASSUME NEW store, NEW eco, NEW rs, NEW b, BlobLaid(b, store, eco, rs), BlobOK(store, eco, rs)
    PROVE  /\ DOMAIN StoreIn(b) = 1 .. Len(store)
           /\ \A i \in 1 .. Len(store) : StoreIn(b)[i][1] = store[i][1] /\ StoreIn(b)[i][2] = store[i][2]
           /\ DOMAIN EcoIn(b) = 1 .. Len(eco)
           /\ \A i \in 1 .. Len(eco) : EcoIn(b)[i][1] = eco[i][1] /\ EcoIn(b)[i][2] = eco[i][2]
<1>1. /\ EcoAt(b) = 2 + 2 * Len(store) /\ b[EcoAt(b)] = Len(eco) /\ b[1] = Len(store)
      /\ Len(store) \in Nat /\ Len(eco) \in Nat
  BY BlobArrived
<1> DEFINE ls == Len(store)  le == Len(eco)
<1>2. /\ \A i \in 1 .. ls : b[2 * i] = store[i][1] /\ b[2 * i + 1] = store[i][2]
      /\ \A i \in 1 .. le : b[1 + 2 * ls + 2 * i] = eco[i][1] /\ b[2 + 2 * ls + 2 * i] = eco[i][2]
  BY DEF BlobLaid
<1>3. DOMAIN StoreIn(b) = 1 .. Len(store) /\ \A i \in 1 .. Len(store) : StoreIn(b)[i] = <<b[2 * i], b[2 * i + 1]>>
  BY <1>1 DEF StoreIn
<1>4. DOMAIN EcoIn(b) = 1 .. le
  BY <1>1 DEF EcoIn
<1>5. ASSUME NEW i \in 1 .. le PROVE EcoIn(b)[i] = <<b[1 + 2 * ls + 2 * i], b[2 + 2 * ls + 2 * i]>>
  <2>1. EcoIn(b)[i] = <<b[EcoAt(b) + 2 * i - 1], b[EcoAt(b) + 2 * i]>>
    BY <1>1 DEF EcoIn
  <2>2. EcoAt(b) + 2 * i - 1 = 1 + 2 * ls + 2 * i /\ EcoAt(b) + 2 * i = 2 + 2 * ls + 2 * i
    BY <1>1
  <2> QED
    BY <2>1, <2>2
<1>6. \A i \in 1 .. le : EcoIn(b)[i][1] = eco[i][1] /\ EcoIn(b)[i][2] = eco[i][2]
  BY <1>2, <1>5
<1>7. \A i \in 1 .. ls : StoreIn(b)[i][1] = store[i][1] /\ StoreIn(b)[i][2] = store[i][2]
  BY <1>2, <1>3
<1> QED
  BY <1>3, <1>4, <1>6, <1>7

\* Four bytes of a blob.
LEMMA FourBytes ==
    ASSUME NEW b \in Seq(Nat), NEW m \in Nat, m + 4 <= Len(b)
    PROVE  /\ SubSeq(b, m + 1, m + 4)[1] = b[m + 1] /\ SubSeq(b, m + 1, m + 4)[2] = b[m + 2]
           /\ SubSeq(b, m + 1, m + 4)[3] = b[m + 3] /\ SubSeq(b, m + 1, m + 4)[4] = b[m + 4]
<1>1. \A k \in m + 1 .. m + 4 : b[k] \in Nat
  BY ElementOfSeq, LenProperties
<1>2. \A i \in 1 .. (m + 4) - (m + 1) + 1 : SubSeq(b, m + 1, m + 4)[i] = b[(m + 1) + i - 1]
  <2> DEFINE p == m + 1  q == m + 4
  <2>1. p \in Int /\ q \in Int
    OBVIOUS
  <2>2. \A k \in p .. q : b[k] \in Nat
    BY <1>1
  <2> HIDE DEF p, q
  <2>3. \A i \in 1 .. q - p + 1 : SubSeq(b, p, q)[i] = b[p + i - 1]
    BY <2>1, <2>2, SubSeqProperties
  <2> QED
    BY <2>3 DEF p, q
<1>3. (m + 4) - (m + 1) + 1 = 4 /\ (m + 1) + 1 - 1 = m + 1 /\ (m + 1) + 2 - 1 = m + 2
      /\ (m + 1) + 3 - 1 = m + 3 /\ (m + 1) + 4 - 1 = m + 4
  OBVIOUS
<1>4. \A i \in 1 .. 4 : SubSeq(b, m + 1, m + 4)[i] = b[(m + 1) + i - 1]
  BY <1>2, <1>3
<1> QED
  BY <1>3, <1>4

\* A round's coins are read as they were packed, a negative number as none.
LEMMA RoundRead ==
    ASSUME NEW store, NEW eco, NEW rs, NEW b, BlobLaid(b, store, eco, rs), BlobOK(store, eco, rs),
           NEW i \in 1 .. Len(rs), rs[i] \in CoinBytes
    PROVE  Clamped(RoundIn(b, i)) = Coins(rs[i]) /\ Coins(rs[i]) \in Nat
<1>1. /\ RoundsAt(b) = 3 + 2 * Len(store) + 2 * Len(eco) /\ b[RoundsAt(b)] = Len(rs)
      /\ Len(store) \in Nat /\ Len(eco) \in Nat /\ Len(rs) \in Nat
  BY BlobArrived
<1>2. /\ b \in Seq(Nat) /\ Len(b) = RoundsAt(b) + 4 * Len(rs)
      /\ \A j \in 1 .. 4 : b[RoundsAt(b) + 4 * (i - 1) + j] = rs[i][j]
  BY <1>1 DEF BlobLaid
<1> DEFINE m == RoundsAt(b) + 4 * (i - 1)
<1>3. m \in Nat /\ m + 4 <= Len(b) /\ RoundsAt(b) + 4 * i = m + 4 /\ RoundsAt(b) + 4 * i - 3 = m + 1
  <2> DEFINE at0 == RoundsAt(b)  lr == Len(rs)
  <2>1. at0 \in Nat /\ lr \in Nat /\ i \in 1 .. lr /\ Len(b) = at0 + 4 * lr
    BY <1>1, <1>2
  <2> HIDE DEF at0, lr
  <2>2. LET k == at0 + 4 * (i - 1) IN k \in Nat /\ k + 4 <= Len(b) /\ at0 + 4 * i = k + 4 /\ at0 + 4 * i - 3 = k + 1
    BY <2>1
  <2> QED
    BY <2>2 DEF at0
<1>4. \A j \in 1 .. 4 : b[m + j] = rs[i][j]
  BY <1>2
<1> HIDE DEF m
<1> DEFINE c == SubSeq(b, m + 1, m + 4)
<1>5. RoundIn(b, i) = I32(c)
  BY <1>3 DEF RoundIn
<1>6. c[1] = rs[i][1] /\ c[2] = rs[i][2] /\ c[3] = rs[i][3] /\ c[4] = rs[i][4]
  <2>1. c[1] = b[m + 1] /\ c[2] = b[m + 2] /\ c[3] = b[m + 3] /\ c[4] = b[m + 4]
    BY <1>2, <1>3, FourBytes
  <2>2. b[m + 1] = rs[i][1]
    BY <1>4
  <2>3. b[m + 2] = rs[i][2]
    BY <1>4
  <2>4. b[m + 3] = rs[i][3]
    BY <1>4
  <2>5. b[m + 4] = rs[i][4]
    BY <1>4
  <2> QED
    BY <2>1, <2>2, <2>3, <2>4, <2>5
<1> HIDE DEF c
<1>7. PICK top \in 0 .. 255 : rs[i][1] = 244 /\ rs[i][2] = 1 /\ rs[i][3] = 0 /\ rs[i][4] = top
  BY CoinBytesOK
<1>8. I32(c) = IF top >= 128 THEN -1 ELSE 500 + top * 16777216
  BY <1>6, <1>7 DEF I32
<1>9. Coins(rs[i]) = IF top >= 128 THEN 0 ELSE 500 + 16777216 * top
  BY <1>7 DEF Coins
<1> QED
  BY <1>5, <1>8, <1>9 DEF Clamped

\* An item on sale has a slot, so it is not one the match server cannot place.
LEMMA SoldHasSlot ==
    ASSUME NEW s, SoldInMatch(s[1])
    PROVE  ForSale(s).slot # "none" /\ ForSale(s).item \notin Quarantine
<1>1. ResolveSlotKind(ShopRows[s[1]]) # "none"
  BY DEF SoldInMatch
<1>2. ShopRows[s[1]][1] \notin Quarantine
  <2> DEFINE row == ShopRows[s[1]]
  <2>1. ResolveSlotKind(row) # "none"
    BY <1>1
  <2> HIDE DEF row
  <2>2. row[1] \notin Quarantine
    BY <2>1, Zenon DEF ResolveSlotKind
  <2> QED
    BY <2>2 DEF row
<1>3. ForSale(s).slot = ResolveSlotKind(ShopRows[s[1]]) /\ ForSale(s).item = ShopRows[s[1]][1]
  BY DEF ForSale
<1> QED
  BY <1>1, <1>2, <1>3

\* What is decoded of a blob, against what was put into it.
GoodsOf(goods, store) ==
    \A g \in goods : /\ g.slot # "none" /\ g.item \notin Quarantine
                     /\ \E c \in ToSet(store) : ShopRows[c[1]][1] = g.item /\ g.price = 50 * c[2]

EventsOfBlob(events, eco) ==
    /\ DOMAIN events \subseteq Events
    /\ \A i \in 1 .. Len(eco) : eco[i][1] \in Events =>
           eco[i][1] \in DOMAIN events /\ events[eco[i][1]] = 50 * eco[i][2]

LEMMA GoodsRead ==
    ASSUME NEW store, NEW eco, NEW rs, NEW b, BlobLaid(b, store, eco, rs), BlobOK(store, eco, rs)
    PROVE  GoodsOf(DecodeAdvanced(b).shop, store)
<1> DEFINE st == StoreIn(b)
<1>1. /\ DOMAIN st = 1 .. Len(store)
      /\ \A i \in 1 .. Len(store) : st[i][1] = store[i][1] /\ st[i][2] = store[i][2]
  BY PartsRead
<1>2. DecodeAdvanced(b).shop = {ForSale(s) : s \in {s \in ToSet(st) : SoldInMatch(s[1])}}
  BY DEF DecodeAdvanced
<1>3. ToSet(st) = {st[i] : i \in 1 .. Len(store)} /\ ToSet(store) = {store[i] : i \in 1 .. Len(store)}
  BY <1>1, LenProperties DEF ToSet, BlobOK
<1>4. \A i \in 1 .. Len(store) : store[i][2] \in Nat
  <2>1. ASSUME NEW i \in 1 .. Len(store) PROVE store[i] \in Seq(Nat) /\ Len(store[i]) = 2
    BY ElementOfSeq DEF BlobOK
  <2> QED
    BY <2>1
<1> HIDE DEF st
<1>5. ASSUME NEW g \in DecodeAdvanced(b).shop
      PROVE  /\ g.slot # "none" /\ g.item \notin Quarantine
             /\ \E c \in ToSet(store) : ShopRows[c[1]][1] = g.item /\ g.price = 50 * c[2]
  <2>1. PICK s \in ToSet(st) : SoldInMatch(s[1]) /\ g = ForSale(s)
    BY <1>2
  <2>2. PICK i \in 1 .. Len(store) : s = st[i]
    BY <1>3, <2>1
  <2>3. store[i] \in ToSet(store) /\ s[1] = store[i][1] /\ s[2] = store[i][2]
    BY <1>1, <1>3, <2>2
  <2>4. g.item = ShopRows[s[1]][1] /\ g.price = s[2] * 50
    BY <2>1 DEF ForSale
  <2>5. g.price = 50 * store[i][2]
    BY <1>4, <2>3, <2>4
  <2>6. ShopRows[store[i][1]][1] = g.item
    BY <2>3, <2>4
  <2>7. g.slot # "none" /\ g.item \notin Quarantine
    BY <2>1, SoldHasSlot
  <2> QED
    BY <2>3, <2>5, <2>6, <2>7
<1> QED
  BY <1>5 DEF GoodsOf

\* Each event is named once, so the last of its name is it.
LEMMA EventsRead ==
    ASSUME NEW store, NEW eco, NEW rs, NEW b, BlobLaid(b, store, eco, rs), BlobOK(store, eco, rs),
           \A i, j \in 1 .. Len(eco) : eco[i][1] = eco[j][1] => i = j
    PROVE  EventsOfBlob(DecodeAdvanced(b).events, eco)
<1> DEFINE ec == EcoIn(b)
<1>1. /\ DOMAIN ec = 1 .. Len(eco)
      /\ \A i \in 1 .. Len(eco) : ec[i][1] = eco[i][1] /\ ec[i][2] = eco[i][2]
  BY PartsRead
<1>2. DecodeAdvanced(b).events = [e \in {e \in Events : \E i \in DOMAIN ec : ec[i][1] = e} |-> EventCoins(ec[LastOf(ec, e)][2])]
  BY DEF DecodeAdvanced
<1>3. \A i \in 1 .. Len(eco) : eco[i][2] \in Nat
  <2>1. ASSUME NEW i \in 1 .. Len(eco) PROVE eco[i] \in Seq(Nat) /\ Len(eco[i]) = 2
    BY ElementOfSeq DEF BlobOK
  <2> QED
    BY <2>1
<1> HIDE DEF ec
<1> DEFINE d == DecodeAdvanced(b).events
<1>4. DOMAIN d \subseteq Events
  BY <1>2
<1>5. ASSUME NEW i \in 1 .. Len(eco), eco[i][1] \in Events
      PROVE  eco[i][1] \in DOMAIN d /\ d[eco[i][1]] = 50 * eco[i][2]
  <2> DEFINE e == eco[i][1]
  <2>1. ec[i][1] = e /\ i \in DOMAIN ec
    BY <1>1
  <2>2. \A j \in DOMAIN ec : ec[j][1] = e => j = i
    BY <1>1
  <2>3. LastOf(ec, e) = i
    <3> HIDE DEF e
    <3>1. \A j \in DOMAIN ec : (ec[j][1] = e /\ \A k \in DOMAIN ec : ec[k][1] = e => k <= j) <=> j = i
      BY <1>1, <2>1, <2>2
    <3> QED
      BY <2>1, <3>1 DEF LastOf
  <2>4. e \in Events
    BY <1>5
  <2> HIDE DEF e, d
  <2>5. e \in DOMAIN d /\ d[e] = EventCoins(ec[LastOf(ec, e)][2])
    BY <1>2, <2>1, <2>4 DEF d
  <2>6. ec[i][2] = eco[i][2]
    BY <1>1
  <2>7. d[e] = 50 * eco[i][2]
    BY <1>3, <2>3, <2>5, <2>6 DEF EventCoins
  <2> QED
    BY <2>5, <2>7 DEF e
<1> QED
  BY <1>4, <1>5 DEF EventsOfBlob

\* The rounds' coins.
LEMMA RoundsRead ==
    ASSUME NEW store, NEW eco, NEW rs, NEW b, BlobLaid(b, store, eco, rs), BlobOK(store, eco, rs),
           \A i \in 1 .. Len(rs) : rs[i] \in CoinBytes
    PROVE  LET coins == DecodeAdvanced(b).rounds IN
           /\ coins = [i \in DOMAIN rs |-> Coins(rs[i])] /\ coins \in Seq(Nat) /\ Len(coins) = Len(rs)
<1> DEFINE coins == DecodeAdvanced(b).rounds
<1>1. b[RoundsAt(b)] = Len(rs) /\ Len(rs) \in Nat
  BY BlobArrived
<1>2. coins = [i \in 1 .. b[RoundsAt(b)] |-> Clamped(RoundIn(b, i))]
  BY DEF DecodeAdvanced
<1>3. DOMAIN rs = 1 .. Len(rs)
  BY LenProperties DEF BlobOK
<1>4. \A i \in 1 .. Len(rs) : Clamped(RoundIn(b, i)) = Coins(rs[i]) /\ Coins(rs[i]) \in Nat
  BY RoundRead
<1> HIDE DEF coins
<1>5. coins = [i \in 1 .. Len(rs) |-> Coins(rs[i])]
  BY <1>1, <1>2, <1>4
<1>6. coins \in Seq(Nat) /\ Len(coins) = Len(rs)
  BY <1>1, <1>4, <1>5
<1> QED
  BY <1>3, <1>5, <1>6 DEF coins

\* What a host can have chosen, and how much of it can have arrived.
ChosenOK(c) ==
    /\ c = [fields |-> c.fields, advanced |-> c.advanced, store |-> c.store, eco |-> c.eco,
            rounds |-> c.rounds, arrived |-> c.arrived]
    /\ FieldsOK(c.fields) /\ c.advanced \in BOOLEAN
    /\ c.store \in Stores /\ c.eco \in Ecos /\ c.rounds \in Rounds
    /\ c.arrived \in 0 .. Size(c)

\* Of the parts of a blob: how they are laid, and what is in them.
LEMMA PartsOK ==
    ASSUME NEW c, ChosenOK(c)
    PROVE  LET b == Blob(c.store, c.eco, c.rounds) IN
           /\ BlobOK(c.store, c.eco, c.rounds) /\ BlobLaid(b, c.store, c.eco, c.rounds)
           /\ b \in Seq(Nat) /\ Size(c) = Len(b) /\ Len(b) \in Nat
           /\ \A i, j \in 1 .. Len(c.eco) : c.eco[i][1] = c.eco[j][1] => i = j
           /\ \A i \in 1 .. Len(c.rounds) : c.rounds[i] \in CoinBytes
           /\ Len(c.rounds) \in 0 .. 2
<1> DEFINE b == Blob(c.store, c.eco, c.rounds)
<1>1. c.store \in Seq(Seq(Nat)) /\ \A i \in 1 .. Len(c.store) : Len(c.store[i]) = 2
  BY StoresOK DEF ChosenOK
<1>2. /\ c.eco \in Seq(Seq(Nat)) /\ \A i \in 1 .. Len(c.eco) : Len(c.eco[i]) = 2
      /\ \A i, j \in 1 .. Len(c.eco) : c.eco[i][1] = c.eco[j][1] => i = j
  BY EcosOK DEF ChosenOK
<1>3. /\ c.rounds \in Seq(Seq(Nat)) /\ Len(c.rounds) \in 0 .. 2
      /\ \A i \in 1 .. Len(c.rounds) : c.rounds[i] \in CoinBytes /\ Len(c.rounds[i]) = 4
  BY RoundsOK DEF ChosenOK
<1>4. BlobOK(c.store, c.eco, c.rounds)
  BY <1>1, <1>2, <1>3 DEF BlobOK
<1>5. BlobLaid(b, c.store, c.eco, c.rounds)
  BY <1>4, BlobIsLaid
<1>6. b \in Seq(Nat) /\ Len(b) \in Nat
  BY <1>5, LenProperties DEF BlobLaid
<1>7. Size(c) = Len(b)
  BY DEF Size
<1> HIDE DEF b
<1> QED
  BY <1>2, <1>3, <1>4, <1>5, <1>6, <1>7 DEF b

\* A whole blob that has all arrived is looked at, and no other is.
BlobTaken(c) == c.advanced /\ c.arrived = Size(c)

LEMMA OverlayIs ==
    ASSUME NEW c, ChosenOK(c)
    PROVE  Overlay(Room(c)) = IF BlobTaken(c) THEN DecodeAdvanced(Blob(c.store, c.eco, c.rounds)) ELSE NoOverlay
<1> DEFINE b == Blob(c.store, c.eco, c.rounds)  s == SubSeq(b, 1, c.arrived)
<1>1. /\ BlobOK(c.store, c.eco, c.rounds) /\ BlobLaid(b, c.store, c.eco, c.rounds)
      /\ b \in Seq(Nat) /\ Size(c) = Len(b) /\ Len(b) \in Nat
  BY PartsOK
<1>2. c.arrived \in 0 .. Len(b) /\ c.advanced \in BOOLEAN
  BY <1>1 DEF ChosenOK
<1>3. Room(c).advanced = c.advanced /\ Room(c).blob = s
  BY DEF Room
<1> HIDE DEF b
<1>4. c.arrived = Len(b) => s = b
  <2> SUFFICES ASSUME c.arrived = Len(b) PROVE s = b
    OBVIOUS
  <2>1. \A k \in 1 .. Len(b) : b[k] \in Nat
    BY <1>1, ElementOfSeq
  <2>2. s \in Seq(Nat) /\ Len(s) = Len(b) /\ \A k \in 1 .. Len(b) : s[k] = b[k]
    BY <1>1, <2>1, SubSeqProperties
  <2> HIDE DEF s
  <2> QED
    BY <1>1, <2>2, SeqEqual
<1>5. Whole(b)
  BY <1>1, BlobArrived
<1>6. c.arrived # Len(b) => ~ Whole(s)
  <2> SUFFICES ASSUME c.arrived # Len(b) PROVE ~ Whole(s)
    OBVIOUS
  <2>1. c.arrived \in 0 .. Len(b) - 1
    BY <1>1, <1>2
  <2> QED
    BY <1>1, <2>1, CutIsNotWhole
<1> HIDE DEF s
<1>7. Overlay(Room(c)) = IF c.advanced /\ Whole(s) THEN DecodeAdvanced(s) ELSE NoOverlay
  BY <1>3 DEF Overlay
<1>8. BlobTaken(c) <=> c.advanced /\ c.arrived = Len(b)
  BY <1>1 DEF BlobTaken
<1>9. CASE BlobTaken(c)
  BY <1>4, <1>5, <1>7, <1>8, <1>9 DEF b
<1>10. CASE ~ BlobTaken(c)
  BY <1>2, <1>6, <1>7, <1>8, <1>10
<1> QED
  BY <1>9, <1>10 DEF b

\* What is read of the bits.
FieldOf(c, f) == IF f \in DOMAIN c.fields THEN c.fields[f] ELSE 0

LEMMA BitsRead ==
    ASSUME NEW c, ChosenOK(c)
    PROVE  LET s == DecodeRoomSettings(Room(c).words) IN
           /\ s.flags = {f \in DOMAIN Flags : FieldOf(c, f) = 1}
           /\ s.roundCount = Resolve(RoundTable, FieldOf(c, "roundNum"))
           /\ s.economy = Resolve(CoinTable, FieldOf(c, "initCoin"))
           /\ s.maxHP = Resolve(HPTable, FieldOf(c, "playerHP"))
           /\ s.speed = Resolve(SpeedTable, FieldOf(c, "playerSpeed"))
           /\ s.jump = Resolve(JumpTable, FieldOf(c, "playerJump"))
<1>1. FieldsOK(c.fields) /\ Room(c).words = Pack(c.fields)
  BY DEF ChosenOK, Room
<1>2. \A x \in IndexNames : IdxOf(Pack(c.fields), Indices[x]) = FieldOf(c, x)
  BY <1>1, IdxIs DEF FieldOf
<1>3. DOMAIN Flags = FlagNames
  BY FieldTable
<1>4. ASSUME NEW f \in FlagNames PROVE Flags[f] \in Pack(c.fields) <=> FieldOf(c, f) = 1
  <2>1. Flags[f] \in Pack(c.fields) <=> f \in DOMAIN c.fields
    BY <1>1, PackedFlag
  <2>2. FieldOf(c, f) = 1 <=> f \in DOMAIN c.fields
    BY <1>1 DEF FieldOf, FieldsOK
  <2> QED
    BY <2>1, <2>2
<1> DEFINE s == DecodeRoomSettings(Room(c).words)
<1>5. s.flags = {f \in DOMAIN Flags : Flags[f] \in Pack(c.fields)}
  BY <1>1 DEF DecodeRoomSettings
<1>6. s.flags = {f \in DOMAIN Flags : FieldOf(c, f) = 1}
  BY <1>3, <1>4, <1>5
<1>7. /\ s.roundCount = Resolve(RoundTable, IdxOf(Pack(c.fields), Indices["roundNum"]))
      /\ s.economy = Resolve(CoinTable, IdxOf(Pack(c.fields), Indices["initCoin"]))
      /\ s.maxHP = Resolve(HPTable, IdxOf(Pack(c.fields), Indices["playerHP"]))
      /\ s.speed = Resolve(SpeedTable, IdxOf(Pack(c.fields), Indices["playerSpeed"]))
      /\ s.jump = Resolve(JumpTable, IdxOf(Pack(c.fields), Indices["playerJump"]))
  BY <1>1 DEF DecodeRoomSettings
<1>8. {"roundNum", "initCoin", "playerHP", "playerSpeed", "playerJump"} \subseteq IndexNames
  BY DEF IndexNames
<1> HIDE DEF s
<1>9. /\ s.roundCount = Resolve(RoundTable, FieldOf(c, "roundNum"))
      /\ s.economy = Resolve(CoinTable, FieldOf(c, "initCoin"))
      /\ s.maxHP = Resolve(HPTable, FieldOf(c, "playerHP"))
      /\ s.speed = Resolve(SpeedTable, FieldOf(c, "playerSpeed"))
      /\ s.jump = Resolve(JumpTable, FieldOf(c, "playerJump"))
  BY <1>2, <1>7, <1>8
<1> QED
  BY <1>6, <1>9 DEF s

\* A table is read at its keys only.
LEMMA Tables ==
    /\ \A v \in Nat : Resolve(RoundTable, v) \in {Unset, 7, 13, 11}
    /\ \A v \in Nat : Resolve(HPTable, v) = (IF v \in 1 .. 4 THEN HPTable[v] ELSE Unset)
    /\ \A v \in Nat : Resolve(HPTable, v) \in {Unset, 200, 500, 50, 1}
    /\ \A v \in Nat : Resolve(SpeedTable, v) \in {Unset, 50, 100, 125, 200}
    /\ \A v \in Nat : Resolve(JumpTable, v) \in {Unset, 100, 200, 400}
    /\ \A v \in Nat : Resolve(CoinTable, v) = (IF v = 1 THEN CoinTable[1] ELSE IF v = 2 THEN CoinTable[2] ELSE Unset)
<1>1. ASSUME NEW v \in Nat PROVE Resolve(RoundTable, v) \in {Unset, 7, 13, 11}
  BY DEF Resolve, RoundTable
<1>2. ASSUME NEW v \in Nat PROVE Resolve(HPTable, v) = IF v \in 1 .. 4 THEN HPTable[v] ELSE Unset
  BY DEF Resolve, HPTable
<1>3. ASSUME NEW v \in Nat PROVE Resolve(HPTable, v) \in {Unset, 200, 500, 50, 1}
  BY DEF Resolve, HPTable
<1>4. ASSUME NEW v \in Nat PROVE Resolve(SpeedTable, v) \in {Unset, 50, 100, 125, 200}
  BY DEF Resolve, SpeedTable
<1>5. ASSUME NEW v \in Nat PROVE Resolve(JumpTable, v) \in {Unset, 100, 200, 400}
  BY DEF Resolve, JumpTable
<1>6. ASSUME NEW v \in Nat
      PROVE  Resolve(CoinTable, v) = IF v = 1 THEN CoinTable[1] ELSE IF v = 2 THEN CoinTable[2] ELSE Unset
  <2>1. DOMAIN CoinTable = 1 .. 2
    BY DEF CoinTable
  <2>2. v \in 1 .. 2 <=> v = 1 \/ v = 2
    OBVIOUS
  <2> QED
    BY <2>1, <2>2 DEF Resolve
<1> QED
  BY <1>1, <1>2, <1>3, <1>4, <1>5, <1>6

LEMMA CoinTableOK ==
    /\ CoinTable[1] \in Seq(Nat) /\ CoinTable[1] # <<>> /\ CoinTable[1] # Unset
    /\ CoinTable[2] \in Seq(Nat) /\ CoinTable[2] # <<>> /\ CoinTable[2] # Unset
<1>1. CoinTable[1] \in Seq(Nat) /\ CoinTable[1] # <<>>
  BY DEF CoinTable
<1>2. CoinTable[2] \in Seq(Nat) /\ CoinTable[2] # <<>>
  BY DEF CoinTable
<1> QED
  BY <1>1, <1>2, UnsetAssumption

\* Of a field: a number.
LEMMA FieldNat == ASSUME NEW c, ChosenOK(c), NEW f \in IndexNames PROVE FieldOf(c, f) \in Nat
<1>1. CASE f \in DOMAIN c.fields
  <2>1. c.fields[f] \in 0 .. 2 ^ Indices[f][3] - 1
    BY <1>1 DEF ChosenOK, FieldsOK
  <2> DEFINE n == 2 ^ Indices[f][3] - 1
  <2> HIDE DEF n
  <2>2. c.fields[f] \in 0 .. n
    BY <2>1 DEF n
  <2> QED
    BY <1>1, <2>2 DEF FieldOf
<1>2. CASE f \notin DOMAIN c.fields
  BY <1>2 DEF FieldOf
<1> QED
  BY <1>1, <1>2

\* What is written for the match server.
LEMMA PayloadIs ==
    ASSUME NEW c, ChosenOK(c)
    PROVE  LET p == Payload(Room(c))
               coined == BlobTaken(c) /\ c.rounds # <<>>
           IN
           /\ p.flags = {f \in DOMAIN Flags : FieldOf(c, f) = 1}
           /\ p.roundCount = IF coined THEN Len(c.rounds) ELSE Resolve(RoundTable, FieldOf(c, "roundNum"))
           /\ p.economy = IF coined THEN [i \in DOMAIN c.rounds |-> Coins(c.rounds[i])]
                          ELSE Resolve(CoinTable, FieldOf(c, "initCoin"))
           /\ coined => p.economy \in Seq(Nat) /\ p.economy # <<>> /\ Len(c.rounds) \in 1 .. 2
           /\ p.maxHP = Resolve(HPTable, FieldOf(c, "playerHP"))
           /\ p.speed = Resolve(SpeedTable, FieldOf(c, "playerSpeed"))
           /\ p.jump = Resolve(JumpTable, FieldOf(c, "playerJump"))
           /\ p.shop = Overlay(Room(c)).shop /\ p.events = Overlay(Room(c)).events
<1> DEFINE p == Payload(Room(c))  s == DecodeRoomSettings(Room(c).words)  o == Overlay(Room(c))
           coined == BlobTaken(c) /\ c.rounds # <<>>  b == Blob(c.store, c.eco, c.rounds)
           coins == [i \in DOMAIN c.rounds |-> Coins(c.rounds[i])]
<1>1. /\ s.flags = {f \in DOMAIN Flags : FieldOf(c, f) = 1}
      /\ s.roundCount = Resolve(RoundTable, FieldOf(c, "roundNum"))
      /\ s.economy = Resolve(CoinTable, FieldOf(c, "initCoin"))
      /\ s.maxHP = Resolve(HPTable, FieldOf(c, "playerHP"))
      /\ s.speed = Resolve(SpeedTable, FieldOf(c, "playerSpeed"))
      /\ s.jump = Resolve(JumpTable, FieldOf(c, "playerJump"))
  BY BitsRead
<1>2. /\ p.flags = s.flags /\ p.maxHP = s.maxHP /\ p.speed = s.speed /\ p.jump = s.jump
      /\ p.roundCount = IF o.rounds # <<>> THEN Len(o.rounds) ELSE s.roundCount
      /\ p.economy = IF o.rounds # <<>> THEN o.rounds ELSE s.economy
      /\ p.shop = o.shop /\ p.events = o.events
  BY DEF Payload
<1>3. /\ BlobOK(c.store, c.eco, c.rounds) /\ BlobLaid(b, c.store, c.eco, c.rounds)
      /\ \A i \in 1 .. Len(c.rounds) : c.rounds[i] \in CoinBytes
      /\ Len(c.rounds) \in 0 .. 2
  BY PartsOK
<1>4. c.rounds \in Seq(Seq(Nat))
  BY <1>3 DEF BlobOK
<1>5. /\ DecodeAdvanced(b).rounds = coins /\ DecodeAdvanced(b).rounds \in Seq(Nat)
      /\ Len(DecodeAdvanced(b).rounds) = Len(c.rounds)
  BY <1>3, RoundsRead
<1>6. c.rounds # <<>> <=> Len(c.rounds) # 0
  BY <1>4, EmptySeq
<1>7. o = IF BlobTaken(c) THEN DecodeAdvanced(b) ELSE NoOverlay
  BY OverlayIs
<1> HIDE DEF p, s, o, b
<1>8. coined => o.rounds = coins /\ o.rounds # <<>> /\ o.rounds \in Seq(Nat) /\ Len(o.rounds) = Len(c.rounds) /\ Len(c.rounds) \in 1 .. 2
  <2> SUFFICES ASSUME coined PROVE o.rounds = coins /\ o.rounds # <<>> /\ o.rounds \in Seq(Nat)
                                   /\ Len(o.rounds) = Len(c.rounds) /\ Len(c.rounds) \in 1 .. 2
    OBVIOUS
  <2>1. o.rounds = DecodeAdvanced(b).rounds
    BY <1>7
  <2>2. Len(c.rounds) \in 1 .. 2
    BY <1>3, <1>6
  <2> HIDE DEF coins
  <2>3. o.rounds \in Seq(Nat) /\ Len(o.rounds) # 0
    BY <1>5, <2>1, <2>2
  <2>4. o.rounds # <<>>
    BY <2>3, EmptySeq
  <2> QED
    BY <1>5, <2>1, <2>2, <2>3, <2>4
<1>9. ~ coined => o.rounds = <<>>
  <2>1. CASE ~ BlobTaken(c)
    BY <1>7, <2>1 DEF NoOverlay
  <2>2. CASE BlobTaken(c) /\ c.rounds = <<>>
    <3>1. o.rounds = DecodeAdvanced(b).rounds
      BY <1>7, <2>2
    <3>2. Len(o.rounds) = 0 /\ o.rounds \in Seq(Nat)
      BY <1>5, <1>6, <2>2, <3>1
    <3> QED
      BY <3>2, EmptySeq
  <2> QED
    BY <2>1, <2>2
<1> HIDE DEF coined, coins
<1>10. p.roundCount = IF coined THEN Len(c.rounds) ELSE Resolve(RoundTable, FieldOf(c, "roundNum"))
  BY <1>1, <1>2, <1>8, <1>9
<1>11. /\ p.economy = IF coined THEN coins ELSE Resolve(CoinTable, FieldOf(c, "initCoin"))
       /\ coined => p.economy \in Seq(Nat) /\ p.economy # <<>> /\ Len(c.rounds) \in 1 .. 2
  BY <1>1, <1>2, <1>8, <1>9
<1> QED
  BY <1>1, <1>2, <1>10, <1>11 DEF p, o, coined, coins

\* Nothing written differs from everything written.
LEMMA WrittenDiffers ==
    /\ \A c : Payload(c) # NotYet
    /\ \A w : LoadMatchSettings(w) # NotYet
    /\ DefaultRules # NotYet
<1>1. ASSUME NEW c PROVE Payload(c) # NotYet
  <2>1. "flags" \in DOMAIN Payload(c)
    BY DEF Payload
  <2>2. "flags" \notin DOMAIN NotYet
    BY DEF NotYet
  <2> QED
    BY <2>1, <2>2
<1>2. ASSUME NEW w PROVE LoadMatchSettings(w) # NotYet
  <2>1. "maxHP" \in DOMAIN LoadMatchSettings(w)
    BY DEF LoadMatchSettings
  <2>2. "maxHP" \notin DOMAIN NotYet
    BY DEF NotYet
  <2> QED
    BY <2>1, <2>2
<1>3. DefaultRules # NotYet
  <2>1. "maxHP" \in DOMAIN DefaultRules
    BY DEF DefaultRules
  <2>2. "maxHP" \notin DOMAIN NotYet
    BY DEF NotYet
  <2> QED
    BY <2>1, <2>2
<1> QED
  BY <1>1, <1>2, <1>3

\* What must hold of rules, whatever was chosen: their type, and when a match is won.
RulesType(r) ==
    /\ r.maxRound \in 1 .. 255 /\ r.roundsToWin \in 0 .. 128
    /\ r.economy # <<>> /\ r.maxHP \in {200, 500, 50, 1}
    /\ {r.speed, r.jump} \subseteq {0, 50, 125, 200, 400}
    /\ DOMAIN r.events = Events

HalfWins(r) == 2 * r.roundsToWin >= r.maxRound /\ 2 * (r.roundsToWin - 1) < r.maxRound

LEMMA DefaultsOK == RulesType(DefaultRules) /\ HalfWins(DefaultRules)
<1> DEFINE r == DefaultRules
<1>1. r.maxRound = 7 /\ r.roundsToWin = 4 /\ r.economy = CoinTable[1] /\ r.maxHP = 200 /\ r.speed = 0 /\ r.jump = 0
      /\ r.events = DefaultEvents
  BY DEF DefaultRules
<1>2. DOMAIN DefaultEvents = Events
  BY DEF DefaultEvents
<1> HIDE DEF r
<1>3. r.economy # <<>>
  BY <1>1, CoinTableOK
<1>4. RulesType(r)
  BY <1>1, <1>2, <1>3 DEF RulesType
<1>5. HalfWins(r)
  BY <1>1 DEF HalfWins
<1> QED
  BY <1>4, <1>5 DEF r

\* What the match server reads of the payload.
LEMMA RulesLoaded ==
    ASSUME NEW c, ChosenOK(c)
    PROVE  LET p == Payload(Room(c))  r == LoadMatchSettings(p)
               coined == BlobTaken(c) /\ c.rounds # <<>>
           IN
           /\ RulesType(r) /\ HalfWins(r)
           /\ r.maxHP = (IF FieldOf(c, "playerHP") \in 1 .. 4 THEN HPTable[FieldOf(c, "playerHP")] ELSE 200)
           /\ r.economy = IF coined THEN [i \in DOMAIN c.rounds |-> Coins(c.rounds[i])]
                          ELSE IF FieldOf(c, "initCoin") = 2 THEN CoinTable[2] ELSE CoinTable[1]
           /\ r.noLoadout <=> "noLoadout" \in p.flags
           /\ r.unlimitedAmmo <=> "unlimitedAmmo" \in p.flags
           /\ r.shop = p.shop /\ r.events = EventsOf(p)
<1> DEFINE p == Payload(Room(c))  r == LoadMatchSettings(p)
           coined == BlobTaken(c) /\ c.rounds # <<>>
           coins == [i \in DOMAIN c.rounds |-> Coins(c.rounds[i])]
           hp == FieldOf(c, "playerHP")
<1>0. {"roundNum", "initCoin", "playerHP", "playerSpeed", "playerJump"} \subseteq IndexNames
  BY DEF IndexNames
<1>a. /\ FieldOf(c, "roundNum") \in Nat /\ FieldOf(c, "initCoin") \in Nat /\ hp \in Nat
      /\ FieldOf(c, "playerSpeed") \in Nat /\ FieldOf(c, "playerJump") \in Nat
  BY <1>0, FieldNat
<1>1. /\ p.roundCount = IF coined THEN Len(c.rounds) ELSE Resolve(RoundTable, FieldOf(c, "roundNum"))
      /\ p.economy = IF coined THEN coins ELSE Resolve(CoinTable, FieldOf(c, "initCoin"))
      /\ coined => p.economy \in Seq(Nat) /\ p.economy # <<>> /\ Len(c.rounds) \in 1 .. 2
      /\ p.maxHP = Resolve(HPTable, hp)
      /\ p.speed = Resolve(SpeedTable, FieldOf(c, "playerSpeed"))
      /\ p.jump = Resolve(JumpTable, FieldOf(c, "playerJump"))
  BY PayloadIs
<1>2. /\ r.maxRound = Or(p.roundCount, 7) /\ r.roundsToWin = RoundsToWin(p)
      /\ r.economy = Or(p.economy, CoinTable[1]) /\ r.maxHP = Or(p.maxHP, 200)
      /\ r.speed = Scale(p.speed) /\ r.jump = Scale(p.jump) /\ r.shop = p.shop /\ r.events = EventsOf(p)
  BY DEF LoadMatchSettings
<1>3. r.noLoadout <=> "noLoadout" \in p.flags
  BY DEF LoadMatchSettings
<1>4. r.unlimitedAmmo <=> "unlimitedAmmo" \in p.flags
  BY DEF LoadMatchSettings
<1> HIDE DEF p, r, coined, coins, hp
<1>5. Unset \notin Nat /\ Unset \notin Seq(Nat)
  BY UnsetAssumption
<1>6. p.roundCount \in {Unset, 7, 13, 11, 1, 2}
  <2>1. CASE coined
    <3>1. Len(c.rounds) = 1 \/ Len(c.rounds) = 2
      BY <1>1, <2>1
    <3> QED
      BY <1>1, <2>1, <3>1
  <2>2. CASE ~ coined
    <3>1. p.roundCount \in {Unset, 7, 13, 11}
      BY <1>1, <1>a, <2>2, Tables
    <3> QED
      BY <3>1
  <2> QED
    BY <2>1, <2>2
<1>7. r.maxRound \in 1 .. 255 /\ r.roundsToWin \in 0 .. 128 /\ HalfWins(r)
  BY <1>2, <1>5, <1>6 DEF Or, RoundsToWin, HalfWins
<1>8. r.maxHP = (IF hp \in 1 .. 4 THEN HPTable[hp] ELSE 200) /\ r.maxHP \in {200, 500, 50, 1}
  <2>1. p.maxHP = (IF hp \in 1 .. 4 THEN HPTable[hp] ELSE Unset) /\ p.maxHP \in {Unset, 200, 500, 50, 1}
    BY <1>1, <1>a, Tables
  <2>2. hp \in 1 .. 4 => HPTable[hp] \in Nat
    BY DEF HPTable
  <2> QED
    BY <1>2, <1>5, <2>1, <2>2 DEF Or
<1>9. r.speed \in {0, 50, 125, 200}
  <2>1. p.speed \in {Unset, 50, 100, 125, 200}
    BY <1>1, <1>a, Tables
  <2> QED
    BY <1>2, <1>5, <2>1 DEF Scale
<1>10. r.jump \in {0, 200, 400}
  <2>1. p.jump \in {Unset, 100, 200, 400}
    BY <1>1, <1>a, Tables
  <2> QED
    BY <1>2, <1>5, <2>1 DEF Scale
<1>11. /\ r.economy = IF coined THEN coins ELSE IF FieldOf(c, "initCoin") = 2 THEN CoinTable[2] ELSE CoinTable[1]
       /\ r.economy # <<>>
  <2>1. CASE coined
    <3>1. p.economy = coins /\ p.economy # Unset /\ p.economy # <<>>
      BY <1>1, <1>5, <2>1
    <3> QED
      BY <1>2, <2>1, <3>1 DEF Or
  <2>2. CASE ~ coined
    <3>1. p.economy = (IF FieldOf(c, "initCoin") = 1 THEN CoinTable[1]
                       ELSE IF FieldOf(c, "initCoin") = 2 THEN CoinTable[2] ELSE Unset)
      BY <1>1, <1>a, <2>2, Tables
    <3>2. r.economy = IF p.economy = Unset THEN CoinTable[1] ELSE p.economy
      BY <1>2 DEF Or
    <3>3. CASE FieldOf(c, "initCoin") = 2
      <4>1. r.economy = CoinTable[2]
        BY <3>1, <3>2, <3>3, CoinTableOK
      <4> QED
        BY <2>2, <3>3, <4>1, CoinTableOK
    <3>4. CASE FieldOf(c, "initCoin") # 2
      <4>1. r.economy = CoinTable[1]
        BY <3>1, <3>2, <3>4, CoinTableOK
      <4> QED
        BY <2>2, <3>4, <4>1, CoinTableOK
    <3> QED
      BY <3>3, <3>4
  <2> QED
    BY <2>1, <2>2
<1>12. DOMAIN r.events = Events
  <2>1. DOMAIN DefaultEvents = Events
    BY DEF DefaultEvents
  <2>2. CASE DOMAIN p.events = {}
    BY <1>2, <2>1, <2>2 DEF EventsOf
  <2>3. CASE DOMAIN p.events # {}
    BY <1>2, <2>3 DEF EventsOf
  <2> QED
    BY <2>2, <2>3
<1>13. RulesType(r)
  <2>1. {r.speed, r.jump} \subseteq {0, 50, 125, 200, 400}
    BY <1>9, <1>10
  <2> QED
    BY <1>7, <1>8, <1>11, <1>12, <2>1 DEF RulesType
<1> QED
  BY <1>2, <1>3, <1>4, <1>7, <1>8, <1>11, <1>13 DEF p, r, coined, coins, hp

\* The shop and the events that the match server reads.
LEMMA ShopAndEvents ==
    ASSUME NEW c, ChosenOK(c)
    PROVE  LET p == Payload(Room(c)) IN
           /\ p.shop # {} => BlobTaken(c) /\ GoodsOf(p.shop, c.store)
           /\ BlobTaken(c) => \A e \in ToSet(c.eco) : e[1] \in Events => EventsOf(p)[e[1]] = 50 * e[2]
<1> DEFINE p == Payload(Room(c))  o == Overlay(Room(c))  b == Blob(c.store, c.eco, c.rounds)
<1>1. p.shop = o.shop /\ p.events = o.events
  BY PayloadIs
<1>2. o = IF BlobTaken(c) THEN DecodeAdvanced(b) ELSE NoOverlay
  BY OverlayIs
<1>3. /\ BlobOK(c.store, c.eco, c.rounds) /\ BlobLaid(b, c.store, c.eco, c.rounds)
      /\ \A i, j \in 1 .. Len(c.eco) : c.eco[i][1] = c.eco[j][1] => i = j
  BY PartsOK
<1>4. GoodsOf(DecodeAdvanced(b).shop, c.store) /\ EventsOfBlob(DecodeAdvanced(b).events, c.eco)
  BY <1>3, GoodsRead, EventsRead
<1> HIDE DEF p, o, b
<1>5. p.shop # {} => BlobTaken(c) /\ GoodsOf(p.shop, c.store)
  <2>1. CASE BlobTaken(c)
    BY <1>1, <1>2, <1>4, <2>1
  <2>2. CASE ~ BlobTaken(c)
    BY <1>1, <1>2, <2>2 DEF NoOverlay
  <2> QED
    BY <2>1, <2>2
<1>6. ASSUME BlobTaken(c), NEW e \in ToSet(c.eco), e[1] \in Events PROVE EventsOf(p)[e[1]] = 50 * e[2]
  <2>1. EventsOfBlob(p.events, c.eco)
    BY <1>1, <1>2, <1>4, <1>6
  <2>2. PICK i \in 1 .. Len(c.eco) : e = c.eco[i]
    BY <1>3, LenProperties DEF ToSet, BlobOK
  <2>3. e[1] \in DOMAIN p.events /\ p.events[e[1]] = 50 * e[2]
    BY <1>6, <2>1, <2>2 DEF EventsOfBlob
  <2>4. EventsOf(p) = [x \in Events |-> IF x \in DOMAIN p.events THEN p.events[x] ELSE 0]
    BY <2>3 DEF EventsOf
  <2> QED
    BY <1>6, <2>3, <2>4
<1> QED
  BY <1>5, <1>6 DEF p

\* A blob that was not taken is as none.
LEMMA IgnoredAsNone ==
    ASSUME NEW c, ChosenOK(c), ~ BlobTaken(c)
    PROVE  Payload(Room(c)) = Payload([Room(c) EXCEPT !.advanced = FALSE])
<1> DEFINE q == [Room(c) EXCEPT !.advanced = FALSE]  o == Overlay(Room(c))
<1>1. o = NoOverlay
  BY OverlayIs
<1>2. q.advanced = FALSE /\ q.words = Room(c).words
  BY DEF Room
<1> HIDE DEF q
<1>3. Overlay(q) = NoOverlay
  BY <1>2 DEF Overlay
<1>4. Payload(Room(c)) = Payload(q)
  BY <1>1, <1>2, <1>3, Zenon DEF Payload
<1> QED
  BY <1>4 DEF q

-----------------------------------------------------------------------------
(* The settings' theorem.                                                  *)

\* The host's choice is one that a client packs; what is written is its payload, and what is played
\* by is read of it, or the defaults if the match began before it was written.
SettingsInv ==
    /\ ChosenOK(chosen)
    /\ payload = NotYet \/ payload = Payload(Room(chosen))
    /\ \/ rules = NotYet
       \/ payload = NotYet /\ rules = DefaultRules
       \/ payload = Payload(Room(chosen)) /\ rules = LoadMatchSettings(payload)

LEMMA SettingsStart == SettingsInit => SettingsInv
<1> SUFFICES ASSUME SettingsInit PROVE SettingsInv
  OBVIOUS
<1>1. payload = NotYet /\ rules = NotYet
  BY DEF SettingsInit
<1>2. <<>> \in Stores /\ <<>> \in Ecos /\ <<>> \in Rounds
  <2>1. <<>> \in Stores
    BY DEF Stores
  <2>2. <<>> \in Ecos
    BY DEF Ecos
  <2>3. <<>> \in Rounds
    BY DEF Rounds
  <2> QED
    BY <2>1, <2>2, <2>3
<1>3. ASSUME NEW f, NEW adv \in BOOLEAN, NEW s \in Stores, NEW e \in Ecos, NEW r \in Rounds, NEW n,
             FieldsOK(f), n = 0 \/ n = Len(Blob(s, e, r)),
             chosen = [fields |-> f, advanced |-> adv, store |-> s, eco |-> e, rounds |-> r, arrived |-> n]
      PROVE  ChosenOK(chosen)
  <2>1. Len(Blob(s, e, r)) \in Nat
    <3>1. /\ s \in Seq(Seq(Nat)) /\ \A i \in 1 .. Len(s) : Len(s[i]) = 2
      BY StoresOK
    <3>2. /\ e \in Seq(Seq(Nat)) /\ \A i \in 1 .. Len(e) : Len(e[i]) = 2
      BY EcosOK
    <3>3. /\ r \in Seq(Seq(Nat)) /\ \A i \in 1 .. Len(r) : Len(r[i]) = 4
      BY RoundsOK
    <3>4. BlobLaid(Blob(s, e, r), s, e, r)
      BY <3>1, <3>2, <3>3, BlobIsLaid DEF BlobOK
    <3> QED
      BY <3>4, LenProperties DEF BlobLaid
  <2> DEFINE z == Len(Blob(s, e, r))
  <2>2. Size(chosen) = z
    BY <1>3 DEF Size
  <2> HIDE DEF z
  <2>3. chosen.arrived \in 0 .. Size(chosen)
    BY <1>3, <2>1, <2>2 DEF z
  <2> QED
    BY <1>3, <2>3 DEF ChosenOK
<1>4. CASE \E f \in FieldPairs : chosen = [fields |-> f, advanced |-> FALSE, store |-> <<>>, eco |-> <<>>,
                                           rounds |-> <<>>, arrived |-> 0]
  <2>1. PICK f \in FieldPairs : chosen = [fields |-> f, advanced |-> FALSE, store |-> <<>>, eco |-> <<>>,
                                          rounds |-> <<>>, arrived |-> 0]
    BY <1>4
  <2>2. FieldsOK(f)
    BY PairsOK
  <2> QED
    BY <1>1, <1>2, <1>3, <2>1, <2>2 DEF SettingsInv
<1>5. CASE \E adv \in BOOLEAN, s \in Stores, e \in Ecos, r \in Rounds :
              chosen = [fields |-> [roundNum |-> 2, initCoin |-> 2], advanced |-> adv, store |-> s, eco |-> e,
                        rounds |-> r, arrived |-> Len(Blob(s, e, r))]
  <2> DEFINE f == [roundNum |-> 2, initCoin |-> 2]
  <2>1. FieldsOK(f)
    BY TwoOK
  <2>2. PICK adv \in BOOLEAN, s \in Stores, e \in Ecos, r \in Rounds :
              chosen = [fields |-> f, advanced |-> adv, store |-> s, eco |-> e,
                        rounds |-> r, arrived |-> Len(Blob(s, e, r))]
    BY <1>5
  <2> HIDE DEF f
  <2>3. ChosenOK(chosen)
    BY <1>3, <2>1, <2>2
  <2> QED
    BY <1>1, <2>3 DEF SettingsInv
<1>6. \/ \E f \in FieldPairs : chosen = [fields |-> f, advanced |-> FALSE, store |-> <<>>, eco |-> <<>>,
                                         rounds |-> <<>>, arrived |-> 0]
      \/ \E adv \in BOOLEAN, s \in Stores, e \in Ecos, r \in Rounds :
              chosen = [fields |-> [roundNum |-> 2, initCoin |-> 2], advanced |-> adv, store |-> s, eco |-> e,
                        rounds |-> r, arrived |-> Len(Blob(s, e, r))]
  BY Zenon DEF SettingsInit
<1> QED
  BY <1>4, <1>5, <1>6

LEMMA SettingsStep == SettingsInv /\ [SettingsNext]_settingsVars => SettingsInv'
<1> SUFFICES ASSUME SettingsInv, [SettingsNext]_settingsVars PROVE SettingsInv'
  OBVIOUS
<1>1. CASE CutBlob
  <2>1. payload = NotYet /\ rules = NotYet /\ payload' = NotYet /\ rules' = NotYet
    BY <1>1 DEF CutBlob
  <2>2. PICK n \in 0 .. Size(chosen) - 1 : chosen' = [chosen EXCEPT !.arrived = n]
    BY <1>1 DEF CutBlob
  <2>3. ChosenOK(chosen)
    BY DEF SettingsInv
  <2>4. Size(chosen) \in Nat
    BY <2>3, PartsOK
  <2>5. /\ chosen' = [fields |-> chosen.fields, advanced |-> chosen.advanced, store |-> chosen.store,
                      eco |-> chosen.eco, rounds |-> chosen.rounds, arrived |-> n]
    BY <2>2, <2>3 DEF ChosenOK
  <2>6. Size(chosen') = Size(chosen)
    BY <2>5 DEF Size
  <2>7. ChosenOK(chosen')
    <3>1. n \in 0 .. Size(chosen')
      BY <2>4, <2>6
    <3> QED
      BY <2>3, <2>5, <3>1 DEF ChosenOK
  <2> QED
    BY <2>1, <2>7 DEF SettingsInv
<1>2. CASE WritePayload
  BY <1>2 DEF WritePayload, SettingsInv
<1>3. CASE FirstJoin
  <2>1. rules = NotYet /\ chosen' = chosen /\ payload' = payload
    BY <1>3 DEF FirstJoin
  <2>2. rules' = IF payload = NotYet THEN DefaultRules ELSE LoadMatchSettings(payload)
    BY <1>3 DEF FirstJoin
  <2> QED
    BY <2>1, <2>2 DEF SettingsInv
<1>4. CASE UNCHANGED settingsVars
  BY <1>4 DEF settingsVars, SettingsInv
<1> QED
  BY <1>1, <1>2, <1>3, <1>4 DEF SettingsNext

LEMMA SettingsAre == SettingsInv => SettingsTypeOK /\ RulesAsChosen /\ CutBlobIgnored /\ WonByHalf
<1> SUFFICES ASSUME SettingsInv PROVE SettingsTypeOK /\ RulesAsChosen /\ CutBlobIgnored /\ WonByHalf
  OBVIOUS
<1> DEFINE p == Payload(Room(chosen))  r == LoadMatchSettings(p)
<1>1. ChosenOK(chosen)
  BY DEF SettingsInv
<1>2. /\ payload = NotYet \/ payload = p
      /\ rules = NotYet \/ (payload = NotYet /\ rules = DefaultRules) \/ (payload = p /\ rules = r)
  BY DEF SettingsInv
<1>3. Taken <=> BlobTaken(chosen)
  BY DEF Taken, BlobTaken
<1>4. \A f : Field(f) = FieldOf(chosen, f)
  BY DEF Field, FieldOf
<1>5. RulesType(DefaultRules) /\ HalfWins(DefaultRules) /\ RulesType(r) /\ HalfWins(r)
  BY <1>1, DefaultsOK, RulesLoaded
<1>6. p # NotYet
  BY WrittenDiffers
<1>7. SettingsTypeOK
  <2>1. rules # NotYet => RulesType(rules)
    <3> HIDE DEF p, r
    <3> QED
      BY <1>2, <1>5
  <2> QED
    BY <2>1 DEF SettingsTypeOK, RulesType
<1>8. WonByHalf
  <2>1. rules # NotYet => HalfWins(rules)
    <3> HIDE DEF p, r
    <3> QED
      BY <1>2, <1>5
  <2> QED
    BY <2>1 DEF WonByHalf, HalfWins
<1>9. CutBlobIgnored
  <2>1. ASSUME payload # NotYet, ~ Taken PROVE payload = Payload([Room(chosen) EXCEPT !.advanced = FALSE])
    <3>1. payload = p
      BY <1>2, <2>1
    <3>2. p = Payload([Room(chosen) EXCEPT !.advanced = FALSE])
      BY <1>1, <1>3, <2>1, IgnoredAsNone
    <3> QED
      BY <3>1, <3>2, Zenon
  <2> QED
    BY <2>1 DEF CutBlobIgnored
<1>10. RulesAsChosen
  <2> SUFFICES ASSUME rules # NotYet, payload # NotYet PROVE RulesAsChosen
    BY DEF RulesAsChosen
  <2>1. payload = p /\ rules = r
    <3> HIDE DEF p, r
    <3> QED
      BY <1>2
  <2>2. /\ r.maxHP = (IF FieldOf(chosen, "playerHP") \in 1 .. 4 THEN HPTable[FieldOf(chosen, "playerHP")] ELSE 200)
        /\ r.economy = IF BlobTaken(chosen) /\ chosen.rounds # <<>> THEN [i \in DOMAIN chosen.rounds |-> Coins(chosen.rounds[i])]
                       ELSE IF FieldOf(chosen, "initCoin") = 2 THEN CoinTable[2] ELSE CoinTable[1]
        /\ r.noLoadout <=> "noLoadout" \in p.flags
        /\ r.unlimitedAmmo <=> "unlimitedAmmo" \in p.flags
        /\ r.shop = p.shop /\ r.events = EventsOf(p)
    BY <1>1, RulesLoaded
  <2>3. p.flags = {f \in DOMAIN Flags : FieldOf(chosen, f) = 1}
    BY <1>1, PayloadIs
  <2>4. /\ p.shop # {} => BlobTaken(chosen) /\ GoodsOf(p.shop, chosen.store)
        /\ BlobTaken(chosen) => \A e \in ToSet(chosen.eco) : e[1] \in Events => EventsOf(p)[e[1]] = 50 * e[2]
    BY <1>1, ShopAndEvents
  <2>5. "noLoadout" \in DOMAIN Flags /\ "unlimitedAmmo" \in DOMAIN Flags
    BY DEF Flags
  <2> HIDE DEF p, r
  <2>6. rules.maxHP = (IF Field("playerHP") \in 1 .. 4 THEN HPTable[Field("playerHP")] ELSE 200)
    BY <1>4, <2>1, <2>2
  <2>7. (rules.noLoadout <=> Field("noLoadout") = 1) /\ (rules.unlimitedAmmo <=> Field("unlimitedAmmo") = 1)
    BY <1>4, <2>1, <2>2, <2>3, <2>5
  <2>8. payload.flags = {f \in DOMAIN Flags : Field(f) = 1}
    BY <1>4, <2>1, <2>3
  <2>9. rules.economy = IF Taken /\ chosen.rounds # <<>> THEN [i \in DOMAIN chosen.rounds |-> Coins(chosen.rounds[i])]
                        ELSE IF Field("initCoin") = 2 THEN CoinTable[2] ELSE CoinTable[1]
    BY <1>3, <1>4, <2>1, <2>2
  <2>10. ASSUME rules.shop # {}
         PROVE  /\ Taken
                /\ {s.item : s \in rules.shop} \cap Quarantine = {}
                /\ \A s \in rules.shop : /\ s.slot # "none"
                                         /\ \E c \in ToSet(chosen.store) : ShopRows[c[1]][1] = s.item /\ s.price = 50 * c[2]
    <3>1. rules.shop = p.shop
      BY <2>1, <2>2
    <3>2. Taken /\ GoodsOf(rules.shop, chosen.store)
      BY <1>3, <2>4, <2>10, <3>1
    <3> QED
      BY <3>2 DEF GoodsOf
  <2>11. Taken => \A e \in ToSet(chosen.eco) : e[1] \in Events => rules.events[e[1]] = 50 * e[2]
    BY <1>3, <2>1, <2>2, <2>4
  <2> QED
    BY <2>6, <2>7, <2>8, <2>9, <2>10, <2>11 DEF RulesAsChosen
<1> QED
  BY <1>7, <1>8, <1>9, <1>10

\* A match is played by the rules that its host chose, or by the defaults: a payload says what was
\* chosen, bit by bit and part by part, one that was cut as if it had not been sent, and half of the
\* rounds win.
THEOREM SettingsHold ==
    SettingsInit /\ [][SettingsNext]_settingsVars
        => [](SettingsTypeOK /\ RulesAsChosen /\ CutBlobIgnored /\ WonByHalf)
<1>1. SettingsInit => SettingsInv
  BY SettingsStart
<1>2. SettingsInv /\ [SettingsNext]_settingsVars => SettingsInv'
  BY SettingsStep
<1>3. SettingsInv => SettingsTypeOK /\ RulesAsChosen /\ CutBlobIgnored /\ WonByHalf
  BY SettingsAre
<1> QED
  BY <1>1, <1>2, <1>3, PTL
=============================================================================
