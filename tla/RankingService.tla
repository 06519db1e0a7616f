--------------------------- MODULE RankingService ---------------------------
(***************************************************************************)
(* Rankings (src/services/rankingService.js and the leaderboard handlers): *)
(* matches recorded into the players' documents, tiers, and the boards     *)
(* that are sorted and cut into pages from all documents at each request.  *)
(*                                                                         *)
(* Deaths, damage, ratios and names are left out.  The accounts are rows   *)
(* read in the order of their ids, one process and one synchronous store.  *)
(***************************************************************************)
EXTENDS Integers, Sequences, FiniteSets, SequencesExt

CONSTANTS Players, Seeded, Regions, KillCounts, MaxMatches

ASSUME RankingAssumption ==
    /\ Players \subseteq Nat \ {0} /\ IsFiniteSet(Players) /\ Seeded \subseteq Players
    /\ Regions # {} /\ "GLOBAL" \notin Regions
    /\ KillCounts \subseteq Nat /\ MaxMatches \in Nat

VARIABLES profile, best, matches

\* profile[p]: region, level and, for each mode, points, rank, max_rank, kills, wins, games.
\* best[p]: the highest tier recordMatchResult has stored for p in each mode (history).
rankingVars == <<profile, best, matches>>

Modes == {"bermuda", "clash_squad"}
Metrics == {"score", "kills", "wins"}

\* Points at which tiers 2 .. 7 begin; tier 1 has no lower end.
Thresholds == [bermuda |-> <<1300, 1600, 2100, 2600, 3200, 4000>>,
               clash_squad |-> <<5, 10, 20, 30, 50, 80>>]

Floor == [bermuda |-> 1000, clash_squad |-> 0]

\* calculateBermudaTier, calculateCSTier.
Tier(mode, points) == 1 + Cardinality({i \in 1 .. 6 : points >= Thresholds[mode][i]})

Stat(mode, points, kills, wins, games, maxRank) ==
    [points |-> points, rank |-> Tier(mode, points), maxRank |-> maxRank,
     kills |-> kills, wins |-> wins, games |-> games]

\* The default document, and a seeded one: its max_rank is not set.
NewProfile(region, level) ==
    [region |-> region, level |-> level,
     bermuda |-> Stat("bermuda", 1000, 0, 0, 0, 1), clash_squad |-> Stat("clash_squad", 0, 0, 0, 0, 1)]

SeedProfile(region) ==
    [region |-> region, level |-> 98,
     bermuda |-> Stat("bermuda", 3990, 20, 3, 6, 0), clash_squad |-> Stat("clash_squad", 79, 30, 4, 5, 0)]

RankingInit ==
    /\ \E home \in [Players -> Regions] :
           profile = [p \in Players |-> IF p \in Seeded THEN SeedProfile(home[p])
                                        ELSE NewProfile(home[p], 100)]
    /\ best = [p \in Players |-> [mode \in Modes |-> 1]]
    /\ matches = 0

Larger(a, b) == IF a > b THEN a ELSE b

\* What a match is worth.
Delta(mode, kills, win) ==
    IF mode = "clash_squad" THEN IF win THEN 1 ELSE -1
    ELSE IF win THEN 30 + 3 * kills ELSE Larger(-25, -15 + 2 * kills)

\* Mutant: max_rank is the rank of the last match.
RecordedLast(mode, s, kills, win, delta) ==
    LET points == Larger(Floor[mode], s.points + delta) IN
    Stat(mode, points, s.kills + kills, s.wins + (IF win THEN 1 ELSE 0), s.games + 1,
         Tier(mode, points))

Recorded(mode, s, kills, win, delta) ==
    LET points == Larger(Floor[mode], s.points + delta) IN
    Stat(mode, points, s.kills + kills, s.wins + (IF win THEN 1 ELSE 0), s.games + 1,
         Larger(Larger(s.maxRank, 1), Tier(mode, points)))

\* recordMatchResult; an operator may give the points.
RecordMatchResult(p, mode, kills, win, given) ==
    /\ matches < MaxMatches /\ matches' = matches + 1
    /\ LET delta == IF given = 0 THEN Delta(mode, kills, win) ELSE given
           stat == Recorded(mode, profile[p][mode], kills, win, delta) IN
           /\ profile' = [profile EXCEPT ![p][mode] = stat]
           /\ best' = [best EXCEPT ![p][mode] = Larger(@, stat.rank)]

RankingNext ==
    \E p \in Players, mode \in Modes, kills \in KillCounts, win \in BOOLEAN, given \in {0, 650, -700} :
        RecordMatchResult(p, mode, kills, win, given)

RankingSpec == RankingInit /\ [][RankingNext]_rankingVars

-----------------------------------------------------------------------------
(* The boards.                                                             *)

Value(p, mode, metric) ==
    CASE metric = "score" -> profile[p][mode].points
      [] metric = "kills" -> profile[p][mode].kills
      [] metric = "wins" -> profile[p][mode].wins

\* What getRankings compares, the first difference first.
Keys(p, mode, metric) ==
    <<Value(p, mode, metric)>>
        \o (IF metric = "kills" THEN <<>> ELSE <<profile[p][mode].kills>>)
        \o (IF metric = "wins" THEN <<>> ELSE <<profile[p][mode].wins>>)
        \o <<profile[p].level>>

\* Mutant: the comparison is turned round.
Behind(p, q, mode, metric) ==
    LET a == Keys(p, mode, metric)  b == Keys(q, mode, metric) IN
    \/ \E i \in DOMAIN a : a[i] < b[i] /\ \A j \in 1 .. i - 1 : a[j] = b[j]
    \/ a = b /\ p < q

\* p stands before q; a stable sort leaves equal rows in the order of their ids.
Before(p, q, mode, metric) ==
    LET a == Keys(p, mode, metric)  b == Keys(q, mode, metric) IN
    \/ \E i \in DOMAIN a : a[i] > b[i] /\ \A j \in 1 .. i - 1 : a[j] = b[j]
    \/ a = b /\ p < q

InRegion(region) == {p \in Players : region = "GLOBAL" \/ profile[p].region = region}

\* The rows of the region, sorted.
AllRanked(mode, metric, region) ==
    CHOOSE ranked \in SetToSeqs(InRegion(region)) :
        \A i, j \in DOMAIN ranked : i < j => Before(ranked[i], ranked[j], mode, metric)

\* getRankings: one page.
Page(ranked, page, limit) ==
    LET start == (page - 1) * limit
        end == start + limit IN
    SubSeq(ranked, start + 1, IF end < Len(ranked) THEN end ELSE Len(ranked))

TotalPages(ranked, limit) == (Len(ranked) + limit - 1) \div limit

\* The score of an item of buildAccountLeaderboardRes: Number(p[metric] || p.score || 0).
ShownScore(p, mode, metric) ==
    IF Value(p, mode, metric) # 0 THEN Value(p, mode, metric) ELSE profile[p][mode].points

-----------------------------------------------------------------------------
\* The type invariant.
RankingTypeOK ==
    /\ \A p \in Players : /\ profile[p].region \in Regions /\ profile[p].level \in Nat
                          /\ \A mode \in Modes : best[p][mode] \in 1 .. 7
    /\ matches \in 0 .. MaxMatches

\* Stored records stay true to each other over any matches: points keep to their floor, the
\* stored rank is the tier shown on the board, max_rank the best tier stored so far, wins
\* are games (recordMatchResult writes what getAllPlayerProfiles computes again).
RecordsAgree ==
    \A p \in Players, mode \in Modes :
        LET s == profile[p][mode] IN
        /\ s.points >= Floor[mode] /\ s.wins <= s.games
        /\ \A i \in 1 .. 6 : s.rank > i <=> s.points >= Thresholds[mode][i]
        /\ s.maxRank # 0 => s.maxRank = best[p][mode]

\* The pages of every board, one after the other, are its players once each, best first,
\* whatever the page size (getRankings).
BoardsSound ==
    \A mode \in Modes, metric \in Metrics, region \in Regions \cup {"GLOBAL"} :
        LET ranked == AllRanked(mode, metric, region) IN
        /\ \A i, j \in DOMAIN ranked :
               i < j => Value(ranked[i], mode, metric) >= Value(ranked[j], mode, metric)
        /\ \A limit \in 1 .. Cardinality(Players) :
               LET pages == [n \in 1 .. TotalPages(ranked, limit) |-> Page(ranked, n, limit)] IN
               FlattenSeq(pages) = ranked

\* A board shows its scores in descending order (getRankings: "Sort descending by target
\* mode and metric"), as the items of buildAccountLeaderboardRes carry them.
ShownInOrder ==
    \A mode \in Modes, metric \in Metrics :
        LET ranked == AllRanked(mode, metric, "GLOBAL") IN
        \A i, j \in DOMAIN ranked :
            i < j => ShownScore(ranked[i], mode, metric) >= ShownScore(ranked[j], mode, metric)
=============================================================================
