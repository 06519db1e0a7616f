---------------------------- MODULE MatchCoins ----------------------------
(***************************************************************************)
(* The coins of a Contra Squad match (match-server: economy.go, endFight   *)
(* of match.go, creditDeath of deathmatch.go, the charge of purchase.go).  *)
(*                                                                         *)
(* Coins are a running balance.  The end of a fight pays every player the  *)
(* income of the round, the kills since the last one, a win or a loss that *)
(* grows with the team's streak, and the first blood.  Kills are credited  *)
(* when somebody dies, to whoever shot him down, and that can be seconds   *)
(* later: also after the fight is over, for the next one to pay.           *)
(*                                                                         *)
(* How players fall is CsMatch; here it is who falls, by whom, and when a  *)
(* knock becomes a death (0 is the zone).  Sums are in hundreds.  Bounds:  *)
(* MaxRound rounds, Shooters shoot, MaxBuys purchases of ItemPrices by         *)
(* Spenders.                                                               *)
(***************************************************************************)
EXTENDS Integers, Sequences, SequencesExt, FiniteSets

CONSTANTS Rivals, Reds, Shooters, Spenders, ItemPrices, MaxBuys, RoundsToWin, MaxRound

ASSUME MatchCoinsAssumption ==
    /\ Reds \cup Spenders \subseteq Rivals /\ 0 \notin Rivals /\ Shooters \subseteq Rivals \cup {0}
    /\ IsFiniteSet(Rivals) /\ ItemPrices \subseteq Nat
    /\ {MaxBuys, RoundsToWin} \subseteq Nat /\ MaxRound \in Nat \ {0}

VARIABLES
    coins, award,              \* player -> the balance, what the last round paid
    roundKills, firstBlood,    \* kills not yet paid, who drew first blood or 0
    lossStreak, score,         \* team -> rounds lost in a row, rounds won
    cut,                       \* player -> "alive", "knocked" or "dead", and by whom knocked
    round, stage,              \* stage: "fight", "banner" or "ended"
    buys,                      \* the prices that were paid, and by whom
    deaths,                    \* who killed whom since the last payment, in order
    story,                     \* who won the rounds that were paid
    owed                       \* player -> what these rounds earned, told from story and deaths

coinVars == <<coins, award, roundKills, firstBlood, lossStreak, score, cut, round, stage,
              buys, deaths, story, owed>>
played == <<lossStreak, score, round, stage, story, award, owed>>

TeamIn(p) == IF p \in Reds THEN 1 ELSE 2
SideOf(t) == {p \in Rivals : TeamIn(p) = t}
Standing(t) == {p \in SideOf(t) : cut[p].is = "alive"}
Alive == [is |-> "alive", by |-> 0]
Dead == [is |-> "dead", by |-> 0]

CsRoundBaseCoins == <<5, 9, 11, 17, 21, 24, 30>>
Events == [winRound |-> 5, lossRound |-> 2, perKill |-> 2, lossStreak2 |-> 9,
           lossStreak3 |-> 15, firstBlood |-> 1]

\* csRoundIncome: the table's first entry is the start.
CsRoundIncome(r) ==
    IF r >= Len(CsRoundBaseCoins) THEN Last(CsRoundBaseCoins) ELSE CsRoundBaseCoins[r + 1]

LossBonus(streak) ==
    Events.lossRound + (CASE streak >= 3 -> Events.lossStreak3
                          [] streak = 2 -> Events.lossStreak2
                          [] OTHER -> 0)

\* The last rounds that a team lost in a row.
LostInARow(wins, t) ==
    Cardinality({i \in DOMAIN wins : \A j \in i..Len(wins) : wins[j] # t})

KillsOf(ds, p) == Cardinality({i \in DOMAIN ds : ds[i].killer = p /\ TeamIn(ds[i].victim) # TeamIn(p)})

DrewFirstBlood(ds, p) ==
    \E i \in DOMAIN ds :
        /\ ds[i].killer = p /\ TeamIn(ds[i].victim) # TeamIn(p)
        /\ \A j \in 1..(i - 1) : ds[j].killer = 0 \/ TeamIn(ds[j].victim) = TeamIn(ds[j].killer)

\* What the last of these rounds earned a player, told from its deaths alone.
Earned(p, wins, ds) ==
    CsRoundIncome(Len(wins)) + 2 * KillsOf(ds, p)
    + (IF DrewFirstBlood(ds, p) THEN 1 ELSE 0)
    + (CASE LostInARow(wins, TeamIn(p)) = 0 -> 5
         [] LostInARow(wins, TeamIn(p)) = 1 -> 2
         [] LostInARow(wins, TeamIn(p)) = 2 -> 11
         [] OTHER -> 17)

-----------------------------------------------------------------------------
\* handleCSPurchase: a price the balance does not cover is refused.
PurchaseCharged(p) ==
    /\ \E price \in ItemPrices :
          /\ coins[p] >= price
          /\ coins' = [coins EXCEPT ![p] = @ - price]
          /\ buys' = Append(buys, [by |-> p, price |-> price])
    /\ Len(buys) < MaxBuys
    /\ UNCHANGED <<roundKills, firstBlood, cut, deaths, played>>

\* Mutant: whoever dies of the zone or of a teammate is a kill too.
CreditAnybody(ds) ==
    LET paid == {i \in DOMAIN ds : ds[i].killer # 0}
    IN  /\ deaths' = deaths \o ds
        /\ roundKills' = [p \in Rivals |-> roundKills[p] + Cardinality({i \in paid : ds[i].killer = p})]
        /\ firstBlood' = IF firstBlood = 0 /\ paid # {} THEN ds[Min(paid)].killer ELSE firstBlood

\* creditDeath, for deaths in this order: only a kill across the teams counts.
CreditDeaths(ds) ==
    LET paid == {i \in DOMAIN ds : ds[i].killer # 0 /\ TeamIn(ds[i].killer) # TeamIn(ds[i].victim)}
    IN  /\ deaths' = deaths \o ds
        /\ roundKills' = [p \in Rivals |-> roundKills[p] + Cardinality({i \in paid : ds[i].killer = p})]
        /\ firstBlood' = IF firstBlood = 0 /\ paid # {} THEN ds[Min(paid)].killer ELSE firstBlood

\* downOrKill: knocked while a teammate stands; the last of a team takes the knocked along.
Fall(p, killer) ==
    /\ stage = "fight" /\ cut[p].is = "alive"
    /\ LET side == SideOf(TeamIn(p))
           down == {q \in side : cut[q].is = "knocked"}
           others == Standing(TeamIn(p)) \ {p}
       IN  IF others # {}
             THEN /\ cut' = [cut EXCEPT ![p] = [is |-> "knocked", by |-> killer]]
                  /\ UNCHANGED <<roundKills, firstBlood, deaths>>
             ELSE \E order \in SetToSeqs(down \cup {p}) :
                     /\ cut' = [q \in Rivals |-> IF q \in down \cup {p} THEN Dead ELSE cut[q]]
                     /\ CreditDeaths([i \in DOMAIN order |->
                            [victim |-> order[i],
                             killer |-> IF order[i] = p THEN killer ELSE cut[order[i]].by]])
    /\ UNCHANGED <<coins, buys, played>>

\* finalizeKnock, of a bleed-out or a finish: the knocker is credited, whatever the stage.
BleedOut(p) ==
    /\ stage # "ended" /\ cut[p].is = "knocked"
    /\ cut' = [cut EXCEPT ![p] = Dead]
    /\ CreditDeaths(<<[victim |-> p, killer |-> cut[p].by]>>)
    /\ UNCHANGED <<coins, buys, played>>

\* Mutant: the ladder pays the streak before this round.
AwardBefore(p, winner) ==
    CsRoundIncome(round) + Events.perKill * roundKills[p]
    + (IF TeamIn(p) = winner THEN Events.winRound ELSE LossBonus(lossStreak[TeamIn(p)]))
    + (IF p = firstBlood THEN Events.firstBlood ELSE 0)

\* What endFight pays a player.
RoundAward(p, winner) ==
    CsRoundIncome(round) + Events.perKill * roundKills[p]
    + (IF TeamIn(p) = winner THEN Events.winRound ELSE LossBonus(lossStreak[TeamIn(p)] + 1))
    + (IF p = firstBlood THEN Events.firstBlood ELSE 0)

\* endFight: the surviving team won, the second if neither does.
EndFight ==
    /\ stage = "fight"
    /\ \E t \in {1, 2} : Standing(t) = {}
    /\ LET winner == IF Standing(1) # {} THEN 1 ELSE 2
       IN  /\ score' = [score EXCEPT ![winner] = @ + 1]
           /\ lossStreak' = [lossStreak EXCEPT ![winner] = 0, ![3 - winner] = @ + 1]
           /\ award' = [p \in Rivals |-> RoundAward(p, winner)]
           /\ story' = Append(story, winner)
           /\ owed' = [p \in Rivals |-> owed[p] + Earned(p, story', deaths)]
           /\ stage' = IF score'[winner] >= RoundsToWin \/ round >= MaxRound THEN "ended" ELSE "banner"
    /\ coins' = [p \in Rivals |-> coins[p] + award'[p]]
    /\ roundKills' = [p \in Rivals |-> 0]
    /\ firstBlood' = 0 /\ deaths' = <<>>
    /\ UNCHANGED <<cut, round, buys>>

\* postBannerEdge and the round's start: everybody stands, the knocks are gone.
NextFight ==
    /\ stage = "banner"
    /\ stage' = "fight" /\ round' = round + 1
    /\ cut' = [p \in Rivals |-> Alive]
    /\ UNCHANGED <<coins, award, roundKills, firstBlood, lossStreak, score, buys, deaths, story, owed>>

CoinsInit ==
    /\ coins = [p \in Rivals |-> Head(CsRoundBaseCoins)]
    /\ award = [p \in Rivals |-> 0]
    /\ roundKills = [p \in Rivals |-> 0] /\ firstBlood = 0
    /\ lossStreak = <<0, 0>> /\ score = <<0, 0>>
    /\ cut = [p \in Rivals |-> Alive]
    /\ round = 1 /\ stage = "fight"
    /\ buys = <<>> /\ deaths = <<>> /\ story = <<>>
    /\ owed = [p \in Rivals |-> 0]

CoinsNext ==
    \/ \E p \in Spenders : PurchaseCharged(p)
    \/ \E p \in Rivals : BleedOut(p) \/ \E killer \in Shooters : Fall(p, killer)
    \/ EndFight \/ NextFight

-----------------------------------------------------------------------------
(* Properties.                                                             *)

\* Type invariant.
CoinsTypeOK ==
    /\ coins \in [Rivals -> Nat] /\ award \in [Rivals -> Nat] /\ roundKills \in [Rivals -> Nat]
    /\ firstBlood \in Rivals \cup {0}
    /\ lossStreak \in [1..2 -> Nat] /\ score \in [1..2 -> Nat]
    /\ round \in 1..MaxRound /\ stage \in {"fight", "banner", "ended"}

\* What a player has paid for.
Spent(p) ==
    LET sum[n \in 0..Len(buys)] ==
            IF n = 0 THEN 0 ELSE sum[n - 1] + (IF buys[n].by = p THEN buys[n].price ELSE 0)
    IN  sum[Len(buys)]

\* A balance is what the rounds so far earned and the purchases left: kills that are
\* credited late, streaks that break and start again and the bonus of the first blood are
\* each paid once ("Coins are a RUNNING BALANCE").
BalanceFollowsStory == \A p \in Rivals : coins[p] = 5 + owed[p] - Spent(p)
=============================================================================
