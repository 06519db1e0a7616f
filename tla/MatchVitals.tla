--------------------------- MODULE MatchVitals ----------------------------
(***************************************************************************)
(* What gives a player of a match HP back: the medkit that heals over time *)
(* (match-server: medkit.go) and the energy of a mushroom (ep.go), against *)
(* hits, knocks, rescues and the reset of a round.                         *)
(*                                                                         *)
(* Use and purchase arm a heal and return; the tick of run() pays it out.  *)
(* Whatever happens to the player in between, the tick must see.           *)
(*                                                                         *)
(* One player: the others touch nothing of this state.  A tick lets no or  *)
(* some more steps of either heal accrue.  HP and steps are in small       *)
(* units.  Left out: the charge of a purchase (MatchCoins), which team     *)
(* falls (CsMatch), and the animation's own clock, which may run out.      *)
(* Bounds: MaxHits hits, MaxUses of medkits.                               *)
(***************************************************************************)
EXTENDS Integers

CONSTANTS MaxHP, KnockdownHP, ReviveHP, MedkitSteps, EpPerMushroom, MaxEP,
          MushroomsPerRound, MaxHits, MaxUses

ASSUME MatchVitalsAssumption ==
    /\ {MaxHP, KnockdownHP, ReviveHP, MedkitSteps, EpPerMushroom, MaxEP} \subseteq Nat \ {0}
    /\ ReviveHP <= MaxHP /\ {MushroomsPerRound, MaxHits, MaxUses} \subseteq Nat

VARIABLES
    hp, lifeState,                  \* HP (the bleed pool of who is knocked); "alive", "knocked" or "dead"
    healing, applied,          \* a medkit heals, the steps it gave
    channeling,                \* the cure animation plays
    kits,                      \* the count of the medkit stack
    ep, mushrooms, banked,     \* energy, purchases of the round, steps accrued since epLast
    fightOver,                 \* endFight has scored the round
    ticked,                    \* the last step was a tick
    fromEp,                    \* HP that this round's energy gave
    hits, uses

vitalVars == <<hp, lifeState, healing, applied, channeling, kits, ep, mushrooms, banked, fightOver,
               ticked, fromEp, hits, uses>>
medkit == <<healing, applied, channeling, kits, uses>>
energy == <<ep, mushrooms, banked, fromEp>>

AtMost(a, b) == IF a <= b THEN a ELSE b

-----------------------------------------------------------------------------
\* handleTryUseInventory: the animation starts, whoever asks.
TryUseInventory ==
    /\ channeling' = TRUE /\ ticked' = FALSE
    /\ UNCHANGED <<hp, lifeState, healing, applied, kits, uses, energy, fightOver, hits>>

\* handleUseInventory: it arms the heal from its start, also with no kit left ("keep the
\* item even at 0").
UseInventory ==
    /\ uses < MaxUses /\ uses' = uses + 1
    /\ kits' = IF kits > 0 THEN kits - 1 ELSE 0
    /\ channeling' = FALSE
    /\ healing' = TRUE /\ applied' = 0
    /\ ticked' = FALSE
    /\ UNCHANGED <<hp, lifeState, energy, fightOver, hits>>

\* handleCSPurchase of a mushroom, grantMushroom.
GrantMushroom ==
    /\ mushrooms < MushroomsPerRound
    /\ mushrooms' = mushrooms + 1
    /\ ep' = AtMost(ep + EpPerMushroom, MaxEP)
    /\ banked' = 0 /\ ticked' = FALSE
    /\ UNCHANGED <<hp, lifeState, medkit, fromEp, fightOver, hits>>

\* applyDamage, damageKnocked, stepKnock: a hit of somebody who stands kills or, if the
\* team has a backup, knocks; the pool of who is knocked drains, by fire or by bleeding.
Damage ==
    /\ hits < MaxHits /\ hits' = hits + 1 /\ ticked' = FALSE
    /\ \E dmg \in 1..MaxHP :
          \/ /\ lifeState = "alive" /\ ~fightOver /\ hp > dmg
             /\ hp' = hp - dmg /\ UNCHANGED lifeState
          \/ /\ lifeState = "alive" /\ ~fightOver /\ hp <= dmg
             /\ \/ hp' = 0 /\ lifeState' = "dead"
                \/ hp' = KnockdownHP /\ lifeState' = "knocked"
          \/ /\ lifeState = "knocked"
             /\ hp' = IF hp > dmg THEN hp - dmg ELSE 0
             /\ lifeState' = IF hp > dmg THEN "knocked" ELSE "dead"
    /\ UNCHANGED <<medkit, energy, fightOver>>

\* completeRescue.
CompleteRescue ==
    /\ lifeState = "knocked"
    /\ lifeState' = "alive" /\ hp' = ReviveHP
    /\ ticked' = FALSE
    /\ UNCHANGED <<medkit, energy, fightOver, hits>>

\* endFight.
FightEnds ==
    /\ ~fightOver /\ fightOver' = TRUE /\ ticked' = FALSE
    /\ UNCHANGED <<hp, lifeState, medkit, energy, hits>>

\* Mutant: the energy of the last round is kept.
ResetKeepingEp ==
    /\ fightOver /\ fightOver' = FALSE
    /\ hp' = MaxHP /\ lifeState' = "alive"
    /\ mushrooms' = 0 /\ fromEp' = 0
    /\ kits' = 2 /\ ticked' = FALSE
    /\ UNCHANGED <<ep, banked, healing, applied, channeling, uses, hits>>

\* postBannerEdge: reviveAll, resetEP, a refilled loadout; a heal that is armed stays so.
VitalsReset ==
    /\ fightOver /\ fightOver' = FALSE
    /\ hp' = MaxHP /\ lifeState' = "alive"
    /\ ep' = 0 /\ mushrooms' = 0 /\ fromEp' = 0
    /\ kits' = 2 /\ ticked' = FALSE
    /\ UNCHANGED <<banked, healing, applied, channeling, uses, hits>>

\* Mutant: the heal goes on whatever happened to the player.
HealWhoeverIsHurt(d) ==
    LET want == AtMost(applied + d, MedkitSteps)
        healed == AtMost(hp + want - applied, MaxHP)
    IN  IF ~healing THEN [hp |-> hp, healing |-> FALSE, applied |-> applied]
        ELSE [hp |-> healed, applied |-> want, healing |-> want < MedkitSteps /\ healed < MaxHP]

\* stepHeal, d steps later: "never revive a dead player via a lingering heal".
StepHeal(d) ==
    LET want == AtMost(applied + d, MedkitSteps)
        healed == AtMost(hp + want - applied, MaxHP)
    IN  IF ~healing \/ lifeState # "alive" THEN [hp |-> hp, healing |-> FALSE, applied |-> applied]
        ELSE [hp |-> healed, applied |-> want, healing |-> want < MedkitSteps /\ healed < MaxHP]

\* Mutant: the clock runs on at full HP ("instant heal").
EpUnanchored(h, d) ==
    LET steps == banked + d
        gain == AtMost(AtMost(steps, ep), MaxHP - h)
    IN  IF ep = 0 THEN [hp |-> h, ep |-> 0, banked |-> AtMost(steps, 2)]
        ELSE IF lifeState # "alive" \/ h = 0 \/ h >= MaxHP THEN [hp |-> h, ep |-> ep, banked |-> AtMost(steps, 2)]
        ELSE [hp |-> h + gain, ep |-> ep - gain, banked |-> 0]

\* stepEP, d steps later, with h HP: no time is banked that the player could not heal in.
StepEP(h, d) ==
    LET steps == banked + d
        gain == AtMost(AtMost(steps, ep), MaxHP - h)
    IN  IF ep = 0 THEN [hp |-> h, ep |-> 0, banked |-> AtMost(steps, 2)]
        ELSE IF lifeState # "alive" \/ h = 0 \/ h >= MaxHP THEN [hp |-> h, ep |-> ep, banked |-> 0]
        ELSE [hp |-> h + gain, ep |-> ep - gain, banked |-> 0]

\* run: stepHeal, stepEP and stepHealChannel of one tick.
VitalsTick ==
    /\ \E d \in 0..2, e \in 0..1, timeout \in BOOLEAN :
          LET heal == StepHeal(d)
              regen == StepEP(heal.hp, e)
          IN  /\ hp' = regen.hp
              /\ healing' = heal.healing /\ applied' = heal.applied
              /\ ep' = regen.ep /\ banked' = regen.banked
              /\ fromEp' = fromEp + regen.hp - heal.hp
              /\ channeling' = (channeling /\ lifeState = "alive" /\ ~timeout)
    /\ ticked' = TRUE
    /\ UNCHANGED <<lifeState, kits, mushrooms, fightOver, hits, uses>>

VitalsInit ==
    /\ hp = MaxHP /\ lifeState = "alive" /\ fightOver = FALSE
    /\ healing = FALSE /\ applied = 0 /\ channeling = FALSE /\ kits = 2
    /\ ep = 0 /\ mushrooms = 0 /\ banked = 0 /\ fromEp = 0
    /\ ticked = FALSE /\ hits = 0 /\ uses = 0

VitalsNext ==
    \/ TryUseInventory \/ UseInventory \/ GrantMushroom
    \/ Damage \/ CompleteRescue \/ FightEnds \/ VitalsReset \/ VitalsTick

-----------------------------------------------------------------------------
(* Properties.                                                             *)

\* Type invariant.
VitalsTypeOK ==
    /\ hp \in Nat /\ lifeState \in {"alive", "knocked", "dead"}
    /\ applied \in 0..MedkitSteps /\ kits \in 0..2 /\ banked \in 0..2
    /\ mushrooms \in 0..MushroomsPerRound /\ ep \in Nat

\* HP and life say the same, whichever heal lingers, nothing heals beyond the maximum, and
\* the tick ends the heal and the animation of who has fallen ("never revive a dead player
\* via a lingering heal").
HealsStop ==
    /\ lifeState = "dead" <=> hp = 0
    /\ lifeState = "alive" => hp <= MaxHP
    /\ lifeState = "knocked" => hp <= KnockdownHP
    /\ ticked /\ lifeState # "alive" => ~healing /\ ~channeling

\* Energy is what the round's mushrooms gave and has not become HP, never above the cap,
\* and a tick pays no time in which the player could not heal ("instant heal").
EnergyBounded ==
    /\ ep <= MaxEP /\ ep + fromEp <= EpPerMushroom * mushrooms
    /\ ep > 0 => banked = 0
=============================================================================
