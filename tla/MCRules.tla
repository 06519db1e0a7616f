------------------------------ MODULE MCRules ------------------------------
(***************************************************************************)
(* Small instances, for TLC, of what one process applies one whole step at *)
(* a time: the rules of a room, and what the players of a match hold, earn *)
(* and heal.  They share no state, so a behaviour steps one of them,       *)
(* chosen at its start, and leaves the others in an initial state.         *)
(* The accounts of a room are interchangeable.                             *)
(***************************************************************************)
EXTENDS RoomRules, MatchItems, MatchCoins, MatchVitals

CONSTANTS Parts

VARIABLE focus

rulesVars == <<rooms, itemVars, coinVars, vitalVars, focus>>

Init ==
    /\ focus \in Parts
    /\ RulesInit /\ ItemsInit /\ CoinsInit /\ VitalsInit
    /\ focus # "items" => ~noLoadout /\ ~unlimitedAmmo

StepRooms == focus = "rooms" /\ RulesNext /\ UNCHANGED <<itemVars, coinVars, vitalVars, focus>>
StepItems == focus = "items" /\ ItemsNext /\ UNCHANGED <<rooms, coinVars, vitalVars, focus>>
StepCoins == focus = "coins" /\ CoinsNext /\ UNCHANGED <<rooms, itemVars, vitalVars, focus>>
StepVitals == focus = "vitals" /\ VitalsNext /\ UNCHANGED <<rooms, itemVars, coinVars, focus>>

Next == StepRooms \/ StepItems \/ StepCoins \/ StepVitals

Spec == Init /\ [][Next]_rulesVars

Symmetry == Permutations(Accounts)

\* What the players of a match hold, earn and heal: ItemsSound, BalanceFollowsStory,
\* HealsStop and EnergyBounded, with their types, each in the behaviours that step its part.
MatchHolds ==
    CASE focus = "items" -> ItemsTypeOK /\ ItemsSound
      [] focus = "coins" -> CoinsTypeOK /\ BalanceFollowsStory
      [] focus = "vitals" -> VitalsTypeOK /\ HealsStop /\ EnergyBounded
      [] OTHER -> TRUE
=============================================================================
