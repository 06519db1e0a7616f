----------------------------- MODULE MatchProofs -----------------------------
(***************************************************************************)
(* The match of CsMatch, for any players, rounds and losses of contact;    *)
(* the settlement of its result, for any workers, channel, read size and   *)
(* number of faults; and the friendships, whose transactions share the     *)
(* settlement's database.                                                  *)
(***************************************************************************)
EXTENDS CsMatch, MCSettlement, FiniteSetTheorems, SequenceTheorems, TLAPS

-----------------------------------------------------------------------------
(* The steps of a match come down to a few effects on the bodies (Effect)  *)
(* and on the course of the match (CourseEffect); each conjunct of the     *)
(* invariant IInv is proved from those.                                    *)

\* Who was never admitted has left no trace, and is not in two places.
Fresh ==
    \A p \in Players :
        /\ p \in roster => team[p] # 0
        /\ p \in pending => team[p] = 0
        /\ p \notin roster => life[p] = "absent"
        /\ team[p] = 0 => died[p] = 0

\* Who can still die in this round has not died in it.
Counted ==
    \A e \in Entities :
        /\ died[e] <= 1
        /\ life[e] \in {"alive", "knocked"} \/ e \in knock => died[e] = 0

\* The bot comes when the match starts.
BotLater == ~started => ~bot /\ life[Bot] = "absent" /\ Bot \notin knock /\ died[Bot] = 0

\* A rescuer was admitted to the team of whom it rescues.
Rescuers ==
    \A e \in Entities : rescues[e] # NoOne =>
        rescues[e] \in Players /\ team[rescues[e]] # 0 /\ TeamOf(rescues[e]) = TeamOf(e)

\* What the phases say of the rounds, the winner and the result.
Course ==
    /\ phase \in {"setup", "prepare", "fight", "banner", "black", "intro"} =>
          \A t \in Teams : score[t] < RoundsToWin
    /\ phase \in {"banner", "black"} => round < MaxRound
    /\ phase = "banner" => roundOver
    /\ winner # 0 => phase \in {"endPause", "over", "stopped"}
    /\ phase = "endPause" => winner # 0
    /\ phase = "over" => winner # 0 /\ published
    /\ published => winner # 0
    /\ closing => phase \in {"over", "cancelled", "stopped"}
    /\ phase = "stopped" => step = "ready"
    /\ phase = "stopped" /\ winner # 0 => published \/ roster = {}

\* The inductive invariant.
IInv == TypeOK /\ DownIsBleeding /\ Fresh /\ Counted /\ BotLater /\ Rescuers /\ Course

-----------------------------------------------------------------------------
(* What the steps do to the bodies.                                        *)

\* A lethal blow knocks or kills whom it strikes, and of the others only
\* those who were down already may die with them.
LEMMA LethalEffect ==
    ASSUME TypeOK, NEW S, S \subseteq {e \in Entities : life[e] = "alive"}, Lethal(S)
    PROVE  /\ life' \in [Entities -> {"absent", "alive", "knocked", "dead"}]
           /\ \A e \in S : life'[e] \in {"knocked", "dead"}
           /\ \A e \in Entities \ S :
                 life'[e] = life[e] \/ (life[e] = "knocked" /\ life'[e] = "dead")
           /\ knock' = (knock \cup S) \ {e \in Entities : life'[e] = "dead" /\ life[e] # "dead"}
           /\ rescues' \in [Entities -> Players \cup {NoOne}]
           /\ \A e \in Entities : rescues'[e] \in {rescues[e], NoOne}
           /\ died' \in [Entities -> Nat]
           /\ \A e \in Entities :
                 died'[e] = IF life'[e] = "dead" /\ life[e] # "dead" THEN died[e] + 1 ELSE died[e]
<1> DEFINE D == {e \in Entities : LivesAfter(S)[e] = "dead" /\ life[e] # "dead"}
<1>1. \A e \in S : LivesAfter(S)[e] \in {"knocked", "dead"}
  BY DEF LivesAfter
<1>2. \A e \in Entities \ S :
         LivesAfter(S)[e] = life[e] \/ (life[e] = "knocked" /\ LivesAfter(S)[e] = "dead")
  BY DEF LivesAfter
<1>3. LivesAfter(S) = [e \in Entities |-> LivesAfter(S)[e]]
  BY DEF LivesAfter
<1>7. LivesAfter(S) \in [Entities -> {"absent", "alive", "knocked", "dead"}]
  BY <1>1, <1>2, <1>3 DEF TypeOK
<1>4. /\ life' = LivesAfter(S)
      /\ knock' = (knock \cup S) \ D
      /\ rescues' = [e \in Entities |-> IF e \in D THEN NoOne ELSE rescues[e]]
      /\ died' = [e \in Entities |-> IF e \in D THEN died[e] + 1 ELSE died[e]]
  BY DEF Lethal, Die
<1>5. /\ rescues' \in [Entities -> Players \cup {NoOne}]
      /\ died' \in [Entities -> Nat]
  BY <1>4 DEF TypeOK
<1>6. D = {e \in Entities : life'[e] = "dead" /\ life[e] # "dead"}
  BY <1>4
<1> HIDE DEF D
<1> QED
  BY <1>1, <1>2, <1>7, <1>4, <1>5, <1>6

\* The phases and what their deadline does.
LEMMA Deadlines ==
    ASSUME TypeOK, DeadlineEdge, phase # "fight", phase # "stopped"
    PROVE  \/ phase = "setup" /\ EnterPrepare
           \/ phase = "prepare" /\ ~started /\ WaitExpires
           \/ phase = "prepare" /\ started /\ Goto("fight")
                 /\ UNCHANGED <<lock, closing, bodies, died, rounds>>
           \/ phase = "endPause" /\ MatchEnd
           \/ phase = "banner" /\ PostBannerEdge
           \/ phase = "black" /\ NextRound
           \/ phase = "intro" /\ EnterPrepare
           \/ phase \in {"over", "cancelled"} /\ CloseDone
<1>1. CASE phase = "setup"   BY <1>1 DEF DeadlineEdge
<1>2. CASE phase = "prepare" /\ ~started  BY <1>2 DEF DeadlineEdge
<1>3. CASE phase = "prepare" /\ started  BY <1>3 DEF DeadlineEdge
<1>4. CASE phase = "endPause"  BY <1>4 DEF DeadlineEdge
<1>5. CASE phase = "banner"  BY <1>5 DEF DeadlineEdge
<1>6. CASE phase = "black"  BY <1>6 DEF DeadlineEdge
<1>7. CASE phase = "intro"  BY <1>7 DEF DeadlineEdge
<1>8. CASE phase \in {"over", "cancelled"}  BY <1>8 DEF DeadlineEdge
<1> QED  BY <1>1, <1>2, <1>3, <1>4, <1>5, <1>6, <1>7, <1>8 DEF TypeOK

\* What the rescues of a tick do: those down with a rescuer up may get up.
LEMMA RescueEffect ==
    ASSUME TypeOK, StepRescue
    PROVE  \E saved \in SUBSET Valid :
              /\ life' = [e \in Entities |-> IF e \in saved THEN "alive" ELSE life[e]]
              /\ knock' = knock \ saved
              /\ rescues' \in [Entities -> Players \cup {NoOne}]
              /\ \A e \in Entities : rescues'[e] \in {rescues[e], NoOne}
              /\ UNCHANGED <<people, bot, died, started>>
<1>1. PICK saved \in SUBSET Ready :
         \E late \in SUBSET {t \in Going \ Valid : rescues[t] \in saved} :
            /\ life' = [e \in Entities |-> IF e \in saved THEN "alive" ELSE life[e]]
            /\ knock' = knock \ saved
            /\ rescues' = [e \in Entities |-> IF e \in (Valid \ saved) \cup late
                                              THEN rescues[e] ELSE NoOne]
  BY DEF StepRescue
<1>2. PICK kept : rescues' = [e \in Entities |-> IF e \in kept THEN rescues[e] ELSE NoOne]
  BY <1>1
<1>3. /\ rescues' \in [Entities -> Players \cup {NoOne}]
      /\ \A e \in Entities : rescues'[e] \in {rescues[e], NoOne}
  BY <1>2 DEF TypeOK
<1>4. UNCHANGED <<people, bot, died, started>>
  BY DEF StepRescue, lock
<1> QED
  BY <1>1, <1>3, <1>4 DEF Ready

\* What a step does to the bodies: nothing, or one of these.
Keeps == UNCHANGED <<bodies, died, people>> /\ (started => started')

\* A joiner is routed here.
Enters(p) == /\ team[p] = 0 /\ pending' = pending \cup {p}
             /\ UNCHANGED <<bodies, died, roster, team, started>>

\* A player quits or is swept.
Goes(p) == p \in roster /\ Removes(p) /\ UNCHANGED <<pending, team, bot, rescues, died, started>>

\* A hit, or the zone.
Strikes(S) == /\ S \subseteq {e \in Entities : life[e] = "alive"} /\ Lethal(S)
              /\ UNCHANGED <<people, bot, started>>

\* Those down are finished or bleed out.
Ends(D) == D \subseteq knock /\ Finalize(D) /\ UNCHANGED <<people, bot, started>>

\* The match starts with a bot.
Spawns == /\ ~started /\ started' = TRUE
          /\ SpawnFallbackBot /\ UNCHANGED <<people, knock, rescues, died>>

\* The banner is over.
Revives == phase = "banner" /\ ReviveAll /\ UNCHANGED <<people, bot, started>>

\* All of them.
Effect ==
    \/ Keeps \/ Spawns \/ Revives \/ StepRescue
    \/ \E p \in Players : \/ Enters(p) \/ AdmitLater(p) \/ Goes(p)
                           \/ \E t \in Entities : StartRescue(p, t) \/ StopRescue(p, t)
    \/ \E S \in SUBSET Entities : Strikes(S) \/ Ends(S)

\* A deadline buys time, spawns the bot or revives everybody; else it leaves the
\* bodies alone.
LEMMA DeadlineEffect ==
    ASSUME TypeOK, TickAtDeadline
    PROVE  Effect
<1> USE DEF people, bodies, lock, rounds
<1>1. CASE UNCHANGED <<bodies, died>> /\ started' \in {started, TRUE}
  BY <1>1 DEF TypeOK, TickAtDeadline, Effect, Keeps
<1>2. CASE EnterPrepare
  BY <1>2, <1>1 DEF TickAtDeadline, EnterPrepare, Effect, Keeps, Spawns, BuyPhase, Goto
<1>3. CASE ~started /\ WaitExpires
  BY <1>3 DEF TickAtDeadline, WaitExpires, Effect, Keeps, Spawns, BuyPhase, Goto
<1>4. CASE MatchEnd  BY <1>4, <1>1 DEF MatchEnd
<1>5. CASE phase = "banner" /\ PostBannerEdge
  BY <1>5 DEF TickAtDeadline, PostBannerEdge, Effect, Revives
<1>6. CASE NextRound  BY <1>6, <1>1 DEF NextRound
<1>7. CASE CloseDone  BY <1>7, <1>1 DEF CloseDone
<1>8. CASE UNCHANGED <<lock, closing, bodies, died, rounds>>  BY <1>8, <1>1
<1> QED
  BY Deadlines, <1>2, <1>3, <1>4, <1>5, <1>6, <1>7, <1>8 DEF TickAtDeadline, Ticking, Handling

\* There is no other effect on the bodies.
LEMMA StepEffect ==
    ASSUME TypeOK, [Next]_vars
    PROVE  Effect
<1> USE DEF people, bodies, lock, rounds, vars
<1>1. ASSUME NEW p \in Players, Join(p) PROVE Effect
  BY <1>1 DEF Join, Effect, Enters
<1>2. ASSUME NEW p \in Players, Quit(p) PROVE Effect
  BY <1>2 DEF Quit, Effect, Goes
<1>3. ASSUME NEW p \in Players, Silence(p) \/ Return(p) PROVE Effect
  BY <1>3 DEF Silence, Return, Effect, Keeps
<1>4. ASSUME NEW p \in Players, NEW v \in Entities, Hit(p, v) PROVE Effect
  <2>1. Strikes({v})  BY <1>4 DEF Hit, Strikes
  <2> QED  BY <2>1 DEF Effect
<1>5. ASSUME NEW p \in Players, NEW v \in Entities, Finish(p, v) PROVE Effect
  <2>1. Ends({v})  BY <1>5 DEF Finish, Ends
  <2> QED  BY <2>1 DEF Effect
<1>6. CASE TickOnCondition
  BY <1>6 DEF TickOnCondition, EndFight, BuyPhase, Effect, Keeps
<1>7. CASE TickEnds \/ RunReturns \/ UNCHANGED vars
  BY <1>7 DEF TickEnds, RunReturns, Effect, Keeps
<1>8. CASE StepZone
  <2>1. PICK S \in SUBSET {p \in roster : life[p] = "alive"} : Lethal(S)  BY <1>8 DEF StepZone
  <2>2. Strikes(S)  BY <1>8, <2>1 DEF StepZone, Strikes, TypeOK, Entities
  <2> QED  BY <2>2 DEF Effect, Strikes
<1>9. CASE SweepDisconnects
  <2>1. PICK p \in roster : Removes(p)  BY <1>9 DEF SweepDisconnects
  <2>2. Goes(p)  BY <1>9, <2>1 DEF SweepDisconnects, Goes
  <2> QED  BY <2>2 DEF Effect, TypeOK
<1>10. CASE StepKnock
  <2>1. PICK D \in SUBSET knock : Finalize(D)  BY <1>10 DEF StepKnock
  <2>2. Ends(D)  BY <1>10, <2>1 DEF StepKnock, Ends
  <2> QED  BY <2>2 DEF Effect, TypeOK
<1> QED
  BY <1>1, <1>2, <1>3, <1>4, <1>5, <1>6, <1>7, <1>8, <1>9, <1>10, DeadlineEffect
  DEF Next, Tick, Effect

-----------------------------------------------------------------------------
(* Types.                                                                  *)

\* The part of TypeOK about players and bodies.
TypeBodies ==
    /\ pending \subseteq Players /\ roster \subseteq Players
    /\ team \in [Players -> Teams \cup {0}]
    /\ bot \in BOOLEAN
    /\ life \in [Entities -> {"absent", "alive", "knocked", "dead"}]
    /\ knock \subseteq Entities
    /\ rescues \in [Entities -> Players \cup {NoOne}]
    /\ died \in [Entities -> Nat]

\* Every step keeps the types of players and bodies.
LEMMA TypeBodiesNext ==
    ASSUME TypeOK, [Next]_vars
    PROVE  TypeBodies'
<1> USE DEF people, bodies, Entities
<1>1. CASE Keeps  BY <1>1 DEF Keeps, TypeOK, TypeBodies
<1>2. CASE Spawns  BY <1>2 DEF Spawns, SpawnFallbackBot, TypeOK, TypeBodies
<1>3. CASE Revives  BY <1>3 DEF Revives, ReviveAll, TypeOK, TypeBodies
<1>4. CASE StepRescue  BY <1>4, RescueEffect DEF TypeOK, TypeBodies
<1>5. ASSUME NEW p \in Players, Enters(p) PROVE TypeBodies'
  BY <1>5 DEF Enters, TypeOK, TypeBodies
<1>6. ASSUME NEW p \in Players, AdmitLater(p) PROVE TypeBodies'
  <2>1. team' \in [Players -> Teams \cup {0}]  BY <1>6 DEF AdmitLater, TeamFor, TypeOK
  <2> QED  BY <1>6, <2>1 DEF AdmitLater, TypeOK, TypeBodies
<1>7. ASSUME NEW p \in Players, Goes(p) PROVE TypeBodies'
  BY <1>7 DEF Goes, Removes, TypeOK, TypeBodies
<1>8. ASSUME NEW p \in Players, NEW t \in Entities, StartRescue(p, t) \/ StopRescue(p, t) PROVE TypeBodies'
  BY <1>8 DEF StartRescue, StopRescue, TypeOK, TypeBodies
<1>9. ASSUME NEW S \in SUBSET Entities, Strikes(S) PROVE TypeBodies'
  BY <1>9, LethalEffect DEF Strikes, TypeOK, TypeBodies
<1>10. ASSUME NEW D \in SUBSET Entities, Ends(D) PROVE TypeBodies'
  BY <1>10 DEF Ends, Finalize, Die, TypeOK, TypeBodies
<1> QED
  BY StepEffect, <1>1, <1>2, <1>3, <1>4, <1>5, <1>6, <1>7, <1>8, <1>9, <1>10 DEF Effect

\* The rounds a match takes.
LEMMA RoundsType == RoundsToWin \in Nat \ {0}
BY CsMatchAssumption DEF RoundsToWin

\* The rest of TypeOK: contact, phases, rounds and result.
TypeCourse ==
    /\ custom \in BOOLEAN /\ matchBot \in BOOLEAN
    /\ silent \subseteq Players /\ silences \in 0..MaxSilences
    /\ phase \in {"setup", "prepare", "fight", "endPause", "banner", "black", "intro", "over",
                  "cancelled", "stopped"}
    /\ step \in {"ready", "advance", "zone", "sweep", "knock"}
    /\ started \in BOOLEAN /\ ended \in BOOLEAN /\ closing \in BOOLEAN
    /\ roundOver \in BOOLEAN /\ round \in 1..MaxRound
    /\ score \in [Teams -> 0..RoundsToWin] /\ winner \in Teams \cup {0}
    /\ published \in BOOLEAN

\* The rounds and the phase change at the start of a tick only.
CourseKept == UNCHANGED <<settings, phase, lock, closing, rounds>>

\* The end of a fight decides the match, or leaves another round to play with both
\* teams short of the rounds it takes.
LEMMA EndFightCourse ==
    ASSUME TypeOK, Course, phase = "fight", EndFight, UNCHANGED settings
    PROVE  /\ phase' \in {"endPause", "banner"}
           /\ roundOver' = TRUE
           /\ score' \in [Teams -> 0..RoundsToWin]
           /\ phase' = "endPause" => winner' \in Teams
           /\ phase' = "banner" => /\ winner' = winner /\ round < MaxRound
                                   /\ \A t \in Teams : score'[t] < RoundsToWin
           /\ UNCHANGED <<lock, closing, round, published>>
<1> DEFINE won == IF TeamAlive(1) # {} THEN 1 ELSE 2
           decided == score[won] + 1 >= RoundsToWin \/ round >= MaxRound
<1>1. won \in Teams  BY DEF Teams
<1>2. /\ roundOver' = TRUE
      /\ score' = [score EXCEPT ![won] = @ + 1]
      /\ IF decided THEN phase' = "endPause" /\ winner' = won
                    ELSE phase' = "banner" /\ UNCHANGED winner
      /\ UNCHANGED <<lock, closing, round, published>>
  BY DEF EndFight, Goto
<1>3. \A t \in Teams : score[t] \in 0..RoundsToWin /\ score[t] < RoundsToWin
  BY DEF Course, TypeOK
<1>4. round \in 1..MaxRound /\ MaxRound \in Nat  BY CsMatchAssumption DEF TypeOK
<1>5. score \in [Teams -> 0..RoundsToWin]  BY DEF TypeOK
<1> HIDE DEF won
<1>6. score' \in [Teams -> 0..RoundsToWin]  BY <1>1, <1>2, <1>3, <1>5, RoundsType
<1>7. ~decided => /\ round < MaxRound
                  /\ \A t \in Teams : score'[t] < RoundsToWin
  BY <1>1, <1>2, <1>3, <1>4, <1>5, RoundsType
<1> QED  BY <1>1, <1>2, <1>6, <1>7

\* Only three actions move the match along, and nothing moves one that stopped.
LEMMA CourseEffect ==
    ASSUME TypeOK, Course, [Next]_vars
    PROVE  \/ /\ CourseKept
              /\ silent' \subseteq Players /\ silences' \in 0..MaxSilences
              /\ step' \in {"ready", "advance", "zone", "sweep", "knock"}
              /\ phase = "stopped" => UNCHANGED <<step, roster>>
           \/ TickOnCondition \/ TickAtDeadline \/ RunReturns
<1> USE DEF people, bodies, lock, rounds, contact, settings, CourseKept
<1> DEFINE Kept == /\ CourseKept
                   /\ silent' \subseteq Players /\ silences' \in 0..MaxSilences
                   /\ step' \in {"ready", "advance", "zone", "sweep", "knock"}
                   /\ phase = "stopped" => UNCHANGED <<step, roster>>
<1>1. ASSUME NEW p \in Players, Join(p) \/ AdmitLater(p) \/ Quit(p) PROVE Kept
  BY <1>1 DEF Join, AdmitLater, Quit, Handling, TypeOK
<1>2. ASSUME NEW p \in Players, Silence(p) PROVE Kept
  <2>1. silences' \in 0..MaxSilences  BY <1>2, CsMatchAssumption DEF Silence, TypeOK
  <2> QED  BY <1>2, <2>1 DEF Silence, TypeOK
<1>3. ASSUME NEW p \in Players, Return(p) PROVE Kept
  BY <1>3 DEF Return, TypeOK
<1>4. ASSUME NEW p \in Players, NEW e \in Entities,
             Hit(p, e) \/ Finish(p, e) \/ StartRescue(p, e) \/ StopRescue(p, e)
      PROVE  Kept
  BY <1>4 DEF Hit, Finish, StartRescue, StopRescue, Handling, TypeOK
<1>5. CASE StepZone \/ SweepDisconnects \/ StepKnock \/ StepRescue \/ TickEnds
  <2>1. phase # "stopped"
    BY <1>5 DEF StepZone, SweepDisconnects, StepKnock, StepRescue, TickEnds, After, Handling, Course
  <2> QED
    BY <1>5, <2>1 DEF StepZone, SweepDisconnects, StepKnock, StepRescue, TickEnds, TypeOK
<1>6. CASE UNCHANGED vars  BY <1>6 DEF vars, TypeOK
<1> QED
  BY <1>1, <1>2, <1>3, <1>4, <1>5, <1>6 DEF Next, Tick

\* Every step keeps the types of the course and what the phases say of it.
LEMMA CourseNext ==
    ASSUME TypeOK, Course, [Next]_vars
    PROVE  TypeCourse' /\ Course'
<1> USE DEF lock, rounds, contact, settings, people
<1> DEFINE Kept == /\ CourseKept
                   /\ silent' \subseteq Players /\ silences' \in 0..MaxSilences
                   /\ step' \in {"ready", "advance", "zone", "sweep", "knock"}
                   /\ phase = "stopped" => UNCHANGED <<step, roster>>
<1>1. CASE Kept  BY <1>1 DEF CourseKept, TypeOK, TypeCourse, Course
<1>2. CASE TickOnCondition
  <2>1. UNCHANGED <<settings, people, contact>> /\ step' = "advance"
    BY <1>2 DEF TickOnCondition, Ticking
  <2>2. CASE phase = "fight" /\ EndFight
    <3>1. /\ phase' \in {"endPause", "banner"}
          /\ roundOver' = TRUE
          /\ score' \in [Teams -> 0..RoundsToWin]
          /\ phase' = "endPause" => winner' \in Teams
          /\ phase' = "banner" => /\ winner' = winner /\ round < MaxRound
                                  /\ \A t \in Teams : score'[t] < RoundsToWin
          /\ UNCHANGED <<lock, closing, round, published>>
      BY <2>1, <2>2, EndFightCourse
    <3>2. winner = 0 /\ ~closing /\ ~published  BY <2>2 DEF Course, TypeOK
    <3>3. TypeCourse'  BY <2>1, <3>1, <3>2 DEF TypeCourse, TypeOK
    <3>4. Course'  BY <2>1, <3>1, <3>2 DEF Course, Teams
    <3> QED  BY <3>3, <3>4
  <2>3. CASE phase = "prepare" /\ BuyPhase /\ UNCHANGED <<ended, closing, rounds>>
    BY <2>1, <2>3 DEF BuyPhase, Goto, TypeCourse, TypeOK, Course
  <2> QED  BY <1>2, <2>2, <2>3 DEF TickOnCondition, RoundDecided, PlayersArrived
<1>3. CASE TickAtDeadline
  <2>1. /\ UNCHANGED <<settings, people, contact>> /\ step' = "advance"
        /\ phase # "stopped" /\ phase # "fight" /\ DeadlineEdge
    BY <1>3 DEF TickAtDeadline, Ticking, Handling
  <2>2. CASE phase \in {"setup", "intro"} /\ EnterPrepare
    <3>1. phase' = "prepare" /\ started' \in BOOLEAN /\ UNCHANGED <<ended, closing, rounds>>
      BY <2>2 DEF EnterPrepare, BuyPhase, Goto, TypeOK
    <3> QED  BY <2>1, <2>2, <3>1 DEF TypeCourse, TypeOK, Course
  <2>3. CASE phase = "prepare" /\ WaitExpires
    <3>1. /\ phase' \in {"prepare", "cancelled"} /\ started' \in BOOLEAN /\ ended' \in BOOLEAN
          /\ UNCHANGED <<closing, rounds>>
      BY <2>3 DEF WaitExpires, BuyPhase, Goto, TypeOK
    <3> QED  BY <2>1, <2>3, <3>1 DEF TypeCourse, TypeOK, Course
  <2>4. CASE phase = "prepare" /\ Goto("fight") /\ UNCHANGED <<lock, closing, rounds>>
    BY <2>1, <2>4 DEF Goto, TypeCourse, TypeOK, Course
  <2>5. CASE phase = "endPause" /\ MatchEnd
    BY <2>1, <2>5 DEF MatchEnd, Goto, TypeCourse, TypeOK, Course
  <2>6. CASE phase = "banner" /\ PostBannerEdge
    BY <2>1, <2>6 DEF PostBannerEdge, ReviveAll, Goto, TypeCourse, TypeOK, Course
  <2>7. CASE phase = "black" /\ NextRound
    <3>1. round' \in 1..MaxRound  BY <2>7, CsMatchAssumption DEF NextRound, TypeOK, Course
    <3> QED  BY <2>1, <2>7, <3>1 DEF NextRound, Goto, TypeCourse, TypeOK, Course
  <2>8. CASE phase \in {"over", "cancelled"} /\ CloseDone
    BY <2>1, <2>8 DEF CloseDone, TypeCourse, TypeOK, Course
  <2> QED  BY <2>1, <2>2, <2>3, <2>4, <2>5, <2>6, <2>7, <2>8, Deadlines
<1>4. CASE RunReturns
  <2>1. winner # 0 => published \/ roster = {}  BY <1>4 DEF RunReturns, Handling, Course
  <2> QED  BY <1>4, <2>1 DEF RunReturns, Handling, Goto, TypeCourse, TypeOK, Course
<1> QED  BY <1>1, <1>2, <1>3, <1>4, CourseEffect

-----------------------------------------------------------------------------
(* The invariant.                                                          *)

\* The initial states.
LEMMA InitInv == Init => IInv
<1> SUFFICES ASSUME Init PROVE IInv  OBVIOUS
<1>1. PICK q \in Players, s \in Teams :
         /\ roster = {q}
         /\ team = [r \in Players |-> IF r = q THEN s ELSE 0]
         /\ life = [e \in Entities |-> IF e = q THEN "alive" ELSE "absent"]
  BY DEF Init
<1>2. /\ 0 \in 0..MaxSilences /\ 1 \in 1..MaxRound /\ 0 \in 0..RoundsToWin
  BY CsMatchAssumption, RoundsType
<1>3. TypeOK  BY <1>1, <1>2 DEF Init, TypeOK
<1>4. DownIsBleeding  BY <1>1 DEF Init, DownIsBleeding, Entities
<1>5. Fresh  BY <1>1 DEF Init, Fresh, Entities, Teams
<1>6. Counted  BY <1>1 DEF Init, Counted
<1>7. BotLater  BY <1>1, CsMatchAssumption DEF Init, BotLater, Entities
<1>8. Rescuers  BY DEF Init, Rescuers
<1>9. Course  BY RoundsType DEF Init, Course
<1> QED  BY <1>3, <1>4, <1>5, <1>6, <1>7, <1>8, <1>9 DEF IInv

\* Every step keeps knocked and bleeding together.
LEMMA DownNext ==
    ASSUME IInv, [Next]_vars
    PROVE  DownIsBleeding'
<1> USE DEF people, bodies, Entities
<1>0. TypeOK /\ DownIsBleeding /\ Fresh  BY DEF IInv
<1>1. CASE Keeps  BY <1>0, <1>1 DEF Keeps, DownIsBleeding
<1>2. CASE Spawns
  BY <1>0, <1>2, CsMatchAssumption DEF Spawns, SpawnFallbackBot, DownIsBleeding, TypeOK
<1>3. CASE Revives
  BY <1>0, <1>3 DEF Revives, ReviveAll, DownIsBleeding, Fresh, TypeOK
<1>4. CASE StepRescue  BY <1>0, <1>4, RescueEffect DEF DownIsBleeding, TypeOK
<1>5. ASSUME NEW p \in Players, Enters(p) PROVE DownIsBleeding'
  BY <1>0, <1>5 DEF Enters, DownIsBleeding
<1>6. ASSUME NEW p \in Players, AdmitLater(p) PROVE DownIsBleeding'
  BY <1>0, <1>6, CsMatchAssumption DEF AdmitLater, DownIsBleeding, Fresh, TypeOK
<1>7. ASSUME NEW p \in Players, Goes(p) PROVE DownIsBleeding'
  BY <1>0, <1>7 DEF Goes, Removes, DownIsBleeding, TypeOK
<1>8. ASSUME NEW p \in Players, NEW t \in Entities, StartRescue(p, t) \/ StopRescue(p, t)
      PROVE  DownIsBleeding'
  BY <1>0, <1>8 DEF StartRescue, StopRescue, DownIsBleeding
<1>9. ASSUME NEW S \in SUBSET Entities, Strikes(S) PROVE DownIsBleeding'
  <2>1. /\ S \subseteq {e \in Entities : life[e] = "alive"} /\ Lethal(S)  BY <1>9 DEF Strikes
  <2> QED  BY <1>0, <2>1, LethalEffect DEF DownIsBleeding
<1>10. ASSUME NEW D \in SUBSET Entities, Ends(D) PROVE DownIsBleeding'
  BY <1>0, <1>10 DEF Ends, Finalize, DownIsBleeding
<1> QED
  BY <1>0, StepEffect, <1>1, <1>2, <1>3, <1>4, <1>5, <1>6, <1>7, <1>8, <1>9, <1>10 DEF Effect

\* Who was never admitted stays without a trace.
LEMMA FreshNext ==
    ASSUME IInv, [Next]_vars
    PROVE  Fresh'
<1> USE DEF people, bodies, Entities
<1>0. TypeOK /\ DownIsBleeding /\ Fresh  BY DEF IInv
<1>1. CASE Keeps  BY <1>0, <1>1 DEF Keeps, Fresh
<1>2. CASE Spawns
  BY <1>0, <1>2, CsMatchAssumption DEF Spawns, SpawnFallbackBot, Fresh, TypeOK
<1>3. CASE Revives
  BY <1>0, <1>3, CsMatchAssumption DEF Revives, ReviveAll, Fresh, TypeOK
<1>4. CASE StepRescue
  BY <1>0, <1>4, RescueEffect DEF Fresh, TypeOK, Valid, Going
<1>5. ASSUME NEW p \in Players, Enters(p) PROVE Fresh'
  BY <1>0, <1>5 DEF Enters, Fresh
<1>6. ASSUME NEW p \in Players, AdmitLater(p) PROVE Fresh'
  BY <1>0, <1>6, CsMatchAssumption DEF AdmitLater, TeamFor, Fresh, TypeOK, Teams
<1>7. ASSUME NEW p \in Players, Goes(p) PROVE Fresh'
  BY <1>0, <1>7 DEF Goes, Removes, Fresh, TypeOK
<1>8. ASSUME NEW p \in Players, NEW t \in Entities, StartRescue(p, t) \/ StopRescue(p, t)
      PROVE  Fresh'
  BY <1>0, <1>8 DEF StartRescue, StopRescue, Fresh
<1>9. ASSUME NEW S \in SUBSET Entities, Strikes(S) PROVE Fresh'
  <2>1. /\ S \subseteq {e \in Entities : life[e] = "alive"} /\ Lethal(S)
        /\ UNCHANGED <<people, bot, started>>
    BY <1>9 DEF Strikes
  <2> QED  BY <1>0, <2>1, LethalEffect DEF Fresh
<1>10. ASSUME NEW D \in SUBSET Entities, Ends(D) PROVE Fresh'
  BY <1>0, <1>10 DEF Ends, Finalize, Die, DownIsBleeding, Fresh
<1> QED
  BY <1>0, StepEffect, <1>1, <1>2, <1>3, <1>4, <1>5, <1>6, <1>7, <1>8, <1>9, <1>10 DEF Effect

\* No step lets anybody die twice.
LEMMA CountedNext ==
    ASSUME IInv, [Next]_vars
    PROVE  Counted'
<1> USE DEF people, bodies
<1>0. TypeOK /\ DownIsBleeding /\ Fresh /\ Counted /\ BotLater  BY DEF IInv
<1>1. CASE Keeps  BY <1>0, <1>1 DEF Keeps, Counted
<1>2. CASE Spawns
  BY <1>0, <1>2 DEF Spawns, SpawnFallbackBot, Counted, BotLater, TypeOK
<1>3. CASE Revives  BY <1>0, <1>3 DEF Revives, ReviveAll, Counted
<1>4. CASE StepRescue
  BY <1>0, <1>4, RescueEffect DEF Counted, TypeOK, Valid, Going
<1>5. ASSUME NEW p \in Players, Enters(p) PROVE Counted'
  BY <1>0, <1>5 DEF Enters, Counted
<1>6. ASSUME NEW p \in Players, AdmitLater(p) PROVE Counted'
  <2>1. team[p] = 0 /\ died[p] = 0  BY <1>0, <1>6 DEF AdmitLater, Fresh
  <2> QED  BY <1>0, <1>6, <2>1 DEF AdmitLater, Counted, TypeOK
<1>7. ASSUME NEW p \in Players, Goes(p) PROVE Counted'
  BY <1>0, <1>7 DEF Goes, Removes, Counted, TypeOK
<1>8. ASSUME NEW p \in Players, NEW t \in Entities, StartRescue(p, t) \/ StopRescue(p, t)
      PROVE  Counted'
  BY <1>0, <1>8 DEF StartRescue, StopRescue, Counted
<1>9. ASSUME NEW S \in SUBSET Entities, Strikes(S) PROVE Counted'
  <2>1. /\ S \subseteq {e \in Entities : life[e] = "alive"} /\ Lethal(S)
    BY <1>9 DEF Strikes
  <2>2. \A e \in Entities : died[e] \in Nat  BY <1>0 DEF TypeOK
  <2> QED  BY <1>0, <2>1, <2>2, LethalEffect DEF Counted
<1>10. ASSUME NEW D \in SUBSET Entities, Ends(D) PROVE Counted'
  <2>1. \A e \in D : died[e] = 0  BY <1>0, <1>10 DEF Ends, Counted
  <2> QED  BY <1>0, <1>10, <2>1 DEF Ends, Finalize, Die, Counted
<1> QED
  BY <1>0, StepEffect, <1>1, <1>2, <1>3, <1>4, <1>5, <1>6, <1>7, <1>8, <1>9, <1>10 DEF Effect

\* Nothing gives the bot a body before the match starts.
LEMMA BotLaterNext ==
    ASSUME IInv, [Next]_vars
    PROVE  BotLater'
<1> USE DEF people, bodies, Entities
<1>0. TypeOK /\ BotLater  BY DEF IInv
<1>1. CASE Keeps  BY <1>0, <1>1 DEF Keeps, BotLater
<1>2. CASE Spawns  BY <1>2 DEF Spawns, BotLater
<1>3. CASE Revives
  BY <1>0, <1>3, CsMatchAssumption DEF Revives, ReviveAll, BotLater, TypeOK
<1>4. CASE StepRescue
  BY <1>0, <1>4, RescueEffect DEF BotLater, TypeOK, Valid, Going
<1>5. ASSUME NEW p \in Players, Enters(p) PROVE BotLater'
  BY <1>0, <1>5 DEF Enters, BotLater
<1>6. ASSUME NEW p \in Players, AdmitLater(p) PROVE BotLater'
  BY <1>0, <1>6, CsMatchAssumption DEF AdmitLater, lock, BotLater, TypeOK
<1>7. ASSUME NEW p \in Players, Goes(p) PROVE BotLater'
  BY <1>0, <1>7, CsMatchAssumption DEF Goes, Removes, BotLater, TypeOK
<1>8. ASSUME NEW p \in Players, NEW t \in Entities, StartRescue(p, t) \/ StopRescue(p, t)
      PROVE  BotLater'
  BY <1>0, <1>8 DEF StartRescue, StopRescue, lock, BotLater
<1>9. ASSUME NEW S \in SUBSET Entities, Strikes(S) PROVE BotLater'
  <2>1. /\ S \subseteq {e \in Entities : life[e] = "alive"} /\ Lethal(S)
        /\ UNCHANGED <<people, bot, started>>
    BY <1>9 DEF Strikes
  <2> QED  BY <1>0, <2>1, LethalEffect DEF BotLater
<1>10. ASSUME NEW D \in SUBSET Entities, Ends(D) PROVE BotLater'
  BY <1>0, <1>10 DEF Ends, Finalize, Die, BotLater
<1> QED
  BY <1>0, StepEffect, <1>1, <1>2, <1>3, <1>4, <1>5, <1>6, <1>7, <1>8, <1>9, <1>10 DEF Effect

\* A step that leaves the teams alone and starts no rescue keeps the rescuers.
LEMMA RescuersKept ==
    ASSUME Rescuers, UNCHANGED team,
           \A e \in Entities : rescues'[e] \in {rescues[e], NoOne}
    PROVE  Rescuers'
BY DEF Rescuers, TeamOf

\* Nobody rescues across the teams, however late its team was given.
LEMMA RescuersNext ==
    ASSUME IInv, [Next]_vars
    PROVE  Rescuers'
<1> USE DEF people, bodies
<1>0. TypeOK /\ Fresh /\ Rescuers  BY DEF IInv
<1>1. CASE Keeps  BY <1>0, <1>1, RescuersKept DEF Keeps
<1>2. CASE Spawns  BY <1>0, <1>2, RescuersKept DEF Spawns
<1>3. CASE Revives  BY <1>0, <1>3, RescuersKept DEF Revives, ReviveAll
<1>4. CASE StepRescue  BY <1>0, <1>4, RescueEffect, RescuersKept
<1>5. ASSUME NEW p \in Players, Enters(p) PROVE Rescuers'
  BY <1>0, <1>5, RescuersKept DEF Enters
<1>6. ASSUME NEW p \in Players, AdmitLater(p) PROVE Rescuers'
  <2>1. PICK t \in Teams : team' = [team EXCEPT ![p] = t]  BY <1>6 DEF AdmitLater
  <2>2. team[p] = 0 /\ UNCHANGED rescues  BY <1>0, <1>6 DEF AdmitLater, Fresh
  <2>3. \A q \in Players : q # p => team'[q] = team[q]  BY <1>0, <2>1 DEF TypeOK
  <2>4. ASSUME NEW e \in Entities, rescues[e] # NoOne
        PROVE  /\ rescues[e] \in Players /\ team'[rescues[e]] # 0
               /\ TeamOf(rescues[e])' = TeamOf(e)'
    <3>1. /\ rescues[e] \in Players /\ team[rescues[e]] # 0
          /\ TeamOf(rescues[e]) = TeamOf(e)
      BY <1>0, <2>4 DEF Rescuers
    <3>2. rescues[e] # p /\ rescues[e] # Bot  BY <2>2, <3>1, CsMatchAssumption
    <3>3. e # p  BY <2>2, <3>1, <3>2, CsMatchAssumption DEF TeamOf
    <3> QED  BY <2>2, <2>3, <3>1, <3>2, <3>3 DEF TeamOf, Entities
  <2> QED  BY <2>2, <2>4 DEF Rescuers
<1>7. ASSUME NEW p \in Players, Goes(p) PROVE Rescuers'
  BY <1>0, <1>7, RescuersKept DEF Goes
<1>8. ASSUME NEW p \in Players, NEW t \in Entities, StartRescue(p, t) PROVE Rescuers'
  BY <1>0, <1>8, CsMatchAssumption DEF StartRescue, CanSend, Rescuers, TeamOf, TypeOK
<1>9. ASSUME NEW p \in Players, NEW t \in Entities, StopRescue(p, t) PROVE Rescuers'
  <2>1. UNCHANGED team /\ \A e \in Entities : rescues'[e] \in {rescues[e], NoOne}
    BY <1>0, <1>9 DEF StopRescue, TypeOK
  <2> QED  BY <1>0, <2>1, RescuersKept
<1>10. ASSUME NEW S \in SUBSET Entities, Strikes(S) PROVE Rescuers'
  BY <1>0, <1>10, LethalEffect, RescuersKept DEF Strikes
<1>11. ASSUME NEW D \in SUBSET Entities, Ends(D) PROVE Rescuers'
  BY <1>0, <1>11, RescuersKept DEF Ends, Finalize
<1> QED
  BY <1>0, StepEffect, <1>1, <1>2, <1>3, <1>4, <1>5, <1>6, <1>7, <1>8, <1>9, <1>10, <1>11
  DEF Effect

\* The invariant is inductive.
LEMMA StepInv == IInv /\ [Next]_vars => IInv'
<1> SUFFICES ASSUME IInv, [Next]_vars PROVE IInv'  OBVIOUS
<1>1. TypeOK /\ Course  BY DEF IInv
<1>2. TypeBodies' /\ TypeCourse' /\ Course'  BY <1>1, TypeBodiesNext, CourseNext
<1>3. TypeOK'  BY <1>2 DEF TypeOK, TypeBodies, TypeCourse
<1> QED
  BY <1>2, <1>3, DownNext, FreshNext, CountedNext, BotLaterNext, RescuersNext DEF IInv

\* It holds in every reachable state.
LEMMA Invariance == Spec => []IInv
BY InitInv, StepInv, PTL DEF Spec

-----------------------------------------------------------------------------
(* The theorems.                                                           *)

\* Every variable keeps its type: no round is counted beyond the last, and no
\* team wins more rounds than it takes to win.
THEOREM TypeCorrect == Spec => []TypeOK
<1>1. IInv => TypeOK  BY DEF IInv
<1> QED  BY <1>1, Invariance, PTL

\* A player is down exactly while stepKnock has a record of it to bleed.
THEOREM DownBleeds == Spec => []DownIsBleeding
<1>1. IInv => DownIsBleeding  BY DEF IInv
<1> QED  BY <1>1, Invariance, PTL

\* Hit, finished, bled out, wiped with the team or caught by the zone: nobody's
\* death is credited twice in a round.
THEOREM DeathsCounted == Spec => []DiesOncePerRound
<1>1. IInv => DiesOncePerRound  BY DEF IInv, Counted, DiesOncePerRound
<1> QED  BY <1>1, Invariance, PTL

\* match.result goes out of every decided match that somebody is left in, and
\* of no other.
THEOREM ResultPublished == Spec => []DecidedIsPublished
<1>1. IInv => DecidedIsPublished  BY DEF IInv, Course, DecidedIsPublished
<1> QED  BY <1>1, Invariance, PTL

\* A step of the fight gets somebody up only by a rescue of its own team.
LEMMA RevivalStep ==
    ASSUME IInv, [Next]_vars, NEW e \in Entities,
           life[e] = "knocked", life'[e] = "alive", ~roundOver
    PROVE  \E p \in Players : p = rescues[e] /\ TeamOf(p) = TeamOf(e) /\ LifeOf(p) = "alive"
<1> USE DEF people, bodies, Entities
<1>0. TypeOK /\ DownIsBleeding /\ Fresh /\ BotLater /\ Rescuers /\ Course  BY DEF IInv
<1>1. ~Keeps  BY DEF Keeps
<1>2. ~Spawns
  BY <1>0 DEF Spawns, SpawnFallbackBot, BotLater, TypeOK
<1>3. ~Revives  BY <1>0 DEF Revives, Course
<1>4. CASE StepRescue
  <2>1. e \in Valid  BY <1>0, <1>4, RescueEffect DEF TypeOK
  <2> QED  BY <1>0, <2>1 DEF Valid, Going, Rescuers
<1>5. ASSUME NEW p \in Players PROVE ~Enters(p) /\ ~Goes(p)
  BY <1>0, CsMatchAssumption DEF Enters, Goes, Removes, TypeOK
<1>6. ASSUME NEW p \in Players PROVE ~AdmitLater(p)
  BY <1>0 DEF AdmitLater, Fresh, TypeOK
<1>7. ASSUME NEW p \in Players, NEW t \in Entities PROVE ~StartRescue(p, t) /\ ~StopRescue(p, t)
  BY DEF StartRescue, StopRescue
<1>8. ASSUME NEW S \in SUBSET Entities PROVE ~Strikes(S)
  BY <1>0, LethalEffect DEF Strikes
<1>9. ASSUME NEW D \in SUBSET Entities PROVE ~Ends(D)
  BY <1>0 DEF Ends, Finalize
<1> QED
  BY <1>0, StepEffect, <1>1, <1>2, <1>3, <1>4, <1>5, <1>6, <1>7, <1>8, <1>9 DEF Effect

\* Nobody down gets up in the fight but by a team mate who is up.
THEOREM TeamRevives == Spec => RevivedByTeam
<1>1. IInv /\ [Next]_vars =>
        [\A e \in Entities :
            life[e] = "knocked" /\ life'[e] = "alive" /\ ~roundOver =>
                \E p \in Players : p = rescues[e] /\ TeamOf(p) = TeamOf(e) /\ LifeOf(p) = "alive"]_vars
  BY RevivalStep
<1> QED  BY <1>1, Invariance, PTL DEF Spec, RevivedByTeam

-----------------------------------------------------------------------------
(* Settlement: types, credit at most once, acknowledgement after the last  *)
(* player, one worker a message, and the ledger it implements.             *)

Messages == {Ended} \cup {<<r>> : r \in Result}

\* Publishing keeps the channel a bounded queue of messages.
LEMMA EnqueuedType ==
    ASSUME NEW q \in Seq(Messages), Len(q) <= Buffer, NEW message \in Messages
    PROVE  Enqueued(q, message) \in Seq(Messages) /\ Len(Enqueued(q, message)) <= Buffer
BY SettlementAssumption DEF Enqueued

\* The ids of a read: those after the last one delivered, within the stream.
LEMMA NextIdsType ==
    ASSUME stream \in Seq(Result), delivered \in 0..Len(stream), Available # 0
    PROVE  /\ Available \in 1..(Len(stream) - delivered)
           /\ NextIds \in Seq(1..(delivered + Available))
           /\ NextIds # <<>>
           /\ \A i \in Range(NextIds) : i \in 1..(delivered + Available) /\ i > delivered
<1>1. Available \in 1..(Len(stream) - delivered)
  <2>1. Len(stream) \in Nat
    BY LenProperties
  <2>2. QED
    BY <2>1, SettlementAssumption DEF Available
<1>2. DOMAIN NextIds = 1..Available /\ \A i \in 1..Available : NextIds[i] = delivered + i
  BY DEF NextIds
<1>3. \A i \in 1..Available : NextIds[i] \in 1..(delivered + Available) /\ NextIds[i] > delivered
  BY <1>1, <1>2, LenProperties
<1>4. NextIds \in [1..Available -> 1..(delivered + Available)]
  BY <1>2, <1>3 DEF NextIds
<1>5. NextIds \in Seq(1..(delivered + Available)) /\ Len(NextIds) = Available
  BY <1>1, <1>4, LenProperties
<1>6. QED
  BY <1>1, <1>2, <1>3, <1>5 DEF Range

\* What is left of a batch was in it.
LEMMA TailRange ==
    ASSUME NEW S, NEW s \in Seq(S), s # <<>>
    PROVE  /\ Head(s) \in S /\ Head(s) \in Range(s)
           /\ Tail(s) \in Seq(S)
           /\ Range(Tail(s)) \subseteq Range(s)
<1>1. Len(s) \in Nat \ {0} /\ DOMAIN s = 1..Len(s)
  BY EmptySeq, LenProperties
<1>2. Tail(s) \in Seq(S) /\ Len(Tail(s)) = Len(s) - 1 /\ \A i \in 1..Len(Tail(s)) : Tail(s)[i] = s[i + 1]
  BY HeadTailProperties
<1>3. DOMAIN Tail(s) = 1..(Len(s) - 1)
  BY <1>2, LenProperties
<1>4. Head(s) = s[1] /\ Head(s) \in S
  BY <1>1, ElementOfSeq
<1>5. QED
  BY <1>1, <1>2, <1>3, <1>4 DEF Range

\* What a drain adds to the stream: nothing, or one result.
LEMMA AddedType ==
    ASSUME stream \in Seq(Result), out \in Seq(Messages), out # <<>>
    PROVE  /\ Added \in Seq(Result)
           /\ Len(Added) >= Len(stream)
           /\ \A i \in DOMAIN stream : i \in DOMAIN Added /\ Added[i] = stream[i]
           /\ \A i \in DOMAIN Added \ DOMAIN stream : Head(out) = <<Added[i]>>
<1>1. Head(out) \in Messages
  BY HeadTailProperties
<1>2. Len(stream) \in Nat /\ DOMAIN stream = 1..Len(stream)
  BY LenProperties
<1>3. CASE Head(out) = Ended
  <2>1. Added = stream \o <<>>
    BY <1>3 DEF Added, Ended
  <2>2. Added = stream
    BY <2>1, ConcatEmptySeq
  <2>3. QED
    BY <1>2, <2>2
<1>4. CASE Head(out) # Ended
  <2>1. PICK r \in Result : Head(out) = <<r>>
    BY <1>1, <1>4 DEF Messages
  <2>2. <<r>> \in Seq(Result) /\ Len(<<r>>) = 1 /\ <<r>>[1] = r
    OBVIOUS
  <2>3. Added = stream \o <<r>>
    BY <2>1 DEF Added
  <2>4. /\ stream \o <<r>> \in Seq(Result)
        /\ Len(stream \o <<r>>) = Len(stream) + Len(<<r>>)
        /\ \A i \in 1..Len(stream) + Len(<<r>>) :
              (stream \o <<r>>)[i] = IF i <= Len(stream) THEN stream[i] ELSE <<r>>[i - Len(stream)]
    BY <2>2, ConcatProperties
  <2>5. DOMAIN Added = 1..(Len(stream) + 1)
    BY <1>2, <2>2, <2>4, <2>3, LenProperties
  <2>6. Added[Len(stream) + 1] = r
    BY <1>2, <2>2, <2>4, <2>3
  <2>7. QED
    BY <1>2, <2>1, <2>2, <2>4, <2>5, <2>6, <2>3
<1>5. QED
  BY <1>3, <1>4

-----------------------------------------------------------------------------

WorkerSteps(w) ==
    \/ Read(w) \/ InsertResult(w) \/ CreditCoins(w) \/ CommitResult(w) \/ Ack(w)
    \/ SettleFails(w) \/ CommitReplyLost(w) \/ AckFails(w) \/ WorkerCrash(w)

Sent(r) == (\E i \in DOMAIN stream : stream[i] = r) \/ \E i \in DOMAIN out : out[i] = <<r>>

\* An open transaction has the row of a player of the message in hand that is not settled
\* yet; its insert found no row exactly when there is none, and it pays what it owes.
Transacting ==
    \A w \in Workers : InTx(w) =>
        /\ batch[w] # <<>> /\ tx[w].row[1] = Message(w).match /\ Payee(w) \in Unsettled(w)
        /\ tx[w].fresh <=> tx[w].row \notin ledger
        /\ tx[w].paid => Owes(w)

\* No two open transactions have inserted the same row.
OneInserts ==
    \A v, w \in Workers : v # w /\ tx[v].fresh /\ tx[w].fresh => tx[v].row # tx[w].row

\* What is on its way is the result of a match that ended, and a match ends once.
OneResult ==
    /\ IsFiniteSet(reported)
    /\ \A r, q \in reported : r.match = q.match => r = q
    /\ \A r \in Result : Sent(r) => r \in reported
    /\ \A row \in ledger : \E r \in reported : row[1] = r.match

\* The players a worker counts as settled are in the ledger.
SettledInLedger ==
    \A w \in Workers : \A a \in settled[w] :
        batch[w] # <<>> /\ <<Message(w).match, a>> \in ledger

\* The inductive invariant.
Safe ==
    /\ SettlementTypeOK /\ Transacting /\ OneInserts /\ OneResult /\ CreditedOnce
    /\ SettledInLedger /\ AcknowledgedIsSettled /\ HandledByOne

\* The message a worker has in hand is a result of the stream.
LEMMA InHand ==
    ASSUME SettlementTypeOK, NEW w \in Workers, batch[w] # <<>>
    PROVE  /\ Head(batch[w]) \in 1..delivered /\ Head(batch[w]) \in DOMAIN stream
           /\ Message(w) \in Result
<1>1. Head(batch[w]) \in 1..delivered
  BY TailRange DEF SettlementTypeOK
<1>2. Len(stream) \in Nat /\ DOMAIN stream = 1..Len(stream)
  BY LenProperties DEF SettlementTypeOK
<1>3. Head(batch[w]) \in 1..Len(stream)
  BY <1>1, <1>2 DEF SettlementTypeOK
<1>4. stream[Head(batch[w])] \in Result
  BY <1>3, ElementOfSeq DEF SettlementTypeOK
<1>5. QED
  BY <1>1, <1>2, <1>3, <1>4 DEF Message

\* Handled, failed or acknowledged, a message leaves the batch and the types hold.
LEMMA NextMessageType ==
    ASSUME SettlementTypeOK, NEW w \in Workers, batch[w] # <<>>, NextMessage(w)
    PROVE  /\ batch' \in [Workers -> Seq(1..delivered)] /\ settled' \in [Workers -> SUBSET Accounts]
           /\ tx' \in [Workers -> {NoTx} \cup Tx]
<1>1. Tail(batch[w]) \in Seq(1..delivered)
  BY TailRange DEF SettlementTypeOK
<1>2. QED
  BY <1>1 DEF SettlementTypeOK, NextMessage

\* What an open transaction has inserted, paid and commits keeps the types.
LEMMA TransactionType ==
    ASSUME SettlementTypeOK, NEW w \in Workers
    PROVE  /\ InTx(w) => tx[w] \in Tx /\ Payee(w) \in Accounts
           /\ InsertResult(w) => tx' \in [Workers -> {NoTx} \cup Tx]
           /\ CreditCoins(w) => tx' \in [Workers -> {NoTx} \cup Tx]
           /\ Committed(w) => ledger' \subseteq Matches \X Accounts /\ coins' \in [Accounts -> Nat]
<1>1. ASSUME InTx(w)
      PROVE  tx[w] \in Tx /\ Payee(w) \in Accounts
  BY <1>1 DEF SettlementTypeOK, InTx, Tx, Payee
<1>2. ASSUME InsertResult(w)
      PROVE  tx' \in [Workers -> {NoTx} \cup Tx]
  <2>1. PICK a \in Unsettled(w) : tx' = [tx EXCEPT ![w] = [row |-> <<Message(w).match, a>>,
                                           fresh |-> <<Message(w).match, a>> \notin ledger, paid |-> FALSE]]
    BY <1>2 DEF InsertResult
  <2>2. Message(w).match \in Matches /\ a \in Accounts
    BY <1>2, InHand DEF InsertResult, Result, Unsettled
  <2>3. [row |-> <<Message(w).match, a>>, fresh |-> <<Message(w).match, a>> \notin ledger, paid |-> FALSE] \in Tx
    BY <2>2 DEF Tx
  <2>4. QED
    BY <2>1, <2>3 DEF SettlementTypeOK
<1>3. ASSUME CreditCoins(w)
      PROVE  tx' \in [Workers -> {NoTx} \cup Tx]
  <2>1. tx[w] \in Tx
    BY <1>1, <1>3 DEF CreditCoins
  <2>2. [tx[w] EXCEPT !.paid = TRUE] \in Tx
    BY <2>1 DEF Tx
  <2>3. QED
    BY <1>3, <2>2 DEF SettlementTypeOK, CreditCoins
<1>4. ASSUME Committed(w)
      PROVE  ledger' \subseteq Matches \X Accounts /\ coins' \in [Accounts -> Nat]
  <2>1. tx[w].row \in Matches \X Accounts /\ Payee(w) \in Accounts
    BY <1>1, <1>4 DEF Committed, Tx
  <2>2. QED
    BY <1>4, <2>1 DEF Committed, SettlementTypeOK
<1>5. QED
  BY <1>1, <1>2, <1>3, <1>4

\* The types hold at the start.
LEMMA TypeInit == SettlementInit => SettlementTypeOK
<1>1. SUFFICES ASSUME SettlementInit PROVE SettlementTypeOK
  OBVIOUS
<1>2. out \in Seq({Ended} \cup {<<r>> : r \in Result}) /\ Len(out) <= Buffer /\ stream \in Seq(Result)
  BY <1>1, SettlementAssumption, EmptySeq DEF SettlementInit
<1>3. delivered \in 0..Len(stream) /\ batch \in [Workers -> Seq(1..delivered)]
  BY <1>1, EmptySeq DEF SettlementInit
<1>4. ledger \subseteq Matches \X Accounts /\ coins \in [Accounts -> Nat]
  BY <1>1 DEF SettlementInit
<1>5. QED
  BY <1>1, <1>2, <1>3, <1>4, SettlementAssumption DEF SettlementInit, SettlementTypeOK

\* Every step keeps the types.
LEMMA TypeNext == SettlementTypeOK /\ Transacting /\ [SettlementNext]_settlementVars => SettlementTypeOK'
<1>1. SUFFICES ASSUME SettlementTypeOK, Transacting, [SettlementNext]_settlementVars PROVE SettlementTypeOK'
  OBVIOUS
<1>2. ASSUME NEW kind, Fault(kind)
      PROVE  faults' \in 0..MaxFaults
  BY <1>1, <1>2, SettlementAssumption DEF Fault, SettlementTypeOK
<1>3. out \in Seq(Messages)
  BY <1>1 DEF SettlementTypeOK, Messages
<1>4. out # <<>> => Tail(out) \in Seq(Messages) /\ Len(Tail(out)) <= Buffer
  BY <1>1, <1>3, HeadTailProperties, LenProperties, SettlementAssumption DEF SettlementTypeOK
<1>5. delivered \in Nat /\ Len(stream) \in Nat
  BY <1>1, LenProperties DEF SettlementTypeOK
<1>6. ASSUME NEW m \in Matches, NEW players \in Lineups, NEW winners \in SUBSET players,
             Publish(m, players, winners)
      PROVE  SettlementTypeOK'
  <2>1. [match |-> m, players |-> players, winners |-> winners] \in Result
    BY SettlementAssumption DEF Result
  <2>2. <<[match |-> m, players |-> players, winners |-> winners]>> \in Messages /\ Ended \in Messages
    BY <2>1 DEF Messages
  <2>3. out' \in Seq(Messages) /\ Len(out)' <= Buffer
    BY <1>1, <1>3, <1>6, <2>2, EnqueuedType DEF SettlementTypeOK, Publish
  <2>4. reported' \subseteq Result
    BY <1>1, <1>6, <2>1 DEF SettlementTypeOK, Publish
  <2>5. UNCHANGED <<stream, grouped, delivered, unacked, batch, settled, tx, ledger, coins, faults>>
    BY <1>6 DEF Publish, group, worker, postgres
  <2>6. QED
    BY <1>1, <2>3, <2>4, <2>5 DEF SettlementTypeOK, Messages
<1>7. ASSUME out # <<>>, stream' = Added
      PROVE  stream' \in Seq(Result) /\ delivered \in 0..Len(stream')
  <2>1. Added \in Seq(Result) /\ Len(Added) >= Len(stream) /\ Len(Added) \in Nat
    BY <1>1, <1>3, <1>7, AddedType, LenProperties DEF SettlementTypeOK
  <2>2. QED
    BY <1>1, <1>5, <1>7, <2>1 DEF SettlementTypeOK
<1>8. CASE Drain
  BY <1>1, <1>4, <1>7, <1>8 DEF SettlementTypeOK, Messages, Drain, group, worker, postgres
<1>9. CASE DrainTwice
  BY <1>1, <1>2, <1>7, <1>9 DEF SettlementTypeOK, DrainTwice, group, worker, postgres
<1>10. CASE DrainFails
  BY <1>1, <1>2, <1>4, <1>10 DEF SettlementTypeOK, Messages, DrainFails, group, worker, postgres
<1>11. CASE ServerCrash
  <2>1. <<>> \in Seq(Messages) /\ Len(<<>>) <= Buffer
    BY EmptySeq, SettlementAssumption
  <2>2. QED
    BY <1>1, <1>2, <1>11, <2>1 DEF SettlementTypeOK, Messages, ServerCrash, group, worker, postgres
<1>12. ASSUME Available # 0, delivered' = delivered + Available,
              unacked' = unacked \cup Range(NextIds), stream' = stream
       PROVE  /\ NextIds \in Seq(1..delivered') /\ delivered' \in 0..Len(stream')
              /\ unacked' \subseteq 1..delivered'
              /\ \A w \in Workers : batch[w] \in Seq(1..delivered')
  <2>1. /\ Available \in 1..(Len(stream) - delivered)
        /\ NextIds \in Seq(1..(delivered + Available))
        /\ \A i \in Range(NextIds) : i \in 1..(delivered + Available)
    BY <1>1, <1>12, NextIdsType DEF SettlementTypeOK
  <2>2. 1..delivered \subseteq 1..delivered'
    BY <1>5, <1>12, <2>1
  <2>3. \A w \in Workers : batch[w] \in Seq(1..delivered')
    BY <1>1, <2>2, SeqMonotonic DEF SettlementTypeOK
  <2>4. unacked' \subseteq 1..delivered'
    BY <1>1, <1>12, <2>1, <2>2 DEF SettlementTypeOK
  <2>5. delivered' \in 0..Len(stream')
    BY <1>5, <1>12, <2>1
  <2>6. QED
    BY <1>12, <2>1, <2>3, <2>4, <2>5
<1>13. CASE ReadLost
  BY <1>1, <1>2, <1>12, <1>13 DEF SettlementTypeOK, ReadLost, Readable, sending, worker, postgres
<1>14. ASSUME NEW w \in Workers, WorkerSteps(w)
       PROVE  SettlementTypeOK'
  <2>1. CASE Read(w)
    BY <1>1, <1>12, <2>1 DEF SettlementTypeOK, Read, Readable, sending, postgres
  <2>2. CASE InsertResult(w)
    BY <1>1, <2>2, TransactionType DEF SettlementTypeOK, InsertResult, sending, group, postgres
  <2>3. CASE CreditCoins(w)
    BY <1>1, <2>3, TransactionType DEF SettlementTypeOK, CreditCoins, sending, group, postgres
  <2>4. CASE CommitResult(w)
    <3>1. Payee(w) \in Accounts /\ ledger' \subseteq Matches \X Accounts /\ coins' \in [Accounts -> Nat]
      BY <1>1, <2>4, TransactionType DEF CommitResult, Committed
    <3>2. QED
      BY <1>1, <2>4, <3>1 DEF SettlementTypeOK, CommitResult, sending, group
  <2>5. ASSUME batch[w] # <<>>, NextMessage(w)
        PROVE  /\ batch' \in [Workers -> Seq(1..delivered)] /\ settled' \in [Workers -> SUBSET Accounts]
               /\ tx' \in [Workers -> {NoTx} \cup Tx]
    BY <1>1, <2>5, NextMessageType
  <2>6. CASE Ack(w)
    BY <1>1, <2>5, <2>6 DEF SettlementTypeOK, Ack, Handled, sending, postgres
  <2>7. CASE SettleFails(w)
    BY <1>1, <1>2, <2>5, <2>7 DEF SettlementTypeOK, SettleFails, sending, group, postgres
  <2>8. CASE CommitReplyLost(w)
    <3>1. batch[w] # <<>>
      BY <1>1, <2>8 DEF CommitReplyLost, Committed, Transacting
    <3>2. ledger' \subseteq Matches \X Accounts /\ coins' \in [Accounts -> Nat]
      BY <1>1, <2>8, TransactionType DEF CommitReplyLost
    <3>3. QED
      BY <1>1, <1>2, <2>5, <2>8, <3>1, <3>2 DEF SettlementTypeOK, CommitReplyLost, sending, group
  <2>9. CASE AckFails(w)
    BY <1>1, <1>2, <2>5, <2>9 DEF SettlementTypeOK, AckFails, Handled, sending, group, postgres
  <2>10. CASE WorkerCrash(w)
    <3>1. <<>> \in Seq(1..delivered)
      BY EmptySeq
    <3>2. QED
      BY <1>1, <1>2, <2>10, <3>1 DEF SettlementTypeOK, WorkerCrash, sending, postgres
  <2>11. QED
    BY <1>14, <2>1, <2>2, <2>3, <2>4, <2>6, <2>7, <2>8, <2>9, <2>10 DEF WorkerSteps
<1>15. CASE UNCHANGED settlementVars
  BY <1>1, <1>15 DEF SettlementTypeOK, settlementVars, sending, group, worker, postgres
<1>16. QED
  BY <1>1, <1>6, <1>8, <1>9, <1>10, <1>11, <1>13, <1>14, <1>15 DEF SettlementNext, WorkerStep, WorkerSteps

-----------------------------------------------------------------------------
(* Who changes what.                                                       *)

\* Only the commit of an open transaction touches the ledger and the coins.
LEMMA LedgerChanges ==
    ASSUME [SettlementNext]_settlementVars
    PROVE  \/ UNCHANGED postgres
           \/ /\ UNCHANGED <<sending, group>>
              /\ \E w \in Workers : Committed(w) /\ tx' = [tx EXCEPT ![w] = NoTx]
BY DEF SettlementNext, settlementVars, Publish, Drain, DrainTwice, DrainFails, ServerCrash, ReadLost,
       WorkerStep, Read, InsertResult, CreditCoins, CommitResult, Ack, SettleFails, CommitReplyLost, AckFails, WorkerCrash,
       NextMessage

\* A result is on its way from its match's end on: only Publish sends a new one.
LEMMA SendingChanges ==
    ASSUME [SettlementNext]_settlementVars
    PROVE  \/ UNCHANGED sending
           \/ /\ UNCHANGED <<stream, postgres>>
              /\ \E m \in Matches, players \in Lineups : \E winners \in SUBSET players :
                    Publish(m, players, winners)
           \/ UNCHANGED <<reported, stream, postgres>> /\ out # <<>> /\ out' = Tail(out)
           \/ UNCHANGED <<reported, stream, postgres>> /\ out' = <<>>
           \/ UNCHANGED <<reported, postgres>> /\ out # <<>> /\ stream' = Added /\ out' \in {out, Tail(out)}
BY DEF SettlementNext, settlementVars, sending, Publish, Drain, DrainTwice, DrainFails, ServerCrash, ReadLost,
       WorkerStep, Read, InsertResult, CreditCoins, CommitResult, Ack, SettleFails, CommitReplyLost, AckFails, WorkerCrash

\* The stream only grows.
LEMMA StreamGrows ==
    ASSUME SettlementTypeOK, [SettlementNext]_settlementVars
    PROVE  \A i \in DOMAIN stream : i \in DOMAIN stream' /\ stream'[i] = stream[i]
<1>1. out \in Seq(Messages) /\ stream \in Seq(Result)
  BY DEF SettlementTypeOK, Messages
<1>2. CASE UNCHANGED stream
  BY <1>2
<1>3. CASE out # <<>> /\ stream' = Added
  BY <1>1, <1>3, AddedType
<1>4. QED
  BY <1>2, <1>3, SendingChanges DEF sending

\* What the ledger has, it keeps.
LEMMA LedgerNeverShrinks ==
    ASSUME [SettlementNext]_settlementVars
    PROVE  ledger \subseteq ledger'
<1>1. ASSUME NEW w \in Workers, Committed(w)
      PROVE  ledger \subseteq ledger'
  BY <1>1 DEF Committed
<1>2. QED
  BY <1>1, LedgerChanges DEF postgres

\* The message a worker has in hand stays the same until its batch moves on.
LEMMA InHandKept ==
    ASSUME SettlementTypeOK, [SettlementNext]_settlementVars, NEW w \in Workers, batch'[w] = batch[w], batch[w] # <<>>
    PROVE  Message(w)' = Message(w)
<1>1. Head(batch[w]) \in DOMAIN stream
  BY InHand
<1>2. stream'[Head(batch[w])] = stream[Head(batch[w])]
  BY <1>1, StreamGrows
<1>3. QED
  BY <1>2 DEF Message

\* What a step does to a worker: it goes on from a new message or from none, or its
\* transaction inserts, pays or commits, or it is left alone.
LEMMA WorkerChanges ==
    ASSUME SettlementTypeOK, Transacting, SettledInLedger, [SettlementNext]_settlementVars, NEW w \in Workers
    PROVE  \/ tx'[w] = NoTx /\ settled'[w] = {}
           \/ tx'[w] = tx[w] /\ batch'[w] = batch[w] /\ settled'[w] = settled[w]
           \/ batch'[w] = batch[w] /\ settled'[w] = settled[w] /\ (InsertResult(w) \/ CreditCoins(w))
           \/ batch'[w] = batch[w] /\ CommitResult(w)
<1>1. batch[w] = <<>> => tx[w] = NoTx /\ settled[w] = {}
  BY DEF Transacting, SettledInLedger, InTx
<1>2. ASSUME NEW v \in Workers, WorkerSteps(v), v # w
      PROVE  tx'[w] = tx[w] /\ batch'[w] = batch[w] /\ settled'[w] = settled[w]
  BY <1>2 DEF SettlementTypeOK, WorkerSteps, Read, InsertResult, CreditCoins, CommitResult, Ack, SettleFails,
              CommitReplyLost, AckFails, WorkerCrash, NextMessage
<1>3. CASE WorkerSteps(w)
  BY <1>1, <1>3 DEF SettlementTypeOK, WorkerSteps, Read, InsertResult, CreditCoins, CommitResult, Ack, SettleFails,
                    CommitReplyLost, AckFails, WorkerCrash, NextMessage
<1>4. CASE ~ \E v \in Workers : WorkerSteps(v)
  BY <1>4 DEF SettlementNext, settlementVars, worker, Publish, Drain, DrainTwice, DrainFails, ServerCrash, ReadLost,
              WorkerStep, WorkerSteps
<1>5. QED
  BY <1>2, <1>3, <1>4

-----------------------------------------------------------------------------
(* The inductive invariant.                                                *)

\* A commit adds the row of its transaction, if that had found none.
LEMMA CommitAdds ==
    ASSUME SettlementTypeOK, Transacting, NEW w \in Workers, Committed(w)
    PROVE  /\ InTx(w) /\ tx[w] \in Tx
           /\ tx[w].row = <<Message(w).match, Payee(w)>> /\ Payee(w) \in Accounts
           /\ tx[w].row \in ledger' /\ ledger' \subseteq ledger \cup {tx[w].row}
           /\ tx[w].row \in ledger => ledger' = ledger /\ coins' = coins
<1>1. InTx(w) /\ tx[w] \in Tx /\ Payee(w) \in Accounts
  BY TransactionType DEF Committed
<1>2. tx[w].row = <<Message(w).match, Payee(w)>>
  BY <1>1 DEF Transacting, Tx, Payee
<1>3. tx[w].row \in ledger' /\ ledger' \subseteq ledger \cup {tx[w].row}
  BY <1>1 DEF Committed, Transacting
<1>4. tx[w].row \in ledger => ledger' = ledger /\ coins' = coins
  BY <1>1 DEF Committed, Transacting, Owes
<1>5. QED
  BY <1>1, <1>2, <1>3, <1>4

\* Every step keeps the open transactions what they are, also when another one commits.
LEMMA TransactingNext ==
    ASSUME SettlementTypeOK, Transacting, OneInserts, SettledInLedger, [SettlementNext]_settlementVars
    PROVE  Transacting'
<1>1. SUFFICES ASSUME NEW w \in Workers, InTx(w)'
               PROVE  /\ batch'[w] # <<>> /\ tx'[w].row[1] = Message(w)'.match /\ Payee(w)' \in Unsettled(w)'
                      /\ tx'[w].fresh <=> tx'[w].row \notin ledger'
                      /\ tx'[w].paid => Owes(w)'
  BY DEF Transacting
<1>2. tx'[w] # NoTx
  BY <1>1 DEF InTx, NoTx
<1>3. CASE tx'[w] = tx[w] /\ batch'[w] = batch[w] /\ settled'[w] = settled[w]
  <2>1. InTx(w) /\ batch[w] # <<>>
    BY <1>2, <1>3 DEF InTx, Transacting
  <2>2. Message(w)' = Message(w)
    BY <1>3, <2>1, InHandKept
  <2>3. tx[w].row \in ledger' <=> tx[w].row \in ledger
    <3>1. CASE UNCHANGED postgres
      BY <3>1 DEF postgres
    <3>2. ASSUME NEW v \in Workers, Committed(v), tx' = [tx EXCEPT ![v] = NoTx]
          PROVE  tx[w].row \in ledger' <=> tx[w].row \in ledger
      <4>1. CASE v = w
        BY <1>2, <3>2, <4>1 DEF SettlementTypeOK
      <4>2. CASE v # w
        <5>1. ledger \subseteq ledger' /\ ledger' \subseteq ledger \cup {tx[v].row}
          BY <3>2, CommitAdds, LedgerNeverShrinks
        <5>2. tx[v].row \notin ledger => tx[v].fresh
          BY <3>2, CommitAdds DEF Transacting
        <5>3. tx[w].row \notin ledger => tx[w].fresh
          BY <2>1 DEF Transacting
        <5>4. QED
          BY <4>2, <5>1, <5>2, <5>3 DEF OneInserts
      <4>3. QED
        BY <4>1, <4>2
    <3>3. QED
      BY <3>1, <3>2, LedgerChanges
  <2>4. Payee(w)' = Payee(w) /\ Unsettled(w)' = Unsettled(w) /\ Owes(w)' = Owes(w)
    BY <1>3, <2>2 DEF Payee, Unsettled, Owes
  <2>5. QED
    BY <1>3, <2>1, <2>2, <2>3, <2>4 DEF Transacting
<1>4. CASE batch'[w] = batch[w] /\ settled'[w] = settled[w] /\ InsertResult(w)
  <2>1. Message(w)' = Message(w) /\ ledger' = ledger /\ batch[w] # <<>>
    BY <1>4, InHandKept DEF InsertResult, postgres
  <2>2. PICK a \in Unsettled(w) :
            tx'[w] = [row |-> <<Message(w).match, a>>, fresh |-> <<Message(w).match, a>> \notin ledger, paid |-> FALSE]
    BY <1>4 DEF InsertResult, SettlementTypeOK
  <2>3. Unsettled(w)' = Unsettled(w) /\ Payee(w)' = a
    BY <1>4, <2>1, <2>2 DEF Unsettled, Payee
  <2>4. tx'[w].row = <<Message(w).match, a>> /\ tx'[w].fresh = (tx'[w].row \notin ledger) /\ tx'[w].paid = FALSE
    BY <2>2
  <2>5. batch'[w] # <<>> /\ tx'[w].row[1] = Message(w)'.match
    BY <1>4, <2>1, <2>4
  <2>6. Payee(w)' \in Unsettled(w)'
    BY <2>3
  <2>7. tx'[w].fresh <=> tx'[w].row \notin ledger'
    BY <2>1, <2>4
  <2>8. QED
    BY <2>4, <2>5, <2>6, <2>7
<1>5. CASE batch'[w] = batch[w] /\ settled'[w] = settled[w] /\ CreditCoins(w)
  <2>1. InTx(w) /\ Owes(w) /\ ledger' = ledger /\ batch[w] # <<>> /\ tx[w] \in Tx
    BY <1>5, TransactionType DEF CreditCoins, postgres, Transacting
  <2>2. Message(w)' = Message(w)
    BY <1>5, <2>1, InHandKept
  <2>3. tx'[w].row = tx[w].row /\ tx'[w].fresh = tx[w].fresh
    BY <1>5, <2>1 DEF CreditCoins, SettlementTypeOK, Tx
  <2>4. Unsettled(w)' = Unsettled(w) /\ Payee(w)' = Payee(w) /\ Owes(w)'
    BY <1>5, <2>1, <2>2, <2>3 DEF Unsettled, Payee, Owes
  <2>5. QED
    BY <1>5, <2>1, <2>2, <2>3, <2>4 DEF Transacting
<1>6. CASE CommitResult(w)
  BY <1>2, <1>6 DEF CommitResult, SettlementTypeOK
<1>7. QED
  BY <1>2, <1>3, <1>4, <1>5, <1>6, WorkerChanges

\* Every step keeps the inserted rows apart: an insert waits for the transaction that has its row.
LEMMA OneInsertsNext ==
    ASSUME SettlementTypeOK, Transacting, OneInserts, SettledInLedger, [SettlementNext]_settlementVars
    PROVE  OneInserts'
<1>1. ASSUME NEW w \in Workers, tx'[w].fresh
      PROVE  (tx[w].fresh /\ tx'[w].row = tx[w].row) \/ InsertResult(w)
  <2>1. CASE tx'[w] = NoTx
    BY <1>1, <2>1 DEF NoTx
  <2>2. CASE CreditCoins(w)
    <3>1. tx[w] \in Tx
      BY <2>2, TransactionType DEF CreditCoins
    <3>2. QED
      BY <1>1, <2>2, <3>1 DEF CreditCoins, SettlementTypeOK, Tx
  <2>3. CASE CommitResult(w)
    BY <2>1, <2>3 DEF CommitResult, SettlementTypeOK
  <2>4. QED
    BY <1>1, <2>1, <2>2, <2>3, WorkerChanges
<1>2. ASSUME NEW v \in Workers, NEW w \in Workers, v # w, InsertResult(w), tx'[w].fresh, tx'[v].fresh
      PROVE  tx'[v].row # tx'[w].row
  <2>1. tx'[v] = tx[v] /\ ~RowHeld(w, tx'[w].row)
    BY <1>2 DEF InsertResult, SettlementTypeOK
  <2>2. QED
    BY <1>2, <2>1 DEF RowHeld
<1>3. QED
  BY <1>1, <1>2 DEF OneInserts

\* Every step keeps one result a match, and rows of matches that ended.
LEMMA OneResultNext ==
    ASSUME SettlementTypeOK, Transacting, OneResult, [SettlementNext]_settlementVars
    PROVE  OneResult'
<1>1. out \in Seq(Messages) /\ stream \in Seq(Result)
  BY DEF SettlementTypeOK, Messages
<1>2. ASSUME NEW i \in DOMAIN Tail(out), out # <<>>
      PROVE  \E j \in DOMAIN out : out[j] = Tail(out)[i]
  BY <1>1, <1>2, TailRange DEF Range
<1>3. out # <<>> => \E j \in DOMAIN out : out[j] = Head(out)
  BY <1>1, TailRange DEF Range
<1>5. ASSUME ~ \E m \in Matches, players \in Lineups : \E winners \in SUBSET players :
                  Publish(m, players, winners)
      PROVE  reported' = reported /\ \A r \in Result : Sent(r)' => Sent(r)
  <2>1. CASE UNCHANGED sending
    BY <2>1 DEF sending, Sent
  <2>2. CASE UNCHANGED <<reported, stream>> /\ out # <<>> /\ out' = Tail(out)
    BY <1>2, <2>2 DEF Sent
  <2>3. CASE UNCHANGED <<reported, stream>> /\ out' = <<>>
    BY <2>3 DEF Sent
  <2>4. CASE UNCHANGED reported /\ out # <<>> /\ stream' = Added /\ out' \in {out, Tail(out)}
    <3>1. ASSUME NEW r, NEW i \in DOMAIN Added, Added[i] = r
          PROVE  Sent(r)
      <4>1. CASE i \in DOMAIN stream
        BY <1>1, <2>4, <3>1, <4>1, AddedType DEF Sent
      <4>2. CASE i \notin DOMAIN stream
        <5>1. Head(out) = <<r>>
          BY <1>1, <2>4, <3>1, <4>2, AddedType
        <5>2. QED
          BY <1>3, <2>4, <5>1 DEF Sent
      <4>3. QED
        BY <4>1, <4>2
    <3>2. QED
      BY <1>2, <2>4, <3>1 DEF Sent
  <2>5. QED
    BY <1>5, <2>1, <2>2, <2>3, <2>4, SendingChanges
<1>6. ASSUME UNCHANGED reported
      PROVE  \A row \in ledger' : \E r \in reported : row[1] = r.match
  <2>1. CASE UNCHANGED postgres
    BY <2>1 DEF postgres, OneResult
  <2>2. ASSUME NEW w \in Workers, Committed(w)
        PROVE  \A row \in ledger' : \E r \in reported : row[1] = r.match
    <3>1. batch[w] # <<>> /\ ledger' \subseteq ledger \cup {tx[w].row} /\ tx[w].row[1] = Message(w).match
      BY <2>2, CommitAdds DEF Transacting
    <3>2. Message(w) \in Result /\ Sent(Message(w))
      BY <3>1, InHand DEF Message, Sent
    <3>3. Message(w) \in reported
      BY <3>2 DEF OneResult
    <3>4. QED
      BY <3>1, <3>3 DEF OneResult
  <2>3. QED
    BY <2>1, <2>2, LedgerChanges
<1>7. ASSUME NEW m \in Matches, NEW players \in Lineups, NEW winners \in SUBSET players,
             Publish(m, players, winners)
      PROVE  OneResult'
  <2> DEFINE new == [match |-> m, players |-> players, winners |-> winners]
  <2>1. new \in Result /\ new.match = m
    BY SettlementAssumption DEF Result
  <2>2. ASSUME NEW q \in Seq(Messages), NEW message \in Messages, NEW i \in DOMAIN Enqueued(q, message)
        PROVE  Enqueued(q, message)[i] = message \/ \E j \in DOMAIN q : q[j] = Enqueued(q, message)[i]
    BY <2>2, LenProperties DEF Enqueued
  <2>3. <<new>> \in Messages /\ Ended \in Messages /\ Enqueued(out, <<new>>) \in Seq(Messages)
    BY <1>1, <2>1 DEF Messages, Enqueued
  <2>4. /\ \A r \in reported : r.match # m
        /\ reported' = reported \cup {new} /\ out' = Enqueued(Enqueued(out, <<new>>), Ended)
        /\ stream' = stream /\ ledger' = ledger
    BY <1>7 DEF Publish, postgres
  <2>5. \A i \in DOMAIN out' : \/ out'[i] = Ended \/ out'[i] = <<new>>
                              \/ \E j \in DOMAIN out : out[j] = out'[i]
    BY <1>1, <2>2, <2>3, <2>4
  <2>6. \A r : <<r>> # Ended
    BY DEF Ended
  <2>7. ASSUME NEW r \in Result, Sent(r)'
        PROVE  r = new \/ Sent(r)
    BY <2>4, <2>5, <2>6, <2>7 DEF Sent
  <2>8. IsFiniteSet(reported')
    BY <2>4, FS_AddElement DEF OneResult
  <2>9. \A r, q \in reported' : r.match = q.match => r = q
    BY <2>1, <2>4 DEF OneResult
  <2>10. \A r \in Result : Sent(r)' => r \in reported'
    BY <2>4, <2>7 DEF OneResult
  <2>11. \A row \in ledger' : \E r \in reported' : row[1] = r.match
    BY <2>4 DEF OneResult
  <2>12. QED
    BY <2>8, <2>9, <2>10, <2>11 DEF OneResult
<1>8. CASE ~ \E m \in Matches, players \in Lineups : \E winners \in SUBSET players :
                Publish(m, players, winners)
  BY <1>5, <1>6, <1>8 DEF OneResult
<1>9. QED
  BY <1>7, <1>8

\* The results an account won and has a row of.
Won(a) == {r \in reported : a \in r.winners /\ <<r.match, a>> \in ledger}

\* A commit pays an account one coin exactly when the results it won and has a row of
\* become one more.
LEMMA CommitCredits ==
    ASSUME SettlementTypeOK, Transacting, OneResult, CreditedOnce, NEW w \in Workers, Committed(w),
           UNCHANGED reported, NEW a \in Accounts
    PROVE  coins'[a] = Cardinality(Won(a)')
<1> DEFINE b == Payee(w)
           r == Message(w)
<1>1. /\ InTx(w) /\ b \in Accounts /\ tx[w].row = <<r.match, b>>
      /\ tx[w].row \in ledger' /\ ledger' \subseteq ledger \cup {tx[w].row}
      /\ tx[w].row \in ledger => ledger' = ledger /\ coins' = coins
  BY CommitAdds
<1>2. batch[w] # <<>> /\ r \in Result /\ r \in reported
  <2>1. batch[w] # <<>>
    BY <1>1 DEF Transacting
  <2>2. r \in Result /\ Sent(r)
    BY <2>1, InHand DEF Message, Sent
  <2>3. QED
    BY <2>1, <2>2 DEF OneResult
<1>3. coins[a] = Cardinality(Won(a)) /\ coins[a] \in Nat
  BY DEF CreditedOnce, Won, SettlementTypeOK
<1>4. ledger \subseteq ledger'
  BY DEF Committed
<1>5. CASE tx[w].row \in ledger \/ a # b \/ b \notin r.winners
  <2>1. coins'[a] = coins[a]
    <3>1. CASE tx[w].row \in ledger
      BY <1>1, <3>1
    <3>2. CASE a # b
      BY <1>1, <3>2 DEF Committed, SettlementTypeOK
    <3>3. CASE b \notin r.winners
      BY <1>1, <3>3 DEF Committed, Transacting, Owes
    <3>4. QED
      BY <1>5, <3>1, <3>2, <3>3
  <2>2. ASSUME NEW q \in reported, a \in q.winners
        PROVE  <<q.match, a>> \in ledger' <=> <<q.match, a>> \in ledger
    <3>1. CASE <<q.match, a>> = tx[w].row
      <4>1. q.match = r.match /\ a = b
        BY <1>1, <3>1
      <4>2. q = r
        BY <1>2, <2>2, <4>1 DEF OneResult
      <4>3. QED
        BY <1>1, <1>5, <2>2, <4>1, <4>2
    <3>2. CASE <<q.match, a>> # tx[w].row
      BY <1>1, <1>4, <3>2
    <3>3. QED
      BY <3>1, <3>2
  <2>3. Won(a)' = Won(a)
    BY <2>2 DEF Won
  <2>4. QED
    BY <1>3, <2>1, <2>3
<1>6. CASE tx[w].row \notin ledger /\ a = b /\ b \in r.winners
  <2>1. tx[w].paid
    BY <1>1, <1>6 DEF Committed, Transacting, Owes
  <2>2. coins'[a] = coins[a] + 1
    BY <1>1, <1>6, <2>1 DEF Committed, SettlementTypeOK
  <2>3. r \notin Won(a)
    BY <1>1, <1>6 DEF Won
  <2>4. ASSUME NEW q \in reported, a \in q.winners
        PROVE  <<q.match, a>> \in ledger' <=> q = r \/ <<q.match, a>> \in ledger
    <3>1. CASE <<q.match, a>> = tx[w].row
      <4>1. q.match = r.match
        BY <1>1, <3>1
      <4>2. QED
        BY <1>1, <1>2, <2>4, <3>1, <4>1 DEF OneResult
    <3>2. CASE <<q.match, a>> # tx[w].row
      BY <1>1, <1>4, <1>6, <3>2
    <3>3. QED
      BY <3>1, <3>2
  <2>5. Won(a)' = Won(a) \cup {r}
    BY <1>2, <1>6, <2>4 DEF Won
  <2>6. IsFiniteSet(Won(a))
    BY FS_Subset DEF Won, OneResult
  <2>7. QED
    BY <1>3, <2>2, <2>3, <2>5, <2>6, FS_AddElement
<1>7. QED
  BY <1>5, <1>6

\* Every step keeps the coins of an account those of its rows.
LEMMA CreditedNext ==
    ASSUME SettlementTypeOK, Transacting, OneResult, CreditedOnce, [SettlementNext]_settlementVars
    PROVE  CreditedOnce'
<1>1. SUFFICES ASSUME NEW a \in Accounts
               PROVE  coins'[a] = Cardinality(Won(a)')
  BY DEF CreditedOnce, Won
<1>2. CASE UNCHANGED postgres /\ UNCHANGED reported
  BY <1>2 DEF postgres, CreditedOnce, Won
<1>3. ASSUME NEW m \in Matches, NEW players \in Lineups, NEW winners \in SUBSET players,
             Publish(m, players, winners)
      PROVE  coins'[a] = Cardinality(Won(a)')
  <2> DEFINE new == [match |-> m, players |-> players, winners |-> winners]
  <2>1. /\ \A r \in reported : r.match # m
        /\ reported' = reported \cup {new} /\ ledger' = ledger /\ coins' = coins
    BY <1>3 DEF Publish, postgres
  <2>2. <<m, a>> \notin ledger
    BY <2>1 DEF OneResult
  <2>3. Won(a)' = Won(a)
    BY <2>1, <2>2 DEF Won
  <2>4. QED
    BY <2>1, <2>3 DEF CreditedOnce, Won
<1>4. CASE \E w \in Workers : UNCHANGED sending /\ Committed(w)
  BY <1>4, CommitCredits DEF sending
<1>5. QED
  BY <1>2, <1>3, <1>4, LedgerChanges, SendingChanges DEF sending

\* Every step keeps what is settled in the ledger.
LEMMA SettledInLedgerNext ==
    ASSUME SettlementTypeOK, Transacting, SettledInLedger, [SettlementNext]_settlementVars
    PROVE  SettledInLedger'
<1>1. SUFFICES ASSUME NEW w \in Workers, NEW a \in settled'[w]
               PROVE  batch'[w] # <<>> /\ <<Message(w)'.match, a>> \in ledger'
  BY DEF SettledInLedger
<1>2. CASE batch'[w] = batch[w] /\ settled'[w] = settled[w]
  BY <1>1, <1>2, InHandKept, LedgerNeverShrinks DEF SettledInLedger
<1>3. CASE batch'[w] = batch[w] /\ CommitResult(w)
  <2>1. Committed(w) /\ settled'[w] = settled[w] \cup {Payee(w)}
    BY <1>3 DEF CommitResult, SettlementTypeOK
  <2>2. batch[w] # <<>> /\ <<Message(w).match, Payee(w)>> \in ledger'
    BY <2>1, CommitAdds DEF Transacting
  <2>3. Message(w)' = Message(w)
    BY <1>3, <2>2, InHandKept
  <2>4. QED
    BY <1>1, <1>3, <2>1, <2>2, <2>3, LedgerNeverShrinks DEF SettledInLedger
<1>4. QED
  BY <1>1, <1>2, <1>3, WorkerChanges

\* Every step keeps the acknowledged settled.
LEMMA AcknowledgedNext ==
    ASSUME SettlementTypeOK, SettledInLedger, AcknowledgedIsSettled, [SettlementNext]_settlementVars
    PROVE  AcknowledgedIsSettled'
<1>1. SUFFICES ASSUME NEW i \in 1..delivered', i \notin unacked', NEW a \in stream'[i].players
               PROVE  <<stream'[i].match, a>> \in ledger'
  BY DEF AcknowledgedIsSettled
<1>2. ASSUME i \in 1..delivered, i \notin unacked
      PROVE  <<stream'[i].match, a>> \in ledger'
  <2>1. i \in DOMAIN stream
    BY <1>2, LenProperties DEF SettlementTypeOK
  <2>2. stream'[i] = stream[i]
    BY <2>1, StreamGrows
  <2>3. <<stream[i].match, a>> \in ledger
    BY <1>1, <1>2, <2>2 DEF AcknowledgedIsSettled
  <2>4. QED
    BY <2>2, <2>3, LedgerNeverShrinks
<1>3. ASSUME NEW w \in Workers, Ack(w)
      PROVE  <<stream'[i].match, a>> \in ledger'
  <2>1. CASE i \notin unacked
    BY <1>1, <1>2, <1>3, <2>1 DEF Ack
  <2>2. CASE i = Head(batch[w])
    <3>1. Message(w).players \subseteq settled[w]
      BY <1>3 DEF Ack, Handled, Unsettled
    <3>2. stream' = stream /\ ledger' = ledger
      BY <1>3 DEF Ack, sending, postgres
    <3>3. QED
      BY <1>1, <2>2, <3>1, <3>2 DEF Message, SettledInLedger
  <2>3. QED
    BY <1>1, <1>3, <2>1, <2>2 DEF Ack
<1>4. ASSUME Available # 0, delivered' = delivered + Available, unacked' = unacked \cup Range(NextIds)
      PROVE  <<stream'[i].match, a>> \in ledger'
  <2>1. Available \in Nat /\ delivered \in Nat /\ Len(stream) \in Nat
    BY <1>4, NextIdsType, LenProperties DEF SettlementTypeOK
  <2>2. CASE i \in 1..delivered
    BY <1>1, <1>2, <1>4, <2>2
  <2>3. CASE i \notin 1..delivered
    <3>1. i - delivered \in 1..Available /\ i = delivered + (i - delivered)
      BY <1>1, <1>4, <2>1, <2>3
    <3>2. NextIds[i - delivered] = i
      BY <3>1, <2>1 DEF NextIds
    <3>3. i \in Range(NextIds)
      BY <3>1, <3>2 DEF NextIds, Range
    <3>4. QED
      BY <1>1, <1>4, <3>3
  <2>4. QED
    BY <2>2, <2>3
<1>5. CASE UNCHANGED <<delivered, unacked>>
  BY <1>1, <1>2, <1>5
<1>6. \/ UNCHANGED <<delivered, unacked>>
      \/ \E w \in Workers : Ack(w)
      \/ Available # 0 /\ delivered' = delivered + Available /\ unacked' = unacked \cup Range(NextIds)
  BY DEF SettlementNext, settlementVars, group, Readable, Publish, Drain, DrainTwice, DrainFails, ServerCrash, ReadLost, WorkerStep,
         Read, InsertResult, CreditCoins, CommitResult, SettleFails, CommitReplyLost, AckFails, WorkerCrash
<1>7. QED
  BY <1>3, <1>4, <1>5, <1>6

\* Every step keeps each delivery with one consumer.
LEMMA HandledByOneNext ==
    ASSUME SettlementTypeOK, Transacting, HandledByOne, [SettlementNext]_settlementVars
    PROVE  HandledByOne'
<1>1. ASSUME NEW w \in Workers, Read(w)
      PROVE  /\ \A i \in Range(batch'[w]) : i > delivered
             /\ \A v \in Workers \ {w} : batch'[v] = batch[v]
  BY <1>1, NextIdsType DEF SettlementTypeOK, Read, Readable
<1>2. ASSUME NEW v \in Workers, NEW i \in Range(batch[v])
      PROVE  ~(i > delivered)
  <2>1. batch[v] \in Seq(1..delivered)
    BY DEF SettlementTypeOK
  <2>2. i \in 1..delivered
    BY <1>2, <2>1, ElementOfSeq, LenProperties DEF Range
  <2>3. QED
    BY <2>2, LenProperties DEF SettlementTypeOK
<1>3. CASE \E w \in Workers : Read(w)
  BY <1>1, <1>2, <1>3 DEF HandledByOne
<1>4. ASSUME ~ \E w \in Workers : Read(w)
      PROVE  \A w \in Workers : \/ batch'[w] \in {batch[w], <<>>}
                               \/ (batch[w] # <<>> /\ batch'[w] = Tail(batch[w]))
  <2>1. ASSUME NEW v \in Workers, NextMessage(v), batch[v] # <<>>
        PROVE  \A w \in Workers : batch'[w] = batch[w] \/ (batch[w] # <<>> /\ batch'[w] = Tail(batch[w]))
    BY <2>1 DEF SettlementTypeOK, NextMessage
  <2>2. ASSUME NEW v \in Workers, Committed(v)
        PROVE  batch[v] # <<>>
    BY <2>2 DEF Committed, Transacting
  <2>3. CASE UNCHANGED batch
    BY <2>3
  <2>4. \/ UNCHANGED batch
        \/ \E v \in Workers : NextMessage(v) /\ (batch[v] # <<>> \/ Committed(v))
        \/ \E v \in Workers : WorkerCrash(v)
    BY <1>4 DEF SettlementNext, settlementVars, worker, Publish, Drain, DrainTwice, DrainFails, ServerCrash, ReadLost,
                WorkerStep, InsertResult, CreditCoins, CommitResult, Ack, Handled, SettleFails, CommitReplyLost, AckFails
  <2>5. ASSUME NEW v \in Workers, WorkerCrash(v)
        PROVE  \A w \in Workers : batch'[w] \in {batch[w], <<>>}
    BY <2>5 DEF SettlementTypeOK, WorkerCrash
  <2>6. QED
    BY <2>1, <2>2, <2>3, <2>4, <2>5
<1>5. CASE ~ \E w \in Workers : Read(w)
  <2>1. Range(<<>>) = {}
    BY DEF Range
  <2>2. \A w \in Workers : Range(batch'[w]) \subseteq Range(batch[w])
    BY <1>4, <1>5, <2>1, TailRange DEF SettlementTypeOK
  <2>3. QED
    BY <2>2 DEF HandledByOne
<1>6. QED
  BY <1>3, <1>5

\* It holds at the start.
LEMMA SafeInit == SettlementInit => Safe
<1>1. SUFFICES ASSUME SettlementInit PROVE Safe
  OBVIOUS
<1>2. SettlementTypeOK
  BY <1>1, TypeInit
<1>3. OneResult
  BY <1>1, FS_EmptySet DEF SettlementInit, OneResult, Sent
<1>4. CreditedOnce
  <2>1. \A a \in Accounts : {r \in reported : a \in r.winners /\ <<r.match, a>> \in ledger} = {}
    BY <1>1 DEF SettlementInit
  <2>2. QED
    BY <1>1, <2>1, FS_EmptySet DEF SettlementInit, CreditedOnce
<1>5. SettledInLedger /\ AcknowledgedIsSettled
  BY <1>1 DEF SettlementInit, SettledInLedger, AcknowledgedIsSettled
<1>6. HandledByOne
  BY <1>1 DEF SettlementInit, HandledByOne, Range
<1>7. Transacting /\ OneInserts
  BY <1>1 DEF SettlementInit, Transacting, OneInserts, InTx, NoTx
<1>8. QED
  BY <1>2, <1>3, <1>4, <1>5, <1>6, <1>7 DEF Safe

\* Every step keeps it.
LEMMA SafeNext == Safe /\ [SettlementNext]_settlementVars => Safe'
BY TypeNext, TransactingNext, OneInsertsNext, OneResultNext, CreditedNext, SettledInLedgerNext, AcknowledgedNext,
   HandledByOneNext DEF Safe

\* It holds throughout.
LEMMA AlwaysSafe == SettlementSpec => []Safe
BY SafeInit, SafeNext, PTL DEF SettlementSpec

\* Every variable keeps its type.
THEOREM Types == SettlementSpec => []SettlementTypeOK
<1>1. Safe => SettlementTypeOK
  BY DEF Safe
<1>2. QED
  BY <1>1, AlwaysSafe, PTL

\* However often a result is sent, read or half settled, and however its transactions
\* overlap, an account has one coin for each match it won and has a row of.
THEOREM NeverCreditedTwice == SettlementSpec => []CreditedOnce
<1>1. Safe => CreditedOnce
  BY DEF Safe
<1>2. QED
  BY <1>1, AlwaysSafe, PTL

\* Redis forgets a message only when every player of it is in the ledger.
THEOREM AcknowledgedAfterTheLast == SettlementSpec => []AcknowledgedIsSettled
<1>1. Safe => AcknowledgedIsSettled
  BY DEF Safe
<1>2. QED
  BY <1>1, AlwaysSafe, PTL

\* No two workers have a message in their reads at once.
THEOREM OneWorkerAMessage == SettlementSpec => []HandledByOne
<1>1. Safe => HandledByOne
  BY DEF Safe
<1>2. QED
  BY <1>1, AlwaysSafe, PTL

\* The transactions of the pipeline implement the ledger, where a row and its coins are one
\* change: an insert and a credit are stutters of it, and a commit is its Settle, or a
\* stutter when the insert had found the row.
THEOREM Implements == SettlementSpec => ImplementsLedger
<1>1. SettlementInit => Ledger!LedgerInit
  BY DEF SettlementInit, Ledger!LedgerInit
<1>2. Safe /\ [SettlementNext]_settlementVars => [Ledger!LedgerNext]_<<reported, ledger, coins>>
  <2>1. SUFFICES ASSUME Safe, [SettlementNext]_settlementVars, ~ UNCHANGED <<reported, ledger, coins>>
                 PROVE  Ledger!LedgerNext
    OBVIOUS
  <2>2. ASSUME NEW m \in Matches, NEW players \in Lineups, NEW winners \in SUBSET players,
               Publish(m, players, winners)
        PROVE  Ledger!LedgerNext
    <3> DEFINE new == [match |-> m, players |-> players, winners |-> winners]
    <3>1. new \in Ledger!Result
      BY SettlementAssumption DEF Ledger!Result
    <3>2. Ledger!EndMatch(new)
      BY <2>2 DEF Ledger!EndMatch, Publish, postgres
    <3>3. QED
      BY <3>1, <3>2 DEF Ledger!LedgerNext
  <2>3. ASSUME NEW w \in Workers, Committed(w), UNCHANGED sending
        PROVE  Ledger!LedgerNext
    <3>1. /\ InTx(w) /\ tx[w].row = <<Message(w).match, Payee(w)>>
          /\ tx[w].row \in ledger => ledger' = ledger /\ coins' = coins
      BY <2>1, <2>3, CommitAdds DEF Safe
    <3>2. tx[w].row \notin ledger /\ UNCHANGED reported
      BY <2>1, <2>3, <3>1 DEF sending
    <3>3. tx[w].fresh /\ (tx[w].paid <=> Payee(w) \in Message(w).winners)
      BY <2>1, <2>3, <3>1, <3>2 DEF Safe, Transacting, Committed, Owes
    <3>4. batch[w] # <<>> /\ Payee(w) \in Message(w).players
      BY <2>1, <3>1 DEF Safe, Transacting, Unsettled
    <3>5. Message(w) \in Result /\ Sent(Message(w))
      BY <2>1, <3>4, InHand DEF Safe, Message, Sent
    <3>6. Message(w) \in reported
      BY <2>1, <3>5 DEF Safe, OneResult
    <3>7. Ledger!Settle(Message(w), Payee(w))
      BY <2>3, <3>1, <3>2, <3>3 DEF Ledger!Settle, Committed
    <3>8. QED
      BY <3>4, <3>6, <3>7 DEF Ledger!LedgerNext
  <2>4. QED
    BY <2>1, <2>2, <2>3, LedgerChanges, SendingChanges DEF postgres, sending
<1>3. QED
  BY <1>1, <1>2, AlwaysSafe, PTL DEF SettlementSpec, ImplementsLedger, Ledger!LedgerSpec

-----------------------------------------------------------------------------
(* FriendsMutual for any people, any number of overlapping confirmations   *)
(* and any number of failures.                                             *)

Txn == {NoConfirm} \cup [pc : {"first", "second", "clear"}, me : People, other : People,
                         rows : SUBSET Rows]

FriendsTypes ==
    /\ friends \in SUBSET Rows /\ requested \in SUBSET Rows
    /\ agreed \in SUBSET Rows /\ torn \in SUBSET Rows
    /\ confirm \in [Confirms -> Txn]
    /\ friendFaults \in 0 .. MaxFriendFaults

\* What a transaction has inserted so far, and that it is about two people.
ConfirmPhases ==
    \A c \in Confirms :
        /\ confirm[c].pc \in {"idle", "first"} => confirm[c].rows = {}
        /\ confirm[c].pc = "second" => confirm[c].rows \in SUBSET {FirstRow(c)}
        /\ confirm[c].pc = "clear" => confirm[c].rows \in SUBSET Both(confirm[c].me, confirm[c].other)
        /\ confirm[c].pc # "idle" => confirm[c].me # confirm[c].other

\* A row is inserted by one transaction, and only if it is not there.
RowsApart ==
    /\ \A c, d \in Confirms : c # d => confirm[c].rows \cap confirm[d].rows = {}
    /\ \A c \in Confirms : confirm[c].rows \cap friends = {}

Symmetric ==
    \A a, b \in People : /\ <<a, b>> \in agreed <=> <<b, a>> \in agreed
                         /\ <<a, b>> \in torn <=> <<b, a>> \in torn

\* Where no removal came between, a transaction inserts both rows or neither.
Confirming ==
    \A c \in Confirms : confirm[c].pc # "idle" /\ FirstRow(c) \notin torn =>
        /\ confirm[c].pc = "second" => FirstRow(c) \in confirm[c].rows \cup friends
        /\ confirm[c].pc = "clear" =>
               \/ confirm[c].rows = {}
               \/ confirm[c].rows = Both(confirm[c].me, confirm[c].other)

FriendsInv == FriendsTypes /\ ConfirmPhases /\ RowsApart /\ Symmetric /\ Confirming /\ FriendsMutual

\* It holds at the start.
LEMMA InitFriendsInv == FriendsInit => FriendsInv
  BY FriendsAssumption DEF FriendsInit, FriendsInv, FriendsTypes, Txn, NoConfirm, ConfirmPhases, RowsApart, Symmetric, Confirming, FriendsMutual

\* A transaction that changes itself and nothing else.
LEMMA OwnStep ==
    ASSUME FriendsInv, NEW c \in Confirms, NEW t \in Txn,
           confirm' = [confirm EXCEPT ![c] = t],
           UNCHANGED <<friends, agreed, torn>>,
           requested' \in SUBSET Rows, friendFaults' \in 0 .. MaxFriendFaults,
           t.pc \in {"idle", "first"} => t.rows = {},
           t.pc = "second" => t.rows \in SUBSET {<<t.me, t.other>>},
           t.pc = "clear" => t.rows \in SUBSET Both(t.me, t.other),
           t.pc # "idle" => t.me # t.other,
           t.rows \cap friends = {},
           \A d \in Confirms \ {c} : t.rows \cap confirm[d].rows = {},
           t.pc # "idle" /\ <<t.me, t.other>> \notin torn =>
               /\ t.pc = "second" => <<t.me, t.other>> \in t.rows \cup friends
               /\ t.pc = "clear" => t.rows = {} \/ t.rows = Both(t.me, t.other)
    PROVE  FriendsInv'
<1>0. confirm'[c] = t /\ \A d \in Confirms \ {c} : confirm'[d] = confirm[d]
  BY DEF FriendsInv, FriendsTypes
<1>1. FriendsTypes'
  BY DEF FriendsInv, FriendsTypes
<1>2. ConfirmPhases'
  BY <1>0 DEF FriendsInv, ConfirmPhases, FirstRow
<1>3. RowsApart'
  BY <1>0 DEF FriendsInv, RowsApart
<1>4. Symmetric' /\ FriendsMutual'
  BY DEF FriendsInv, Symmetric, FriendsMutual
<1>5. Confirming'
  BY <1>0 DEF FriendsInv, Confirming, FirstRow
<1> QED
  BY <1>1, <1>2, <1>3, <1>4, <1>5 DEF FriendsInv

\* A confirmation that begins has written nothing.
LEMMA BeginStep ==
    ASSUME FriendsInv, NEW c \in Confirms, NEW me \in People, NEW adder \in People, ConfirmBegin(c, me, adder)
    PROVE  FriendsInv'
<1> DEFINE t == [pc |-> "first", me |-> me, other |-> adder, rows |-> {}]
<1>1. t \in Txn /\ confirm' = [confirm EXCEPT ![c] = t] /\ me # adder
  BY DEF ConfirmBegin, Txn
<1>2. UNCHANGED <<friends, agreed, torn>> /\ requested' \in SUBSET Rows /\ friendFaults' \in 0 .. MaxFriendFaults
  BY DEF ConfirmBegin, FriendsInv, FriendsTypes
<1>3. t.pc = "first" /\ t.rows = {} /\ t.me = me /\ t.other = adder
  OBVIOUS
<1> HIDE DEF t
<1> QED
  BY <1>1, <1>2, <1>3, OwnStep

\* A confirmation that is rolled back leaves its rows out.
LEMMA RollbackStep ==
    ASSUME FriendsInv, NEW c \in Confirms, Rollback(c), friendFaults' \in 0 .. MaxFriendFaults
    PROVE  FriendsInv'
<1>1. NoConfirm \in Txn /\ NoConfirm.pc = "idle" /\ NoConfirm.rows = {}
  BY DEF Txn, NoConfirm
<1>2. /\ UNCHANGED <<friends, agreed, torn>> /\ requested' \in SUBSET Rows
      /\ confirm' = [confirm EXCEPT ![c] = NoConfirm]
  BY DEF Rollback, FriendsInv, FriendsTypes
<1> QED
  BY <1>1, <1>2, OwnStep

\* One insertion, as a change of the transaction alone.
LEMMA InsertIs ==
    ASSUME FriendsTypes, NEW c \in Confirms, NEW one, NEW stage, Insert(c, one, stage),
           confirm[c] \in [pc : {"first", "second", "clear"}, me : People, other : People, rows : SUBSET Rows]
    PROVE  confirm' = [confirm EXCEPT ![c] =
               [pc |-> stage, me |-> confirm[c].me, other |-> confirm[c].other,
                rows |-> IF one \in friends THEN confirm[c].rows ELSE confirm[c].rows \cup {one}]]
<1> DEFINE r == IF one \in friends THEN confirm[c].rows ELSE confirm[c].rows \cup {one}
<1>1. confirm' = [confirm EXCEPT ![c].pc = stage, ![c].rows = r]
  BY DEF Insert
<1> HIDE DEF r
<1>2. confirm \in [Confirms -> Txn]
  BY DEF FriendsTypes
<1>3. /\ confirm' = [confirm EXCEPT ![c] = confirm'[c]]
      /\ confirm'[c] = [confirm[c] EXCEPT !.pc = stage, !.rows = r]
  BY <1>1, <1>2
<1>4. confirm'[c] = [pc |-> stage, me |-> confirm[c].me, other |-> confirm[c].other, rows |-> r]
  BY <1>3
<1> QED
  BY <1>3, <1>4 DEF r

\* The first row: it is there, or the transaction has it from now on.
LEMMA InsertFirstStep ==
    ASSUME FriendsInv, NEW c \in Confirms, InsertFirst(c)
    PROVE  FriendsInv'
<1> DEFINE x == confirm[c]
           t == [pc |-> "second", me |-> x.me, other |-> x.other,
                 rows |-> IF FirstRow(c) \in friends THEN x.rows ELSE x.rows \cup {FirstRow(c)}]
<1>1. x.pc = "first" /\ x.rows = {} /\ x.me # x.other /\ ~HeldByOther(c, FirstRow(c))
  BY DEF InsertFirst, Insert, FriendsInv, ConfirmPhases
<1>2. x \in [pc : {"first", "second", "clear"}, me : People, other : People, rows : SUBSET Rows]
  BY <1>1 DEF FriendsInv, FriendsTypes, Txn, NoConfirm
<1>3. t \in Txn
  BY <1>2 DEF Txn, FirstRow, Rows
<1>4. confirm' = [confirm EXCEPT ![c] = t]
  BY <1>2, InsertIs DEF InsertFirst, FriendsInv
<1>5. UNCHANGED <<friends, agreed, torn>> /\ requested' \in SUBSET Rows /\ friendFaults' \in 0 .. MaxFriendFaults
  BY DEF InsertFirst, Insert, FriendsInv, FriendsTypes
<1>6. /\ t.pc = "second" /\ t.me = x.me /\ t.other = x.other
      /\ t.rows = IF FirstRow(c) \in friends THEN {} ELSE {FirstRow(c)}
  BY <1>1
<1>7. \A d \in Confirms \ {c} : t.rows \cap confirm[d].rows = {}
  BY <1>1, <1>6 DEF HeldByOther
<1>8. t.rows \cap friends = {} /\ t.rows \in SUBSET {<<t.me, t.other>>} /\ t.me # t.other
  BY <1>1, <1>6 DEF FirstRow
<1>9. <<t.me, t.other>> \in t.rows \cup friends
  BY <1>6 DEF FirstRow
<1> HIDE DEF t
<1> QED
  BY <1>3, <1>4, <1>5, <1>6, <1>7, <1>8, <1>9, OwnStep

\* The second row: the sides agree before, so it is skipped exactly if the first one was.
LEMMA InsertSecondStep ==
    ASSUME FriendsInv, NEW c \in Confirms, InsertSecond(c)
    PROVE  FriendsInv'
<1> DEFINE x == confirm[c]
           t == [pc |-> "clear", me |-> x.me, other |-> x.other,
                 rows |-> IF SecondRow(c) \in friends THEN x.rows ELSE x.rows \cup {SecondRow(c)}]
<1>1. x.pc = "second" /\ x.rows \in SUBSET {FirstRow(c)} /\ x.me # x.other /\ ~HeldByOther(c, SecondRow(c))
  BY DEF InsertSecond, Insert, FriendsInv, ConfirmPhases
<1>2. x \in [pc : {"first", "second", "clear"}, me : People, other : People, rows : SUBSET Rows]
  BY <1>1 DEF FriendsInv, FriendsTypes, Txn, NoConfirm
<1>3. t \in Txn
  BY <1>2 DEF Txn, SecondRow, Rows
<1>4. confirm' = [confirm EXCEPT ![c] = t]
  BY <1>2, InsertIs DEF InsertSecond, FriendsInv
<1>5. UNCHANGED <<friends, agreed, torn>> /\ requested' \in SUBSET Rows /\ friendFaults' \in 0 .. MaxFriendFaults
  BY DEF InsertSecond, Insert, FriendsInv, FriendsTypes
<1>6. /\ t.pc = "clear" /\ t.me = x.me /\ t.other = x.other
      /\ t.rows = IF SecondRow(c) \in friends THEN x.rows ELSE x.rows \cup {SecondRow(c)}
  OBVIOUS
<1>7. /\ t.rows \cap friends = {} /\ t.rows \in SUBSET Both(x.me, x.other)
      /\ \A d \in Confirms \ {c} : t.rows \cap confirm[d].rows = {}
  BY <1>1, <1>6 DEF HeldByOther, FriendsInv, RowsApart, Both, FirstRow, SecondRow
<1>8. ASSUME FirstRow(c) \notin torn
      PROVE  t.rows = {} \/ t.rows = Both(x.me, x.other)
  <2>1. FirstRow(c) \in x.rows \cup friends /\ x.rows \cap friends = {}
    BY <1>1, <1>8 DEF FriendsInv, Confirming, RowsApart
  <2>2. FirstRow(c) \in friends <=> SecondRow(c) \in friends
    BY <1>2, <1>8 DEF FriendsInv, FriendsMutual, FirstRow, SecondRow
  <2> QED
    BY <1>1, <1>6, <2>1, <2>2 DEF Both, FirstRow, SecondRow
<1> HIDE DEF t
<1> QED
  BY <1>1, <1>3, <1>4, <1>5, <1>6, <1>7, <1>8, OwnStep DEF FirstRow

\* A commit makes both rows visible, or neither, or those of a pair a removal has cut.
LEMMA CommitStep ==
    ASSUME FriendsInv, NEW c \in Confirms, ConfirmCommit(c)
    PROVE  FriendsInv'
<1> DEFINE x == confirm[c]
           pair == Both(x.me, x.other)
<1>1. /\ x.pc = "clear" /\ x.rows \in SUBSET pair
      /\ friends' = friends \cup x.rows
      /\ agreed' = IF x.rows = {} THEN agreed ELSE agreed \cup pair
      /\ confirm' = [confirm EXCEPT ![c] = NoConfirm]
      /\ UNCHANGED <<torn, friendFaults>> /\ requested' = requested \ pair
  BY DEF ConfirmCommit, FriendsInv, ConfirmPhases
<1>2. x.me \in People /\ x.other \in People /\ pair \in SUBSET Rows
  <2>1. x \in [pc : {"first", "second", "clear"}, me : People, other : People, rows : SUBSET Rows]
    BY <1>1 DEF FriendsInv, FriendsTypes, Txn, NoConfirm
  <2> QED
    BY <2>1 DEF Both, Rows
<1>3. confirm'[c] = NoConfirm /\ \A d \in Confirms \ {c} : confirm'[d] = confirm[d]
  BY <1>1 DEF FriendsInv, FriendsTypes
<1>4. NoConfirm \in Txn /\ NoConfirm.pc = "idle" /\ NoConfirm.rows = {}
  BY DEF Txn, NoConfirm
<1> HIDE DEF pair
<1>5. FriendsTypes'
  BY <1>1, <1>2, <1>4 DEF FriendsInv, FriendsTypes
<1>6. ConfirmPhases'
  BY <1>3, <1>4 DEF FriendsInv, ConfirmPhases, FirstRow
<1>7. RowsApart'
  BY <1>1, <1>3, <1>4 DEF FriendsInv, RowsApart
<1>8. \A a, b : <<a, b>> \in pair <=> <<b, a>> \in pair
  BY DEF pair, Both
<1>9. Symmetric'
  BY <1>1, <1>8 DEF FriendsInv, Symmetric
<1>10. FriendsMutual'
  <2> SUFFICES ASSUME NEW a \in People, NEW b \in People, <<a, b>> \notin torn
               PROVE  /\ <<a, b>> \in friends' <=> <<b, a>> \in friends'
                      /\ <<a, b>> \in friends' <=> <<a, b>> \in agreed'
    BY <1>1 DEF FriendsMutual
  <2>1. /\ <<a, b>> \in friends <=> <<b, a>> \in friends
        /\ <<a, b>> \in friends <=> <<a, b>> \in agreed
    BY DEF FriendsInv, FriendsMutual
  <2>2. CASE x.rows = {}
    BY <1>1, <2>1, <2>2
  <2>3. CASE x.rows = pair
    BY <1>1, <1>8, <2>1, <2>3
  <2>4. CASE x.rows # {} /\ x.rows # pair
    <3>1. FirstRow(c) \in torn
      BY <1>1, <2>4 DEF FriendsInv, Confirming, pair
    <3>2. <<x.me, x.other>> \in torn /\ <<x.other, x.me>> \in torn
      BY <1>2, <3>1 DEF FriendsInv, Symmetric, FirstRow
    <3>3. pair \subseteq torn
      BY <3>2 DEF pair, Both
    <3>4. <<a, b>> \notin pair /\ <<b, a>> \notin pair
      BY <1>8, <3>3
    <3> QED
      BY <1>1, <2>1, <3>4
  <2> QED
    BY <2>2, <2>3, <2>4
<1>11. Confirming'
  BY <1>1, <1>3, <1>4 DEF FriendsInv, Confirming, FirstRow
<1> QED
  BY <1>5, <1>6, <1>7, <1>9, <1>10, <1>11 DEF FriendsInv

\* A removal either cuts no confirmation of the pair short, or the pair is torn.
LEMMA RemoveStep ==
    ASSUME FriendsInv, NEW a \in People, NEW b \in People, RemoveFriend(a, b)
    PROVE  FriendsInv'
<1> DEFINE pair == Both(a, b)
<1>1. /\ friends' = friends \ pair /\ agreed' = agreed \ pair
      /\ torn' = IF Cuts(a, b) THEN torn \cup pair ELSE torn \ pair
      /\ UNCHANGED <<requested, confirm, friendFaults>>
  BY DEF RemoveFriend
<1>2. pair \in SUBSET Rows /\ <<a, b>> \in pair /\ \A u, v : <<u, v>> \in pair <=> <<v, u>> \in pair
  BY DEF Both, Rows
<1>3. \A c \in Confirms : FirstRow(c) \in pair => <<a, b>> \in Both(confirm[c].me, confirm[c].other)
  BY DEF Both, FirstRow
<1> HIDE DEF pair
<1>4. FriendsTypes' /\ ConfirmPhases' /\ RowsApart' /\ Symmetric' /\ FriendsMutual'
  <2>1. FriendsTypes'
    BY <1>1, <1>2 DEF FriendsInv, FriendsTypes
  <2>2. ConfirmPhases' /\ RowsApart'
    BY <1>1 DEF FriendsInv, ConfirmPhases, RowsApart, FirstRow
  <2>3. Symmetric' /\ FriendsMutual'
    BY <1>1, <1>2 DEF FriendsInv, Symmetric, FriendsMutual
  <2> QED
    BY <2>1, <2>2, <2>3
<1>5. Confirming'
  <2> SUFFICES ASSUME NEW c \in Confirms, confirm[c].pc # "idle", FirstRow(c) \notin torn'
               PROVE  /\ confirm[c].pc = "second" => FirstRow(c) \in confirm[c].rows \cup friends'
                      /\ confirm[c].pc = "clear" =>
                             \/ confirm[c].rows = {}
                             \/ confirm[c].rows = Both(confirm[c].me, confirm[c].other)
    BY <1>1 DEF Confirming, FirstRow
  <2>1. CASE FirstRow(c) \in pair
    <3>1. ~Skipped(c)
      BY <1>1, <1>3, <2>1 DEF Cuts
    <3> QED
      BY <3>1 DEF Skipped
  <2>2. CASE FirstRow(c) \notin pair
    BY <1>1, <2>2 DEF FriendsInv, Confirming
  <2> QED
    BY <2>1, <2>2
<1> QED
  BY <1>4, <1>5 DEF FriendsInv

\* Every step keeps it.
LEMMA NextFriendsInv == FriendsInv /\ [FriendsNext]_friendVars => FriendsInv'
<1> SUFFICES ASSUME FriendsInv, [FriendsNext]_friendVars PROVE FriendsInv'
  OBVIOUS
<1>1. ASSUME NEW a \in People, NEW b \in People, AddRequest(a, b) \/ DeclineRequest(a, b)
      PROVE  FriendsInv'
  <2>1. requested' \in SUBSET Rows
    BY <1>1 DEF AddRequest, DeclineRequest, FriendsInv, FriendsTypes, Rows
  <2>2. UNCHANGED <<friends, confirm, agreed, torn, friendFaults>>
    BY <1>1 DEF AddRequest, DeclineRequest
  <2> QED
    BY <2>1, <2>2 DEF FriendsInv, FriendsTypes, ConfirmPhases, RowsApart, Symmetric, Confirming, FriendsMutual, FirstRow
<1>2. ASSUME NEW c \in Confirms, DeadlockAbort(c) PROVE FriendsInv'
  BY <1>2, RollbackStep DEF DeadlockAbort, FriendsInv, FriendsTypes
<1>3. ASSUME NEW c \in Confirms, ConfirmFails(c) PROVE FriendsInv'
  <2>1. friendFaults' \in 0 .. MaxFriendFaults
    BY <1>3, FriendsAssumption DEF ConfirmFails, FriendsInv, FriendsTypes
  <2> QED
    BY <1>3, <2>1, RollbackStep DEF ConfirmFails
<1>4. ASSUME UNCHANGED friendVars PROVE FriendsInv'
  BY <1>4 DEF friendVars, FriendsInv, FriendsTypes, ConfirmPhases, RowsApart, Symmetric, Confirming, FriendsMutual, FirstRow
<1> QED
  BY <1>1, <1>2, <1>3, <1>4, BeginStep, InsertFirstStep, InsertSecondStep, CommitStep, RemoveStep
     DEF FriendsNext

\* Whatever confirmations, removals, deadlocks and failures overlap, the two sides of a
\* friendship never differ and agree with what was last confirmed or removed, except for a
\* pair that a removal has cut in the middle of a confirmation.
THEOREM FriendsStayMutual == FriendsSpec => [](FriendsTypeOK /\ FriendsMutual)
<1>1. FriendsInv => FriendsTypeOK /\ FriendsMutual
  BY DEF FriendsInv, FriendsTypes, Txn, FriendsTypeOK
<1> QED
  BY InitFriendsInv, NextFriendsInv, <1>1, PTL DEF FriendsSpec
==============================================================================
