------------------------------ MODULE CsMatch ------------------------------
(***************************************************************************)
(* One Contra Squad match of the match server (match-server/match.go,      *)
(* deathmatch.go, knockdown.go, round.go, matchhandle.go, results.go): the *)
(* roster, the phases, who is up, down or dead, the rounds and the result. *)
(*                                                                         *)
(* One goroutine, run(), owns the match.  It takes handlers from a mailbox *)
(* and, every 100 ms, runs a tick: advancePhase, stepZone,                 *)
(* sweepDisconnects, stepKnock, stepRescue, in that order and with no      *)
(* handler in between: step says which of them was the last to do          *)
(* something in this tick.  A tick in which nothing is due is a stutter.   *)
(*                                                                         *)
(* A hit or a bleed tick that leaves its victim some HP changes nothing    *)
(* here: life stands for the HP map, "absent" where it has no entry.       *)
(* Phases that differ only in what is sent are one: setup is SetupBind,    *)
(* SetupGap and SetupWait, black is PostReviveBind and PostBlack, intro is *)
(* IntroWait and Intro.  Coins, loadouts and spectating are left out.      *)
(*                                                                         *)
(* Bounds: MaxRound rounds, MaxSilences losses of contact.                 *)
(***************************************************************************)
EXTENDS Integers, FiniteSets

CONSTANTS Players, Bot, MaxRound, MaxSilences,
          NoOne      \* nobody revives

ASSUME CsMatchAssumption ==
    /\ IsFiniteSet(Players) /\ Players # {}
    /\ MaxRound \in Nat \ {0} /\ MaxSilences \in Nat
    /\ Bot # NoOne /\ {Bot, NoOne} \cap Players = {}

Entities == Players \cup {Bot}
Teams == {1, 2}
RoundsToWin == (MaxRound + 1) \div 2
maxPlayers == 8

VARIABLES
    custom, matchBot,   \* a custom room's match; MATCH_BOT is set
    pending,     \* players routed here whose admitLater is still in the mailbox
    roster,
    team,        \* player -> its team once admitted, 0 before
    silent,      \* players that have not been heard of for disconnectTimeout
    silences,
    phase, step,
    started, ended,
    closing,     \* done is closed
    bot,         \* the filler bot is there
    life,        \* entity -> its HP and life entries
    knock,       \* the entities with a knock record
    rescues,     \* entity -> its reviver
    roundOver,
    round, score, winner,
    died,        \* entity -> deaths credited since the last reviveAll
    published    \* match.result went out

settings == <<custom, matchBot>>
people == <<pending, roster, team>>
contact == <<silent, silences>>
lock == <<started, ended>>
bodies == <<bot, life, knock, rescues>>
rounds == <<roundOver, round, score, winner, published>>
vars == <<settings, people, contact, phase, step, lock, closing, bodies, died, rounds>>

TeamOf(e) == IF e = Bot THEN 2 ELSE team[e]

\* lifeOf: an entity without an entry counts as alive.
LifeOf(e) == IF life[e] = "absent" THEN "alive" ELSE life[e]

Side(t) == {p \in roster : team[p] = t} \cup (IF bot /\ t = 2 THEN {Bot} ELSE {})
AliveIn(lives, t) == {e \in Side(t) : lives[e] \in {"absent", "alive"}}
TeamAlive(t) == AliveIn(life, t)

TeamsReady ==
    LET humans(t) == Cardinality({p \in roster : team[p] = t})
    IN  humans(1) > 0 /\ humans(1) = humans(2)

\* allocSlot: a custom room says which team, else the emptier one, team 1 on a tie.
TeamFor(p, t) ==
    LET humans(s) == Cardinality({q \in roster : team[q] = s})
    IN  t \in Teams /\ (custom \/ t = IF humans(2) < humans(1) THEN 2 ELSE 1)

\* admitFirst for one player, then run() up to its first tick (initHP).
Init ==
    /\ custom \in BOOLEAN /\ matchBot \in BOOLEAN
    /\ pending = {}
    /\ \E p \in Players, t \in Teams :
          /\ custom \/ t = 1
          /\ roster = {p}
          /\ team = [q \in Players |-> IF q = p THEN t ELSE 0]
          /\ life = [e \in Entities |-> IF e = p THEN "alive" ELSE "absent"]
    /\ silent = {} /\ silences = 0
    /\ phase = "setup" /\ step = "ready"
    /\ started = FALSE /\ ended = FALSE /\ closing = FALSE
    /\ bot = FALSE
    /\ knock = {} /\ rescues = [e \in Entities |-> NoOne]
    /\ roundOver = FALSE
    /\ round = 1 /\ score = [t \in Teams |-> 0] /\ winner = 0
    /\ died = [e \in Entities |-> 0]
    /\ published = FALSE

-----------------------------------------------------------------------------
(* Players come and go.                                                    *)

\* MatchManager.join: canAdmit reads the match beside run().
Join(p) ==
    /\ phase # "stopped" /\ ~ended /\ ~started
    /\ team[p] = 0 /\ p \notin pending
    /\ Cardinality(pending \cup {q \in Players : team[q] # 0}) < maxPlayers
    /\ pending' = pending \cup {p}
    /\ UNCHANGED <<settings, roster, team, contact, phase, step, lock, closing, bodies, died, rounds>>

\* A handler leaves the mailbox between two ticks.
Handling == phase # "stopped" /\ step = "ready"

\* admitLater; a bot makes way for the second human.
AdmitLater(p) ==
    /\ Handling /\ p \in pending
    /\ pending' = pending \ {p}
    /\ roster' = roster \cup {p}
    /\ \E t \in Teams : TeamFor(p, t) /\ team' = [team EXCEPT ![p] = t]
    /\ life' = [life EXCEPT ![p] = "alive", ![Bot] = "absent"]
    /\ bot' = FALSE
    /\ died' = [died EXCEPT ![Bot] = 0]
    /\ UNCHANGED <<settings, contact, phase, step, lock, closing, knock, rescues, rounds>>

\* Mutant: the knock record of the player who left stays.
RemovesKeepingKnock(p) ==
    /\ roster' = roster \ {p}
    /\ life' = [life EXCEPT ![p] = "absent"]
    /\ UNCHANGED knock

\* removePlayer: its rescues stay, its team mates are not looked at.
Removes(p) ==
    /\ roster' = roster \ {p}
    /\ life' = [life EXCEPT ![p] = "absent"]
    /\ knock' = knock \ {p}

\* handlePlayerQuit, or an admin's kick.
Quit(p) ==
    /\ Handling /\ p \in roster
    /\ Removes(p)
    /\ UNCHANGED <<settings, pending, team, contact, phase, step, lock, closing, bot, rescues, died, rounds>>

Silence(p) ==
    /\ silences < MaxSilences /\ team[p] # 0 /\ p \notin silent
    /\ silent' = silent \cup {p} /\ silences' = silences + 1
    /\ UNCHANGED <<settings, people, phase, step, lock, closing, bodies, died, rounds>>

\* The same session is heard again, its pawn removed or not.
Return(p) ==
    /\ p \in silent
    /\ silent' = silent \ {p}
    /\ UNCHANGED <<settings, people, silences, phase, step, lock, closing, bodies, died, rounds>>

\* A session that can send: in the roster, or removed and not told.
CanSend(p) == team[p] # 0 /\ p \notin silent

-----------------------------------------------------------------------------
(* Down and dead.                                                          *)

\* downOrKill for every entity of S: a lone member dies, another is knocked; a
\* knock that leaves nobody standing finishes the whole team (teamFellToZero).
LivesAfter(S) ==
    LET hit == [e \in Entities |-> IF e \notin S THEN life[e]
                                   ELSE IF Cardinality(Side(TeamOf(e))) <= 1 THEN "dead" ELSE "knocked"]
        fallen == {t \in Teams : AliveIn(hit, t) = {}
                                 /\ \E e \in S : TeamOf(e) = t /\ hit[e] = "knocked"}
    IN  [e \in Entities |-> IF hit[e] = "knocked" /\ TeamOf(e) \in fallen THEN "dead" ELSE hit[e]]

\* creditDeath, its victim's side.
Die(D) == died' = [e \in Entities |-> IF e \in D THEN died[e] + 1 ELSE died[e]]

\* Mutant: the knock record of the dead stays.
FinalizeKeepingKnock(D) ==
    /\ life' = [e \in Entities |-> IF e \in D THEN "dead" ELSE life[e]]
    /\ rescues' = [e \in Entities |-> IF e \in D THEN NoOne ELSE rescues[e]]
    /\ Die(D)
    /\ UNCHANGED knock

\* finalizeKnock for the entities of D.
Finalize(D) ==
    /\ life' = [e \in Entities |-> IF e \in D THEN "dead" ELSE life[e]]
    /\ knock' = knock \ D
    /\ rescues' = [e \in Entities |-> IF e \in D THEN NoOne ELSE rescues[e]]
    /\ Die(D)

\* The last of their HP goes, for every alive entity of S.
Lethal(S) ==
    LET D == {e \in Entities : LivesAfter(S)[e] = "dead" /\ life[e] # "dead"}
    IN  /\ life' = LivesAfter(S)
        /\ knock' = (knock \cup S) \ D
        /\ rescues' = [e \in Entities |-> IF e \in D THEN NoOne ELSE rescues[e]]
        /\ Die(D)

\* handleTakeDamage: a lethal hit on somebody standing.
Hit(p, v) ==
    /\ Handling /\ CanSend(p)
    /\ ~roundOver /\ life[v] = "alive"
    /\ Lethal({v})
    /\ UNCHANGED <<settings, people, contact, phase, step, lock, closing, bot, rounds>>

\* damageKnocked: the bleed pool of somebody down is emptied.
Finish(p, v) ==
    /\ Handling /\ CanSend(p)
    /\ ~roundOver /\ life[v] = "knocked" /\ v \in knock
    /\ Finalize({v})
    /\ UNCHANGED <<settings, people, contact, phase, step, lock, closing, bot, rounds>>

StartRescue(p, t) ==
    /\ Handling /\ CanSend(p)
    /\ life[t] = "knocked" /\ LifeOf(p) = "alive" /\ TeamOf(p) = TeamOf(t)
    /\ rescues[t] = NoOne
    /\ rescues' = [rescues EXCEPT ![t] = p]
    /\ UNCHANGED <<settings, people, contact, phase, step, lock, closing, bot, life, knock, died, rounds>>

\* Mutant: the knock record goes with the rescue.
StopRescueForgettingKnock(p, t) ==
    /\ Handling /\ CanSend(p)
    /\ rescues[t] = p
    /\ rescues' = [rescues EXCEPT ![t] = NoOne]
    /\ knock' = knock \ {t}
    /\ UNCHANGED <<settings, people, contact, phase, step, lock, closing, bot, life, died, rounds>>

StopRescue(p, t) ==
    /\ Handling /\ CanSend(p)
    /\ rescues[t] = p
    /\ rescues' = [rescues EXCEPT ![t] = NoOne]
    /\ UNCHANGED <<settings, people, contact, phase, step, lock, closing, bot, life, knock, died, rounds>>

-----------------------------------------------------------------------------
(* The tick: advancePhase.                                                 *)

Goto(ph) == phase' = ph
BuyPhase == Goto("prepare") /\ started' = TRUE

SpawnFallbackBot ==
    /\ bot' = TRUE
    /\ life' = [life EXCEPT ![Bot] = "alive"]

\* enterPrepare.  Matchmade teams that are not even hold the phase and wait; a
\* custom room starts as it is, with a bot where MATCH_BOT is set.
EnterPrepare ==
    /\ IF started \/ TeamsReady
         THEN BuyPhase /\ UNCHANGED <<bot, life>>
         ELSE IF custom
                THEN /\ BuyPhase
                     /\ IF matchBot /\ ~bot THEN SpawnFallbackBot ELSE UNCHANGED <<bot, life>>
                ELSE Goto("prepare") /\ UNCHANGED <<started, bot, life>>
    /\ UNCHANGED <<ended, closing, knock, rescues, died, rounds>>

\* The wait is over with too few players: a bot, or "Match cancelled".
WaitExpires ==
    /\ IF matchBot
         THEN SpawnFallbackBot /\ BuyPhase /\ UNCHANGED ended
         ELSE Goto("cancelled") /\ ended' = TRUE /\ UNCHANGED <<started, bot, life>>
    /\ UNCHANGED <<closing, knock, rescues, died, rounds>>

\* Mutant: the match goes on after it is won.
EndFightLate ==
    LET won == IF TeamAlive(1) # {} THEN 1 ELSE 2
    IN  /\ roundOver' = TRUE
        /\ score' = [score EXCEPT ![won] = @ + 1]
        /\ IF round >= MaxRound THEN Goto("endPause") /\ winner' = won
                                ELSE Goto("banner") /\ UNCHANGED winner
        /\ UNCHANGED <<lock, closing, bodies, died, round, published>>

\* endFight: team 1 wins if anybody of it stands, else team 2.
EndFight ==
    LET won == IF TeamAlive(1) # {} THEN 1 ELSE 2
        decided == score[won] + 1 >= RoundsToWin \/ round >= MaxRound
    IN  /\ roundOver' = TRUE
        /\ score' = [score EXCEPT ![won] = @ + 1]
        /\ IF decided THEN Goto("endPause") /\ winner' = won
                      ELSE Goto("banner") /\ UNCHANGED winner
        /\ UNCHANGED <<lock, closing, bodies, died, round, published>>

\* Mutant: only winners who are still there report the match.
MatchEndOfWinners ==
    /\ published' = (\E p \in roster : team[p] = winner)
    /\ ended' = TRUE
    /\ Goto("over")
    /\ UNCHANGED <<started, closing, bodies, died, roundOver, round, score, winner>>

\* matchEnd: cmd 103 to everybody left, and the result for the settlement.
MatchEnd ==
    /\ published' = TRUE
    /\ ended' = TRUE
    /\ Goto("over")
    /\ UNCHANGED <<started, closing, bodies, died, roundOver, round, score, winner>>

\* Mutant: the knock records outlive the round.
ReviveAllKeepingKnocks ==
    /\ life' = [e \in Entities |-> IF e \in roster \/ (bot /\ e = Bot) THEN "alive" ELSE life[e]]
    /\ rescues' = [e \in Entities |-> NoOne]
    /\ died' = [e \in Entities |-> 0]
    /\ roundOver' = FALSE
    /\ UNCHANGED knock

\* reviveAll.
ReviveAll ==
    /\ life' = [e \in Entities |-> IF e \in roster \/ (bot /\ e = Bot) THEN "alive" ELSE life[e]]
    /\ knock' = {}
    /\ rescues' = [e \in Entities |-> NoOne]
    /\ died' = [e \in Entities |-> 0]
    /\ roundOver' = FALSE

PostBannerEdge ==
    /\ ReviveAll
    /\ Goto("black")
    /\ UNCHANGED <<lock, closing, bot, round, score, winner, published>>

NextRound ==
    /\ round' = round + 1
    /\ Goto("intro")
    /\ UNCHANGED <<lock, closing, bodies, died, roundOver, score, winner, published>>

\* Mutant: an ended match is taken for one that is closing.
CloseDoneUnlessEnded ==
    /\ ~ended
    /\ closing' = TRUE
    /\ UNCHANGED <<phase, lock, bodies, died, rounds>>

CloseDone ==
    /\ ~closing
    /\ closing' = TRUE
    /\ UNCHANGED <<phase, lock, bodies, died, rounds>>

\* The deadline of the phase has passed.
DeadlineEdge ==
    CASE phase = "setup" -> EnterPrepare
      [] phase = "prepare" /\ ~started -> WaitExpires
      [] phase = "prepare" /\ started -> Goto("fight") /\ UNCHANGED <<lock, closing, bodies, died, rounds>>
      [] phase = "endPause" -> MatchEnd
      [] phase = "banner" -> PostBannerEdge
      [] phase = "black" -> NextRound
      [] phase = "intro" -> EnterPrepare
      [] phase \in {"over", "cancelled"} -> CloseDone

\* What advancePhase looks at before any deadline.
RoundDecided == phase = "fight" /\ \E t \in Teams : TeamAlive(t) = {}
PlayersArrived == phase = "prepare" /\ ~started /\ TeamsReady

Ticking == Handling /\ roster # {} /\ step' = "advance"

TickOnCondition ==
    /\ Ticking
    /\ \/ RoundDecided /\ EndFight
       \/ PlayersArrived /\ BuyPhase /\ UNCHANGED <<ended, closing, bodies, died, rounds>>
    /\ UNCHANGED <<settings, people, contact>>

TickAtDeadline ==
    /\ Ticking
    /\ ~PlayersArrived /\ phase # "fight"
    /\ DeadlineEdge
    /\ UNCHANGED <<settings, people, contact>>

\* Every human left, or done is closed: run() returns and the match is reaped.
RunReturns ==
    /\ Handling /\ (roster = {} \/ closing)
    /\ Goto("stopped")
    /\ UNCHANGED <<settings, people, contact, step, lock, closing, bodies, died, rounds>>

-----------------------------------------------------------------------------
(* The rest of the tick.                                                   *)

\* The step after those named can run: in this tick, or in one that starts with
\* nothing for advancePhase to do.
After(steps) ==
    \/ step \in steps
    \/ Handling /\ roster # {} /\ ~RoundDecided /\ ~PlayersArrived

\* stepZone: the zone is on during the fight, and kills who is outside.
StepZone ==
    /\ After({"advance"}) /\ step' = "zone"
    /\ phase = "fight"
    /\ \E S \in SUBSET {p \in roster : life[p] = "alive"} : S # {} /\ Lethal(S)
    /\ UNCHANGED <<settings, people, contact, phase, lock, closing, bot, rounds>>

\* Mutant: nobody is swept out of a fight.
SweepBetweenFights ==
    /\ After({"advance", "zone"}) /\ step' = "sweep"
    /\ phase # "fight"
    /\ \E p \in roster \cap silent : Removes(p)
    /\ UNCHANGED <<settings, pending, team, contact, phase, lock, closing, bot, rescues, died, rounds>>

\* sweepDisconnects: one player past its grace is removed, then the sweep returns.
SweepDisconnects ==
    /\ After({"advance", "zone"}) /\ step' = "sweep"
    /\ \E p \in roster \cap silent : Removes(p)
    /\ UNCHANGED <<settings, pending, team, contact, phase, lock, closing, bot, rescues, died, rounds>>

\* stepKnock: whoever of the knocked has bled out dies; no phase stops the blood.
StepKnock ==
    /\ After({"advance", "zone", "sweep"}) /\ step' = "knock"
    /\ \E D \in SUBSET knock : D # {} /\ Finalize(D)
    /\ UNCHANGED <<settings, people, contact, phase, lock, closing, bot, rounds>>

Going == {t \in Entities : rescues[t] # NoOne /\ life[t] = "knocked"}
Valid == {t \in Going : LifeOf(rescues[t]) = "alive"}
Stale == {t \in Entities : rescues[t] # NoOne} \ Valid

\* Mutant: whether the reviver still stands is not looked at.
ReadyBlind == Going

\* The rescues that may be complete.
Ready == Valid

\* stepRescue, the last of the tick.  A rescue whose target is not down or whose
\* reviver is not up is dropped, unless the map's order completed the reviver's own
\* rescue first (late); of the others, those of reviveDuration are complete (done).
StepRescue ==
    /\ After({"advance", "zone", "sweep", "knock"}) /\ step' = "ready"
    /\ \E done \in SUBSET Ready :
       \E late \in SUBSET {t \in Going \ Valid : rescues[t] \in done} :
          LET kept == (Valid \ done) \cup late
          IN  /\ done # {} \/ Stale # {}
              /\ life' = [e \in Entities |-> IF e \in done THEN "alive" ELSE life[e]]
              /\ knock' = knock \ done
              /\ rescues' = [e \in Entities |-> IF e \in kept THEN rescues[e] ELSE NoOne]
    /\ UNCHANGED <<settings, people, contact, phase, lock, closing, bot, died, rounds>>

\* No rescue is left to drop or is due.
TickEnds ==
    /\ step # "ready" /\ Stale = {}
    /\ step' = "ready"
    /\ UNCHANGED <<settings, people, contact, phase, lock, closing, bodies, died, rounds>>

-----------------------------------------------------------------------------

Tick ==
    \/ TickOnCondition \/ TickAtDeadline \/ TickEnds
    \/ StepZone \/ SweepDisconnects \/ StepKnock \/ StepRescue

Next ==
    \/ \E p \in Players : \/ Join(p) \/ AdmitLater(p) \/ Quit(p) \/ Silence(p) \/ Return(p)
                          \/ \E e \in Entities : \/ Hit(p, e) \/ Finish(p, e)
                                                 \/ StartRescue(p, e) \/ StopRescue(p, e)
    \/ Tick \/ RunReturns

Spec == Init /\ [][Next]_vars

\* The loop ticks, and its timers run out: a deadline, a grace period or a bleed
\* pool that tick after tick looks at passes at last.
FairSpec ==
    /\ Spec
    /\ WF_vars(TickOnCondition \/ StepRescue \/ TickEnds)
    /\ SF_vars(TickAtDeadline \/ RunReturns)
    /\ SF_vars(SweepDisconnects) /\ SF_vars(StepKnock)

-----------------------------------------------------------------------------
(* Properties.                                                             *)

\* Type invariant.
TypeOK ==
    /\ custom \in BOOLEAN /\ matchBot \in BOOLEAN
    /\ pending \subseteq Players /\ roster \subseteq Players
    /\ team \in [Players -> Teams \cup {0}]
    /\ silent \subseteq Players /\ silences \in 0..MaxSilences
    /\ phase \in {"setup", "prepare", "fight", "endPause", "banner", "black", "intro", "over",
                  "cancelled", "stopped"}
    /\ step \in {"ready", "advance", "zone", "sweep", "knock"}
    /\ started \in BOOLEAN /\ ended \in BOOLEAN /\ closing \in BOOLEAN /\ bot \in BOOLEAN
    /\ life \in [Entities -> {"absent", "alive", "knocked", "dead"}]
    /\ knock \subseteq Entities
    /\ rescues \in [Entities -> Players \cup {NoOne}]
    /\ roundOver \in BOOLEAN /\ round \in 1..MaxRound
    /\ score \in [Teams -> 0..RoundsToWin] /\ winner \in Teams \cup {0}
    /\ died \in [Entities -> Nat]
    /\ published \in BOOLEAN

\* Somebody is down exactly while there is a knock record to bleed: nobody
\* crawls for ever, and no record kills a player who is up again.
DownIsBleeding == \A p \in Players : life[p] = "knocked" <=> p \in knock

\* However a player is hit, finished, bled out, wiped with the team or revived,
\* it dies once in a round.
DiesOncePerRound ==
    \A e \in Entities : died[e] <= 1

\* A player that is down gets up in the fight only with a team mate who is up
\* (or who was when it left: a reviver that quits is not looked for).
RevivedByTeam ==
    [][\A e \in Entities :
          life[e] = "knocked" /\ life'[e] = "alive" /\ ~roundOver =>
              \E p \in Players : p = rescues[e] /\ TeamOf(p) = TeamOf(e) /\ LifeOf(p) = "alive"]_vars

\* The result goes to the settlement of every match that is decided, unless all
\* its players leave first, and of no other.
DecidedIsPublished ==
    /\ published => winner # 0
    /\ phase = "stopped" /\ winner # 0 => published \/ roster = {}

\* Nobody stays down: a player is revived, dies, or leaves.
DownResolves ==
    \A p \in Players : life[p] = "knocked" ~> (life[p] # "knocked" \/ phase = "stopped")

\* Every phase but the fight comes to its end: nobody waits for players, for the
\* next round or for the lobby for ever.
PhasesEnd == phase # "fight" ~> phase \in {"fight", "stopped"}

\* A match that all its players left or lost contact with stops, fight or not.
AbandonedStops == roster \subseteq silent ~> (phase = "stopped" \/ ~(roster \subseteq silent))

\* Nothing in a match lasts for ever that nobody plays on: no player down, no phase but the
\* fight, no match without players.
MatchGoesOn == DownResolves /\ PhasesEnd /\ AbandonedStops
=============================================================================
