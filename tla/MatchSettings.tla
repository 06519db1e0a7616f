--------------------------- MODULE MatchSettings ---------------------------
(***************************************************************************)
(* The rules of a custom room, from the bits and the blob its owner's      *)
(* client packs, through the lobby's decoders (src/src/tcp/roomsettings.js, *)
(* csadvanced.js, the payload of handlers/RoomStart.js), to the match      *)
(* server's settings (src/match-server/matchsettings.go).                  *)
(*                                                                         *)
(* A bit field is the set of its bits, a blob the sequence of its bytes.   *)
(* Of the shop's CSV there is a row of each class the decoder tells apart. *)
(* Bounds: two fields set at a time; blobs with up to two rows and two      *)
(* rounds, whole or cut anywhere.                                          *)
(***************************************************************************)
EXTENDS Integers, Sequences, FiniteSets, SequencesExt

CONSTANTS ShopSteps, EventSteps, TopBytes, Unset

ASSUME SettingsAssumption == ShopSteps \cup EventSteps \cup TopBytes \subseteq 0 .. 255
ASSUME UnsetAssumption == Unset \notin Nat /\ Unset \notin Seq(Nat)

VARIABLES
    chosen,    \* what the host chose: bit fields, advanced or not, the parts of the blob, and
               \* how many bytes of it have arrived
    payload,   \* match:<id>:settings, once START has written it
    rules      \* of the match, once it has read it

settingsVars == <<chosen, payload, rules>>

\* No payload, no rules.
NotYet == [written |-> FALSE]

-----------------------------------------------------------------------------
(* Simple mode.                                                            *)

\* name -> word, first bit, width (IDX, IDX2; a flag is a field of one bit).
Indices == [playerHP |-> <<1, 8, 3>>, playerEP |-> <<1, 11, 3>>, playerSpeed |-> <<1, 14, 3>>,
            dropList |-> <<1, 17, 4>>, playerJump |-> <<1, 21, 3>>, roundNum |-> <<1, 25, 2>>,
            initCoin |-> <<1, 27, 2>>, fightClubRound |-> <<2, 6, 2>>, revive |-> <<2, 8, 3>>]
Flags == [hideKillInfo |-> <<1, 0>>, unlimitedAmmo |-> <<1, 1>>, noFallingDamage |-> <<1, 2>>,
          noLoadout |-> <<1, 3>>, noAirdrop |-> <<1, 4>>, noSkill |-> <<1, 5>>,
          noVehicle |-> <<1, 6>>, accTotalStats |-> <<1, 24>>, noPowerGun |-> <<1, 29>>,
          hideEnemyCloth |-> <<1, 30>>,
          noUav |-> <<2, 0>>, noBomb |-> <<2, 1>>, replay |-> <<2, 2>>, noZeppelin |-> <<2, 3>>,
          noHud |-> <<2, 4>>, friendlyFire |-> <<2, 5>>, inGameChat |-> <<2, 11>>,
          shopFlow |-> <<2, 12>>, useRandomMap |-> <<2, 13>>, noAuxAim |-> <<2, 14>>]

\* TABLES: keyed by the packed value; 0 and a key beyond the table are unset.
RoundTable == <<7, 13, 11>>
CoinTable == << <<500, 900, 1100, 1700, 2100, 2400, 3000>>,
                <<1500, 1700, 1900, 2100, 2300, 2500, 2700>> >>
HPTable == <<200, 500, 50, 1>>
SpeedTable == <<100, 50, 125, 200>>   \* in percent
JumpTable == <<100, 200, 400>>
Resolve(table, v) == IF v \in DOMAIN table THEN table[v] ELSE Unset

\* The n-th bit of a field, if the field has one: of a word shifted and masked.
Bit(words, field, n) == IF n < field[3] /\ <<field[1], field[2] + n>> \in words THEN 1 ELSE 0

\* Mutant: the mask is a bit short.
NarrowIdxOf(words, field) ==
    LET bit(n) == IF n < field[3] - 1 THEN Bit(words, field, n) ELSE 0
    IN  bit(0) + 2 * bit(1) + 4 * bit(2) + 8 * bit(3)

\* (v >>> start) & ((1 << width) - 1), where no field is wider than four bits.
IdxOf(words, field) ==
    Bit(words, field, 0) + 2 * Bit(words, field, 1) + 4 * Bit(words, field, 2) + 8 * Bit(words, field, 3)

DecodeRoomSettings(words) ==
    [flags |-> {f \in DOMAIN Flags : Flags[f] \in words},
     roundCount |-> Resolve(RoundTable, IdxOf(words, Indices.roundNum)),
     economy |-> Resolve(CoinTable, IdxOf(words, Indices.initCoin)),
     maxHP |-> Resolve(HPTable, IdxOf(words, Indices.playerHP)),
     speed |-> Resolve(SpeedTable, IdxOf(words, Indices.playerSpeed)),
     jump |-> Resolve(JumpTable, IdxOf(words, Indices.playerJump)),
     words |-> words]

-----------------------------------------------------------------------------
(* The advanced blob.                                                      *)

\* Rows of RoomCreate_CSShop.csv: item, ammo, filter, type in the ItemTable.
ShopRows == [i \in {1, 3, 8, 37, 40, 43, 46, 48, 51, 61} |->
    CASE i = 1 -> <<51, 0, 1, 0>>     [] i = 3 -> <<10, 202, 1, 0>>   [] i = 8 -> <<2, 201, 1, 0>>
      [] i = 37 -> <<37, 201, 1, 0>>  [] i = 40 -> <<302, 0, 2, 4>>   [] i = 43 -> <<305, 0, 2, 2>>
      [] i = 46 -> <<106, 0, 2, 1>>   [] i = 48 -> <<601, 0, 4, 8>>   [] i = 51 -> <<1201, 0, 4, 12>>
      [] i = 61 -> <<709, 0, 4, 1>>]
Quarantine == {23, 37, 100, 537, 38, 607, 1006, 1202, 1401, 1601, 1602, 2102, 2401}

ResolveSlotKind(row) ==
    LET item == row[1]  ammo == row[2]  filter == row[3]  type == row[4] IN
    IF item \in Quarantine THEN "none" ELSE
    CASE filter = 1 /\ ammo = 202 -> "secondary"
      [] filter = 1 /\ ammo \in {201, 203, 204, 205} -> "primary"
      [] filter = 1 /\ ammo = 0 -> "melee"
      [] filter = 2 /\ type = 4 -> "vest"
      [] filter = 2 /\ type = 2 -> "helmet"
      [] filter = 2 /\ type = 1 -> "consumable"
      [] filter = 4 /\ item = 709 -> "consumable"
      [] filter = 4 /\ item = 1201 -> "building"
      [] filter = 4 /\ type = 8 /\ item \notin {709, 1201} -> "grenade"
      [] OTHER -> "none"

\* Mutant: an item that no slot takes is sold.
SoldAnyway(i) == i \in DOMAIN ShopRows

SoldInMatch(i) == i \in DOMAIN ShopRows /\ ResolveSlotKind(ShopRows[i]) # "none"

\* The six events; the match server's values, and the CSV's min and step.
Events == 152 .. 157
DefaultEvents == [e \in Events |-> <<500, 200, 200, 900, 1500, 100>>[e - 151]]
EventCoins(step) == 0 + step * 50

\* A negative number is clamped to 0, whichever it is.
I32(b) == IF b[4] >= 128 THEN -1 ELSE b[1] + b[2] * 256 + b[3] * 65536 + b[4] * 16777216

Clamped(n) == IF n < 0 THEN 0 ELSE n

\* Where the sections of a blob begin, and where it ends.
EcoAt(buf) == 2 + 2 * buf[1]
RoundsAt(buf) == EcoAt(buf) + 1 + 2 * buf[EcoAt(buf)]
EndOf(buf) == RoundsAt(buf) + 4 * buf[RoundsAt(buf)]

\* Mutant: a blob cut in its rounds is taken for one without.
WholeToRounds(buf) ==
    /\ Len(buf) >= 3 /\ EcoAt(buf) <= Len(buf) /\ RoundsAt(buf) <= Len(buf)

\* No read past the end.
Whole(buf) ==
    /\ Len(buf) >= 3
    /\ EcoAt(buf) <= Len(buf) /\ RoundsAt(buf) <= Len(buf) /\ EndOf(buf) <= Len(buf)

\* The rows, the events and the rounds of a blob, as they are packed.
StoreIn(buf) == [i \in 1 .. buf[1] |-> <<buf[2 * i], buf[2 * i + 1]>>]
EcoIn(buf) == [i \in 1 .. buf[EcoAt(buf)] |-> <<buf[EcoAt(buf) + 2 * i - 1], buf[EcoAt(buf) + 2 * i]>>]
RoundIn(buf, i) ==
    IF RoundsAt(buf) + 4 * i <= Len(buf) THEN I32(SubSeq(buf, RoundsAt(buf) + 4 * i - 3, RoundsAt(buf) + 4 * i)) ELSE 0

\* Of an event that is named twice the last counts.
LastOf(eco, e) == CHOOSE i \in DOMAIN eco : eco[i][1] = e /\ \A j \in DOMAIN eco : eco[j][1] = e => j <= i

ForSale(s) == [item |-> ShopRows[s[1]][1], price |-> s[2] * 50, slot |-> ResolveSlotKind(ShopRows[s[1]])]

DecodeAdvanced(buf) ==
    LET eco == EcoIn(buf)
    IN  [shop |-> {ForSale(s) : s \in {s \in ToSet(StoreIn(buf)) : SoldInMatch(s[1])}},
         events |-> [e \in {e \in Events : \E i \in DOMAIN eco : eco[i][1] = e} |-> EventCoins(eco[LastOf(eco, e)][2])],
         rounds |-> [i \in 1 .. buf[RoundsAt(buf)] |-> Clamped(RoundIn(buf, i))]]

-----------------------------------------------------------------------------
(* START's payload.  No goods, no events: the field is left out.            *)

NoOverlay == [shop |-> {}, events |-> <<>>, rounds |-> <<>>]

\* Mutant: the blob is read for a room that is not advanced, too.
OverlayAlways(room) == IF Whole(room.blob) THEN DecodeAdvanced(room.blob) ELSE NoOverlay

Overlay(room) ==
    IF room.advanced /\ Whole(room.blob) THEN DecodeAdvanced(room.blob) ELSE NoOverlay

Payload(room) ==
    LET s == DecodeRoomSettings(room.words)
        adv == Overlay(room)
    IN  [flags |-> s.flags, words |-> s.words, maxHP |-> s.maxHP, speed |-> s.speed, jump |-> s.jump,
         roundCount |-> IF adv.rounds # <<>> THEN Len(adv.rounds) ELSE s.roundCount,
         economy |-> IF adv.rounds # <<>> THEN adv.rounds ELSE s.economy,
         shop |-> adv.shop, events |-> adv.events]

-----------------------------------------------------------------------------
(* The match server.                                                       *)

DefaultRules == [maxRound |-> 7, roundsToWin |-> 4, economy |-> CoinTable[1], maxHP |-> 200,
            noLoadout |-> FALSE, unlimitedAmmo |-> FALSE, speed |-> 0, jump |-> 0,
            shop |-> {}, events |-> DefaultEvents]

Or(value, default) == IF value = Unset THEN default ELSE value

\* 100 per cent is sent as 0: the field is left out.
Scale(value) == IF value \in {Unset, 100} THEN 0 ELSE value

\* Mutant: half of the rounds win the match.
HalfRounds(w) == Or(w.roundCount, 7) \div 2

\* (w.RoundCount + 1) / 2, of a uint8.
RoundsToWin(w) == IF w.roundCount = Unset THEN 4 ELSE ((w.roundCount + 1) % 256) \div 2

\* An event the payload does not name is unmarshalled as 0.
EventsOf(w) ==
    IF DOMAIN w.events = {} THEN DefaultEvents
    ELSE [e \in Events |-> IF e \in DOMAIN w.events THEN w.events[e] ELSE 0]

LoadMatchSettings(w) ==
    [maxRound |-> Or(w.roundCount, 7), roundsToWin |-> RoundsToWin(w),
     economy |-> Or(w.economy, CoinTable[1]), maxHP |-> Or(w.maxHP, 200),
     noLoadout |-> "noLoadout" \in w.flags, unlimitedAmmo |-> "unlimitedAmmo" \in w.flags,
     speed |-> Scale(w.speed), jump |-> Scale(w.jump), shop |-> w.shop, events |-> EventsOf(w)]

-----------------------------------------------------------------------------
(* A room: what a client packs.                                            *)

\* The words with these fields set to these values: the bits of the indices, and the flags.
BitsOf(fields, f) ==
    {<<Indices[f][1], Indices[f][2] + b>> : b \in {b \in 0 .. Indices[f][3] - 1 : (fields[f] \div (2 ^ b)) % 2 = 1}}
Pack(fields) ==
    (UNION {BitsOf(fields, f) : f \in DOMAIN fields \cap DOMAIN Indices})
    \cup {Flags[f] : f \in DOMAIN fields \cap DOMAIN Flags}

Largest(f) == IF f \in DOMAIN Indices THEN 2 ^ Indices[f][3] - 1 ELSE 1

\* A field at any value, and another that is full.
PairsOf(full, x) == {[f \in {full, x} |-> IF f = x THEN v ELSE Largest(f)] : v \in 1 .. Largest(x)}
FieldPairs ==
    UNION {PairsOf(full, x) : full \in {"playerHP", "roundNum", "noLoadout"}, x \in DOMAIN Indices \cup DOMAIN Flags}

\* GenerateADCSSettingBytes: rows with their steps, events with theirs, and the rounds' coins.
Blob(store, eco, rounds) ==
    <<Len(store)>> \o FlattenSeq(store) \o <<Len(eco)>> \o FlattenSeq(eco)
        \o <<Len(rounds)>> \o FlattenSeq(rounds)

CoinBytes == {<<244, 1, 0, top>> : top \in TopBytes}
Stores == {<<>>} \cup {<< <<i, step>> >> : i \in DOMAIN ShopRows \cup {99}, step \in ShopSteps}
          \cup {<< <<37, 1>>, <<8, 2>> >>}
Ecos == {<<>>, [i \in 1 .. 6 |-> <<151 + i, i>>]}
        \cup {<< <<e, step>> >> : e \in 151 .. 153, step \in EventSteps}
Rounds == {<<>>} \cup {<<c>> : c \in CoinBytes} \cup {<<c, d>> : c, d \in CoinBytes}

\* The record of the room.
Room(c) == [words |-> Pack(c.fields), advanced |-> c.advanced,
            blob |-> SubSeq(Blob(c.store, c.eco, c.rounds), 1, c.arrived)]

Size(c) == Len(Blob(c.store, c.eco, c.rounds))

SettingsInit ==
    /\ \/ \E f \in FieldPairs : chosen = [fields |-> f, advanced |-> FALSE, store |-> <<>>, eco |-> <<>>,
                                      rounds |-> <<>>, arrived |-> 0]
       \/ \E adv \in BOOLEAN, s \in Stores,
             e \in Ecos, r \in Rounds :
             chosen = [fields |-> [roundNum |-> 2, initCoin |-> 2], advanced |-> adv, store |-> s, eco |-> e, rounds |-> r,
                       arrived |-> Len(Blob(s, e, r))]
    /\ payload = NotYet /\ rules = NotYet

\* The blob is cut short on its way.
CutBlob ==
    /\ payload = NotYet /\ rules = NotYet /\ chosen.arrived = Size(chosen) /\ chosen.advanced
    /\ \E n \in 0 .. Size(chosen) - 1 : chosen' = [chosen EXCEPT !.arrived = n]
    /\ UNCHANGED <<payload, rules>>

WritePayload ==
    /\ payload = NotYet /\ rules = NotYet /\ payload' = Payload(Room(chosen))
    /\ UNCHANGED <<chosen, rules>>

\* The first join, after START has told the members; a payload that was not written leaves the defaults.
FirstJoin ==
    /\ rules = NotYet
    /\ rules' = IF payload = NotYet THEN DefaultRules ELSE LoadMatchSettings(payload)
    /\ UNCHANGED <<chosen, payload>>

SettingsNext == CutBlob \/ WritePayload \/ FirstJoin

-----------------------------------------------------------------------------
Field(f) == IF f \in DOMAIN chosen.fields THEN chosen.fields[f] ELSE 0
Taken == chosen.advanced /\ chosen.arrived = Size(chosen)
Coins(bytes) == IF bytes[4] >= 128 THEN 0 ELSE bytes[1] + 256 * bytes[2] + 65536 * bytes[3] + 16777216 * bytes[4]

\* The type invariant.
SettingsTypeOK ==
    rules # NotYet =>
        /\ rules.maxRound \in 1 .. 255 /\ rules.roundsToWin \in 0 .. 128
        /\ rules.economy # <<>> /\ rules.maxHP \in {200, 500, 50, 1}
        /\ {rules.speed, rules.jump} \subseteq {0, 50, 125, 200, 400}
        /\ DOMAIN rules.events = Events

\* What START wrote is what the host chose, bit by bit and part by part: no field spills into
\* another, and the shop sells, at the host's prices, the chosen items that have a slot.
RulesAsChosen ==
    rules # NotYet /\ payload # NotYet =>
        /\ rules.maxHP = (IF Field("playerHP") \in 1 .. 4 THEN HPTable[Field("playerHP")] ELSE 200)
        /\ rules.noLoadout <=> Field("noLoadout") = 1
        /\ rules.unlimitedAmmo <=> Field("unlimitedAmmo") = 1
        /\ payload.flags = {f \in DOMAIN Flags : Field(f) = 1}
        /\ rules.economy =
               IF Taken /\ chosen.rounds # <<>> THEN [i \in DOMAIN chosen.rounds |-> Coins(chosen.rounds[i])]
               ELSE IF Field("initCoin") = 2 THEN CoinTable[2] ELSE CoinTable[1]
        /\ rules.shop # {} =>
               /\ Taken
               /\ {s.item : s \in rules.shop} \cap Quarantine = {}
               /\ \A s \in rules.shop : /\ s.slot # "none"
                                               /\ \E c \in ToSet(chosen.store) : /\ ShopRows[c[1]][1] = s.item
                                                                               /\ s.price = 50 * c[2]
        /\ Taken => \A e \in ToSet(chosen.eco) : e[1] \in Events => rules.events[e[1]] = 50 * e[2]

\* "a bad blob never breaks the start handoff": one that was cut changes nothing.
CutBlobIgnored ==
    payload # NotYet /\ ~ Taken => payload = Payload([Room(chosen) EXCEPT !.advanced = FALSE])

\* No team has won a match before half of its rounds, and either may still win its last one
\* (an even number of rounds, which an advanced room may have, is won by half of them).
WonByHalf ==
    rules # NotYet => /\ 2 * rules.roundsToWin >= rules.maxRound
                     /\ 2 * (rules.roundsToWin - 1) < rules.maxRound
=============================================================================
