---------------------------- MODULE MatchItems ----------------------------
(***************************************************************************)
(* What the players of a match hold and what lies on its ground            *)
(* (match-server: purchase.go, loot.go, equip.go, attachment.go,           *)
(* durability.go, gloo.go, combat.go, cssync.go).                          *)
(*                                                                         *)
(* A session keeps one loadout three times over: items (clientUIDs), the   *)
(* guns of its slots (weapons) and its slots (equipment).  run() executes  *)
(* one handler at a time; the hazard is the order of the handlers, and the *)
(* uniques: every session numbers its items from 1, and an item keeps its  *)
(* number on the ground and in another player's loadout.  clashed says     *)
(* that two items of one loadout, or of one box, have met under a number.  *)
(*                                                                         *)
(* Left out: what a purchase costs (MatchCoins), rounds in a magazine,     *)
(* what is sent to whom.  Whether a box lies within 1.5 m, how much a hit  *)
(* wears a vest or a wall and when a wall expires are choices.  Armour is  *)
(* a vest, a bought item one piece, the fist the absence of a melee slot.  *)
(*                                                                         *)
(* Bounds: MaxMoves handlers run, MaxUnique numbers a session, MaxBoxes    *)
(* boxes; Buyers buy what is OnSale and drop what is Dropped; GlooWallCap  *)
(* is 3 in the code.  Once two items have met under a number the tables no *)
(* longer agree, and the behaviour is not followed further.                *)
(***************************************************************************)
EXTENDS Integers, Sequences, SequencesExt, FiniteSets

CONSTANTS Fighters, Earliest, Buyers, OnSale, Dropped, MaxUnique, MaxBoxes, MaxMoves,
          GlooWallCap

ASSUME MatchItemsAssumption ==
    /\ IsFiniteSet(Fighters) /\ Earliest \in Fighters /\ Buyers \subseteq Fighters
    /\ OnSale \subseteq {"rifle", "pistol", "groza", "gloo", "grenade", "vest", "kit"}
    /\ {MaxBoxes, GlooWallCap} \subseteq Nat \ {0} /\ MaxUnique \in Nat /\ MaxUnique >= 3

\* weaponAmmo has a row for Guns; the shop of an advanced room sells a gun it has none
\* for, placed by the SlotKind of the sale: a primary.
Guns == {"rifle", "pistol"}
Firearms == Guns \cup {"groza"}
GunSlots == {"primary1", "primary2", "pistol"}
Ammo == [rifle |-> "rifle rounds", pistol |-> "pistol rounds", groza |-> "rifle rounds"]
Stackable == {"gloo", "grenade", "medkit", "kit"}

\* The attachments that a gun takes, each an item of its own: here none or one.
WeaponMaxAttachments == [rifle |-> <<"magazine">>, pistol |-> <<>>, groza |-> <<>>]

\* placeItem: the slot of what is no gun; slotNone is no slot.
PlaceItem == [gloo |-> "building", grenade |-> "explosive", vest |-> "vest",
              kit |-> "slotNone", medkit |-> "slotNone"]

VARIABLES
    loadout,    \* fighter -> its loadout
    boxes,      \* box -> the items in it, in order; none where there is no box
    walls,      \* the gloo walls that stand, oldest first
    revived,    \* who died in the round that is over and waits for a loadout
    noLoadout, unlimitedAmmo,     \* the room's settings
    clashed, moves,
    issued      \* the Guns there should be: given or bought, and not wiped

itemVars == <<loadout, boxes, walls, revived, noLoadout, unlimitedAmmo, clashed, moves, issued>>
room == <<noLoadout, unlimitedAmmo>>

Nothing == [x \in {} |-> 0]
Less(f, x) == [y \in DOMAIN f \ {x} |-> f[y]]
With(f, x, v) == [y \in DOMAIN f \cup {x} |-> IF y = x THEN v ELSE f[y]]
Item(u, data, count) == [unique |-> u, data |-> data, count |-> count]
At(u, data) == [unique |-> u, data |-> data]

Bare == [uid |-> 0, items |-> Nothing, guns |-> Nothing, equip |-> Nothing,
         hand |-> 0, before |-> 0, mounts |-> {}, armour |-> FALSE]

-----------------------------------------------------------------------------
(* Changes of one loadout l.                                               *)

Track(l, it) == [l EXCEPT !.items = With(@, it.unique, it)]
SetEquip(l, slot, data, u) == [l EXCEPT !.equip = With(@, slot, At(u, data))]
ClearEquip(l, slot) == [l EXCEPT !.equip = Less(@, slot)]
SetGun(l, slot, data, u) == [l EXCEPT !.guns = With(@, slot, At(u, data))]

SlotsOf(f, u) == {s \in DOMAIN f : f[s].unique = u}
IsWeaponUID(l, u) == u # 0 /\ SlotsOf(l.guns, u) # {}

\* What goes with an item that leaves: its entry, its mounts, the hand.
Untrack(l, u) ==
    [l EXCEPT !.items = Less(@, u),
              !.mounts = {m \in @ : m.gun # u},
              !.hand = IF @ = u THEN 0 ELSE @]

\* removeTrackedItem: the slot is found by the number alone.
RemoveTrackedItem(l, u) ==
    LET slots == IF SlotsOf(l.guns, u) # {} THEN SlotsOf(l.guns, u) ELSE SlotsOf(l.equip, u)
    IN  IF slots = {} THEN {Untrack(l, u)}
        ELSE {Untrack(ClearEquip([l EXCEPT !.guns = IF SlotsOf(l.guns, u) # {} THEN Less(@, s) ELSE @], s), u)
                 : s \in slots}

RemoveLoadoutWeapon(l, slot) ==
    Untrack(ClearEquip([l EXCEPT !.guns = Less(@, slot)], slot), l.guns[slot].unique)

\* pickPrimarySlot: an empty slot, else that of the rifle in hand, else the first.
PickPrimarySlot(l) ==
    IF "primary1" \notin DOMAIN l.guns THEN "primary1"
    ELSE IF "primary2" \notin DOMAIN l.guns THEN "primary2"
    ELSE IF l.guns["primary1"].unique # l.hand /\ l.guns["primary2"].unique = l.hand
         THEN "primary2" ELSE "primary1"

GunSlot(l, data) == IF data = "pistol" THEN "pistol" ELSE PickPrimarySlot(l)

\* buildWeaponAttachments, sendAttachEquips.
BuildWeaponAttachments(l, gun, data) ==
    LET new == WeaponMaxAttachments[data]
        numbers == (l.uid + 1)..(l.uid + Len(new))
    IN  [l EXCEPT !.uid = @ + Len(new),
                  !.items = [u \in numbers \cup DOMAIN @ |->
                                IF u \in numbers THEN Item(u, new[u - l.uid], 1) ELSE @[u]],
                  !.mounts = @ \cup {[gun |-> gun, item |-> u] : u \in numbers}]

\* giveAmmoStacks: a stack of its own, whatever is held of that kind.
GiveAmmoStacks(l, data) ==
    [Track(l, Item(l.uid + 1, Ammo[data], 1)) EXCEPT !.uid = @ + 1]

\* trackedByData: the stacks of that kind but the one under skip.
TrackedByData(l, data, skip) == {u \in DOMAIN l.items \ {skip} : l.items[u].data = data}

-----------------------------------------------------------------------------
(* The ground.                                                             *)

\* dropToGround: to a box that is near (also, an emptied one that is still
\* there) or, if none is, to a new one.
DropToGround(bs, it, emptied) ==
    LET there == {b \in DOMAIN bs : bs[b] # <<>>} \cup emptied
        free == DOMAIN bs \ there
        new == IF free = {} THEN {} ELSE {CHOOSE b \in free : \A c \in free : b <= c}
    IN  {[bs EXCEPT ![b] = Append(@, it)] : b \in there \cup new}

NoBoxes == [b \in 1..MaxBoxes |-> <<>>]

\* What is left of a box without the items of that number.
WithoutNumber(q, u) ==
    LET left[n \in 0..Len(q)] ==
            IF n = 0 THEN <<>>
            ELSE IF q[n].unique = u THEN left[n - 1] ELSE Append(left[n - 1], q[n])
    IN  left[Len(q)]

\* The Guns that these players hold, and those that lie in boxes.
GunsHeld(S) ==
    Cardinality(UNION {{p} \X {u \in DOMAIN loadout[p].items : loadout[p].items[u].data \in Guns} : p \in S})
GunsIn(bs) ==
    Cardinality(UNION {{b} \X {i \in DOMAIN bs[b] : bs[b][i].data \in Guns} : b \in DOMAIN bs})

\* Numbers given out from here on meet an item that is held.
Meets(l, n) == \E u \in (l.uid + 1)..(l.uid + n) : u \in DOMAIN l.items

-----------------------------------------------------------------------------
(* Handlers.                                                               *)

Plays(p) == loadout[p].uid > 0

\* addPurchasedItem, a gun: it, its ammo, its attachments; the gun whose slot it takes
\* is dropped.
PurchaseGun(p, data) ==
    LET l == loadout[p]
        u == l.uid + 1
        n == 2 + Len(WeaponMaxAttachments[data])
        full == BuildWeaponAttachments(
                    GiveAmmoStacks([Track(l, Item(u, data, 1)) EXCEPT !.uid = u], data), u, data)
        slot == GunSlot(l, data)
        taken == slot \in DOMAIN l.guns
        freed == IF taken THEN [Untrack(full, l.guns[slot].unique) EXCEPT !.hand = l.hand] ELSE full
    IN  /\ Plays(p) /\ l.uid + n <= MaxUnique
        /\ loadout' = [loadout EXCEPT ![p] =
                          [SetEquip(SetGun(freed, slot, data, u), slot, data, u) EXCEPT !.hand = u]]
        /\ IF taken THEN boxes' \in DropToGround(boxes, Item(l.guns[slot].unique, l.guns[slot].data, 1), {})
                    ELSE UNCHANGED boxes
        /\ clashed' = (clashed \/ Meets(l, n))
        /\ issued' = issued + (IF data \in Guns THEN 1 ELSE 0)
        /\ UNCHANGED <<walls, revived, room>>

\* addPurchasedItem, anything else: merged into the stack that is held, except armour.
PurchaseItem(p, data) ==
    LET l == loadout[p]
        new == l.uid + 1
        stacks == IF data = "vest" THEN {} ELSE TrackedByData(l, data, 0)
    IN  /\ Plays(p) /\ new <= MaxUnique
        /\ \E u \in (IF stacks = {} THEN {new} ELSE stacks) :
              LET count == IF u \in stacks THEN l.items[u].count + 1 ELSE 1
                  held == Track([l EXCEPT !.uid = new, !.armour = @ \/ data = "vest"], Item(u, data, count))
              IN  loadout' = [loadout EXCEPT ![p] =
                                 IF PlaceItem[data] = "slotNone" THEN held
                                 ELSE SetEquip(held, PlaceItem[data], data, u)]
        /\ clashed' = (clashed \/ (stacks = {} /\ Meets(l, 1)))
        /\ UNCHANGED <<boxes, walls, revived, room, issued>>

\* handlePickup, a gun of weaponAmmo: a slot by the rule of a purchase; it displaces.
PickupGun(p, b, it, rest) ==
    LET l == loadout[p]
        slot == GunSlot(l, it.data)
        displaces == slot \in DOMAIN l.guns /\ l.guns[slot].unique # it.unique
        freed == IF displaces THEN RemoveLoadoutWeapon(l, slot) ELSE l
        held == [Track(SetEquip(SetGun(freed, slot, it.data, it.unique), slot, it.data, it.unique), it)
                    EXCEPT !.hand = it.unique]
        left == [boxes EXCEPT ![b] = rest]
    IN  /\ l.uid + Len(WeaponMaxAttachments[it.data]) <= MaxUnique
        /\ loadout' = [loadout EXCEPT ![p] = BuildWeaponAttachments(held, it.unique, it.data)]
        /\ IF displaces
             THEN boxes' \in DropToGround(left, Item(l.guns[slot].unique, l.guns[slot].data, 1), {b})
             ELSE boxes' = left

\* Mutant: the stack that is held stays beside the one that is picked up.
PickupBeside(p, b, it, rest) ==
    /\ loadout' = [loadout EXCEPT ![p] = Track(@, it)]
    /\ boxes' = [boxes EXCEPT ![b] = rest]

\* handlePickup, anything else, a gun of the advanced shop too: what is held of the kind
\* is folded into it, out of the slot's gun; only what the slot shows is set again.
PickupItem(p, b, it, rest) ==
    LET l == loadout[p]
        stacks == TrackedByData(l, it.data, it.unique)
    IN  /\ boxes' = [boxes EXCEPT ![b] = rest]
        /\ IF stacks = {}
             THEN loadout' = [loadout EXCEPT ![p] = Track(l, it)]
             ELSE \E u \in stacks : \E gone \in RemoveTrackedItem(l, u) :
                     LET slots == SlotsOf(l.equip, u)
                         all == Track(gone, [it EXCEPT !.count = @ + l.items[u].count])
                         held == [all EXCEPT !.hand = IF l.hand = u THEN it.unique ELSE @]
                     IN  IF slots = {}
                           THEN loadout' = [loadout EXCEPT ![p] = held]
                           ELSE \E s \in slots :
                                   loadout' = [loadout EXCEPT ![p] = SetEquip(held, s, it.data, it.unique)]

\* The attachments of a gun that is picked up meet it, or an item that is held.
PickupMeets(l, it) ==
    LET n == Len(WeaponMaxAttachments[it.data])
    IN  Meets(l, n) \/ it.unique \in (l.uid + 1)..(l.uid + n)

\* handlePickup: findLoot takes the first of that number; all of it leave the box.
Pickup(p) ==
    /\ Plays(p)
    /\ \E b \in DOMAIN boxes : \E i \in DOMAIN boxes[b] :
          LET it == boxes[b][i]
              rest == WithoutNumber(boxes[b], it.unique)
              l == loadout[p]
          IN  /\ \A j \in 1..(i - 1) : boxes[b][j].unique # it.unique
              /\ IF it.data \in Guns THEN PickupGun(p, b, it, rest) ELSE PickupItem(p, b, it, rest)
              /\ clashed' = (clashed \/ it.unique \in DOMAIN l.items
                             \/ Len(rest) + 1 < Len(boxes[b])
                             \/ (it.data \in Guns /\ PickupMeets(l, it)))
    /\ UNCHANGED <<walls, revived, room, issued>>

\* handleDrop.
Drop(p) ==
    /\ \E u \in DOMAIN loadout[p].items :
          /\ loadout[p].items[u].data \in Dropped
          /\ \E l \in RemoveTrackedItem(loadout[p], u) : loadout' = [loadout EXCEPT ![p] = l]
          /\ boxes' \in DropToGround(boxes, loadout[p].items[u], {})
    /\ UNCHANGED <<walls, revived, room, clashed, issued>>

\* Where a client drags an item to.
DragSlots(data) ==
    CASE data \in {"rifle", "groza"} -> {"primary1", "primary2"}
      [] data = "pistol" -> {"pistol"}
      [] OTHER -> {PlaceItem[data]} \ {"slotNone"}

\* swapWeaponSlots and moveWeaponSlot: the entries of two slots trade places.
SwapGuns(l, a, b) ==
    LET other(s) == CASE s = a -> b [] s = b -> a [] OTHER -> s
    IN  [l EXCEPT !.guns = [s \in {other(t) : t \in DOMAIN @} |-> @[other(s)]]]

\* Mutant: the slots trade places, the guns do not.
EquipWithoutGuns(l, u, old, dst) ==
    LET data == l.items[u].data
        occupied == dst \in DOMAIN l.equip
    IN  IF occupied /\ old # "slotNone"
          THEN SetEquip(SetEquip(l, old, l.equip[dst].data, l.equip[dst].unique), dst, data, u)
          ELSE SetEquip(ClearEquip(l, old), dst, data, u)

\* handleEquip: a swap, or a move that bumps out what was there.
Equip(l, u, old, dst) ==
    LET data == IF old = "slotNone" THEN l.items[u].data ELSE l.equip[old].data
        occupied == dst \in DOMAIN l.equip
    IN  IF occupied /\ old # "slotNone"
          THEN SwapGuns(SetEquip(SetEquip(l, old, l.equip[dst].data, l.equip[dst].unique), dst, data, u), old, dst)
          ELSE LET bumped == IF occupied THEN [l EXCEPT !.guns = Less(@, dst)] ELSE l
                   set == SetEquip(ClearEquip(bumped, old), dst, data, u)
               IN  IF old = "slotNone" THEN set ELSE SwapGuns(set, old, dst)

Drag(p) ==
    /\ LET l == loadout[p]
       IN  \E u \in DOMAIN l.items :
              /\ l.items[u].data \in Firearms \cup DOMAIN PlaceItem
              /\ \E dst \in DragSlots(l.items[u].data) :
                 \E old \in (IF SlotsOf(l.equip, u) = {} THEN {"slotNone"} ELSE SlotsOf(l.equip, u)) :
                    /\ old # dst
                    /\ loadout' = [loadout EXCEPT ![p] = Equip(l, u, old, dst)]
    /\ UNCHANGED <<boxes, walls, revived, room, clashed, issued>>

\* handleChangeHeldItem: to the fists, to what a gun's slot shows, or to the gloo walls.
ChangeHeldItem(p) ==
    /\ LET l == loadout[p]
           gloo == TrackedByData(l, "gloo", 0)
       IN  \E u \in ({0} \cup gloo \cup {l.equip[s].unique : s \in DOMAIN l.equip \cap GunSlots}) \ {l.hand} :
              loadout' = [loadout EXCEPT ![p].hand = u,
                             ![p].before = IF u \in gloo /\ IsWeaponUID(l, l.hand) THEN l.hand ELSE @]
    /\ Plays(p)
    /\ UNCHANGED <<boxes, walls, revived, room, clashed, issued>>

\* bestWeaponUID.
BestWeaponUID(l) ==
    LET has(s) == s \in DOMAIN l.guns
    IN  IF has("primary1") THEN l.guns["primary1"].unique
        ELSE IF has("primary2") THEN l.guns["primary2"].unique
        ELSE IF has("pistol") THEN l.guns["pistol"].unique
        ELSE 0

\* Mutant: the hand keeps the wall that is gone.
ThrownFromHand(l, u) ==
    ClearEquip([l EXCEPT !.items = Less(@, u), !.before = 0], "building")

\* The last gloo wall is thrown: the slot is free, and the hand goes back to a gun.
Thrown(l, u) ==
    LET target == IF IsWeaponUID(l, l.before) THEN l.before ELSE BestWeaponUID(l)
    IN  ClearEquip([l EXCEPT !.items = Less(@, u), !.before = 0,
                             !.hand = IF target # 0 THEN target ELSE @], "building")

\* Mutant: one more than the cap stays.
TrimLate(ws, p) ==
    LET own == {i \in DOMAIN ws : ws[i] = p}
    IN  IF Cardinality(own) > GlooWallCap + 1 THEN RemoveAt(ws, Min(own)) ELSE ws

\* popOldestWall while the player has more than the cap: once, as the cap held before.
TrimWalls(ws, p) ==
    LET own == {i \in DOMAIN ws : ws[i] = p}
    IN  IF Cardinality(own) > GlooWallCap THEN RemoveAt(ws, Min(own)) ELSE ws

\* handlePlaceIcewall: a wall of the equipped stack, else of any.
PlaceIcewall(p) ==
    /\ LET l == loadout[p]
           gloo == TrackedByData(l, "gloo", 0)
           equipped == {u \in gloo : "building" \in DOMAIN l.equip /\ l.equip["building"].unique = u}
       IN  \E u \in (IF equipped # {} THEN equipped ELSE gloo) :
              loadout' = [loadout EXCEPT ![p] =
                             IF unlimitedAmmo THEN l
                             ELSE IF l.items[u].count = 1 THEN Thrown(l, u)
                             ELSE [l EXCEPT !.items[u].count = @ - 1]]
    /\ walls' = TrimWalls(Append(walls, p), p)
    /\ UNCHANGED <<boxes, revived, room, clashed, issued>>

\* handleIcewallDamage breaks one, sweepWalls the oldest.
WallsFall ==
    /\ walls # <<>>
    /\ \E i \in DOMAIN walls : walls' = RemoveAt(walls, i)
    /\ UNCHANGED <<loadout, boxes, revived, room, clashed, issued>>

\* wearArmor and syncArmor: a vest that is worn down is a new item, one that breaks goes.
WearArmor(p) ==
    /\ loadout[p].armour
    /\ LET l == loadout[p]
           worn == "vest" \in DOMAIN l.equip
           old == l.equip["vest"].unique
           data == l.equip["vest"].data
           new == l.uid + 1
       IN  \/ /\ worn /\ new <= MaxUnique
              /\ loadout' = [loadout EXCEPT ![p] =
                     SetEquip(Track([l EXCEPT !.uid = new, !.items = Less(@, old)], Item(new, data, 1)),
                              "vest", data, new)]
              /\ clashed' = (clashed \/ Meets(l, 1))
           \/ /\ loadout' = [loadout EXCEPT ![p] =
                     IF worn THEN ClearEquip([l EXCEPT !.armour = FALSE, !.items = Less(@, old)], "vest")
                             ELSE [l EXCEPT !.armour = FALSE]]
              /\ UNCHANGED clashed
    /\ UNCHANGED <<boxes, walls, revived, room, issued>>

-----------------------------------------------------------------------------
(* Loadouts.                                                               *)

\* giveLoadout, the part of the session: a pistol with its ammo, and two medkits.
GiveLoadout(l) ==
    LET gun == l.uid + 1
        kit == l.uid + 2
        base == [Track(Bare, Item(kit, "medkit", 2)) EXCEPT !.uid = kit, !.before = l.before]
        armed == [SetEquip(SetGun(Track(base, Item(gun, "pistol", 1)), "pistol", "pistol", gun),
                           "pistol", "pistol", gun) EXCEPT !.hand = gun]
    IN  IF noLoadout THEN base ELSE GiveAmmoStacks(BuildWeaponAttachments(armed, gun, "pistol"), "pistol")

\* reissueLoadout: a survivor's medkits are two again.
ReissueLoadout(l) ==
    LET kits == TrackedByData(l, "medkit", 0)
    IN  IF kits = {} THEN [Track(l, Item(l.uid + 1, "medkit", 2)) EXCEPT !.uid = @ + 1]
        ELSE Track(l, Item(CHOOSE u \in kits : TRUE, "medkit", 2))

\* admitLater: a player joins; giveLoadout clears the whole ground.
Enter(p) ==
    /\ ~Plays(p)
    /\ loadout' = [loadout EXCEPT ![p] = GiveLoadout(@)]
    /\ boxes' = NoBoxes
    /\ issued' = issued - GunsIn(boxes) + (IF noLoadout THEN 0 ELSE 1)
    /\ UNCHANGED <<walls, revived, room, clashed>>

Reissued(S) ==
    /\ \A p \in S : loadout[p].uid < MaxUnique
    /\ clashed' = (clashed \/ \E p \in S : (TrackedByData(loadout[p], "medkit", 0) = {} /\ Meets(loadout[p], 1)))

\* postBannerEdge: walls go; if nobody died, everybody's loadout is refilled.
RoundReset ==
    /\ revived = {}
    /\ walls' = <<>>
    /\ \E dead \in SUBSET {p \in Fighters : Plays(p)} :
          /\ revived' = dead
          /\ IF dead = {}
               THEN /\ Reissued({p \in Fighters : Plays(p)})
                    /\ loadout' = [p \in Fighters |-> IF Plays(p) THEN ReissueLoadout(loadout[p]) ELSE loadout[p]]
               ELSE UNCHANGED <<loadout, clashed>>
    /\ UNCHANGED <<boxes, room, issued>>

\* phPostReviveBind: a fresh loadout for who died, a refill for who did not.
Respawn ==
    /\ revived # {}
    /\ \A p \in revived : loadout[p].uid + 3 <= MaxUnique
    /\ Reissued({p \in Fighters : Plays(p)} \ revived)
    /\ loadout' = [p \in Fighters |-> CASE p \in revived -> GiveLoadout(loadout[p])
                                        [] Plays(p) /\ p \notin revived -> ReissueLoadout(loadout[p])
                                        [] OTHER -> loadout[p]]
    /\ boxes' = NoBoxes
    /\ issued' = GunsHeld(Fighters \ revived) + (IF noLoadout THEN 0 ELSE Cardinality(revived))
    /\ revived' = {}
    /\ UNCHANGED <<walls, room>>

ItemsInit ==
    /\ noLoadout \in BOOLEAN /\ unlimitedAmmo \in BOOLEAN
    /\ loadout = [p \in Fighters |-> IF p = Earliest THEN GiveLoadout(Bare) ELSE Bare]
    /\ boxes = NoBoxes /\ walls = <<>> /\ revived = {}
    /\ clashed = FALSE /\ moves = 0
    /\ issued = IF noLoadout THEN 0 ELSE 1

ItemsNext ==
  /\ ~clashed /\ moves < MaxMoves /\ moves' = moves + 1
  /\ \/ \E p \in Buyers, data \in OnSale :
           IF data \in Firearms THEN PurchaseGun(p, data) ELSE PurchaseItem(p, data)
     \/ \E p \in Fighters : \/ Pickup(p) \/ Drop(p) \/ Drag(p) \/ ChangeHeldItem(p)
                            \/ PlaceIcewall(p) \/ WearArmor(p) \/ Enter(p)
     \/ WallsFall \/ RoundReset \/ Respawn

-----------------------------------------------------------------------------
(* Properties.                                                             *)

\* Type invariant.
ItemsTypeOK ==
    /\ \A p \in Fighters :
          LET l == loadout[p]
          IN  /\ l.uid \in 0..MaxUnique
              /\ \A u \in DOMAIN l.items : l.items[u].unique = u /\ l.items[u].count \in Nat \ {0}
              /\ \A s \in DOMAIN l.equip : l.equip[s].unique \in 1..MaxUnique
              /\ {l.hand, l.before} \subseteq 0..MaxUnique
    /\ \A b \in DOMAIN boxes : \A i \in DOMAIN boxes[b] : boxes[b][i].unique \in 1..MaxUnique
    /\ walls \in Seq(Fighters) /\ revived \subseteq Fighters

\* The gun of a slot is what the slot shows, so that a purchase or a pickup after a drag
\* displaces the gun that is there ("so occupancy checks stay correct after a swap").
GunsAreEquipped ==
    \A p \in Fighters : \A s \in DOMAIN loadout[p].guns :
        s \in DOMAIN loadout[p].equip /\ loadout[p].equip[s] = loadout[p].guns[s]

\* Walls, grenades and kits are one stack a kind, bought, picked up or given in whatever
\* order ("MUST live as a SINGLE stack per data").
OneStack ==
    \A p \in Fighters, data \in Stackable : Cardinality(TrackedByData(loadout[p], data, 0)) <= 1

\* A player has no more walls than the cap, and the placer's own oldest make room.
WallsCapped ==
    \A p \in Fighters : Cardinality({i \in DOMAIN walls : walls[i] = p}) <= GlooWallCap

\* Until two items meet under one number: what is equipped or mounted is held, a player
\* with a gun in a slot has no item in hand that is gone, and no gun of weaponAmmo is lost
\* or doubled between the loadouts and the ground.  A gun that the advanced shop alone
\* knows is not counted: picked up twice, it is one item with two in its count.
NothingAstray ==
    ~clashed =>
        /\ \A p \in Fighters :
              LET l == loadout[p]
                  held == DOMAIN l.items
              IN  /\ \A s \in DOMAIN l.equip :
                        l.equip[s].unique \in held /\ l.items[l.equip[s].unique].data = l.equip[s].data
                  /\ \A m \in l.mounts : m.gun \in held
                  /\ l.hand \in held \cup {0} \/ l.guns = Nothing
        /\ GunsHeld(Fighters) + GunsIn(boxes) = issued

ItemsSound == GunsAreEquipped /\ OneStack /\ WallsCapped /\ NothingAstray
=============================================================================
