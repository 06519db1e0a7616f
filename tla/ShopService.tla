---------------------------- MODULE ShopService ----------------------------
(***************************************************************************)
(* The shop (src/services/shopService.js and the handlers that buy):  the  *)
(* store's items and the Lucky Royale wheels, edited through the admin     *)
(* routes of any process, and the balance of a player who buys.            *)
(*                                                                         *)
(* A process loads both files once and answers from its copy; an edit      *)
(* changes the copy and writes the whole file.  The admin's numbers are    *)
(* stored as the code checks them, which is not everywhere: any integer    *)
(* may be the item of an entry that is edited, and a pool that is sent     *)
(* with a wheel is kept as it is.  What is no number at all, names, tags,  *)
(* levels and the order of the tabs are left out.                          *)
(***************************************************************************)
EXTENDS Integers, Sequences, FiniteSetsExt, SequencesExt

CONSTANTS Servers, Items, AskedIds, Prices, Weights, Chests, Grands, Pools,
          StartCoins, MaxEdits, MaxPurchases, MaxRewards

ASSUME ShopAssumption ==
    /\ {StartCoins, MaxEdits, MaxPurchases, MaxRewards} \subseteq Nat
    /\ Items \subseteq Int /\ {1, 2, 3} \subseteq Items /\ Chests \subseteq Nat \ {0}
    /\ Grands \subseteq Items \cup {0} /\ AskedIds \subseteq Int /\ Prices \subseteq Int /\ Weights \subseteq Int
    /\ \A pool \in Pools : pool \in Seq([item : Items, weight : Int]) /\ pool # <<>>

VARIABLES
    file,       \* shop_catalog.json and lucky_royale.json
    catalogue,  \* server -> its copy of both
    balance,    \* of one player: coins, gems and the wallet that shows them
    backpack,   \* ids of the items the player has
    edits, purchases, rewards

shopVars == <<file, catalogue, balance, backpack, edits, purchases, rewards>>

DefaultStore == <<[store |-> 101, item |-> 1, coins |-> 0, gems |-> 2],
                  [store |-> 102, item |-> 2, coins |-> 2, gems |-> 0]>>

DefaultWheels == <<[chest |-> 1001, currency |-> "gems", once |-> 1, ten |-> 2,
                    prizes |-> <<[item |-> 2, weight |-> 1], [item |-> 3, weight |-> 3]>>]>>

Defaults == [store |-> DefaultStore, wheels |-> DefaultWheels]

ShopInit ==
    /\ file = Defaults /\ catalogue = [s \in Servers |-> Defaults]
    /\ balance = [coins |-> StartCoins, gems |-> StartCoins,
                  walletCoins |-> StartCoins, walletGems |-> StartCoins]
    /\ backpack = {}
    /\ edits = 0 /\ purchases = 0 /\ rewards = 0

AtLeast(low, n) == IF n < low THEN low ELSE n

-----------------------------------------------------------------------------
(* Files.                                                                  *)

Edit == edits < MaxEdits /\ edits' = edits + 1
Unsold == UNCHANGED <<balance, backpack, purchases, rewards>>

\* An edit of the store, saved; a write that fails is logged and the copy stays edited.
EditStore(s, items) ==
    /\ Edit /\ Unsold
    /\ catalogue' = [catalogue EXCEPT ![s].store = items]
    /\ file' \in {file, [file EXCEPT !.store = items]}

EditWheels(s, wheels) ==
    /\ Edit /\ Unsold
    /\ catalogue' = [catalogue EXCEPT ![s].wheels = wheels]
    /\ file' \in {file, [file EXCEPT !.wheels = wheels]}

\* A process starts: it reads the files, or falls back to the defaults if it cannot.
LoadData(s) ==
    /\ Edit /\ Unsold
    /\ catalogue' \in {[catalogue EXCEPT ![s] = c] :
                           c \in [store : {file.store, DefaultStore},
                                  wheels : {file.wheels, DefaultWheels}]}
    /\ UNCHANGED file

-----------------------------------------------------------------------------
(* The store.                                                              *)

StoreIds(items) == {items[i].store : i \in DOMAIN items}

NextStoreId(items) == 1 + Max({100} \cup StoreIds(items))

\* Mutant: the id that was asked for is kept.
IdAsAsked(items, asked) == IF asked = 0 THEN NextStoreId(items) ELSE asked

\* The id asked for (0: none), unless it is taken.
StoreId(items, asked) ==
    IF asked = 0 \/ asked \in StoreIds(items) THEN NextStoreId(items) ELSE asked

AddStoreItem(s, item, asked, coins, gems) ==
    LET items == catalogue[s].store IN
    /\ item > 0
    /\ EditStore(s, Append(items, [store |-> StoreId(items, asked), item |-> item,
                                   coins |-> AtLeast(0, coins), gems |-> AtLeast(0, gems)]))

\* Where the entry with a store id stands; 0 if there is none.
EntryAt(items, id) == SelectInSeq(items, LAMBDA it : it.store = id)

UpdateStoreItem(s, id, item, coins) ==
    LET items == catalogue[s].store
        found == EntryAt(items, id) IN
    /\ found # 0
    /\ EditStore(s, [items EXCEPT ![found].item = item, ![found].coins = AtLeast(0, coins)])

DeleteStoreItem(s, id) ==
    LET items == catalogue[s].store
        found == EntryAt(items, id) IN
    /\ found # 0
    /\ EditStore(s, RemoveAt(items, found))

ResetShopCatalog(s) == EditStore(s, DefaultStore)

-----------------------------------------------------------------------------
(* The wheels.                                                             *)

WheelAt(s, chest) == SelectInSeq(catalogue[s].wheels, LAMBDA w : w.chest = chest)
PrizeAt(wheel, item) == SelectInSeq(wheel.prizes, LAMBDA r : r.item = item)

\* The pool of a wheel that is sent without one: its grand prize, or one of the code's, and
\* the voucher, which may be the same item.
DefaultPool(grand) ==
    <<[item |-> IF grand = 0 THEN 3 ELSE grand, weight |-> 3], [item |-> 1, weight |-> 5]>>

NewWheel(chest, currency, price, prizes) ==
    [chest |-> chest, currency |-> currency, once |-> AtLeast(1, price), ten |-> AtLeast(1, 2 * price),
     prizes |-> prizes]

AddWheel(s, chest, currency, price, prizes) ==
    /\ WheelAt(s, chest) = 0
    /\ EditWheels(s, Append(catalogue[s].wheels, NewWheel(chest, currency, price, prizes)))

UpdateWheel(s, chest, currency, price) ==
    LET i == WheelAt(s, chest) IN
    /\ i # 0
    /\ EditWheels(s, [catalogue[s].wheels EXCEPT ![i].currency = currency,
                          ![i].once = AtLeast(1, price), ![i].ten = AtLeast(1, 2 * price)])

DeleteWheel(s, chest) ==
    /\ Len(catalogue[s].wheels) > 1 /\ WheelAt(s, chest) # 0
    /\ EditWheels(s, RemoveAt(catalogue[s].wheels, WheelAt(s, chest)))

\* A weight that is missing or 0 counts as 10.
OrTen(weight) == IF weight = 0 THEN 10 ELSE weight

AddWheelReward(s, chest, item, weight) ==
    LET i == WheelAt(s, chest) IN
    /\ i # 0 /\ item > 0 /\ PrizeAt(catalogue[s].wheels[i], item) = 0
    /\ EditWheels(s, [catalogue[s].wheels EXCEPT
                          ![i].prizes = Append(@, [item |-> item, weight |-> AtLeast(1, OrTen(weight))])])

UpdateWheelReward(s, chest, item, weight) ==
    LET i == WheelAt(s, chest)
        j == PrizeAt(catalogue[s].wheels[i], item) IN
    /\ i # 0 /\ j # 0
    /\ EditWheels(s, [catalogue[s].wheels EXCEPT ![i].prizes[j].weight = AtLeast(1, weight)])

DeleteWheelReward(s, chest, item) ==
    LET i == WheelAt(s, chest)
        j == PrizeAt(catalogue[s].wheels[i], item) IN
    /\ i # 0 /\ Len(catalogue[s].wheels[i].prizes) > 1 /\ j # 0
    /\ EditWheels(s, [catalogue[s].wheels EXCEPT ![i].prizes = RemoveAt(@, j)])

\* i -> the weights of the first i prizes together.
WeightTo(prizes) ==
    LET sum[i \in 0 .. Len(prizes)] == IF i = 0 THEN 0 ELSE sum[i - 1] + OrTen(prizes[i].weight) IN sum

TotalWeight(prizes) == WeightTo(prizes)[Len(prizes)]

\* What randInt may return below a total; below 0 it rounds down from 0.
RandInts(total) == IF total > 0 THEN 0 .. total - 1 ELSE total .. 0

\* Mutant: the comparison includes the bound.
PickUpTo(prizes, n) ==
    LET sum == WeightTo(prizes)
        fits == {i \in DOMAIN prizes : n - sum[i - 1] <= OrTen(prizes[i].weight)}
    IN  IF fits = {} THEN 1 ELSE Min(fits)

\* pickWeightedItem: the first prize whose weight is more than what the ones before it leave of n.
PickedAt(prizes, n) ==
    LET sum == WeightTo(prizes)
        fits == {i \in DOMAIN prizes : n - sum[i - 1] < OrTen(prizes[i].weight)}
    IN  IF fits = {} THEN 1 ELSE Min(fits)

PickWeightedItem(prizes, n) == prizes[PickedAt(prizes, n)].item

-----------------------------------------------------------------------------
(* Buying.                                                                 *)

\* Mutant: whether the balance covers the price is not looked at.
PaidAnyway(n, price) == n - price

\* What is left of n when a price is taken from it, if it covers the price.
Paid(n, price) == IF n >= price THEN n - price ELSE n

\* Mutant: the balance is paid from and the wallet is not looked at.
BoughtWithoutWallet(b, coins, gems) ==
    [b EXCEPT !.coins = Paid(b.coins, coins), !.gems = Paid(b.gems, gems)]

\* The balance after a purchase, and the wallet in sync.
Bought(b, coins, gems) ==
    [coins |-> Paid(b.coins, coins), gems |-> Paid(b.gems, gems),
     walletCoins |-> Paid(b.coins, coins), walletGems |-> Paid(b.gems, gems)]

Sold(coins, gems, items) ==
    /\ purchases < MaxPurchases /\ purchases' = purchases + 1
    /\ balance' = Bought(balance, coins, gems)
    /\ backpack' = backpack \cup items
    /\ UNCHANGED <<file, catalogue, edits, rewards>>

\* getStoreItemById: an entry by its store id or its item id.
EntryFor(items, id) == SelectInSeq(items, LAMBDA it : it.store = id \/ it.item = id)

\* Purchase: what is found, else the item itself for nothing; no item has the id 0.
Purchase(s, id, count) ==
    LET items == catalogue[s].store
        found == EntryFor(items, id) IN
    IF found = 0 THEN Sold(0, 0, {id} \ {0})
    ELSE Sold(items[found].coins * count, items[found].gems * count, {items[found].item} \ {0})

\* PurchaseGacha: one pull or ten; an unknown chest is the first wheel.
PurchaseGacha(s, chest, multi) ==
    LET wheels == catalogue[s].wheels
        wheel == wheels[AtLeast(1, WheelAt(s, chest))]
        price == IF multi THEN wheel.ten ELSE wheel.once IN
    \E drawn \in SUBSET {PickWeightedItem(wheel.prizes, n) : n \in RandInts(TotalWeight(wheel.prizes))} :
        /\ drawn # {} /\ (~multi => \A i, j \in drawn : i = j)
        /\ IF wheel.currency = "coins" THEN Sold(price, 0, drawn) ELSE Sold(0, price, drawn)

\* settleMatchResult: coins, and not the wallet.
MatchReward ==
    /\ rewards < MaxRewards /\ rewards' = rewards + 1
    /\ balance' = [balance EXCEPT !.coins = @ + 1]
    /\ UNCHANGED <<file, catalogue, backpack, edits, purchases>>

ShopNext ==
    \/ MatchReward
    \/ \E s \in Servers :
           \/ LoadData(s) \/ ResetShopCatalog(s)
           \/ \E item \in Items, price \in Prices :
                  \/ \E asked \in AskedIds : AddStoreItem(s, item, asked, price, 0)
                  \/ \E id \in StoreIds(catalogue[s].store) : UpdateStoreItem(s, id, item, price)
           \/ \E id \in StoreIds(catalogue[s].store) :
                  DeleteStoreItem(s, id) \/ \E count \in 1 .. 2 : Purchase(s, id, count)
           \/ \E item \in Items : Purchase(s, item, 1)
           \/ \E chest \in Chests :
                  \/ \E currency \in {"coins", "gems"}, price \in Prices :
                         \/ UpdateWheel(s, chest, currency, price)
                         \/ \E prizes \in Pools \cup {DefaultPool(grand) : grand \in Grands} :
                                AddWheel(s, chest, currency, price, prizes)
                  \/ DeleteWheel(s, chest)
                  \/ \E item \in Items :
                         \/ DeleteWheelReward(s, chest, item)
                         \/ \E weight \in Weights :
                                \/ AddWheelReward(s, chest, item, weight)
                                \/ UpdateWheelReward(s, chest, item, weight)
                  \/ \E multi \in BOOLEAN : PurchaseGacha(s, chest, multi)

-----------------------------------------------------------------------------
Distinct(seq, Key(_)) == \A i, j \in DOMAIN seq : Key(seq[i]) = Key(seq[j]) => i = j

\* The type invariant: prices stay above their floors.  Of the weights of a pool that was sent
\* only the type is known.
ShopTypeOK ==
    /\ \A c \in {file} \cup {catalogue[s] : s \in Servers} :
           /\ \A i \in DOMAIN c.store : c.store[i].item \in Items /\ {c.store[i].coins, c.store[i].gems} \subseteq Nat
           /\ \A i \in DOMAIN c.wheels :
                  /\ {c.wheels[i].once, c.wheels[i].ten} \subseteq Nat \ {0}
                  /\ \A j \in DOMAIN c.wheels[i].prizes :
                         c.wheels[i].prizes[j].item \in Items /\ c.wheels[i].prizes[j].weight \in Int
    /\ balance \in [{"coins", "gems", "walletCoins", "walletGems"} -> Nat]
    /\ backpack \subseteq Items

\* Whatever is edited, where, and whatever file is read back: a store id names one entry, a
\* chest one wheel, there is a wheel to fall back to, each has a prize, and where no weight is
\* negative every place in a pool is drawn for exactly its weight of the numbers, a missing
\* weight being 10 (addStoreItem, addWheel, deleteWheel, deleteWheelReward, pickWeightedItem).
\* addWheel checks no pool it is sent: an item may stand in it twice, and one with a
\* negative weight is drawn from by no such rule.
CatalogueSound ==
    \A c \in {file} \cup {catalogue[s] : s \in Servers} :
        /\ Distinct(c.store, LAMBDA it : it.store)
        /\ c.wheels # <<>> /\ Distinct(c.wheels, LAMBDA w : w.chest)
        /\ \A i \in DOMAIN c.wheels :
               LET prizes == c.wheels[i].prizes IN
               /\ prizes # <<>>
               /\ (\A j \in DOMAIN prizes : prizes[j].weight >= 0) =>
                      \A j \in DOMAIN prizes :
                          OrTen(prizes[j].weight) =
                              Cardinality({n \in RandInts(TotalWeight(prizes)) : PickedAt(prizes, n) = j})

\* The wallet a player is shown is the balance (player.js: "Keep wallet in sync"): only the
\* coins of match results may be missing from it, and no purchase makes a balance out of it.
WalletInSync ==
    /\ balance.walletGems = balance.gems
    /\ balance.walletCoins <= balance.coins
    /\ balance.coins <= balance.walletCoins + rewards
=============================================================================
