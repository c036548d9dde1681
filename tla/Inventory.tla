------------------------------ MODULE Inventory ------------------------------
(***************************************************************************)
(* What a player owns: money, weapons and accessories, what they cost,     *)
(* and what buying, selling and winning them does (sgame/sinventory.c),    *)
(* with the catalogue they come from (sgame/saccessory.c,                  *)
(* sgame/sweapon.c).                                                       *)
(*                                                                         *)
(* Weapons and accessories are bought and sold by the same rules, so they  *)
(* are both items; weapons have none of the state bits that matter here.   *)
(* The operators take the record of a player and return what becomes of    *)
(* it.                                                                     *)
(***************************************************************************)
EXTENDS Integers, Sequences

CONSTANTS
    Weapons,      \* the weapons in the order of the registry
    Accessories,  \* the accessories in the order of the registry
    Info,         \* sc_weapon_info or sc_accessory_info of an item
    MaxItems      \* SC_INVENTORY_MAX_ITEMS

ElementsOf(seq) == {seq[k] : k \in 1 .. Len(seq)}
Weapon == ElementsOf(Weapons)
Accessory == ElementsOf(Accessories)
Item == Weapon \cup Accessory

StateBit == {"SHIELD", "STANDARD", "MAGNETIC", "FORCE", "TRIGGER", "AUTO_DEF", "BATTERY",
             "FUEL", "RECHARGE", "CONSUMABLE", "PERMANENT"}

ASSUME CatalogueAssumption ==
    /\ MaxItems \in Nat \ {0}
    /\ Weapons \in Seq(Weapon) /\ Len(Weapons) >= 1
    /\ Accessories \in Seq(Accessory) /\ Len(Accessories) >= 1
    /\ \A j, k \in 1 .. Len(Weapons) : Weapons[j] = Weapons[k] => j = k
    /\ \A j, k \in 1 .. Len(Accessories) : Accessories[j] = Accessories[k] => j = k
    /\ Weapon \cap Accessory = {}
    /\ Info \in [Item -> [price : Nat, bundle : Nat, shield : Nat, repulsion : Nat, fuel : Nat,
                          useless : BOOLEAN, state : SUBSET StateBit]]

Is(item, bit) == bit \in Info[item].state

\* SC_WEAPON_IS_INFINITE, SC_ACCESSORY_IS_INFINITE
Infinite(item) == Info[item].bundle <= 0 \/ Info[item].price <= 0

\* sc_addconf gives everybody the infinite items; *_inventory_clear takes
\* all others away.
Cleared == [item \in Item |-> IF Infinite(item) THEN MaxItems ELSE 0]

\* The defaults are the first items: the infinite Baby Missile and "null".
DefaultWeapon == Weapons[1]
DefaultAccessory == Accessories[1]

ASSUME DefaultsAssumption ==
    /\ Infinite(DefaultWeapon) /\ Infinite(DefaultAccessory)
    /\ Info[DefaultAccessory].state = {}

-----------------------------------------------------------------------------
(* Walking the catalogue.                                                  *)

IndexOf(seq, item) == CHOOSE k \in 1 .. Len(seq) : seq[k] = item

\* sc_weapon_next, sc_accessory_next: k items further on, around the end.
Further(seq, item, k) == seq[((IndexOf(seq, item) - 1 + k) % Len(seq)) + 1]

\* What a search forwards or backwards finds first.
Least(S) == CHOOSE k \in S : \A j \in S : k <= j
Greatest(S) == CHOOSE k \in S : \A j \in S : k >= j
FirstOf(seq, S) == seq[Least({k \in 1 .. Len(seq) : seq[k] \in S})]
LastOf(seq, S) == seq[Greatest({k \in 1 .. Len(seq) : seq[k] \in S})]

-----------------------------------------------------------------------------
(* Prices.                                                                 *)

\* Amounts are cut off towards zero.
Quotient(amount, divisor) ==
    IF amount >= 0 THEN amount \div divisor ELSE -((-amount) \div divisor)

\* How many a player who has that many takes of a bundle.
Quantity(have, bundle) ==
    IF have + bundle <= MaxItems THEN bundle ELSE MaxItems - have

UnitPrice(item) == Info[item].price \div Info[item].bundle

\* Fault: a split bundle costs only what it should cost more.
SurchargeOnly(item, quantity) ==
    IF quantity < Info[item].bundle
    THEN (UnitPrice(item) * quantity * 30) \div 100
    ELSE Info[item].price

\* A split bundle costs 30 per cent more; money is in whole dollars.
PurchasePrice(item, quantity) ==
    IF quantity < Info[item].bundle
    THEN (UnitPrice(item) * quantity * 130) \div 100
    ELSE Info[item].price

SalePrice(item, quantity) ==
    IF quantity < Info[item].bundle
    THEN (UnitPrice(item) * quantity * 50) \div 100
    ELSE (Info[item].price * 50) \div 100

-----------------------------------------------------------------------------
(* Buying and selling.                                                     *)

Unlimited == -1  \* SC_INVENTORY_INFINITE

CanBuy(pl, item, budget) ==
    LET quantity == Quantity(pl.inventory[item], Info[item].bundle)
        cost == PurchasePrice(item, quantity)
    IN  /\ ~(Is(item, "PERMANENT") /\ pl.inventory[item] > 0)
        /\ quantity # 0
        /\ cost <= pl.money
        /\ budget >= 0 => cost <= budget

Buy(pl, item) ==
    LET quantity == Quantity(pl.inventory[item], Info[item].bundle)
    IN  [pl EXCEPT !.inventory[item] = @ + quantity,
                   !.money = @ - PurchasePrice(item, quantity),
                   !.ac_state = @ \cup Info[item].state]

CanSell(pl, item) == pl.inventory[item] > 0 /\ ~Infinite(item)

SaleQuantity(pl, item) ==
    IF pl.inventory[item] > Info[item].bundle THEN Info[item].bundle
    ELSE pl.inventory[item]

\* The benefit is stripped whatever else grants it.
Sell(pl, item) ==
    LET quantity == SaleQuantity(pl, item)
    IN  [pl EXCEPT !.inventory[item] = @ - quantity,
                   !.money = @ + SalePrice(item, quantity),
                   !.ac_state = @ \ Info[item].state]

\* sc_inventory_award_weapon
Award(pl, item) ==
    [pl EXCEPT !.inventory[item] = @ + Quantity(@, Info[item].bundle)]

\* What the player would get for everything, a bundle at a time.
ResaleOf(item, have) ==
    LET bundle == Info[item].bundle
    IN  IF Infinite(item) THEN 0
        ELSE (have \div bundle) * SalePrice(item, bundle) + SalePrice(item, have % bundle)
=============================================================================
