----------------------------- MODULE AiShopping -----------------------------
(***************************************************************************)
(* How the computer players shop: sai/saibuy.c.                            *)
(*                                                                         *)
(* A shopping trip is the record of the player, the budget that is left    *)
(* and whether the current search has bought something.  The loops over    *)
(* the catalogue are recursive functions of the steps already made.        *)
(***************************************************************************)
EXTENDS Inventory, SequencesExt

CONSTANTS
    Yield,          \* sc_weapon_statistic of a weapon: [yield, economy, precision]
    MaxOfWeapon,    \* SC_AI_BUY_MAX_OF_WEAPON
    InventoryHigh,  \* SC_AI_INVENTORY_HIGH
    MaxBatteries,   \* SC_AI_MAX_BATTERIES
    NoBudget,       \* aicontrol.nobudget
    ComputersBuy,   \* economics.computersbuy
    AiPercent,      \* SC_AI_AGGRESSIVE_BUDGET or SC_AI_CONSERVATIVE_BUDGET, in per cent
    InterestRate,   \* economics.interestrate, in per cent
    Tunneling,      \* weapons.tunneling
    Synchronous,    \* options.mode is SC_CONFIG_MODE_SYNCHRONOUS
    NumRounds       \* numrounds

AiType == {"RANDOM", "NETWORK", "MORON", "SHOOTER", "SPREADER", "CHOOSER", "CALCULATER",
           "ANNIHILATER", "INSANITY"}

ASSUME AiAssumption ==
    /\ Yield \in [Weapon -> [yield : Nat, economy : Nat, precision : Nat]]
    /\ {MaxOfWeapon, InventoryHigh, MaxBatteries, AiPercent, InterestRate} \subseteq Nat
    /\ {NoBudget, ComputersBuy, Tunneling, Synchronous} \subseteq BOOLEAN
    /\ NumRounds \in Nat \ {0}

-----------------------------------------------------------------------------
(* The sort of the program: each element is exchanged with every smaller   *)
(* place it belongs before.                                                *)

Exchanged(seq, i, j) == [seq EXCEPT ![i] = seq[j], ![j] = seq[i]]

Compared(seq, inner, outer, score) ==
    IF score[seq[outer]] < score[seq[inner]] THEN Exchanged(seq, inner, outer) ELSE seq

Placed(seq, outer, score) ==
    LET run[k \in 0 .. outer - 1] == IF k = 0 THEN seq ELSE Compared(run[k - 1], k, outer, score)
    IN  run[outer - 1]

ExchangeSort(seq, score) ==
    LET run[k \in 0 .. Len(seq)] == IF k = 0 THEN seq ELSE Placed(run[k - 1], k, score)
    IN  run[Len(seq)]

\* The catalogue from its best item on.
BestFirst(items, score) == Reverse(ExchangeSort(items, score))

-----------------------------------------------------------------------------
(* The budget of a round, in whole dollars.                                *)

AtMostAll(percent) == IF percent > 100 THEN 100 ELSE percent

AiBudget(pl, round, interest) ==
    LET rate == IF InterestRate > AiPercent THEN interest ELSE AiPercent
        percent == AtMostAll(rate + ((round + 1) * (100 - rate)) \div NumRounds)
    IN  CASE NoBudget -> Quotient(pl.money * 75, 100)
          [] ~NoBudget /\ ComputersBuy -> Quotient(pl.money * percent, 100)
          [] OTHER -> 0

-----------------------------------------------------------------------------
(* One purchase, and the searches that make it.                            *)

Trip(pl, budget) == [pl |-> pl, budget |-> budget, done |-> FALSE]

\* The budget is charged the price of a bundle, whatever the bundle cost.
Purchase(trip, item) ==
    [pl |-> Buy(trip.pl, item), budget |-> trip.budget - Info[item].price, done |-> TRUE]

\* Buy the first item in the list that is wanted and affordable.
Tried(trip, item, wanted) ==
    IF ~trip.done /\ item \in wanted /\ CanBuy(trip.pl, item, trip.budget)
    THEN Purchase(trip, item) ELSE trip

BuyOne(trip, items, wanted) ==
    LET run[k \in 0 .. Len(items)] ==
            IF k = 0 THEN [trip EXCEPT !.done = FALSE] ELSE Tried(run[k - 1], items[k], wanted)
    IN  run[Len(items)]

\* Buy all of them, in several passes, in the first one only while there are
\* few bundles of an item.
Taken(trip, item, wanted, few, pass) ==
    IF /\ item \in wanted /\ CanBuy(trip.pl, item, trip.budget)
       /\ pass > 1 \/ trip.pl.inventory[item] \div Info[item].bundle < few
    THEN Purchase(trip, item) ELSE trip

OnePass(trip, items, wanted, few, pass) ==
    LET run[k \in 0 .. Len(items)] ==
            IF k = 0 THEN trip ELSE Taken(run[k - 1], items[k], wanted, few, pass)
    IN  run[Len(items)]

BuyAll(trip, items, wanted, few) ==
    LET run[k \in 0 .. MaxOfWeapon] ==
            IF k = 0 THEN trip ELSE OnePass(run[k - 1], items, wanted, few, k)
    IN  run[MaxOfWeapon]

\* Any number is few here.
BuyLastWeapons(trip) ==
    BuyAll(trip, Reverse(Weapons), {w \in Weapon : Yield[w].yield > 0}, MaxItems + 1)

BuyWeaponsFrom(trip, items) ==
    BuyAll(trip, items, {w \in Weapon : Yield[w].yield # 0}, InventoryHigh)

BuyWeaponsByScore(trip) ==
    BuyWeaponsFrom(trip, BestFirst(Weapons, [w \in Weapon |-> Yield[w].yield]))
BuyWeaponsByWeightedScore(trip) ==
    BuyWeaponsFrom(trip, BestFirst(Weapons, [w \in Weapon |-> Yield[w].economy]))
BuyPrecisionWeapons(trip) ==
    BuyWeaponsFrom(trip, BestFirst(Weapons, [w \in Weapon |-> Yield[w].precision]))

\* The accessories that have a state bit.
Having(state) == {a \in Accessory : Is(a, state)}

BuyAutoDefense(trip) ==
    IF Synchronous THEN trip
    ELSE BuyOne(trip, Accessories, Having("AUTO_DEF"))

BuyContactTriggers(trip) ==
    IF ~Tunneling THEN trip
    ELSE BuyOne(trip, Accessories, Having("TRIGGER"))

BuyLastShields(trip) ==
    BuyOne(trip, Reverse(Accessories), Having("SHIELD"))
BuyBestShields(trip) ==
    BuyOne(trip, BestFirst(Accessories, [a \in Accessory |-> Info[a].shield]),
           Having("SHIELD"))

\* sc_player_battery_count: of the first kind of battery there is.
BatteryCount(pl) ==
    LET stocked == {a \in Having("BATTERY") : pl.inventory[a] > 0}
    IN  IF stocked = {} THEN 0 ELSE pl.inventory[FirstOf(Accessories, stocked)]

BuyBatteries(trip) ==
    IF BatteryCount(trip.pl) < MaxBatteries THEN BuyOne(trip, Accessories, Having("BATTERY"))
    ELSE trip

-----------------------------------------------------------------------------
(* sc_ai_player_buy.  Shield sappers are never bought: the function that   *)
(* would returns at once.                                                  *)

WithBudget(trip, budget) == [trip EXCEPT !.budget = budget]

AiShops(type, pl, round, interest) ==
    LET trip == Trip(pl, AiBudget(pl, round, interest))
        defended == BuyAutoDefense(BuyContactTriggers(trip))
        ruthless == BuyWeaponsByScore(BuyContactTriggers(
                        WithBudget(trip, Quotient(pl.money * 85, 100))))
    IN  CASE type \in {"RANDOM", "NETWORK"} -> pl
          [] type = "MORON" -> BuyLastWeapons(BuyLastShields(defended)).pl
          [] type = "SHOOTER" -> BuyWeaponsByWeightedScore(BuyBestShields(defended)).pl
          [] type = "SPREADER" -> BuyWeaponsByScore(BuyBestShields(defended)).pl
          [] type \in {"CHOOSER", "CALCULATER"} ->
                 BuyBatteries(BuyPrecisionWeapons(BuyBestShields(defended))).pl
          [] type \in {"ANNIHILATER", "INSANITY"} ->
                 BuyBatteries(BuyBestShields(BuyAutoDefense(
                     WithBudget(ruthless, ruthless.pl.money)))).pl
=============================================================================
