----------------------------- MODULE MCEquipment -----------------------------
(* An instance of Equipment for TLC: a small catalogue, in small amounts. *)
EXTENDS Equipment, TLC

Thing(price, bundle, shield, state) ==
    [price |-> price, bundle |-> bundle, shield |-> shield, repulsion |-> 0, fuel |-> 0,
     useless |-> FALSE, state |-> state]

SomeWeapons == <<"baby", "missile", "nuke">>
SomeAccessories == <<"null", "mag", "force", "trigger", "autodef", "battery", "fuel", "solar">>
SomeInfo ==
    "baby" :> Thing(0, 1, 0, {}) @@
    "missile" :> Thing(9, 2, 0, {}) @@
    "nuke" :> Thing(20, 1, 0, {}) @@
    "null" :> Thing(0, 0, 0, {}) @@
    "mag" :> Thing(8, 2, 4, {"SHIELD", "MAGNETIC"}) @@
    "force" :> Thing(15, 1, 6, {"SHIELD", "FORCE"}) @@
    "trigger" :> Thing(5, 2, 0, {"TRIGGER", "CONSUMABLE"}) @@
    "autodef" :> Thing(10, 1, 0, {"AUTO_DEF", "PERMANENT"}) @@
    "battery" :> Thing(4, 2, 0, {"BATTERY", "CONSUMABLE"}) @@
    "fuel" :> [Thing(6, 2, 0, {"FUEL", "CONSUMABLE"}) EXCEPT !.fuel = 1] @@
    "solar" :> Thing(12, 1, 0, {"RECHARGE", "PERMANENT"})
SomeYield ==
    "baby" :> [yield |-> 1, economy |-> 0, precision |-> 1] @@
    "missile" :> [yield |-> 3, economy |-> 4, precision |-> 5] @@
    "nuke" :> [yield |-> 8, economy |-> 2, precision |-> 2]

SomeScoring ==
    [damagebonus |-> 1, damageloss |-> 1, deathloss |-> 2, killbonus |-> 5,
     suicideloss |-> 3, survivalbonus |-> 4]
SomeKinds == {0 :> "HUMAN" @@ 1 :> "ANNIHILATER", 0 :> "MORON" @@ 1 :> "RANDOM"}
Uniform == [p \in {0, 1} |-> 1]
=============================================================================
