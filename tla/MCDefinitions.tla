---------------------------- MODULE MCDefinitions ----------------------------
(* An instance of Definitions for TLC. *)
EXTENDS Definitions

\* "Leap!" is similar to "leap"; the others are not similar to each other.
SloppyNames ==
    [n \in {"", "null", "shield", "basic", "greedy", "dart", "leap", "Leap!", "worm", "frog", "ghost"} |->
        IF n = "Leap!" THEN "leap" ELSE n]

Plain(kind, name) ==
    [kind |-> kind, name |-> name, armslevel |-> 0, useless |-> FALSE, indirect |-> FALSE,
     ph_fl |-> {}, child |-> ""]
Phoenix(name, flags, child) ==
    [Plain("weapon", name) EXCEPT !.ph_fl = flags, !.child = child]

Null == Plain("accessory", "null")
Shield == [Plain("accessory", "shield") EXCEPT !.useless = TRUE]
Helper == [Plain("accessory", "ghost") EXCEPT !.indirect = TRUE]
Basic == Plain("scoring", "basic")
Greedy == Plain("scoring", "greedy")

\* Shorter and longer chains, a weapon that names itself, one whose child is
\* nowhere, one that detonates, one that is only a child, and what is no
\* weapon or has no name.
Weapons ==
    {Plain("weapon", "dart"),
     Phoenix("leap", {"CHAIN", "SCATTER"}, "dart"),
     [Phoenix("Leap!", {"SPIDER"}, "worm") EXCEPT !.armslevel = 1],
     [Phoenix("worm", {"CHAIN"}, "leap") EXCEPT !.indirect = TRUE],
     Phoenix("frog", {"SCATTER"}, "frog"),
     Phoenix("ghost", {"SPIDER"}, "null"),
     [Phoenix("basic", {"DETONATE"}, "") EXCEPT !.useless = TRUE],
     Plain("weapon", ""), Shield}

Roots ==
    [k \in Kind |-> CASE k = "accessory" -> {Null, Helper}
                      [] k = "scoring" -> {Basic}
                      [] k = "weapon" -> Weapons]
Lists ==
    [k \in Kind |-> CASE k = "accessory" -> {Null, Shield}
                      [] k = "scoring" -> {Greedy}
                      [] k = "weapon" -> Weapons]

\* Nothing, an accessory, and a weapon.
Junk == {NULL, 0, 4}

\* Keys that share a place, and a place that is first used by a fifth item.
HashOfKey == [k \in 0 .. MaxKey |-> IF k % 5 = 4 THEN 2 ELSE k % 2]
=============================================================================
