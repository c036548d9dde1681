------------------------------ MODULE MCVolley ------------------------------
(* A small field for Volley: two tanks of radius one, a handful of weapons. *)
EXTENDS Volley, TLC

Small == [radius |-> 1, force |-> 4]
Medium == [radius |-> 2, force |-> 6]

Plain(type, radius) ==
    [radius |-> radius, force |-> 8, type |-> type, liquid |-> 0, roller |-> FALSE, digger |-> FALSE,
     sapper |-> FALSE, at |-> {}, how |-> {}, child |-> "none", count |-> 0, scatter |-> 0]
Into(info, at, how, child, count) ==
    [info EXCEPT !.at = {at}, !.how = {how}, !.child = child, !.count = count, !.scatter = 4]

MCInfo ==
    "missile" :> Plain("normal", 2) @@
    "plasma" :> Plain("plasma", 3) @@
    "dirt" :> Plain("dirt", 2) @@
    "riot" :> Plain("riot", 2) @@
    "napalm" :> [Plain("napalm", 2) EXCEPT !.liquid = 4] @@
    "mud" :> [Plain("liquid dirt", 2) EXCEPT !.liquid = 4] @@
    "sapper" :> [Plain("normal", 1) EXCEPT !.sapper = TRUE] @@
    "roller" :> Into([Plain("normal", 2) EXCEPT !.roller = TRUE], "land", "convert", "missile", 1) @@
    "digger" :> Into([Plain("normal", 1) EXCEPT !.digger = TRUE], "land", "convert", "missile", 1) @@
    "frog" :> Into(Plain("normal", 1), "land", "chain", "missile", 2) @@
    "spider" :> Into(Plain("spider", 1), "land", "spider", "missile", 2) @@
    "mirv" :> Into(Plain("normal", 1), "apex", "scatter", "missile", 2) @@
    "chance" :> Into(Plain("normal", 1), "rand", "detonate", "none", 0)

\* From the turret of a tank, with a velocity.
Shot(weapon, vx, vy) ==
    [weapon |-> weapon, x |-> 0, y |-> 8, vx |-> vx, vy |-> vy, triggered |-> FALSE, triple |-> FALSE]

MCOrders ==
    LET first ==
            0 :> {Shot(weapon, 6, 6) : weapon \in DOMAIN MCInfo}
                 \cup {[Shot("missile", 4, 4) EXCEPT !.triple = TRUE],
                       [Shot("missile", 8, 2) EXCEPT !.triggered = TRUE], Shot("spider", 4, 2)} @@
            1 :> {Shot("missile", -6, 4), Shot("digger", 0, 4)}
    IN  <<first, [p \in {0, 1} |-> {Shot("missile", IF p = 0 THEN 4 ELSE -4, 4)}]>>

\* A flat landscape, and one with a hill and a cave.
Flat == Columns \X (0 .. 2)
Hill == {c \in Columns \X Rows : c[2] <= IF c[1] \in 5 .. 7 THEN 4 ELSE IF c[1] < 3 THEN 3 ELSE 1}

Bare == [shield |-> "none", spare |-> 0, recharger |-> FALSE]
Guarded(kind) == [shield |-> kind, spare |-> 1, recharger |-> TRUE]
RoundOf(physics, land, outfit) ==
    [physics |-> physics, fast |-> FALSE, land |-> land, places |-> 0 :> 0 @@ 1 :> 1,
     outfits |-> 0 :> Bare @@ 1 :> outfit]

MCRounds ==
    {RoundOf("none", Flat, Bare), RoundOf("wrap", Hill, Guarded("force")), RoundOf("padded", Hill, Guarded("magnetic")),
     [RoundOf("concrete", Flat, Guarded("standard")) EXCEPT !.fast = TRUE, !.places = 0 :> 1 @@ 1 :> 0]}

DrawOf(dir, stages, way, wind) ==
    [dir |-> dir, stages |-> stages, turn |-> way, fire |-> stages = 0, legs |-> <<-2, 1>>,
     wind |-> wind, junk |-> 0]
MCDraws == {DrawOf(1, 2, 0, 0), DrawOf(-1, 0, -1, -2)}
=============================================================================
