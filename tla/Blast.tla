------------------------------- MODULE Blast --------------------------------
(***************************************************************************)
(* Explosions (sgame/sexplosion.c), the spill of liquid weapons            *)
(* (sgame/sspill.c) and the death of a tank (sc_player_death): which cells *)
(* of the field an explosion clears or fills, and the damage it does.      *)
(*                                                                         *)
(* An explosion is a record.  Wedges, the tracer of a spider's leg and     *)
(* everything that is only drawn are left out.  Random choices are taken   *)
(* from a record of draws: draw.dir is 1 or -1, draw.stages the number of  *)
(* stages a dying tank goes off in, 0 standing for napalm.                 *)
(***************************************************************************)
EXTENDS Landscape

CONSTANTS
    SmallBlast, MediumBlast, LargeBlast, NapalmBlast,  \* of a dying tank: records
                                                       \* with radius and force
    NapalmLiquid                                       \* cells its napalm floods

ASSUME BlastAssumption ==
    /\ \A b \in {SmallBlast, MediumBlast, LargeBlast, NapalmBlast} : b.radius \in Nat \ {0} /\ b.force \in Nat
    /\ NapalmLiquid \in Nat

\* rint(a / b): to the nearest, halves to the even one.
Rint(a, b) ==
    LET q == a \div b
        r == a % b
    IN  IF 2 * r > b \/ (2 * r = b /\ q % 2 = 1) THEN q + 1 ELSE q

Square(a) == a * a

-----------------------------------------------------------------------------
(* Shapes. *)

\* A slip: the columns at the edge of the circle are left out.
CircleReachInner(r) ==
    LET start == [next |-> 0, edge |-> r, major |-> r * r, minor |-> r * r - r,
                  reach |-> [dx \in 0 .. r |-> -1]]
        step(s) ==
            LET next  == s.next + 1
                major == s.major - (2 * next - 1)
                here  == [s.reach EXCEPT ![s.next] = IF s.edge > @ THEN s.edge ELSE @]
            IN  IF s.next > s.edge THEN s
                ELSE IF major > s.minor
                  THEN [s EXCEPT !.next = next, !.major = major, !.reach = here]
                ELSE [next |-> next, edge |-> s.edge - 1, major |-> major,
                      minor |-> s.minor - 2 * (s.edge - 1), reach |-> here]
    IN  Repeat(step, start, r + 1).reach

\* _sc_expl_annihilate_circular: how far the circle of radius r reaches up
\* and down in the column dx from its middle, -1 where it does not reach.
\* "next" and "edge" are the columns the two ends of the loop work at.
CircleReach(r) ==
    LET start == [next |-> 0, edge |-> r, major |-> r * r, minor |-> r * r - r,
                  reach |-> [dx \in 0 .. r |-> -1]]
        widen(reach, dx, dy) == [reach EXCEPT ![dx] = IF dy > @ THEN dy ELSE @]
        step(s) ==
            LET next  == s.next + 1
                major == s.major - (2 * next - 1)
                here  == widen(s.reach, s.next, s.edge)
            IN  IF s.next > s.edge THEN s
                ELSE IF major > s.minor
                  THEN [s EXCEPT !.next = next, !.major = major, !.reach = here]
                ELSE [next |-> next, edge |-> s.edge - 1, major |-> major,
                      minor |-> s.minor - 2 * (s.edge - 1),
                      reach |-> widen(here, s.edge, next)]
    IN  Repeat(step, start, r + 1).reach

\* The cells, from its middle, of a circle of radius r.
Circle(r) ==
    LET reach == CircleReach(r)
    IN  {d \in (-r .. r) \X (-r .. r) : Magnitude(d[2]) <= reach[Magnitude(d[1])]}

Blasted(e) == {<<e.x + d[1], e.y + d[2]>> : d \in Circle(e.radius)}

\* _sc_expl_annihilate_clear and _fill
AnnihilateClear(w, e) == ClearPoints(w, Blasted(e))
AnnihilateFill(w, e) == CreateDirt(w, Blasted(e))

-----------------------------------------------------------------------------
(* Spills. *)

\* The cells _sc_spill_fill tries around (x, y), in their order.
SpillAround(x, y, dir, up) ==
    LET try(dx, dy, u) == [x |-> x + dx, y |-> y + dy, up |-> u]
    IN  <<try(0, -1, FALSE), try(dir, -1, FALSE), try(-dir, -1, FALSE),
          try(dir, 0, FALSE), try(-dir, 0, FALSE)>>
        \o IF up THEN <<try(0, 1, TRUE), try(dir, 1, TRUE), try(-dir, 1, TRUE)>> ELSE <<>>

\* _sc_spill_try_fill for the first cell to try, with its recursion: the cells
\* around one that was flooded are tried before the others.
SpillTry(w, s, size, dir) ==
    LET t    == Head(s.todo)
        cell == <<TranslateX(w, t.x, 1).at, t.y>>
        wet  == Len(s.cells) < size /\ Sky(w, t.x, t.y) /\ cell \notin ToSet(s.cells)
    IN  IF wet
          THEN [cells |-> Append(s.cells, cell),
                todo |-> SpillAround(cell[1], cell[2], dir, t.up) \o Tail(s.todo)]
          ELSE [s EXCEPT !.todo = Tail(@)]

\* sc_spill_new: the crater, and the cells flooded from just below it.
Crater(w, x, y) == ClearPoints(w, {<<x, y>>})

SpillNew(w, x, y, size, dir) ==
    LET at     == TranslateX(w, x, 1).at
        pit    == Crater(w, x, y)
        step(s) == IF s.todo = <<>> THEN s ELSE SpillTry(pit, s, size, dir)
        start  == [cells |-> <<>>, todo |-> SpillAround(at, y - 1, dir, TRUE)]
    IN  IF OnField(w, x, y)
          THEN Repeat(step, start, 8 * (size + 1)).cells
          ELSE <<>>

-----------------------------------------------------------------------------
(* Explosions. *)

Liquids == {"napalm", "liquid dirt"}
ExplosionTypes == {"normal", "plasma", "spider", "napalm", "liquid dirt", "dirt", "riot"}

\* sc_expl_new
ExplNew(x, y, radius, force, playerid, type) ==
    [x |-> x, y |-> y, radius |-> radius, force |-> force, playerid |-> playerid,
     type |-> type, spill |-> <<>>]

\* sc_expl_add: there is no explosion without a radius.
ExplAdd(list, e) == IF e.radius > 0 THEN Append(list, e) ELSE list

\* An explosion with its spill, where it has one, added to those of a world.
AddBlast(w, e, liquid, dir) ==
    IF e.type \in Liquids /\ e.radius > 0
      THEN [Crater(w, e.x, e.y) EXCEPT
              !.expl = ExplAdd(@, [e EXCEPT !.spill = SpillNew(w, e.x, e.y, liquid, dir)])]
      ELSE [w EXCEPT !.expl = ExplAdd(@, e)]

\* sc_player_death: napalm, or one to three stages.
PlayerDeath(w, p, draw) ==
    LET t == w.tank[p]
        stage(b, type) == ExplNew(t.x, t.y, b.radius, b.force, t.killedby, type)
        stages == <<stage(SmallBlast, "normal"), stage(MediumBlast, "normal"), stage(LargeBlast, "plasma")>>
    IN  IF draw.stages = 0
          THEN AddBlast(w, stage(NapalmBlast, "napalm"), NapalmLiquid, draw.dir)
          ELSE [w EXCEPT !.expl = @ \o SubSeq(stages, 1, draw.stages)]

\* sc_expl_annihilate, with its continuations: what drawing it does to the
\* land.  Liquid dirt is made while it is drawn, so fast graphics make none.
Annihilate(w, e) ==
    CASE e.type = "dirt" -> AnnihilateFill(w, e)
      [] e.type = "riot" -> AnnihilateClear(w, e)
      [] e.type = "liquid dirt" /\ ~w.fast -> CreateDirt(w, ToSet(e.spill))
      [] OTHER -> w

\* sc_expl_annihilate_clear, with its continuation.
AnnihilateDone(w, e) ==
    IF e.type \in {"normal", "plasma", "spider"} THEN AnnihilateClear(w, e) ELSE w

\* Damage at a distance, as sc_expl_damage_at_point rounds it.
Damage(e, d) ==
    Max({0, Rint(e.force * (Square(e.radius) - Square(d.x) - Square(d.y)), Square(e.radius))})

DamageFrom(w, e, x1, y1, x2, y2) == Damage(e, Deltas(w, x1, y1, x2, y2, 1))

\* sc_expl_damage_at_point
DamageAtPoint(w, e, x, y) ==
    CASE e.type \in {"normal", "plasma", "spider"} -> DamageFrom(w, e, x, y, e.x, e.y)
      [] e.type = "napalm" ->
            InTurn(LAMBDA sum, cell : sum + DamageFrom(w, e, cell[1], cell[2], x, y), 0, e.spill)
      [] OTHER -> 0
=============================================================================
