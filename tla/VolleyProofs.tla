---------------------------- MODULE VolleyProofs ----------------------------
(***************************************************************************)
(* That a turn on the battlefield ends with everything at rest, that each  *)
(* death is credited once, what an explosion does to the land and how dirt *)
(* falls: for every field, landscape, catalogue of weapons and order.      *)
(***************************************************************************)
EXTENDS Volley, TLAPS, WellFoundedInduction, NaturalsInduction, FiniteSetTheorems, SequenceTheorems

-----------------------------------------------------------------------------
(* What there is on the field.                                             *)

Shield == {NoShield} \cup [kind : ShieldKinds, life : 1 .. ShieldLife]

TankRec == [x : Int, y : 0 .. Height, life : 0 .. FullLife, dead : BOOLEAN,
            killedby : Player \cup {Nobody}, kills : Nat, suicides : Nat,
            shield : Shield, spare : Nat, recharger : BOOLEAN]

Expl == [x : Int, y : Int, radius : Nat \ {0}, force : Nat, playerid : Player,
         type : ExplosionTypes, spill : Seq(Columns \X Rows)]

Traj == [type : {"flight", "roller", "digger"}, player : Player, ctrx : Int, ctry : Int,
         velx : Int, vely : Int, accx : Int, accy : Int, oaccx : Int, oaccy : Int,
         curx : Int, cury : Int, lastx : Int, lasty : Int,
         timestep : Nat, finalstep : Int, stopstep : Int,
         landfall_x1 : Int, landfall_x2 : Nat, victim : Player \cup {Nobody}, dir : Int]

Weapon == [info : WeaponInfo, playerid : Player, triggered : BOOLEAN, defer : BOOLEAN,
           children : Nat, exp : Nat, tr : Traj]

World == [walls : {"open", "wrap", "box"}, physics : Physics, fast : BOOLEAN,
          land : SUBSET (Columns \X Rows), expl : Seq(Expl), shots : [Player -> Seq(Weapon)],
          tank : [Player -> TankRec]]

-----------------------------------------------------------------------------
(* The loops of the program.                                               *)

\* Induction over the numbers of a set.
LEMMA Induction ==
    ASSUME NEW S, 0 \in S, \A n \in Nat : n \in S => n + 1 \in S
    PROVE  Nat \subseteq S
<1> DEFINE R == OpToRel(<, Nat)
<1>1. \A i, j \in Nat : i < j => <<i, j>> \in R
  BY DEF OpToRel
<1>2. IsWellFoundedOn(R, Nat)
  BY NatLessThanWellFounded
<1> HIDE DEF R
<1> SUFFICES ASSUME Nat \ S # {} PROVE FALSE
  OBVIOUS
<1>3. PICK x \in Nat \ S : \A y \in Nat \ S : ~ (<<y, x>> \in R)
  BY <1>2, WFMin
<1>4. x - 1 \in Nat /\ x - 1 < x
  BY <1>3
<1>5. x - 1 \in S
  BY <1>1, <1>3, <1>4
<1> QED
  BY <1>3, <1>4, <1>5

\* The same for the passes of a loop.
LEMMA Kept ==
    ASSUME NEW n \in Nat, NEW I, 0 \in I, \A i \in 1 .. n : i - 1 \in I => i \in I
    PROVE  n \in I /\ \A i \in 0 .. n : i \in I
<1> DEFINE M == {i \in Nat : i \in 0 .. n => i \in I}
<1>1. 0 \in M
  OBVIOUS
<1>2. ASSUME NEW i \in Nat, i \in M PROVE i + 1 \in M
  <2> SUFFICES ASSUME i + 1 \in 0 .. n PROVE i + 1 \in I
    OBVIOUS
  <2>1. i \in 0 .. n /\ i + 1 \in 1 .. n /\ (i + 1) - 1 = i
    OBVIOUS
  <2> QED
    BY <1>2, <2>1
<1>3. Nat \subseteq M
  <2> HIDE DEF M
  <2> QED
    BY <1>1, <1>2, Induction
<1> QED
  BY <1>3

\* The passes that the program's loops make in place.
AddHeight(acc, w, y0, cx) ==
    IF TranslateX(w, cx, 1).ok
      THEN [sum |-> acc.sum + LandHeight(w, cx, y0), count |-> acc.count + 1]
      ELSE acc

DropOne(acc, w, x) ==
    LET at  == TranslateX(w, x, 1)
        col == DropColumn(Column(acc.w, at.at))
        fallen == (acc.w.land \ ({at.at} \X Rows)) \cup ({at.at} \X col.rows)
    IN  IF at.ok THEN [w |-> [acc.w EXCEPT !.land = fallen], more |-> col.more \/ acc.more]
        ELSE acc

CircleStart(r) ==
    [next |-> 0, edge |-> r, major |-> r * r, minor |-> r * r - r, reach |-> [dx \in 0 .. r |-> -1]]
CircleStep(s) ==
    LET widen(reach, dx, dy) == [reach EXCEPT ![dx] = IF dy > @ THEN dy ELSE @]
        next  == s.next + 1
        major == s.major - (2 * next - 1)
        here  == widen(s.reach, s.next, s.edge)
    IN  IF s.next > s.edge THEN s
        ELSE IF major > s.minor
          THEN [s EXCEPT !.next = next, !.major = major, !.reach = here]
        ELSE [next |-> next, edge |-> s.edge - 1, major |-> major,
              minor |-> s.minor - 2 * (s.edge - 1),
              reach |-> widen(here, s.edge, next)]

NextVertices(s, draw, flags) ==
    IF s.res = "continue" /\ s.tr.timestep <= s.tr.finalstep THEN Vertex(s, draw, flags) ELSE s

Leg(w, wp, d) ==
    ExplNew(Truncated(wp.tr.curx) + d, LandHeight(w, Truncated(wp.tr.curx) + d, Height),
            RealRadius(wp, Info[wp.info.child].radius), Info[wp.info.child].force, wp.playerid, "spider")
AddLeg(acc, wp, w, d) ==
    IF LandHeight(w, Truncated(wp.tr.curx) + d, Height) * Unit <= wp.tr.cury + SpiderArc * Unit
      THEN [acc EXCEPT !.expl = ExplAdd(@, Leg(w, wp, d))] ELSE acc

CreateOne(s, w, ordered, p, draw) ==
    IF ordered[p] = NoOrder \/ w.tank[p].dead THEN s ELSE FireNew(s, p, ordered[p], draw)

InitOne(acc, p) == IF Alive(acc.tank[p]) THEN PlayerInitTurn(acc, p) ELSE acc

Field(r) ==
    [walls |-> LandFlags(r.physics), physics |-> r.physics, fast |-> r.fast,
     land |-> r.land, expl |-> <<>>, shots |-> [p \in Player |-> <<>>],
     tank |-> [p \in Player |-> Tank(r.outfits[p])]]

PathSteps(tr, x, y) ==
    IF Ceiling(x - tr.curx) > Ceiling(y - tr.cury) THEN Ceiling(x - tr.curx) ELSE Ceiling(y - tr.cury)
PathStart(w, tr, x, y) ==
    [w |-> w, tr |-> tr, dx |-> Rint(x - tr.curx, PathSteps(tr, x, y)),
     dy |-> Rint(y - tr.cury, PathSteps(tr, x, y)), res |-> "continue"]

StepStart(w, tr) ==
    [w |-> w, tr |-> [tr EXCEPT !.finalstep = Lower(tr.timestep + SubSteps, tr.stopstep)],
     dx |-> 0, dy |-> 0, res |-> "continue"]

ChainStart(s, p) == [w |-> s.w, todo |-> s.w.shots[p], done |-> <<>>, res |-> s.res]
Stored(end, p) ==
    [w |-> [end.w EXCEPT !.shots[p] = end.done \o end.todo],
     res |-> IF end.res = "none" /\ end.todo # <<>> THEN "recurse" ELSE end.res]

\* Pass i of each of the loops: s is what the passes change, c what they look at.
Step(loop, s, i, c) ==
    CASE loop = "AvgHeightAround" -> AddHeight(s, c.w, c.y, c.seq[i])
      [] loop = "DropZone" -> DropOne(s, c.w, c.seq[i])
      [] loop = "DropZoneAll" -> IF s.more THEN DropZone(s.w, c.x1, c.x2) ELSE s
      [] loop = "CircleReach" -> CircleStep(s)
      [] loop = "SpillNew" -> IF s.todo = <<>> THEN s ELSE SpillTry(c.pit, s, c.size, c.dir)
      [] loop = "DamageAtPoint" -> s + DamageFrom(c.w, c.e, c.seq[i][1], c.seq[i][2], c.x, c.y)
      [] loop = "DamageAll" -> DamageTank(s, c.seq[i], c.e)
      [] loop = "PlayerDrop" -> DropStep(s, c.p)
      [] loop = "PlayerDropAll" -> PlayerDrop(s, c.seq[i])
      [] loop = "SettlePlayers" -> IF s.moved THEN PlayerDropAll(s.w) ELSE s
      [] loop = "TraversePath" -> TraversePoint(s, c.flags)
      [] loop = "Deflect" -> DeflectBy(s, c.seq[i])
      [] loop = "Fallthrough" -> TryWay(s, c.seq[i], c.flags)
      [] loop = "RollUp" -> TryClimb(s, c.at, c.seq[i], c.flags)
      [] loop = "RollerVertex" -> RollerPoint(s, Lower(Unit, c.speed - (c.seq[i] - 1) * Unit), c.flags)
      [] loop = "ReselectDir" -> IF s.good THEN s ELSE DirectionClear(s.s, c.seq[i], c.flags)
      [] loop = "DiggerVertex" -> DiggerPoint(s, c.draw, c.flags)
      [] loop = "TrajStep" -> NextVertices(s, c.draw, c.flags)
      [] loop = "TrackChain" -> TrackNext(s, c.draw)
      [] loop = "TrackAll" -> TrackChain(s, c.seq[i], c.draw)
      [] loop = "PhoenixSpider" -> AddLeg(s, c.wp, c.w, c.seq[i])
      [] loop = "CreateAll" -> CreateOne(s, c.w, c.ordered, c.seq[i], c.draw)
      [] loop = "InitTurn" -> InitOne(s, c.seq[i])
      [] loop = "InitRound" -> PlayerInitRound(s, c.seq[i], c.places[c.seq[i]])

IsRun(loop, s0, c, n, f) == f = [i \in 0 .. n |-> IF i = 0 THEN s0 ELSE Step(loop, f[i - 1], i, c)]

\* The recursive functions they are written with exist.
LEMMA Loops ==
    ASSUME NEW loop, NEW s0, NEW c, NEW n \in Nat
    PROVE  \E f : IsRun(loop, s0, c, n, f)
<1> DEFINE R(m, f) == f = [i \in 0 .. m |-> IF i = 0 THEN s0 ELSE Step(loop, f[i - 1], i, c)]
           M == {m \in Nat : \E f : R(m, f)}
<1>1. 0 \in M
  <2> DEFINE f == [i \in 0 .. 0 |-> s0]
  <2>1. R(0, f)
    OBVIOUS
  <2> QED
    BY <2>1
<1>2. ASSUME NEW m \in Nat, m \in M PROVE m + 1 \in M
  <2>1. PICK f : R(m, f)
    BY <1>2
  <2> DEFINE h == [i \in 0 .. m + 1 |-> IF i = m + 1 THEN Step(loop, f[m], i, c) ELSE f[i]]
             k == [i \in 0 .. m + 1 |-> IF i = 0 THEN s0 ELSE Step(loop, h[i - 1], i, c)]
  <2>2. ASSUME NEW i \in 0 .. m + 1 PROVE h[i] = k[i]
    <3>1. CASE i = 0
      BY <2>1, <3>1
    <3>2. CASE i = m + 1
      <4>1. i # 0 /\ i - 1 = m /\ m \in 0 .. m + 1 /\ m # m + 1
        BY <3>2
      <4> QED
        BY <3>2, <4>1
    <3>3. CASE i \in 1 .. m
      <4>1. i # 0 /\ i # m + 1 /\ i \in 0 .. m /\ i - 1 \in 0 .. m + 1 /\ i - 1 # m + 1
        BY <3>3
      <4>2. f[i] = Step(loop, f[i - 1], i, c)
        BY <2>1, <4>1
      <4> QED
        BY <4>1, <4>2
    <3> QED
      BY <3>1, <3>2, <3>3
  <2>3. h = k
    BY <2>2
  <2>4. R(m + 1, h)
    BY <2>3
  <2> HIDE DEF h
  <2> QED
    BY <2>4
<1>3. Nat \subseteq M
  <2> HIDE DEF M
  <2> QED
    BY <1>1, <1>2, Induction
<1> QED
  BY <1>3 DEF IsRun

\* A run begins at its start and goes on pass by pass.
LEMMA Passes ==
    ASSUME NEW loop, NEW s0, NEW c, NEW n \in Nat, NEW f, IsRun(loop, s0, c, n, f)
    PROVE  f[0] = s0 /\ \A i \in 1 .. n : f[i] = Step(loop, f[i - 1], i, c)
<1>1. \A i \in 1 .. n : i # 0 /\ i \in 0 .. n
  OBVIOUS
<1> QED
  BY <1>1 DEF IsRun

\* What each pass keeps holds at the end.
LEMMA RunKept ==
    ASSUME NEW loop, NEW s0, NEW c, NEW n \in Nat, NEW f, IsRun(loop, s0, c, n, f),
           NEW S, s0 \in S, \A s \in S, i \in 1 .. n : Step(loop, s, i, c) \in S
    PROVE  f[n] \in S
<1> DEFINE I == {i \in 0 .. n : f[i] \in S}
<1>1. f[0] = s0 /\ \A i \in 1 .. n : f[i] = Step(loop, f[i - 1], i, c)
  BY Passes
<1>2. 0 \in I
  BY <1>1
<1>3. ASSUME NEW i \in 1 .. n, i - 1 \in I PROVE i \in I
  BY <1>1, <1>3
<1>4. n \in I
  <2> HIDE DEF I
  <2> QED
    BY <1>2, <1>3, Kept
<1> QED
  BY <1>4

\* The bounds of the loops are numbers.
LEMMA Bounds == MostDrops \in Nat /\ MostWeapons \in Nat
  BY LandscapeAssumption DEF MostDrops, MostWeapons

\* sc_land_avg_height_around
LEMMA AvgHeightAroundLoop ==
    ASSUME NEW w, NEW x, NEW y0, NEW around, Len(FromTo(x - around, x + around)) \in Nat
    PROVE  LET n == Len(FromTo(x - around, x + around))
               c == [w |-> w, y |-> y0, seq |-> FromTo(x - around, x + around)]
           IN  \E f : /\ IsRun("AvgHeightAround", [sum |-> 0, count |-> 0], c, n, f)
                     /\ AvgHeightAround(w, x, y0, around) =
                           LET total == f[n] IN IF total.count = 0 THEN 0 ELSE total.sum \div total.count
<1> DEFINE n == Len(FromTo(x - around, x + around))
           c == [w |-> w, y |-> y0, seq |-> FromTo(x - around, x + around)]
           R(f) == f = [i \in 0 .. n |-> IF i = 0 THEN [sum |-> 0, count |-> 0]
                                     ELSE AddHeight(f[i - 1], w, y0, FromTo(x - around, x + around)[i])]
           f == CHOOSE f : R(f)
<1>1. n \in Nat
  OBVIOUS
<1>2. PICK g : IsRun("AvgHeightAround", [sum |-> 0, count |-> 0], c, n, g)
  BY <1>1, Loops
<1>3. \A h : R(h) <=> IsRun("AvgHeightAround", [sum |-> 0, count |-> 0], c, n, h)
  BY DEF IsRun, Step
<1>4. R(f)
  BY <1>2, <1>3
<1>5. AvgHeightAround(w, x, y0, around) =
          LET total == f[n] IN IF total.count = 0 THEN 0 ELSE total.sum \div total.count
  BY DEF AvgHeightAround, AddHeight, InTurn
<1> QED
  BY <1>3, <1>4, <1>5

\* sc_land_drop_zone
LEMMA DropZoneLoop ==
    ASSUME NEW w, NEW x1, NEW x2, Len(FromTo(x1, x2)) \in Nat
    PROVE  LET n == Len(FromTo(x1, x2))
               c == [w |-> w, seq |-> FromTo(x1, x2)]
           IN  \E f : /\ IsRun("DropZone", [w |-> w, more |-> FALSE], c, n, f)
                     /\ DropZone(w, x1, x2) = f[n]
<1> DEFINE n == Len(FromTo(x1, x2))
           c == [w |-> w, seq |-> FromTo(x1, x2)]
           R(f) == f = [i \in 0 .. n |-> IF i = 0 THEN [w |-> w, more |-> FALSE]
                                     ELSE DropOne(f[i - 1], w, FromTo(x1, x2)[i])]
           f == CHOOSE f : R(f)
<1>1. n \in Nat
  OBVIOUS
<1>2. PICK g : IsRun("DropZone", [w |-> w, more |-> FALSE], c, n, g)
  BY <1>1, Loops
<1>3. \A h : R(h) <=> IsRun("DropZone", [w |-> w, more |-> FALSE], c, n, h)
  BY DEF IsRun, Step
<1>4. R(f)
  BY <1>2, <1>3
<1>5. DropZone(w, x1, x2) = f[n]
  BY DEF DropZone, DropOne, InTurn
<1> QED
  BY <1>3, <1>4, <1>5

\* All passes of the drop over the columns x1 .. x2 (sc_land_drop), as a run.
LEMMA DropZoneAllLoop ==
    ASSUME NEW w, NEW x1, NEW x2
    PROVE  LET n == MostDrops
               c == [x1 |-> x1, x2 |-> x2]
           IN  \E f : /\ IsRun("DropZoneAll", [w |-> w, more |-> TRUE], c, n, f)
                     /\ DropZoneAll(w, x1, x2) = f[n].w
<1> DEFINE n == MostDrops
           c == [x1 |-> x1, x2 |-> x2]
           R(f) == f = [i \in 0 .. n |-> IF i = 0 THEN [w |-> w, more |-> TRUE]
                                     ELSE IF f[i - 1].more THEN DropZone(f[i - 1].w, x1, x2) ELSE f[i - 1]]
           f == CHOOSE f : R(f)
<1>1. n \in Nat
  BY Bounds
<1>2. PICK g : IsRun("DropZoneAll", [w |-> w, more |-> TRUE], c, n, g)
  BY <1>1, Loops
<1>3. \A h : R(h) <=> IsRun("DropZoneAll", [w |-> w, more |-> TRUE], c, n, h)
  BY DEF IsRun, Step
<1>4. R(f)
  BY <1>2, <1>3
<1>5. DropZoneAll(w, x1, x2) = f[n].w
  BY DEF DropZoneAll, Repeat
<1> QED
  BY <1>3, <1>4, <1>5

\* _sc_expl_annihilate_circular
LEMMA CircleReachLoop ==
    ASSUME NEW r \in Nat
    PROVE  LET n == r + 1
               c == 0
           IN  \E f : /\ IsRun("CircleReach", CircleStart(r), c, n, f)
                     /\ CircleReach(r) = f[n].reach
<1> DEFINE n == r + 1
           c == 0
           R(f) == f = [i \in 0 .. n |-> IF i = 0 THEN CircleStart(r)
                                     ELSE CircleStep(f[i - 1])]
           f == CHOOSE f : R(f)
<1>1. n \in Nat
  OBVIOUS
<1>2. PICK g : IsRun("CircleReach", CircleStart(r), c, n, g)
  BY <1>1, Loops
<1>3. \A h : R(h) <=> IsRun("CircleReach", CircleStart(r), c, n, h)
  BY DEF IsRun, Step
<1>4. R(f)
  BY <1>2, <1>3
<1>5. CircleReach(r) = f[n].reach
  BY DEF CircleReach, Repeat, CircleStart, CircleStep
<1> QED
  BY <1>3, <1>4, <1>5

\* sc_spill_new
LEMMA SpillNewLoop ==
    ASSUME NEW w, NEW x, NEW y, NEW size \in Nat, NEW dir
    PROVE  LET n == 8 * (size + 1)
               c == [pit |-> Crater(w, x, y), size |-> size, dir |-> dir]
           IN  \E f : /\ IsRun("SpillNew", [cells |-> <<>>, todo |-> SpillAround(TranslateX(w, x, 1).at, y - 1, dir, TRUE)], c, n, f)
                     /\ SpillNew(w, x, y, size, dir) = IF OnField(w, x, y) THEN f[n].cells ELSE <<>>
<1> DEFINE n == 8 * (size + 1)
           c == [pit |-> Crater(w, x, y), size |-> size, dir |-> dir]
           R(f) == f = [i \in 0 .. n |-> IF i = 0 THEN [cells |-> <<>>, todo |-> SpillAround(TranslateX(w, x, 1).at, y - 1, dir, TRUE)]
                                     ELSE IF f[i - 1].todo = <<>> THEN f[i - 1] ELSE SpillTry(Crater(w, x, y), f[i - 1], size, dir)]
           f == CHOOSE f : R(f)
<1>1. n \in Nat
  OBVIOUS
<1>2. PICK g : IsRun("SpillNew", [cells |-> <<>>, todo |-> SpillAround(TranslateX(w, x, 1).at, y - 1, dir, TRUE)],
                    c, n, g)
  BY <1>1, Loops
<1>3. \A h : R(h) <=>
            IsRun("SpillNew", [cells |-> <<>>, todo |-> SpillAround(TranslateX(w, x, 1).at, y - 1, dir, TRUE)], c, n, h)
  BY DEF IsRun, Step
<1>4. R(f)
  BY <1>2, <1>3
<1>5. SpillNew(w, x, y, size, dir) = IF OnField(w, x, y) THEN f[n].cells ELSE <<>>
  BY DEF SpillNew, Repeat
<1> QED
  BY <1>3, <1>4, <1>5

\* The damage of napalm
LEMMA DamageAtPointLoop ==
    ASSUME NEW w, NEW e, NEW x, NEW y, e.type = "napalm", Len(e.spill) \in Nat
    PROVE  LET n == Len(e.spill)
               c == [w |-> w, e |-> e, x |-> x, y |-> y, seq |-> e.spill]
           IN  \E f : /\ IsRun("DamageAtPoint", 0, c, n, f)
                     /\ DamageAtPoint(w, e, x, y) = f[n]
<1> DEFINE n == Len(e.spill)
           c == [w |-> w, e |-> e, x |-> x, y |-> y, seq |-> e.spill]
           R(f) == f = [i \in 0 .. n |-> IF i = 0 THEN 0
                                     ELSE f[i - 1] + DamageFrom(w, e, e.spill[i][1], e.spill[i][2], x, y)]
           f == CHOOSE f : R(f)
<1>1. n \in Nat
  OBVIOUS
<1>2. PICK g : IsRun("DamageAtPoint", 0, c, n, g)
  BY <1>1, Loops
<1>3. \A h : R(h) <=> IsRun("DamageAtPoint", 0, c, n, h)
  BY DEF IsRun, Step
<1>4. R(f)
  BY <1>2, <1>3
<1>5. DamageAtPoint(w, e, x, y) = f[n]
  BY DEF DamageAtPoint, InTurn
<1> QED
  BY <1>3, <1>4, <1>5

\* sc_player_damage_all
LEMMA DamageAllLoop ==
    ASSUME NEW w, NEW e, Len(FromLast(w)) \in Nat
    PROVE  LET n == Len(FromLast(w))
               c == [e |-> e, seq |-> FromLast(w)]
           IN  \E f : /\ IsRun("DamageAll", w, c, n, f)
                     /\ DamageAll(w, e) = f[n]
<1> DEFINE n == Len(FromLast(w))
           c == [e |-> e, seq |-> FromLast(w)]
           R(f) == f = [i \in 0 .. n |-> IF i = 0 THEN w
                                     ELSE DamageTank(f[i - 1], FromLast(w)[i], e)]
           f == CHOOSE f : R(f)
<1>1. n \in Nat
  OBVIOUS
<1>2. PICK g : IsRun("DamageAll", w, c, n, g)
  BY <1>1, Loops
<1>3. \A h : R(h) <=> IsRun("DamageAll", w, c, n, h)
  BY DEF IsRun, Step
<1>4. R(f)
  BY <1>2, <1>3
<1>5. DamageAll(w, e) = f[n]
  BY DEF DamageAll, InTurn
<1> QED
  BY <1>3, <1>4, <1>5

\* _sc_player_drop
LEMMA PlayerDropLoop ==
    ASSUME NEW s, NEW p
    PROVE  LET n == TankDrop
               c == [p |-> p]
           IN  \E f : /\ IsRun("PlayerDrop", [w |-> s.w, left |-> TankDrop, moved |-> FALSE], c, n, f)
                     /\ PlayerDrop(s, p) = [w |-> f[n].w, moved |-> s.moved \/ f[n].moved]
<1> DEFINE n == TankDrop
           c == [p |-> p]
           R(f) == f = [i \in 0 .. n |-> IF i = 0 THEN [w |-> s.w, left |-> TankDrop, moved |-> FALSE]
                                     ELSE DropStep(f[i - 1], p)]
           f == CHOOSE f : R(f)
<1>1. n \in Nat
  BY TanksAssumption
<1>2. PICK g : IsRun("PlayerDrop", [w |-> s.w, left |-> TankDrop, moved |-> FALSE], c, n, g)
  BY <1>1, Loops
<1>3. \A h : R(h) <=> IsRun("PlayerDrop", [w |-> s.w, left |-> TankDrop, moved |-> FALSE], c, n, h)
  BY DEF IsRun, Step
<1>4. R(f)
  BY <1>2, <1>3
<1>5. PlayerDrop(s, p) = [w |-> f[n].w, moved |-> s.moved \/ f[n].moved]
  BY DEF PlayerDrop, Repeat
<1> QED
  BY <1>3, <1>4, <1>5

\* sc_player_drop_all
LEMMA PlayerDropAllLoop ==
    ASSUME NEW w, Len(FromLast(w)) \in Nat
    PROVE  LET n == Len(FromLast(w))
               c == [seq |-> FromLast(w)]
           IN  \E f : /\ IsRun("PlayerDropAll", [w |-> w, moved |-> FALSE], c, n, f)
                     /\ PlayerDropAll(w) = f[n]
<1> DEFINE n == Len(FromLast(w))
           c == [seq |-> FromLast(w)]
           R(f) == f = [i \in 0 .. n |-> IF i = 0 THEN [w |-> w, moved |-> FALSE]
                                     ELSE PlayerDrop(f[i - 1], FromLast(w)[i])]
           f == CHOOSE f : R(f)
<1>1. n \in Nat
  OBVIOUS
<1>2. PICK g : IsRun("PlayerDropAll", [w |-> w, moved |-> FALSE], c, n, g)
  BY <1>1, Loops
<1>3. \A h : R(h) <=> IsRun("PlayerDropAll", [w |-> w, moved |-> FALSE], c, n, h)
  BY DEF IsRun, Step
<1>4. R(f)
  BY <1>2, <1>3
<1>5. PlayerDropAll(w) = f[n]
  BY DEF PlayerDropAll, InTurn
<1> QED
  BY <1>3, <1>4, <1>5

\* Players fall until a pass moves nobody, as a run.
LEMMA SettlePlayersLoop ==
    ASSUME NEW w, Height * Cardinality(Players(w)) + 1 \in Nat
    PROVE  LET n == Height * Cardinality(Players(w)) + 1
               c == 0
           IN  \E f : /\ IsRun("SettlePlayers", [w |-> w, moved |-> TRUE], c, n, f)
                     /\ SettlePlayers(w) = f[n].w
<1> DEFINE n == Height * Cardinality(Players(w)) + 1
           c == 0
           R(f) == f = [i \in 0 .. n |-> IF i = 0 THEN [w |-> w, moved |-> TRUE]
                                     ELSE IF f[i - 1].moved THEN PlayerDropAll(f[i - 1].w) ELSE f[i - 1]]
           f == CHOOSE f : R(f)
<1>1. n \in Nat
  OBVIOUS
<1>2. PICK g : IsRun("SettlePlayers", [w |-> w, moved |-> TRUE], c, n, g)
  BY <1>1, Loops
<1>3. \A h : R(h) <=> IsRun("SettlePlayers", [w |-> w, moved |-> TRUE], c, n, h)
  BY DEF IsRun, Step
<1>4. R(f)
  BY <1>2, <1>3
<1>5. SettlePlayers(w) = f[n].w
  BY DEF SettlePlayers, Repeat
<1> QED
  BY <1>3, <1>4, <1>5

\* _sc_traj_traverse_path
LEMMA TraversePathLoop ==
    ASSUME NEW w, NEW tr, NEW x, NEW y, NEW flags, PathSteps(tr, x, y) \in Nat, PathSteps(tr, x, y) # 0
    PROVE  LET n == PathSteps(tr, x, y)
               c == [flags |-> flags]
           IN  \E f : /\ IsRun("TraversePath", PathStart(w, tr, x, y), c, n, f)
                     /\ TraversePath(w, tr, x, y, flags) = f[n]
<1> DEFINE n == PathSteps(tr, x, y)
           c == [flags |-> flags]
           R(f) == f = [i \in 0 .. n |-> IF i = 0 THEN PathStart(w, tr, x, y)
                                     ELSE TraversePoint(f[i - 1], flags)]
           f == CHOOSE f : R(f)
<1>1. n \in Nat
  OBVIOUS
<1>2. PICK g : IsRun("TraversePath", PathStart(w, tr, x, y), c, n, g)
  BY <1>1, Loops
<1>3. \A h : R(h) <=> IsRun("TraversePath", PathStart(w, tr, x, y), c, n, h)
  BY DEF IsRun, Step
<1>4. R(f)
  BY <1>2, <1>3
<1>5. TraversePath(w, tr, x, y, flags) = f[n]
  BY DEF TraversePath, PathSteps, PathStart, Repeat
<1> QED
  BY <1>3, <1>4, <1>5

\* The push of all shields
LEMMA DeflectLoop ==
    ASSUME NEW s, Len(FromFirst(s.w)) \in Nat
    PROVE  LET n == Len(FromFirst(s.w))
               c == [seq |-> FromFirst(s.w)]
           IN  \E f : /\ IsRun("Deflect", s, c, n, f)
                     /\ Deflect(s) = f[n]
<1> DEFINE n == Len(FromFirst(s.w))
           c == [seq |-> FromFirst(s.w)]
           R(f) == f = [i \in 0 .. n |-> IF i = 0 THEN s
                                     ELSE DeflectBy(f[i - 1], FromFirst(s.w)[i])]
           f == CHOOSE f : R(f)
<1>1. n \in Nat
  OBVIOUS
<1>2. PICK g : IsRun("Deflect", s, c, n, g)
  BY <1>1, Loops
<1>3. \A h : R(h) <=> IsRun("Deflect", s, c, n, h)
  BY DEF IsRun, Step
<1>4. R(f)
  BY <1>2, <1>3
<1>5. Deflect(s) = f[n]
  BY DEF Deflect, InTurn
<1> QED
  BY <1>3, <1>4, <1>5

\* _sc_traj_roller_fallthrough
LEMMA FallthroughLoop ==
    ASSUME NEW s, NEW flags, Len(<<"down", "on", "back">>) \in Nat
    PROVE  LET n == Len(<<"down", "on", "back">>)
               c == [flags |-> flags, seq |-> <<"down", "on", "back">>]
           IN  \E f : /\ IsRun("Fallthrough", [s |-> s, free |-> FALSE], c, n, f)
                     /\ Fallthrough(s, flags) = f[n].s
<1> DEFINE n == Len(<<"down", "on", "back">>)
           c == [flags |-> flags, seq |-> <<"down", "on", "back">>]
           R(f) == f = [i \in 0 .. n |-> IF i = 0 THEN [s |-> s, free |-> FALSE]
                                     ELSE TryWay(f[i - 1], <<"down", "on", "back">>[i], flags)]
           f == CHOOSE f : R(f)
<1>1. n \in Nat
  OBVIOUS
<1>2. PICK g : IsRun("Fallthrough", [s |-> s, free |-> FALSE], c, n, g)
  BY <1>1, Loops
<1>3. \A h : R(h) <=> IsRun("Fallthrough", [s |-> s, free |-> FALSE], c, n, h)
  BY DEF IsRun, Step
<1>4. R(f)
  BY <1>2, <1>3
<1>5. Fallthrough(s, flags) = f[n].s
  BY DEF Fallthrough, InTurn
<1> QED
  BY <1>3, <1>4, <1>5

\* The climb of a roller
LEMMA RollUpLoop ==
    ASSUME NEW s, NEW at, NEW flags, Len(<<1, 2>>) \in Nat
    PROVE  LET n == Len(<<1, 2>>)
               c == [at |-> at, flags |-> flags, seq |-> <<1, 2>>]
           IN  \E f : /\ IsRun("RollUp", [Restored(s, at) EXCEPT !.res = "land"], c, n, f)
                     /\ RollUp(s, at, flags) = f[n]
<1> DEFINE n == Len(<<1, 2>>)
           c == [at |-> at, flags |-> flags, seq |-> <<1, 2>>]
           R(f) == f = [i \in 0 .. n |-> IF i = 0 THEN [Restored(s, at) EXCEPT !.res = "land"]
                                     ELSE TryClimb(f[i - 1], at, <<1, 2>>[i], flags)]
           f == CHOOSE f : R(f)
<1>1. n \in Nat
  OBVIOUS
<1>2. PICK g : IsRun("RollUp", [Restored(s, at) EXCEPT !.res = "land"], c, n, g)
  BY <1>1, Loops
<1>3. \A h : R(h) <=> IsRun("RollUp", [Restored(s, at) EXCEPT !.res = "land"], c, n, h)
  BY DEF IsRun, Step
<1>4. R(f)
  BY <1>2, <1>3
<1>5. RollUp(s, at, flags) = f[n]
  BY DEF RollUp, InTurn
<1> QED
  BY <1>3, <1>4, <1>5

\* _sc_traj_traverse_roller
LEMMA RollerVertexLoop ==
    ASSUME NEW s, NEW flags, Len(FromTo(1, Ceiling(Magnitude(s.tr.velx)))) \in Nat
    PROVE  LET n == Len(FromTo(1, Ceiling(Magnitude(s.tr.velx))))
               c == [speed |-> Magnitude(s.tr.velx), flags |-> flags,
                     seq |-> FromTo(1, Ceiling(Magnitude(s.tr.velx)))]
           IN  \E f : /\ IsRun("RollerVertex", s, c, n, f)
                     /\ RollerVertex(s, flags) = NextVertex(f[n])
<1> DEFINE n == Len(FromTo(1, Ceiling(Magnitude(s.tr.velx))))
           c == [speed |-> Magnitude(s.tr.velx), flags |-> flags,
                 seq |-> FromTo(1, Ceiling(Magnitude(s.tr.velx)))]
           R(f) == f = [i \in 0 .. n |-> IF i = 0 THEN s
                                     ELSE RollerPoint(f[i - 1],
                                                 Lower(Unit, Magnitude(s.tr.velx) - (FromTo(1, Ceiling(Magnitude(s.tr.velx)))[i] - 1) * Unit), flags)]
           f == CHOOSE f : R(f)
<1>1. n \in Nat
  OBVIOUS
<1>2. PICK g : IsRun("RollerVertex", s, c, n, g)
  BY <1>1, Loops
<1>3. \A h : R(h) <=> IsRun("RollerVertex", s, c, n, h)
  BY DEF IsRun, Step
<1>4. R(f)
  BY <1>2, <1>3
<1>5. RollerVertex(s, flags) = NextVertex(f[n])
  BY DEF RollerVertex, InTurn
<1> QED
  BY <1>3, <1>4, <1>5

\* _sc_traj_digger_reselect_dir
LEMMA ReselectDirLoop ==
    ASSUME NEW s, NEW way, NEW flags, Len(<<way, -way, 2, 0>>) \in Nat
    PROVE  LET n == Len(<<way, -way, 2, 0>>)
               c == [flags |-> flags, seq |-> <<way, -way, 2, 0>>]
           IN  \E f : /\ IsRun("ReselectDir", [s |-> s, good |-> FALSE], c, n, f)
                     /\ ReselectDir(s, way, flags) = f[n].s
<1> DEFINE n == Len(<<way, -way, 2, 0>>)
           c == [flags |-> flags, seq |-> <<way, -way, 2, 0>>]
           R(f) == f = [i \in 0 .. n |-> IF i = 0 THEN [s |-> s, good |-> FALSE]
                                     ELSE IF f[i - 1].good THEN f[i - 1] ELSE
                                              DirectionClear(f[i - 1].s, <<way, -way, 2, 0>>[i], flags)]
           f == CHOOSE f : R(f)
<1>1. n \in Nat
  OBVIOUS
<1>2. PICK g : IsRun("ReselectDir", [s |-> s, good |-> FALSE], c, n, g)
  BY <1>1, Loops
<1>3. \A h : R(h) <=> IsRun("ReselectDir", [s |-> s, good |-> FALSE], c, n, h)
  BY DEF IsRun, Step
<1>4. R(f)
  BY <1>2, <1>3
<1>5. ReselectDir(s, way, flags) = f[n].s
  BY DEF ReselectDir, InTurn
<1> QED
  BY <1>3, <1>4, <1>5

\* _sc_traj_traverse_digger
LEMMA DiggerVertexLoop ==
    ASSUME NEW s, NEW draw, NEW flags, Ceiling(s.tr.timestep * Magnitude(s.tr.velx)) \in Nat
    PROVE  LET n == Ceiling(s.tr.timestep * Magnitude(s.tr.velx))
               c == [draw |-> draw, flags |-> flags]
           IN  \E f : /\ IsRun("DiggerVertex", s, c, n, f)
                     /\ DiggerVertex(s, draw, flags) = NextVertex(f[n])
<1> DEFINE n == Ceiling(s.tr.timestep * Magnitude(s.tr.velx))
           c == [draw |-> draw, flags |-> flags]
           R(f) == f = [i \in 0 .. n |-> IF i = 0 THEN s
                                     ELSE DiggerPoint(f[i - 1], draw, flags)]
           f == CHOOSE f : R(f)
<1>1. n \in Nat
  OBVIOUS
<1>2. PICK g : IsRun("DiggerVertex", s, c, n, g)
  BY <1>1, Loops
<1>3. \A h : R(h) <=> IsRun("DiggerVertex", s, c, n, h)
  BY DEF IsRun, Step
<1>4. R(f)
  BY <1>2, <1>3
<1>5. DiggerVertex(s, draw, flags) = NextVertex(f[n])
  BY DEF DiggerVertex, Repeat
<1> QED
  BY <1>3, <1>4, <1>5

\* sc_traj_step
LEMMA TrajStepLoop ==
    ASSUME NEW w, NEW tr, NEW draw, NEW flags, ~(tr.timestep >= tr.stopstep)
    PROVE  LET n == SubSteps + 1
               c == [draw |-> draw, flags |-> flags]
           IN  \E f : /\ IsRun("TrajStep", StepStart(w, tr), c, n, f)
                     /\ TrajStep(w, tr, draw, flags) = f[n]
<1> DEFINE n == SubSteps + 1
           c == [draw |-> draw, flags |-> flags]
           R(f) == f = [i \in 0 .. n |-> IF i = 0 THEN StepStart(w, tr)
                                     ELSE NextVertices(f[i - 1], draw, flags)]
           f == CHOOSE f : R(f)
<1>1. n \in Nat
  BY TrajectoryAssumption
<1>2. PICK g : IsRun("TrajStep", StepStart(w, tr), c, n, g)
  BY <1>1, Loops
<1>3. \A h : R(h) <=> IsRun("TrajStep", StepStart(w, tr), c, n, h)
  BY DEF IsRun, Step
<1>4. R(f)
  BY <1>2, <1>3
<1>5. TrajStep(w, tr, draw, flags) = f[n]
  BY DEF TrajStep, StepStart, Repeat, NextVertices
<1> QED
  BY <1>3, <1>4, <1>5

\* _sc_weapon_track_chain
LEMMA TrackChainLoop ==
    ASSUME NEW s, NEW p, NEW draw
    PROVE  LET n == MostWeapons
               c == [draw |-> draw]
           IN  \E f : /\ IsRun("TrackChain", ChainStart(s, p), c, n, f)
                     /\ TrackChain(s, p, draw) = Stored(f[n], p)
<1> DEFINE n == MostWeapons
           c == [draw |-> draw]
           R(f) == f = [i \in 0 .. n |-> IF i = 0 THEN ChainStart(s, p)
                                     ELSE TrackNext(f[i - 1], draw)]
           f == CHOOSE f : R(f)
<1>1. n \in Nat
  BY Bounds
<1>2. PICK g : IsRun("TrackChain", ChainStart(s, p), c, n, g)
  BY <1>1, Loops
<1>3. \A h : R(h) <=> IsRun("TrackChain", ChainStart(s, p), c, n, h)
  BY DEF IsRun, Step
<1>4. R(f)
  BY <1>2, <1>3
<1>5. TrackChain(s, p, draw) = Stored(f[n], p)
  BY DEF TrackChain, ChainStart, Stored, Repeat
<1> QED
  BY <1>3, <1>4, <1>5

\* sc_weapon_track_all
LEMMA TrackAllLoop ==
    ASSUME NEW w, NEW draw, Len(FromFirst(w)) \in Nat
    PROVE  LET n == Len(FromFirst(w))
               c == [draw |-> draw, seq |-> FromFirst(w)]
           IN  \E f : /\ IsRun("TrackAll", [w |-> w, res |-> "none"], c, n, f)
                     /\ TrackAll(w, draw) = f[n]
<1> DEFINE n == Len(FromFirst(w))
           c == [draw |-> draw, seq |-> FromFirst(w)]
           R(f) == f = [i \in 0 .. n |-> IF i = 0 THEN [w |-> w, res |-> "none"]
                                     ELSE TrackChain(f[i - 1], FromFirst(w)[i], draw)]
           f == CHOOSE f : R(f)
<1>1. n \in Nat
  OBVIOUS
<1>2. PICK g : IsRun("TrackAll", [w |-> w, res |-> "none"], c, n, g)
  BY <1>1, Loops
<1>3. \A h : R(h) <=> IsRun("TrackAll", [w |-> w, res |-> "none"], c, n, h)
  BY DEF IsRun, Step
<1>4. R(f)
  BY <1>2, <1>3
<1>5. TrackAll(w, draw) = f[n]
  BY DEF TrackAll, InTurn
<1> QED
  BY <1>3, <1>4, <1>5

\* The legs of a spider
LEMMA PhoenixSpiderLoop ==
    ASSUME NEW w, NEW wp, NEW draw, GoesOff(wp), Len(draw.legs) \in Nat
    PROVE  LET n == Len(draw.legs)
               c == [wp |-> wp, w |-> w, seq |-> draw.legs]
           IN  \E f : /\ IsRun("PhoenixSpider", GoOff(w, wp, draw), c, n, f)
                     /\ PhoenixSpider(w, wp, draw) = Outcome(f[n], "detonate", wp, <<>>)
<1> DEFINE n == Len(draw.legs)
           c == [wp |-> wp, w |-> w, seq |-> draw.legs]
           R(f) == f = [i \in 0 .. n |-> IF i = 0 THEN GoOff(w, wp, draw)
                                     ELSE AddLeg(f[i - 1], wp, w, draw.legs[i])]
           f == CHOOSE f : R(f)
<1>1. n \in Nat
  OBVIOUS
<1>2. PICK g : IsRun("PhoenixSpider", GoOff(w, wp, draw), c, n, g)
  BY <1>1, Loops
<1>3. \A h : R(h) <=> IsRun("PhoenixSpider", GoOff(w, wp, draw), c, n, h)
  BY DEF IsRun, Step
<1>4. R(f)
  BY <1>2, <1>3
<1>5. PhoenixSpider(w, wp, draw) = Outcome(f[n], "detonate", wp, <<>>)
  BY DEF PhoenixSpider, AddLeg, Leg, InTurn
<1> QED
  BY <1>3, <1>4, <1>5

\* sc_weapon_create_all
LEMMA CreateAllLoop ==
    ASSUME NEW w, NEW draw, Len(FromLast(w)) \in Nat
    PROVE  LET n == Len(FromLast(w))
               c == [w |-> w, ordered |-> orders, draw |-> draw, seq |-> FromLast(w)]
           IN  \E f : /\ IsRun("CreateAll", [w |-> w, explosions |-> FALSE], c, n, f)
                     /\ CreateAll(w, draw) = f[n]
<1> DEFINE n == Len(FromLast(w))
           c == [w |-> w, ordered |-> orders, draw |-> draw, seq |-> FromLast(w)]
           R(f) == f = [i \in 0 .. n |-> IF i = 0 THEN [w |-> w, explosions |-> FALSE]
                                     ELSE CreateOne(f[i - 1], w, orders, FromLast(w)[i], draw)]
           f == CHOOSE f : R(f)
<1>1. n \in Nat
  OBVIOUS
<1>2. PICK g : IsRun("CreateAll", [w |-> w, explosions |-> FALSE], c, n, g)
  BY <1>1, Loops
<1>3. \A h : R(h) <=> IsRun("CreateAll", [w |-> w, explosions |-> FALSE], c, n, h)
  BY DEF IsRun, Step
<1>4. R(f)
  BY <1>2, <1>3
<1>5. CreateAll(w, draw) = f[n]
  BY DEF CreateAll, CreateOne, InTurn
<1> QED
  BY <1>3, <1>4, <1>5

\* sc_config_init_turn
LEMMA InitTurnLoop ==
    ASSUME NEW w, Len(FromLast(w)) \in Nat
    PROVE  LET n == Len(FromLast(w))
               c == [seq |-> FromLast(w)]
           IN  \E f : /\ IsRun("InitTurn", w, c, n, f)
                     /\ InitTurn(w) = f[n]
<1> DEFINE n == Len(FromLast(w))
           c == [seq |-> FromLast(w)]
           R(f) == f = [i \in 0 .. n |-> IF i = 0 THEN w
                                     ELSE InitOne(f[i - 1], FromLast(w)[i])]
           f == CHOOSE f : R(f)
<1>1. n \in Nat
  OBVIOUS
<1>2. PICK g : IsRun("InitTurn", w, c, n, g)
  BY <1>1, Loops
<1>3. \A h : R(h) <=> IsRun("InitTurn", w, c, n, h)
  BY DEF IsRun, Step
<1>4. R(f)
  BY <1>2, <1>3
<1>5. InitTurn(w) = f[n]
  BY DEF InitTurn, InitOne, InTurn
<1> QED
  BY <1>3, <1>4, <1>5

\* sc_config_init_round
LEMMA InitRoundLoop ==
    ASSUME NEW r, Len(FromTo(0, NumPlayers - 1)) \in Nat
    PROVE  LET n == Len(FromTo(0, NumPlayers - 1))
               c == [places |-> r.places, seq |-> FromTo(0, NumPlayers - 1)]
           IN  \E f : /\ IsRun("InitRound", Field(r), c, n, f)
                     /\ InitRound(r) = f[n]
<1> DEFINE n == Len(FromTo(0, NumPlayers - 1))
           c == [places |-> r.places, seq |-> FromTo(0, NumPlayers - 1)]
           R(f) == f = [i \in 0 .. n |-> IF i = 0 THEN Field(r)
                                     ELSE
                                          PlayerInitRound(f[i - 1], FromTo(0, NumPlayers - 1)[i], r.places[FromTo(0, NumPlayers - 1)[i]])]
           f == CHOOSE f : R(f)
<1>1. n \in Nat
  OBVIOUS
<1>2. PICK g : IsRun("InitRound", Field(r), c, n, g)
  BY <1>1, Loops
<1>3. \A h : R(h) <=> IsRun("InitRound", Field(r), c, n, h)
  BY DEF IsRun, Step
<1>4. R(f)
  BY <1>2, <1>3
<1>5. InitRound(r) = f[n]
  BY DEF InitRound, Field, InTurn
<1> QED
  BY <1>3, <1>4, <1>5

-----------------------------------------------------------------------------
(* Numbers.                                                                *)

\* A set of numbers between two others has a largest and a smallest.
LEMMA Extremes ==
    ASSUME NEW a \in Int, NEW b \in Int, NEW S \in SUBSET (a .. b), S # {}
    PROVE  /\ Max(S) \in S /\ \A y \in S : Max(S) >= y
           /\ Min(S) \in S /\ \A y \in S : Min(S) <= y
<1> DEFINE R == OpToRel(<, Nat)
<1>1. \A i, j \in Nat : i < j => <<i, j>> \in R
  BY DEF OpToRel
<1>2. IsWellFoundedOn(R, Nat)
  BY NatLessThanWellFounded
<1> HIDE DEF R
<1>3. \E x \in S : \A y \in S : x <= y
  <2> DEFINE T == {k - a : k \in S}
  <2>1. T \subseteq Nat /\ T # {}
    <3>1. \A k \in S : k - a \in Nat
      OBVIOUS
    <3> QED
      BY <3>1
  <2>2. PICK x \in T : \A y \in T : ~ (<<y, x>> \in R)
    <3> HIDE DEF T
    <3> QED
      BY <1>2, <2>1, WFMin
  <2>3. PICK k \in S : x = k - a
    OBVIOUS
  <2>4. \A j \in S : k <= j
    <3> TAKE j \in S
    <3>1. j - a \in T /\ j - a \in Nat /\ k - a \in Nat
      OBVIOUS
    <3>2. ~(j - a < k - a)
      BY <1>1, <2>2, <2>3, <3>1
    <3> QED
      BY <3>2
  <2> QED
    BY <2>4
<1>4. \E x \in S : \A y \in S : x >= y
  <2> DEFINE T == {b - k : k \in S}
  <2>1. T \subseteq Nat /\ T # {}
    <3>1. \A k \in S : b - k \in Nat
      OBVIOUS
    <3> QED
      BY <3>1
  <2>2. PICK x \in T : \A y \in T : ~ (<<y, x>> \in R)
    <3> HIDE DEF T
    <3> QED
      BY <1>2, <2>1, WFMin
  <2>3. PICK k \in S : x = b - k
    OBVIOUS
  <2>4. \A j \in S : k >= j
    <3> TAKE j \in S
    <3>1. b - j \in T /\ b - j \in Nat /\ b - k \in Nat
      OBVIOUS
    <3>2. ~(b - j < b - k)
      BY <1>1, <2>2, <2>3, <3>1
    <3> QED
      BY <3>2
  <2> QED
    BY <2>4
<1>5. Max(S) \in S /\ \A y \in S : Max(S) >= y
  BY <1>4 DEF Max
<1>6. Min(S) \in S /\ \A y \in S : Min(S) <= y
  BY <1>3 DEF Min
<1> QED
  BY <1>5, <1>6

\* Products of numbers.
LEMMA Products ==
    /\ \A a, b \in Int : a * b \in Int
    /\ \A a, b \in Nat : a * b \in Nat
    /\ \A a, b \in Nat \ {0} : a * b \in Nat \ {0}
    /\ \A a \in Int : Square(a) \in Nat
  BY DEF Square

\* Quotients and remainders.
LEMMA Quotients ==
    ASSUME NEW a \in Int, NEW b \in Nat \ {0}
    PROVE  /\ a \div b \in Int /\ a % b \in 0 .. b - 1
           /\ a = b * (a \div b) + (a % b)
           /\ a >= 0 => a \div b \in Nat
  OBVIOUS

\* Rounding.
LEMMA RintType ==
    ASSUME NEW a \in Int, NEW b \in Nat \ {0}
    PROVE  Rint(a, b) \in Int
  BY Quotients DEF Rint

LEMMA Magnitudes ==
    ASSUME NEW a \in Int
    PROVE  Magnitude(a) \in Nat /\ Sgn(a) \in {-1, 0, 1}
  BY DEF Magnitude, Distance, Sgn

\* The numbers from one to another.
LEMMA FromToType ==
    ASSUME NEW a \in Int, NEW b \in Int
    PROVE  /\ FromTo(a, b) \in Seq(a .. b) /\ Len(FromTo(a, b)) \in Nat
           /\ \A i \in 1 .. Len(FromTo(a, b)) : FromTo(a, b)[i] \in a .. b
<1>1. CASE b - a + 1 \in Nat
  BY <1>1 DEF FromTo
<1>2. CASE b - a + 1 < 0
  <2>1. FromTo(a, b) = <<>>
    BY <1>2 DEF FromTo
  <2> QED
    BY <2>1
<1> QED
  BY <1>1, <1>2

-----------------------------------------------------------------------------
(* The field.                                                              *)

LEMMA Sizes ==
    /\ Width \in Nat \ {0} /\ Height \in Nat \ {0} /\ Unit \in Nat \ {0}
    /\ Radius \in Nat /\ ShelfSize \in Nat
    /\ Columns = 0 .. Width - 1 /\ Rows = 0 .. Height - 1
  BY LandscapeAssumption, TrajectoryAssumption DEF Columns, Rows

LEMMA TranslateXType ==
    ASSUME NEW w, NEW x \in Int, NEW u \in Nat \ {0}
    PROVE  /\ TranslateX(w, x, u).at \in Int
           /\ u = 1 /\ TranslateX(w, x, u).ok => TranslateX(w, x, u).at \in Columns
<1>1. Width * u \in Nat \ {0}
  BY Sizes, Products
<1>2. x % (Width * u) \in 0 .. Width * u - 1
  BY <1>1, Quotients
<1>3. (Width - 1) * u \in Int /\ (u = 1 => Width * u = Width)
  BY Sizes, Products
<1> DEFINE W == Width * u
           E == (Width - 1) * u
<1>4. TranslateX(w, x, u) = CASE w.walls = "wrap" -> [ok |-> TRUE, at |-> x % W]
                              [] w.walls = "box" /\ ~(x >= 0 /\ x < W) ->
                                    [ok |-> FALSE, at |-> IF x < 0 THEN 0 ELSE E]
                              [] OTHER -> [ok |-> (x >= 0 /\ x < W), at |-> x]
  BY DEF TranslateX
<1>5. W \in Int /\ E \in Int /\ x % W \in 0 .. W - 1 /\ (u = 1 => W = Width)
  BY <1>1, <1>2, <1>3
<1> HIDE DEF W, E
<1>6. x % W \in Int /\ (u = 1 => x % W \in Columns)
  BY <1>5, Sizes
<1>7. x >= 0 /\ x < W /\ u = 1 => x \in Columns
  BY <1>5, Sizes
<1>8. CASE w.walls = "wrap"
  BY <1>4, <1>6, <1>8
<1>9. CASE w.walls # "wrap" /\ w.walls = "box" /\ ~(x >= 0 /\ x < W)
  BY <1>4, <1>5, <1>9
<1>10. CASE w.walls # "wrap" /\ ~(w.walls = "box" /\ ~(x >= 0 /\ x < W))
  <2> DEFINE inside == x >= 0 /\ x < W
  <2>1. TranslateX(w, x, u) = [ok |-> inside, at |-> x]
    BY <1>4, <1>10
  <2>2. inside /\ u = 1 => x \in Columns
    BY <1>7
  <2> HIDE DEF inside
  <2>3. TranslateX(w, x, u).at = x /\ (TranslateX(w, x, u).ok <=> inside)
    BY <2>1
  <2> QED
    BY <2>2, <2>3
<1> QED
  BY <1>8, <1>9, <1>10

LEMMA TranslateYType ==
    ASSUME NEW w, NEW y \in Int, NEW u \in Nat \ {0}
    PROVE  /\ TranslateY(w, y, u).at \in Int
           /\ u = 1 /\ TranslateY(w, y, u).ok => y \in Rows
<1>1. Height * u \in Nat \ {0} /\ (Height - 1) * u \in Int /\ Height * 1 = Height
  BY Sizes, Products
<1> QED
  BY <1>1, Sizes DEF TranslateY

LEMMA OnFieldType ==
    ASSUME NEW w, NEW x \in Int, NEW y \in Int, OnField(w, x, y)
    PROVE  TranslateX(w, x, 1).ok /\ TranslateX(w, x, 1).at \in Columns /\ y \in Rows
  BY TranslateXType, TranslateYType DEF OnField

LEMMA DeltasType ==
    ASSUME NEW w, NEW x1 \in Int, NEW y1 \in Int, NEW x2 \in Int, NEW y2 \in Int, NEW u \in Nat \ {0}
    PROVE  Deltas(w, x1, y1, x2, y2, u).x \in Int /\ Deltas(w, x1, y1, x2, y2, u).y \in Int
<1>1. Between(w, x1, x2, u) \in Int /\ Width * u \in Int
  <2>1. Width \in Int /\ u \in Int
    BY Sizes
  <2> QED
    BY <2>1, TranslateXType, Products DEF Between
<1>2. ShortWay(w, Between(w, x1, x2, u), Between(w, x1, x2, u) + Width * u) \in Int
  BY <1>1 DEF ShortWay
<1>3. TranslateY(w, y2, u).at - TranslateY(w, y1, u).at \in Int
  BY TranslateYType
<1> QED
  BY <1>2, <1>3 DEF Deltas

\* sc_land_height
LEMMA LandHeightType ==
    ASSUME NEW w, NEW x \in Int, NEW y0 \in Int
    PROVE  LandHeight(w, x, y0) \in 0 .. Height
<1> DEFINE top == IF y0 >= Height THEN Height - 1 ELSE y0
           S == {0} \cup {y + 1 : y \in {r \in 1 .. top : Ground(w, x, r)}}
<1>1. top \in Int /\ top < Height
  BY Sizes
<1>2. S \in SUBSET (0 .. Height) /\ S # {}
  <2>1. \A r \in 1 .. top : r + 1 \in 0 .. Height
    BY <1>1, Sizes
  <2>2. 0 \in 0 .. Height
    BY Sizes
  <2> QED
    BY <2>1, <2>2
<1>3. Max(S) \in 0 .. Height
  <2> HIDE DEF S
  <2>1. 0 \in Int /\ Height \in Int
    BY Sizes
  <2> QED
    BY <1>2, <2>1, Extremes
<1>4. 0 \in 0 .. Height
  BY Sizes
<1> QED
  BY <1>3, <1>4 DEF LandHeight

\* sc_land_height_around
LEMMA HeightAroundType ==
    ASSUME NEW w, NEW x \in Int, NEW y0 \in Int, NEW around \in Nat
    PROVE  HeightAround(w, x, y0, around) \in 0 .. Height
<1> DEFINE S == {LandHeight(w, cx, y0) : cx \in x - around .. x + around}
<1>1. S \in SUBSET (0 .. Height)
  BY LandHeightType
<1>2. LandHeight(w, x, y0) \in S
  <2>1. x \in x - around .. x + around
    OBVIOUS
  <2> QED
    BY <2>1
<1>3. Max(S) \in 0 .. Height
  <2> HIDE DEF S
  <2>1. 0 \in Int /\ Height \in Int /\ S # {}
    BY <1>2, Sizes
  <2> QED
    BY <1>1, <2>1, Extremes
<1> QED
  BY <1>3 DEF HeightAround

\* sc_land_avg_height_around
LEMMA AvgHeightAroundType ==
    ASSUME NEW w, NEW x \in Int, NEW y0 \in Int, NEW around \in Nat
    PROVE  AvgHeightAround(w, x, y0, around) \in 0 .. Height
<1> DEFINE seq == FromTo(x - around, x + around)
           n == Len(seq)
           c == [w |-> w, y |-> y0, seq |-> seq]
           S == {s \in [sum : Nat, count : Nat] : s.sum <= s.count * Height}
<1>1. n \in Nat /\ \A i \in 1 .. n : seq[i] \in Int
  <2>1. x - around \in Int /\ x + around \in Int
    OBVIOUS
  <2>2. n \in Nat /\ \A i \in 1 .. n : seq[i] \in (x - around) .. (x + around)
    BY <2>1, FromToType
  <2> HIDE DEF n, seq
  <2> QED
    BY <2>2
<1>2. PICK f : /\ IsRun("AvgHeightAround", [sum |-> 0, count |-> 0], c, n, f)
               /\ AvgHeightAround(w, x, y0, around) =
                      LET total == f[n] IN IF total.count = 0 THEN 0 ELSE total.sum \div total.count
  BY <1>1, AvgHeightAroundLoop
<1>3. [sum |-> 0, count |-> 0] \in S
  BY Sizes
<1>5. ASSUME NEW s \in S, NEW cx \in Int PROVE AddHeight(s, w, y0, cx) \in S
  <2>1. LandHeight(w, cx, y0) \in 0 .. Height
    BY LandHeightType
  <2>2. (s.count + 1) * Height = s.count * Height + Height
    BY Sizes
  <2>3. s.count * Height \in Nat
    BY Sizes, Products
  <2> QED
    BY <2>1, <2>2, <2>3, Sizes DEF AddHeight
<1>6. \A s \in S, i \in 1 .. n : Step("AvgHeightAround", s, i, c) \in S
  <2>1. \A s, i : Step("AvgHeightAround", s, i, c) = AddHeight(s, w, y0, seq[i])
    BY DEF Step
  <2> HIDE DEF S, n, seq, c
  <2> QED
    BY <1>1, <1>5, <2>1
<1>7. f[n] \in S
  <2> HIDE DEF S, n, seq, c
  <2> QED
    BY <1>1, <1>2, <1>3, <1>6, RunKept
<1>8. ASSUME NEW a \in Nat, NEW b \in Nat, b # 0, a <= b * Height PROVE a \div b \in 0 .. Height
  <2>1. a \div b \in Nat /\ a = b * (a \div b) + (a % b) /\ a % b \in 0 .. b - 1
    <3>1. a \in Int /\ a >= 0 /\ b \in Nat \ {0}
      BY <1>8
    <3> QED
      BY <3>1, Quotients, Zenon
  <2>2. CASE a \div b > Height
    <3> DEFINE q == a \div b
    <3>1. PICK k \in Nat : q = Height + 1 + k
      <4>1. q - Height - 1 \in Nat
        BY <2>1, <2>2, Sizes
      <4>2. q = Height + 1 + (q - Height - 1)
        BY <2>1, Sizes
      <4> QED
        BY <4>1, <4>2
    <3>2. b * q = b * Height + b + b * k
      BY <3>1, Sizes
    <3>3. b * k \in Nat /\ b * Height \in Nat /\ b * q \in Nat
      BY <2>1, Sizes, Products
    <3> HIDE DEF q
    <3>4. a >= b * q
      BY <2>1, <3>3 DEF q
    <3> QED
      BY <1>8, <3>2, <3>3, <3>4
  <2> QED
    BY <2>1, <2>2, Sizes
<1>9. CASE f[n].count = 0
  BY <1>2, <1>9, Sizes
<1>10. CASE f[n].count # 0
  <2> DEFINE t == f[n]
  <2>1. t.sum \in Nat /\ t.count \in Nat /\ t.sum <= t.count * Height
    BY <1>7
  <2>2. AvgHeightAround(w, x, y0, around) = t.sum \div t.count
    BY <1>2, <1>10
  <2> HIDE DEF t
  <2>3. t.count # 0
    BY <1>10 DEF t
  <2> QED
    BY <1>8, <2>1, <2>2, <2>3
<1> QED
  BY <1>9, <1>10

\* What is drawn on the land is on the field.
LEMMA CellsType ==
    ASSUME NEW w, NEW points \in SUBSET (Int \X Int)
    PROVE  Cells(w, points) \subseteq Columns \X Rows
  BY OnFieldType DEF Cells

\* Nothing but the land changes.
LandOnly(w, v) == v = [w EXCEPT !.land = v.land] /\ v.land \in SUBSET (Columns \X Rows)

LEMMA LandOnlyKeeps ==
    ASSUME NEW w \in World, NEW v, LandOnly(w, v)
    PROVE  /\ v \in World
           /\ v.walls = w.walls /\ v.physics = w.physics /\ v.fast = w.fast
           /\ v.expl = w.expl /\ v.shots = w.shots /\ v.tank = w.tank
  BY DEF LandOnly, World

LEMMA LandOnlyTwice ==
    ASSUME NEW w \in World, NEW u, NEW v, LandOnly(w, u), LandOnly(u, v)
    PROVE  LandOnly(w, v)
<1>1. u \in World /\ u = [w EXCEPT !.land = u.land] /\ v = [u EXCEPT !.land = v.land]
  BY LandOnlyKeeps DEF LandOnly
<1>2. v = [w EXCEPT !.land = v.land]
  BY <1>1 DEF World
<1> QED
  BY <1>2 DEF LandOnly

LEMMA PointsType ==
    ASSUME NEW w \in World, NEW points \in SUBSET (Int \X Int)
    PROVE  /\ LandOnly(w, CreateDirt(w, points)) /\ CreateDirt(w, points).land = w.land \cup Cells(w, points)
           /\ LandOnly(w, ClearPoints(w, points)) /\ ClearPoints(w, points).land = w.land \ Cells(w, points)
<1>1. Cells(w, points) \subseteq Columns \X Rows /\ w.land \subseteq Columns \X Rows
  BY CellsType DEF World
<1>2. CreateDirt(w, points).land = w.land \cup Cells(w, points) /\ ClearPoints(w, points).land = w.land \ Cells(w, points)
  BY DEF CreateDirt, ClearPoints, World
<1> QED
  BY <1>1, <1>2 DEF LandOnly, CreateDirt, ClearPoints

LEMMA LevelAroundType ==
    ASSUME NEW w \in World, NEW x \in Int, NEW around \in Nat, NEW ht \in 0 .. Height
    PROVE  LandOnly(w, LevelAround(w, x, around, ht))
<1> DEFINE columns == {TranslateX(w, cx, 1).at : cx \in {k \in x - around .. x + around + 1 : TranslateX(w, k, 1).ok}}
           land == (w.land \ (columns \X Rows)) \cup (columns \X (0 .. ht - 1))
<1>1. columns \subseteq Columns
  BY TranslateXType
<1>2. 0 .. ht - 1 \subseteq Rows
  BY Sizes
<1>3. land \subseteq Columns \X Rows
  BY <1>1, <1>2 DEF World
<1>4. LevelAround(w, x, around, ht) = [w EXCEPT !.land = land]
  BY DEF LevelAround, Level
<1>5. [w EXCEPT !.land = land].land = land
  BY DEF World
<1> HIDE DEF land
<1> QED
  BY <1>3, <1>4, <1>5 DEF LandOnly

-----------------------------------------------------------------------------
(* Falling dirt.                                                           *)

\* A set counted through a function that tells its elements apart.
LEMMA CountThrough ==
    ASSUME NEW S, NEW T, IsFiniteSet(T), NEW g \in [S -> T],
           \A a, b \in S : g[a] = g[b] => a = b
    PROVE  Cardinality(S) <= Cardinality(T) /\ ((\A t \in T : \E a \in S : g[a] = t) => Cardinality(S) = Cardinality(T))
<1>1. g \in Injection(S, T)
  BY DEF Injection, IsInjective
<1>2. ASSUME \A t \in T : \E a \in S : g[a] = t PROVE g \in Surjection(S, T)
  BY <1>2 DEF Surjection
<1> QED
  BY <1>1, <1>2, FS_Injection

\* Rows of a column are as many as before, and none of them is higher.
UpTo(rows, y) == {k \in rows : k <= y}
Falls(before, after) ==
    /\ after \subseteq Rows
    /\ Cardinality(before) = Cardinality(after)
    /\ \A y \in Rows : Cardinality(UpTo(before, y)) <= Cardinality(UpTo(after, y))

LEMMA RowsFinite ==
    ASSUME NEW rows \in SUBSET Rows
    PROVE  IsFiniteSet(rows) /\ Cardinality(rows) \in Nat
<1>1. IsFiniteSet(0 .. Height - 1)
  <2>1. 0 \in Int /\ Height - 1 \in Int
    BY Sizes
  <2> QED
    BY <2>1, FS_Interval
<1>2. IsFiniteSet(rows)
  BY <1>1, FS_Subset DEF Rows
<1> QED
  BY <1>2, FS_CardinalityType

LEMMA FallsAndFalls ==
    ASSUME NEW a \in SUBSET Rows, NEW b, NEW c, Falls(a, b), Falls(b, c)
    PROVE  Falls(a, c)
<1> SUFFICES ASSUME NEW y \in Rows
             PROVE  Cardinality(UpTo(a, y)) <= Cardinality(UpTo(c, y))
  BY DEF Falls
<1>1. \A r \in SUBSET Rows : UpTo(r, y) \in SUBSET Rows
  BY DEF UpTo
<1>2. Cardinality(UpTo(a, y)) \in Nat /\ Cardinality(UpTo(b, y)) \in Nat /\ Cardinality(UpTo(c, y)) \in Nat
  BY <1>1, RowsFinite DEF Falls
<1>3. Cardinality(UpTo(a, y)) <= Cardinality(UpTo(b, y)) /\ Cardinality(UpTo(b, y)) <= Cardinality(UpTo(c, y))
  BY DEF Falls
<1> QED
  BY <1>2, <1>3

LEMMA FallsNot ==
    ASSUME NEW a \in SUBSET Rows
    PROVE  Falls(a, a)
<1>1. \A y \in Rows : UpTo(a, y) \in SUBSET Rows
  BY DEF UpTo
<1>2. \A y \in Rows : Cardinality(UpTo(a, y)) \in Nat
  BY <1>1, RowsFinite
<1> QED
  BY <1>2 DEF Falls

\* _sc_land_drop_column
LEMMA ColumnFalls ==
    ASSUME NEW rows \in SUBSET Rows
    PROVE  Falls(rows, DropColumn(rows).rows) /\ DropColumn(rows).more \in BOOLEAN
<1> DEFINE lo     == Min((0 .. Height) \ rows)
           above  == {y \in rows : y > lo}
           up     == Min(above)
           fall   == IF up - lo < MaxDrop THEN up - lo ELSE MaxDrop
           moving == {y \in rows : y >= up /\ y <= up + MaxAmount}
           after  == (rows \ moving) \cup {y - fall : y \in moving}
<1>1. lo \in (0 .. Height) \ rows /\ \A y \in (0 .. Height) \ rows : lo <= y
  <2>1. 0 \in Int /\ Height \in Int /\ Height \notin rows /\ Height \in 0 .. Height
    BY Sizes
  <2> DEFINE S == (0 .. Height) \ rows
  <2>2. S \in SUBSET (0 .. Height) /\ S # {}
    BY <2>1
  <2> HIDE DEF S
  <2>3. Min(S) \in S /\ \A y \in S : Min(S) <= y
    BY <2>1, <2>2, Extremes
  <2> QED
    BY <2>3 DEF S
<1>2. CASE above = {}
  <2>1. DropColumn(rows) = [rows |-> rows, more |-> FALSE]
    BY <1>2 DEF DropColumn
  <2> QED
    BY <2>1, FallsNot
<1>3. CASE above # {}
  <2>1. up \in above /\ \A y \in above : up <= y
    <3>1. above \in SUBSET (0 .. Height - 1) /\ 0 \in Int /\ Height - 1 \in Int
      <4>1. above \subseteq rows
        OBVIOUS
      <4> HIDE DEF above
      <4> QED
        BY <4>1, Sizes
    <3> HIDE DEF above
    <3> QED
      BY <1>3, <3>1, Extremes
  <2>2. DropColumn(rows).rows = after /\ DropColumn(rows).more = (up - lo >= MaxDrop \/ up + MaxAmount + 1 < Height)
    <3>1. DropColumn(rows) = [rows |-> after, more |-> (up - lo >= MaxDrop \/ up + MaxAmount + 1 < Height)]
      BY <1>3 DEF DropColumn
    <3> HIDE DEF after, up, lo
    <3> QED
      BY <3>1
  <2>3. up \in Rows /\ lo \in 0 .. Height /\ up > lo
    BY <1>1, <2>1
  <2>4. MaxDrop \in Nat \ {0} /\ MaxAmount \in Nat
    BY LandscapeAssumption
  <2> HIDE DEF lo, up
  <2>5. fall \in Nat /\ fall >= 1 /\ fall <= up - lo
    BY <2>3, <2>4, Sizes
  <2> HIDE DEF fall
  <2>6. \A k \in rows : k \in Int /\ (k > lo => k >= up) /\ k # lo
    BY <1>1, <2>1, Sizes
  <2> DEFINE g == [k \in rows |-> IF k \in moving THEN k - fall ELSE k]
  <2>7. \A k \in rows : g[k] \in after /\ g[k] \in Rows /\ g[k] <= k
    <3> TAKE k \in rows
    <3>1. CASE k \in moving
      <4>1. g[k] = k - fall
        BY <3>1
      <4>2. k - fall \in Rows /\ k - fall <= k
        BY <2>3, <2>5, <3>1, Sizes
      <4> QED
        BY <3>1, <4>1, <4>2
    <3>2. CASE k \notin moving
      BY <2>6, <3>2
    <3> QED
      BY <3>1, <3>2
  <2>8. ASSUME NEW t \in after PROVE \E k \in rows : g[k] = t
    <3>1. CASE t \in rows \ moving
      BY <3>1
    <3>2. CASE t \in {y - fall : y \in moving}
      <4>1. PICK y \in moving : t = y - fall
        BY <3>2
      <4> QED
        BY <4>1
    <3> QED
      BY <3>1, <3>2
  <2>9. ASSUME NEW a \in rows, NEW b \in rows, g[a] = g[b] PROVE a = b
    <3>1. ASSUME NEW x \in rows, NEW z \in rows, x \in moving, z \notin moving PROVE g[x] # g[z]
      <4>1. g[x] = x - fall /\ g[z] = z
        BY <3>1
      <4>2. x \in Int /\ z \in Int /\ up \in Int /\ lo \in Int /\ x >= up /\ x <= up + MaxAmount
        BY <2>3, <2>6, <3>1, Sizes
      <4>3. z < lo \/ z > up + MaxAmount
        BY <2>4, <2>6, <3>1, <4>2
      <4> QED
        BY <2>4, <2>5, <4>1, <4>2, <4>3
    <3>2. CASE a \in moving /\ b \in moving
      <4>1. a - fall = b - fall /\ a \in Int /\ b \in Int
        BY <2>6, <2>9, <3>2
      <4> QED
        BY <2>5, <4>1
    <3>3. CASE a \notin moving /\ b \notin moving
      BY <2>9, <3>3
    <3> QED
      BY <2>9, <3>1, <3>2, <3>3
  <2>10. after \subseteq Rows
    BY <2>7, <2>8
  <2> HIDE DEF g, after, moving, above
  <2>11. g \in [rows -> after]
    <3>1. g = [k \in rows |-> g[k]]
      BY DEF g
    <3> QED
      BY <2>7, <3>1
  <2>12. Cardinality(rows) = Cardinality(after)
    <3>1. IsFiniteSet(after)
      BY <2>10, RowsFinite
    <3> QED
      BY <2>8, <2>9, <2>11, <3>1, CountThrough
  <2>13. ASSUME NEW y \in Rows PROVE Cardinality(UpTo(rows, y)) <= Cardinality(UpTo(after, y))
    <3> DEFINE A == UpTo(rows, y)
               B == UpTo(after, y)
               h == [k \in A |-> g[k]]
    <3>1. IsFiniteSet(B)
      <4>1. B \in SUBSET Rows
        BY <2>10 DEF UpTo
      <4> QED
        BY <4>1, RowsFinite
    <3>2. \A k \in A : g[k] \in B
      BY <2>6, <2>7, Sizes DEF UpTo
    <3>3. \A a, b \in A : h[a] = h[b] => a = b
      BY <2>9 DEF UpTo
    <3>4. h \in [A -> B]
      BY <3>2
    <3> HIDE DEF h, A, B
    <3>5. Cardinality(A) <= Cardinality(B)
      BY <3>1, <3>3, <3>4, CountThrough
    <3> QED
      BY <3>5 DEF A, B
  <2>14. (up - lo >= MaxDrop \/ up + MaxAmount + 1 < Height) \in BOOLEAN
    OBVIOUS
  <2> QED
    BY <2>2, <2>10, <2>12, <2>13, <2>14 DEF Falls
<1> QED
  BY <1>2, <1>3

\* A world whose dirt has fallen, column by column.
Fallen(w, v) == LandOnly(w, v) /\ \A x \in Columns : Falls(Column(w, x), Column(v, x))

LEMMA ColumnType ==
    ASSUME NEW w, NEW x
    PROVE  Column(w, x) \in SUBSET Rows
  BY DEF Column

LEMMA FallenNot ==
    ASSUME NEW w \in World
    PROVE  Fallen(w, w)
<1>1. LandOnly(w, w)
  BY DEF LandOnly, World
<1> QED
  BY <1>1, FallsNot, ColumnType DEF Fallen

LEMMA FallenTwice ==
    ASSUME NEW w \in World, NEW u, NEW v, Fallen(w, u), Fallen(u, v)
    PROVE  Fallen(w, v)
<1>1. LandOnly(w, v)
  BY LandOnlyTwice DEF Fallen
<1>2. \A x \in Columns : Falls(Column(w, x), Column(v, x))
  BY FallsAndFalls, ColumnType DEF Fallen
<1> QED
  BY <1>1, <1>2 DEF Fallen

\* One column of sc_land_drop_zone.
LEMMA DropOneFalls ==
    ASSUME NEW acc \in [w : World, more : BOOLEAN], NEW w, NEW x \in Int
    PROVE  DropOne(acc, w, x) \in [w : World, more : BOOLEAN] /\ Fallen(acc.w, DropOne(acc, w, x).w)
<1> DEFINE at  == TranslateX(w, x, 1)
           col == DropColumn(Column(acc.w, at.at))
           fallen == (acc.w.land \ ({at.at} \X Rows)) \cup ({at.at} \X col.rows)
           v == [acc.w EXCEPT !.land = fallen]
<1>1. acc.w \in World /\ acc.more \in BOOLEAN
  OBVIOUS
<1>2. CASE ~at.ok
  <2>1. DropOne(acc, w, x) = acc
    BY <1>2 DEF DropOne
  <2> QED
    BY <1>1, <2>1, FallenNot
<1>3. CASE at.ok
  <2>1. DropOne(acc, w, x) = [w |-> v, more |-> col.more \/ acc.more]
    BY <1>3 DEF DropOne
  <2>2. at.at \in Columns
    BY <1>3, TranslateXType
  <2>3. Falls(Column(acc.w, at.at), col.rows) /\ col.more \in BOOLEAN
    BY ColumnFalls, ColumnType
  <2> HIDE DEF at, col
  <2>4. fallen \in SUBSET (Columns \X Rows)
    BY <1>1, <2>2, <2>3 DEF Falls, World
  <2>5. v.land = fallen
    BY <1>1 DEF World
  <2>6. LandOnly(acc.w, v)
    BY <2>4, <2>5 DEF LandOnly
  <2>7. ASSUME NEW k \in Columns PROVE Falls(Column(acc.w, k), Column(v, k))
    <3>1. CASE k = at.at
      <4>1. Column(v, k) = col.rows
        BY <2>3, <2>5, <3>1 DEF Column, Falls
      <4> QED
        BY <2>3, <3>1, <4>1
    <3>2. CASE k # at.at
      <4>1. Column(v, k) = Column(acc.w, k)
        BY <2>5, <3>2 DEF Column
      <4> QED
        BY <4>1, FallsNot, ColumnType
    <3> QED
      BY <3>1, <3>2
  <2>8. v \in World
    BY <1>1, <2>6, LandOnlyKeeps
  <2>9. Fallen(acc.w, v)
    BY <2>6, <2>7 DEF Fallen
  <2> HIDE DEF v
  <2>10. (col.more \/ acc.more) \in BOOLEAN
    OBVIOUS
  <2> QED
    BY <2>1, <2>8, <2>9, <2>10
<1> QED
  BY <1>2, <1>3

\* sc_land_drop_zone
LEMMA ZoneFalls ==
    ASSUME NEW w \in World, NEW x1 \in Int, NEW x2 \in Int
    PROVE  DropZone(w, x1, x2) \in [w : World, more : BOOLEAN] /\ Fallen(w, DropZone(w, x1, x2).w)
<1> DEFINE seq == FromTo(x1, x2)
           n == Len(seq)
           c == [w |-> w, seq |-> seq]
           s0 == [w |-> w, more |-> FALSE]
           S == {s \in [w : World, more : BOOLEAN] : Fallen(w, s.w)}
<1>1. n \in Nat /\ \A i \in 1 .. n : seq[i] \in Int
  <2>1. n \in Nat /\ \A i \in 1 .. n : seq[i] \in x1 .. x2
    BY FromToType
  <2> HIDE DEF n, seq
  <2> QED
    BY <2>1
<1>2. PICK f : IsRun("DropZone", s0, c, n, f) /\ DropZone(w, x1, x2) = f[n]
  BY <1>1, DropZoneLoop
<1>3. s0 \in S
  BY FallenNot
<1>4. \A s \in S, i \in 1 .. n : Step("DropZone", s, i, c) \in S
  <2>1. \A s, i : Step("DropZone", s, i, c) = DropOne(s, w, seq[i])
    BY DEF Step
  <2>2. ASSUME NEW s \in S, NEW x \in Int PROVE DropOne(s, w, x) \in S
    BY <2>2, DropOneFalls, FallenTwice
  <2> HIDE DEF S, n, seq, c
  <2> QED
    BY <1>1, <2>1, <2>2
<1>5. f[n] \in S
  <2> HIDE DEF S, n, seq, c, s0
  <2> QED
    BY <1>1, <1>2, <1>3, <1>4, RunKept
<1> QED
  BY <1>2, <1>5

\* Dirt only falls in all passes together.
LEMMA ZoneAllFalls ==
    ASSUME NEW w \in World, NEW x1 \in Int, NEW x2 \in Int
    PROVE  Fallen(w, DropZoneAll(w, x1, x2))
<1> DEFINE n == MostDrops
           c == [x1 |-> x1, x2 |-> x2]
           s0 == [w |-> w, more |-> TRUE]
           S == {s \in [w : World, more : BOOLEAN] : Fallen(w, s.w)}
<1>1. n \in Nat
  BY Bounds
<1>2. PICK f : IsRun("DropZoneAll", s0, c, n, f) /\ DropZoneAll(w, x1, x2) = f[n].w
  BY DropZoneAllLoop
<1>3. s0 \in S
  BY FallenNot
<1>4. \A s \in S, i \in 1 .. n : Step("DropZoneAll", s, i, c) \in S
  <2>1. \A s, i : Step("DropZoneAll", s, i, c) = IF s.more THEN DropZone(s.w, x1, x2) ELSE s
    BY DEF Step
  <2>2. ASSUME NEW s \in S PROVE DropZone(s.w, x1, x2) \in S
    BY <2>2, ZoneFalls, FallenTwice
  <2> HIDE DEF S, n, c
  <2> QED
    BY <2>1, <2>2
<1>5. f[n] \in S
  <2> HIDE DEF S, n, c, s0
  <2> QED
    BY <1>1, <1>2, <1>3, <1>4, RunKept
<1> QED
  BY <1>2, <1>5

-----------------------------------------------------------------------------
(* Circles.                                                                *)

\* A cell that is within the radius, or has a neighbour nearer to the middle
\* that is.
Near(r, a, b) ==
    \/ a * a + b * b <= r * r
    \/ b >= 1 /\ a * a + (b - 1) * (b - 1) <= r * r
    \/ a >= 1 /\ (a - 1) * (a - 1) + b * b <= r * r
    \/ a >= 1 /\ b >= 1 /\ (a - 1) * (a - 1) + (b - 1) * (b - 1) <= r * r

\* What the loop has drawn: the columns up to "next" and beyond "edge".
Swept(r, s) ==
    /\ s.edge \in -1 .. r /\ s.next <= s.edge + 2
    /\ s.major = r * r - s.next * s.next /\ s.minor = s.edge * s.edge - s.edge
    /\ (s.edge + 1) * (s.edge + 1) + s.next * s.next > r * r
    /\ s.next <= s.edge => s.edge * s.edge - s.edge + s.next * s.next <= r * r
    /\ \A a \in 0 .. r : a < s.next \/ a > s.edge =>
          \A b \in Nat : a * a + b * b <= r * r => b <= s.reach[a]
    /\ \A a \in 0 .. r, b \in Nat : b <= s.reach[a] => Near(r, a, b)

CircleState(r) == [next : Nat, edge : Int, major : Int, minor : Int, reach : [0 .. r -> Int]]

\* Squares grow.
LEMMA SquaresGrow ==
    ASSUME NEW a \in Nat, NEW b \in Nat, a <= b
    PROVE  a * a <= b * b /\ (a < b => a * a < b * b)
<1>1. PICK k \in Nat : b = a + k
  <2>1. b - a \in Nat /\ b = a + (b - a)
    OBVIOUS
  <2> QED
    BY <2>1
<1>2. b * b = a * a + 2 * (a * k) + k * k
  BY <1>1
<1>3. a * k \in Nat /\ k * k \in Nat /\ a * a \in Nat
  BY Products
<1>4. k > 0 => k * k > 0
  BY Products
<1> QED
  BY <1>1, <1>2, <1>3, <1>4

\* The column "next" reaches the row "edge", and it is no more than one too far.
LEMMA NextColumn ==
    ASSUME NEW r \in Nat \ {0}, NEW n \in Nat, NEW e \in Nat, n <= e, e <= r,
           (e + 1) * (e + 1) + n * n > r * r, e * e - e + n * n <= r * r
    PROVE  /\ \A b \in Nat : n * n + b * b <= r * r => b <= e
           /\ \A b \in Nat : b <= e => Near(r, n, b)
<1>1. ASSUME NEW b \in Nat, n * n + b * b <= r * r, b > e PROVE FALSE
  <2>1. (e + 1) * (e + 1) <= b * b
    BY <1>1, SquaresGrow
  <2>2. n * n \in Nat /\ r * r \in Nat /\ b * b \in Nat /\ (e + 1) * (e + 1) \in Nat
    BY Products
  <2> QED
    BY <1>1, <2>1, <2>2
<1>2. ASSUME NEW b \in Nat, b <= e PROVE Near(r, n, b)
  <2>1. e * e \in Nat /\ n * n \in Nat /\ r * r \in Nat /\ b * b \in Nat
    BY Products
  <2>2. CASE e = 0
    <3>1. b = 0 /\ n = 0
      BY <1>2, <2>2
    <3> QED
      BY <2>1, <3>1 DEF Near
  <2>3. CASE e > 0 /\ b = e
    <3>1. (e - 1) * (e - 1) = e * e - 2 * e + 1
      OBVIOUS
    <3>2. n * n + (b - 1) * (b - 1) <= r * r
      BY <2>1, <2>3, <3>1
    <3> QED
      BY <2>3, <3>2 DEF Near
  <2>4. CASE e > 0 /\ b < e
    <3>1. (e - 1) * (e - 1) = e * e - 2 * e + 1 /\ (e - 1) * (e - 1) \in Int
      OBVIOUS
    <3>2. b * b <= (e - 1) * (e - 1)
      <4>1. e - 1 \in Nat /\ b <= e - 1
        BY <2>4
      <4> QED
        BY <4>1, SquaresGrow
    <3>3. n * n + b * b <= r * r
      BY <2>1, <2>4, <3>1, <3>2
    <3> QED
      BY <3>3 DEF Near
  <2> QED
    BY <1>2, <2>2, <2>3, <2>4
<1> QED
  BY <1>1, <1>2

\* The column "edge" reaches the row after "next".
LEMMA EdgeColumn ==
    ASSUME NEW r \in Nat \ {0}, NEW n \in Nat, NEW e \in Nat, n <= e, e <= r,
           (e + 1) * (e + 1) + n * n > r * r, e * e - e + n * n <= r * r,
           r * r - (n + 1) * (n + 1) <= e * e - e
    PROVE  /\ e > 0 /\ e * e + (n + 1) * (n + 1) > r * r
           /\ \A b \in Nat : e * e + b * b <= r * r => b <= n + 1
           /\ \A b \in Nat : b <= n + 1 => Near(r, e, b)
<1>1. e * e \in Nat /\ n * n \in Nat /\ r * r \in Nat \ {0} /\ (n + 1) * (n + 1) = n * n + 2 * n + 1
  BY Products
<1>2. e > 0
  <2> SUFFICES ASSUME e = 0 PROVE FALSE
    OBVIOUS
  <2>1. n = 0
    OBVIOUS
  <2>2. 1 > r * r
    BY <2>1
  <2> QED
    BY <1>1, <2>2
<1>3. e * e + (n + 1) * (n + 1) > r * r
  BY <1>1, <1>2
<1>4. ASSUME NEW b \in Nat, e * e + b * b <= r * r, b > n + 1 PROVE FALSE
  <2>1. (n + 1) * (n + 1) <= b * b
    BY <1>4, SquaresGrow
  <2>2. b * b \in Nat /\ (n + 1) * (n + 1) \in Nat
    BY Products
  <2> QED
    BY <1>1, <1>3, <1>4, <2>1, <2>2
<1>5. (e - 1) * (e - 1) + n * n <= r * r
  <2>1. (e - 1) * (e - 1) = e * e - 2 * e + 1
    OBVIOUS
  <2> QED
    BY <1>1, <1>2, <2>1
<1>6. ASSUME NEW b \in Nat, b <= n PROVE Near(r, e, b)
  <2>1. b * b <= n * n
    BY <1>6, SquaresGrow
  <2>2. b * b \in Nat /\ (e - 1) * (e - 1) \in Nat
    BY <1>2, Products
  <2>3. (e - 1) * (e - 1) + b * b <= r * r
    BY <1>1, <1>5, <2>1, <2>2
  <2> QED
    BY <1>2, <2>3 DEF Near
<1>7. Near(r, e, n + 1)
  <2>1. (n + 1) - 1 = n /\ n + 1 >= 1 /\ e >= 1
    BY <1>2
  <2> QED
    BY <1>5, <2>1 DEF Near
<1> QED
  BY <1>2, <1>3, <1>4, <1>6, <1>7

\* One step of the loop.
LEMMA CircleStepSwept ==
    ASSUME NEW r \in Nat \ {0}, NEW s \in CircleState(r), Swept(r, s), s.next <= s.edge
    PROVE  CircleStep(s) \in CircleState(r) /\ Swept(r, CircleStep(s)) /\ CircleStep(s).next = s.next + 1
<1> DEFINE n == s.next
           e == s.edge
           R == s.reach
           here == [R EXCEPT ![n] = IF e > @ THEN e ELSE @]
           both == [here EXCEPT ![e] = IF n + 1 > @ THEN n + 1 ELSE @]
           t == CircleStep(s)
<1>1. /\ n \in Nat /\ e \in Nat /\ n <= e /\ e <= r /\ R \in [0 .. r -> Int]
      /\ s.major = r * r - n * n /\ s.minor = e * e - e
      /\ (e + 1) * (e + 1) + n * n > r * r /\ e * e - e + n * n <= r * r
      /\ \A a \in 0 .. r : a < n \/ a > e => \A b \in Nat : a * a + b * b <= r * r => b <= R[a]
      /\ \A a \in 0 .. r, b \in Nat : b <= R[a] => Near(r, a, b)
  <2>1. n \in Nat /\ e \in Int /\ R \in [0 .. r -> Int] /\ n <= e
    BY DEF CircleState
  <2>2. e \in Nat
    BY <2>1
  <2>3. /\ e <= r /\ s.major = r * r - n * n /\ s.minor = e * e - e
        /\ (e + 1) * (e + 1) + n * n > r * r /\ (n <= e => e * e - e + n * n <= r * r)
    BY <2>1 DEF Swept
  <2>4. \A a \in 0 .. r : a < n \/ a > e => \A b \in Nat : a * a + b * b <= r * r => b <= R[a]
    BY DEF Swept
  <2>5. \A a \in 0 .. r, b \in Nat : b <= R[a] => Near(r, a, b)
    BY DEF Swept
  <2> HIDE DEF n, e, R
  <2> QED
    BY <2>1, <2>2, <2>3, <2>4, <2>5
<1>0. s.major \in Int /\ s.minor \in Int
  BY DEF CircleState
<1>11. /\ s.major - (2 * (n + 1) - 1) > s.minor => t = [s EXCEPT !.next = n + 1, !.major = s.major - (2 * (n + 1) - 1), !.reach = here]
       /\ ~(s.major - (2 * (n + 1) - 1) > s.minor) =>
              t = [next |-> n + 1, edge |-> e - 1, major |-> s.major - (2 * (n + 1) - 1),
                   minor |-> s.minor - 2 * (e - 1), reach |-> both]
  <2>1. ~(n > e)
    BY <1>1
  <2> QED
    BY <2>1 DEF CircleStep
<1> HIDE DEF n, e, R, t
<1>2. s.major - (2 * (n + 1) - 1) = r * r - (n + 1) * (n + 1)
  BY <1>1
<1>3. e * e \in Nat /\ n * n \in Nat /\ r * r \in Nat /\ (n + 1) * (n + 1) = n * n + 2 * n + 1 /\ (e + 1) * (e + 1) \in Nat
  <2>1. n \in Nat /\ e \in Nat /\ r \in Nat /\ e + 1 \in Nat
    BY <1>1
  <2>2. e * e \in Nat /\ n * n \in Nat /\ r * r \in Nat /\ (e + 1) * (e + 1) \in Nat
    BY <2>1, Products
  <2> QED
    BY <2>1, <2>2
<1>4. n \in 0 .. r /\ e \in 0 .. r
  BY <1>1
<1>5. /\ here \in [0 .. r -> Int] /\ here[n] >= e /\ (here[n] = e \/ here[n] = R[n])
      /\ \A a \in 0 .. r : a # n => here[a] = R[a]
      /\ \A a \in 0 .. r : here[a] >= R[a]
  BY <1>1, <1>4
<1>6. /\ \A a \in 0 .. r : a < n + 1 \/ a > e => \A b \in Nat : a * a + b * b <= r * r => b <= here[a]
      /\ \A a \in 0 .. r, b \in Nat : b <= here[a] => Near(r, a, b)
  <2>1. /\ \A b \in Nat : n * n + b * b <= r * r => b <= e
        /\ \A b \in Nat : b <= e => Near(r, n, b)
    BY <1>1, NextColumn
  <2> HIDE DEF here
  <2>2. ASSUME NEW a \in 0 .. r, a < n + 1 \/ a > e, NEW b \in Nat, a * a + b * b <= r * r PROVE b <= here[a]
    <3>1. CASE a = n
      <4>1. b <= e /\ here[n] \in Int
        BY <1>4, <1>5, <2>1, <2>2, <3>1
      <4> QED
        BY <1>1, <1>5, <3>1, <4>1
    <3>2. CASE a # n
      <4>1. a < n \/ a > e
        BY <1>1, <2>2, <3>2
      <4> QED
        BY <1>1, <1>5, <2>2, <3>2, <4>1
    <3> QED
      BY <3>1, <3>2
  <2>3. ASSUME NEW a \in 0 .. r, NEW b \in Nat, b <= here[a] PROVE Near(r, a, b)
    <3>1. CASE a = n
      BY <1>1, <1>4, <1>5, <2>1, <2>3, <3>1
    <3>2. CASE a # n
      BY <1>1, <1>5, <2>3, <3>2
    <3> QED
      BY <3>1, <3>2
  <2> QED
    BY <2>2, <2>3
<1>7. CASE r * r - (n + 1) * (n + 1) > e * e - e
  <2>1. t = [s EXCEPT !.next = n + 1, !.major = r * r - (n + 1) * (n + 1), !.reach = here]
    <3>1. s.major - (2 * (n + 1) - 1) > s.minor
      BY <1>1, <1>2, <1>7
    <3> QED
      BY <1>2, <1>11, <3>1
  <2>2. /\ t.next = n + 1 /\ t.edge = e /\ t.major = r * r - (n + 1) * (n + 1) /\ t.minor = e * e - e
        /\ t.reach = here
    BY <1>1, <2>1 DEF CircleState, e
  <2>3. t \in CircleState(r)
    <3>1. n + 1 \in Nat /\ r * r - (n + 1) * (n + 1) \in Int
      BY <1>1, <1>3
    <3> HIDE DEF here
    <3> QED
      BY <1>5, <2>1, <3>1 DEF CircleState
  <2>4. (e + 1) * (e + 1) + (n + 1) * (n + 1) > r * r /\ e * e - e + (n + 1) * (n + 1) <= r * r
    BY <1>1, <1>3, <1>7
  <2> HIDE DEF t, here
  <2>5. Swept(r, t)
    BY <1>1, <1>6, <2>2, <2>4 DEF Swept
  <2> QED
    BY <2>2, <2>3, <2>5 DEF n, t
<1>8. CASE r * r - (n + 1) * (n + 1) <= e * e - e
  <2>1. t = [next |-> n + 1, edge |-> e - 1, major |-> r * r - (n + 1) * (n + 1),
             minor |-> e * e - e - 2 * (e - 1), reach |-> both]
    <3>1. ~(s.major - (2 * (n + 1) - 1) > s.minor)
      BY <1>1, <1>2, <1>3, <1>8
    <3> QED
      BY <1>1, <1>2, <1>11, <3>1
  <2>2. /\ e > 0 /\ e * e + (n + 1) * (n + 1) > r * r
        /\ \A b \in Nat : e * e + b * b <= r * r => b <= n + 1
        /\ \A b \in Nat : b <= n + 1 => Near(r, e, b)
    BY <1>1, <1>8, EdgeColumn
  <2> HIDE DEF here
  <2>3. /\ both \in [0 .. r -> Int] /\ both[e] >= n + 1 /\ (both[e] = n + 1 \/ both[e] = here[e])
        /\ \A a \in 0 .. r : a # e => both[a] = here[a]
        /\ \A a \in 0 .. r : both[a] >= here[a]
    BY <1>1, <1>4, <1>5
  <2>4. (e - 1) * (e - 1) = e * e - 2 * e + 1 /\ ((e - 1) + 1) * ((e - 1) + 1) = e * e
    BY <1>1
  <2>5. /\ t.next = n + 1 /\ t.edge = e - 1 /\ t.major = r * r - (n + 1) * (n + 1)
        /\ t.minor = (e - 1) * (e - 1) - (e - 1) /\ t.reach = both
    BY <1>1, <1>3, <2>1, <2>4
  <2>6. t \in CircleState(r)
    BY <1>1, <1>3, <2>1, <2>3 DEF CircleState
  <2> HIDE DEF t, both
  <2>7. n + 1 <= e - 1 => (e - 1) * (e - 1) - (e - 1) + (n + 1) * (n + 1) <= r * r
    BY <1>1, <1>3, <2>4
  <2>8. ASSUME NEW a \in 0 .. r, a < n + 1 \/ a > e - 1, NEW b \in Nat, a * a + b * b <= r * r PROVE b <= both[a]
    <3>1. CASE a = e
      <4>1. b <= n + 1 /\ both[e] \in Int
        BY <1>4, <2>2, <2>3, <2>8, <3>1
      <4> QED
        BY <1>1, <2>3, <3>1, <4>1
    <3>2. CASE a # e
      <4>1. a < n + 1 \/ a > e
        BY <1>1, <2>8, <3>2
      <4> QED
        BY <1>6, <2>3, <2>8, <3>2, <4>1
    <3> QED
      BY <3>1, <3>2
  <2>9. ASSUME NEW a \in 0 .. r, NEW b \in Nat, b <= both[a] PROVE Near(r, a, b)
    <3>1. CASE a = e
      BY <1>1, <1>4, <1>6, <2>2, <2>3, <2>9, <3>1
    <3>2. CASE a # e
      BY <1>6, <2>3, <2>9, <3>2
    <3> QED
      BY <3>1, <3>2
  <2>10. t.edge \in -1 .. r /\ t.next <= t.edge + 2
    BY <1>1, <2>2, <2>5
  <2>11. (t.edge + 1) * (t.edge + 1) + t.next * t.next > r * r
    BY <2>2, <2>4, <2>5
  <2>12. Swept(r, t)
    BY <2>5, <2>7, <2>8, <2>9, <2>10, <2>11 DEF Swept
  <2> QED
    BY <2>5, <2>6, <2>12 DEF n, t
<1> QED
  BY <1>1, <1>3, <1>7, <1>8

\* The shape of the circle: every cell within the radius, and no cell that has
\* not one within the radius beside it.
LEMMA CircleShape ==
    ASSUME NEW r \in Nat \ {0}, NEW a \in -r .. r, NEW b \in -r .. r
    PROVE  /\ Square(a) + Square(b) <= Square(r) => <<a, b>> \in Circle(r)
           /\ <<a, b>> \in Circle(r) =>
                 \E da, db \in -1 .. 1 : Square(a + da) + Square(b + db) <= Square(r)
<1> DEFINE n == r + 1
           s0 == CircleStart(r)
           I(f) == {i \in 0 .. n : /\ f[i] \in CircleState(r) /\ Swept(r, f[i])
                                   /\ f[i].next >= i \/ f[i].next > f[i].edge}
<1>1. PICK f : IsRun("CircleReach", s0, 0, n, f) /\ CircleReach(r) = f[n].reach
  BY CircleReachLoop
<1>2. f[0] = s0 /\ \A i \in 1 .. n : f[i] = CircleStep(f[i - 1])
  <2>1. \A s, i : Step("CircleReach", s, i, 0) = CircleStep(s)
    BY DEF Step
  <2>2. f[0] = s0 /\ \A i \in 1 .. n : f[i] = Step("CircleReach", f[i - 1], i, 0)
    <3> HIDE DEF s0
    <3> QED
      BY <1>1, Passes
  <2> QED
    BY <2>1, <2>2
<1>3. 0 \in I(f)
  <2>1. r * r \in Nat /\ (r + 1) * (r + 1) = r * r + 2 * r + 1
    BY Products
  <2>2. s0 \in CircleState(r)
    BY <2>1 DEF CircleStart, CircleState
  <2>3. s0.next = 0 /\ s0.edge = r /\ s0.major = r * r /\ s0.minor = r * r - r /\ \A a1 \in 0 .. r : s0.reach[a1] = -1
    BY DEF CircleStart
  <2> HIDE DEF s0
  <2>4. Swept(r, s0)
    BY <2>1, <2>3 DEF Swept
  <2> QED
    BY <1>2, <2>2, <2>3, <2>4
<1>4. ASSUME NEW i \in 1 .. n, i - 1 \in I(f) PROVE i \in I(f)
  <2> DEFINE s == f[i - 1]
  <2>1. s \in CircleState(r) /\ Swept(r, s) /\ (s.next >= i - 1 \/ s.next > s.edge) /\ f[i] = CircleStep(s)
    BY <1>2, <1>4
  <2>2. s.next \in Nat /\ s.edge \in Int
    BY <2>1 DEF CircleState
  <2> HIDE DEF s
  <2>3. CASE s.next > s.edge
    <3>1. f[i] = s
      BY <2>1, <2>3 DEF CircleStep
    <3> QED
      BY <2>1, <2>3, <3>1
  <2>4. CASE s.next <= s.edge
    <3>1. f[i] \in CircleState(r) /\ Swept(r, f[i]) /\ f[i].next = s.next + 1
      BY <2>1, <2>4, CircleStepSwept
    <3>2. s.next >= i - 1
      BY <2>1, <2>2, <2>4
    <3> QED
      BY <2>2, <3>1, <3>2
  <2> QED
    BY <2>2, <2>3, <2>4
<1>5. n \in I(f)
  <2> DEFINE J == I(f)
  <2>1. n \in Nat /\ 0 \in J /\ \A i \in 1 .. n : i - 1 \in J => i \in J
    BY <1>3, <1>4
  <2> HIDE DEF J, n
  <2>2. n \in J
    BY <2>1, Kept
  <2> QED
    BY <2>2 DEF J
<1> DEFINE t == f[n]
           R == CircleReach(r)
<1>6. /\ t \in CircleState(r) /\ Swept(r, t) /\ (t.next >= r + 1 \/ t.next > t.edge) /\ R = t.reach
  BY <1>1, <1>5
<1>7. /\ \A x \in 0 .. r, y \in Nat : x * x + y * y <= r * r => y <= R[x]
      /\ \A x \in 0 .. r, y \in Nat : y <= R[x] => Near(r, x, y)
  <2>1. t.next \in Nat /\ t.edge \in Int /\ t.edge \in -1 .. r
    BY <1>6 DEF CircleState, Swept
  <2>2. t.next > t.edge
    BY <1>6, <2>1
  <2>3. \A x \in 0 .. r : x < t.next \/ x > t.edge
    BY <2>1, <2>2
  <2> QED
    BY <1>6, <2>3 DEF Swept
<1> HIDE DEF R
<1> DEFINE x == Magnitude(a)
           y == Magnitude(b)
<1>8. x \in 0 .. r /\ y \in 0 .. r /\ (a = x \/ a = -x) /\ (b = y \/ b = -y)
  BY DEF Magnitude, Distance
<1>9. <<a, b>> \in Circle(r) <=> y <= R[x]
  BY DEF Circle, R
<1> HIDE DEF x, y
<1>10. Square(a) = x * x /\ Square(b) = y * y /\ Square(r) = r * r
  BY <1>8 DEF Square
<1>11. Square(a) + Square(b) <= Square(r) => <<a, b>> \in Circle(r)
  BY <1>7, <1>8, <1>9, <1>10
<1>12. ASSUME y <= R[x] PROVE \E da, db \in -1 .. 1 : Square(a + da) + Square(b + db) <= Square(r)
  <2>1. Near(r, x, y)
    BY <1>7, <1>8, <1>12
  <2>2. PICK p \in {0, 1}, q \in {0, 1} : (x - p) * (x - p) + (y - q) * (y - q) <= r * r
    <3>1. x - 0 = x /\ y - 0 = y
      BY <1>8
    <3> QED
      BY <2>1, <3>1 DEF Near
  <2>3. PICK da \in -1 .. 1 : Square(a + da) = (x - p) * (x - p)
    <3>1. CASE a = x
      <4>1. -p \in -1 .. 1 /\ Square(a + -p) = (x - p) * (x - p)
        BY <1>8, <3>1 DEF Square
      <4> QED
        BY <4>1
    <3>2. CASE a = -x
      <4>1. p \in -1 .. 1 /\ Square(a + p) = (x - p) * (x - p)
        BY <1>8, <3>2 DEF Square
      <4> QED
        BY <4>1
    <3> QED
      BY <1>8, <3>1, <3>2
  <2>4. PICK db \in -1 .. 1 : Square(b + db) = (y - q) * (y - q)
    <3>1. CASE b = y
      <4>1. -q \in -1 .. 1 /\ Square(b + -q) = (y - q) * (y - q)
        BY <1>8, <3>1 DEF Square
      <4> QED
        BY <4>1
    <3>2. CASE b = -y
      <4>1. q \in -1 .. 1 /\ Square(b + q) = (y - q) * (y - q)
        BY <1>8, <3>2 DEF Square
      <4> QED
        BY <4>1
    <3> QED
      BY <1>8, <3>1, <3>2
  <2> QED
    BY <1>10, <2>2, <2>3, <2>4
<1> QED
  BY <1>9, <1>11, <1>12

-----------------------------------------------------------------------------
(* Explosions and tanks.                                                   *)

\* The larger and the smaller of two numbers.
LEMMA OfTwo ==
    ASSUME NEW a \in Int, NEW b \in Int
    PROVE  /\ Max({a, b}) \in {a, b} /\ Max({a, b}) >= a /\ Max({a, b}) >= b
           /\ Min({a, b}) \in {a, b} /\ Min({a, b}) <= a /\ Min({a, b}) <= b
<1> DEFINE lo == Lower(a, b)
           hi == IF a < b THEN b ELSE a
           S == {a, b}
<1>1. lo \in Int /\ hi \in Int /\ S \in SUBSET (lo .. hi) /\ S # {}
  BY DEF Lower
<1>2. Max(S) \in S /\ (\A y \in S : Max(S) >= y) /\ Min(S) \in S /\ (\A y \in S : Min(S) <= y)
  <2> HIDE DEF lo, hi, S
  <2> QED
    BY <1>1, Extremes
<1> QED
  BY <1>2

\* The players of a field, and the orders in which they come.
LEMMA PlayersType ==
    ASSUME NEW w \in World
    PROVE  /\ Players(w) = Player /\ Cardinality(Players(w)) = NumPlayers /\ NumPlayers \in Nat \ {0}
           /\ Len(FromLast(w)) = NumPlayers /\ Len(FromFirst(w)) = NumPlayers
           /\ \A i \in 1 .. NumPlayers : FromLast(w)[i] = NumPlayers - i /\ FromLast(w)[i] \in Player
           /\ \A i \in 1 .. NumPlayers : FromFirst(w)[i] = i - 1 /\ FromFirst(w)[i] \in Player
<1>1. NumPlayers \in Nat \ {0}
  BY VolleyAssumption
<1>2. Players(w) = Player
  BY DEF Players, World
<1>3. Cardinality(Player) = NumPlayers
  <2>1. 0 \in Int /\ NumPlayers - 1 \in Int
    BY <1>1
  <2>2. Cardinality(0 .. NumPlayers - 1) = IF 0 > NumPlayers - 1 THEN 0 ELSE NumPlayers - 1 - 0 + 1
    BY <2>1, FS_Interval
  <2> QED
    BY <1>1, <2>2 DEF Player
<1>4. FromLast(w) = [i \in 1 .. NumPlayers |-> NumPlayers - i]
  BY <1>2, <1>3 DEF FromLast
<1>5. FromFirst(w) = [i \in 1 .. NumPlayers |-> i - 1]
  <2>1. FromFirst(w) = FromTo(0, NumPlayers - 1)
    BY <1>2, <1>3 DEF FromFirst
  <2>2. (NumPlayers - 1) - 0 + 1 = NumPlayers /\ \A i \in Int : 0 + i - 1 = i - 1
    BY <1>1
  <2> QED
    BY <2>1, <2>2 DEF FromTo
<1> QED
  BY <1>1, <1>2, <1>3, <1>4, <1>5 DEF Player

\* Nothing but one tank changes.
LEMMA TankWith ==
    ASSUME NEW w \in World, NEW p \in Player, NEW t \in TankRec
    PROVE  LET v == [w EXCEPT !.tank[p] = t]
           IN  /\ v \in World /\ v.tank[p] = t /\ \A q \in Player : q # p => v.tank[q] = w.tank[q]
               /\ v.land = w.land /\ v.walls = w.walls /\ v.physics = w.physics /\ v.fast = w.fast
               /\ v.expl = w.expl /\ v.shots = w.shots
<1> DEFINE v == [w EXCEPT !.tank[p] = t]
<1>1. w.tank \in [Player -> TankRec]
  BY DEF World
<1>2. v = [w EXCEPT !.tank = [w.tank EXCEPT ![p] = t]]
  BY DEF World
<1> DEFINE T == [w.tank EXCEPT ![p] = t]
<1>3. T \in [Player -> TankRec] /\ T[p] = t /\ \A q \in Player : q # p => T[q] = w.tank[q]
  BY <1>1
<1>4. v = [w EXCEPT !.tank = T]
  BY <1>2
<1> HIDE DEF T, v
<1>5. v.tank = T /\ v \in World
  BY <1>3, <1>4 DEF World
<1>6. v.land = w.land /\ v.walls = w.walls /\ v.physics = w.physics /\ v.fast = w.fast
      /\ v.expl = w.expl /\ v.shots = w.shots
  BY <1>4 DEF World
<1> QED
  BY <1>3, <1>5, <1>6 DEF v

\* Nothing but tanks changes.
TanksOnly(w, v) == v \in World /\ v = [w EXCEPT !.tank = v.tank]

LEMMA TanksOnlyKeeps ==
    ASSUME NEW w \in World, NEW v, TanksOnly(w, v)
    PROVE  /\ v \in World /\ v.land = w.land
           /\ v.walls = w.walls /\ v.physics = w.physics /\ v.fast = w.fast
           /\ v.expl = w.expl /\ v.shots = w.shots
  BY DEF TanksOnly, World

LEMMA TanksOnlyTwice ==
    ASSUME NEW w \in World, NEW u, NEW v, TanksOnly(w, u), TanksOnly(u, v)
    PROVE  TanksOnly(w, v)
  BY DEF TanksOnly, World

LEMMA OneTankOnly ==
    ASSUME NEW w \in World, NEW p \in Player, NEW t \in TankRec
    PROVE  TanksOnly(w, [w EXCEPT !.tank[p] = t])
<1>1. [w EXCEPT !.tank[p] = t] = [w EXCEPT !.tank = [w.tank EXCEPT ![p] = t]]
  BY DEF World
<1>2. [w EXCEPT !.tank[p] = t] \in World
  BY TankWith
<1> DEFINE T == [w.tank EXCEPT ![p] = t]
<1> HIDE DEF T
<1>3. [w EXCEPT !.tank = T].tank = T
  BY DEF World
<1> QED
  BY <1>1, <1>2, <1>3 DEF TanksOnly, T

\* sc_expl_damage_at_point
LEMMA DamageFromType ==
    ASSUME NEW w, NEW e \in Expl, NEW x1 \in Int, NEW y1 \in Int, NEW x2 \in Int, NEW y2 \in Int
    PROVE  DamageFrom(w, e, x1, y1, x2, y2) \in Nat
<1> DEFINE d == Deltas(w, x1, y1, x2, y2, 1)
           a == e.force * (Square(e.radius) - Square(d.x) - Square(d.y))
           b == Square(e.radius)
<1>1. d.x \in Int /\ d.y \in Int
  <2>1. 1 \in Nat \ {0}
    OBVIOUS
  <2> QED
    BY <2>1, DeltasType
<1>2. e.force \in Nat /\ e.radius \in Nat \ {0}
  BY DEF Expl
<1> HIDE DEF d
<1>3. Square(d.x) \in Int /\ Square(d.y) \in Int
  BY <1>1, Products
<1>4. b \in Nat \ {0}
  BY <1>2, Products DEF Square
<1> HIDE DEF b
<1>5. a \in Int
  <2>1. b - Square(d.x) - Square(d.y) \in Int
    BY <1>3, <1>4
  <2> QED
    BY <1>2, <2>1, Products DEF b
<1> HIDE DEF a
<1>6. Rint(a, b) \in Int
  BY <1>4, <1>5, RintType
<1>7. Max({0, Rint(a, b)}) \in Nat
  <2> DEFINE z == Rint(a, b)
             m == Max({0, z})
  <2>1. z \in Int /\ 0 \in Int
    BY <1>6
  <2> HIDE DEF z
  <2>2. m \in {0, z} /\ m >= 0
    BY <2>1, OfTwo
  <2> HIDE DEF m
  <2>3. m \in Nat
    BY <2>1, <2>2
  <2> QED
    BY <2>3 DEF m, z
<1> QED
  BY <1>7 DEF DamageFrom, Damage, a, b, d

LEMMA DamageType ==
    ASSUME NEW w, NEW e \in Expl, NEW x \in Int, NEW y \in Int
    PROVE  DamageAtPoint(w, e, x, y) \in Nat
<1>1. CASE e.type \in {"normal", "plasma", "spider"}
  <2>1. e.x \in Int /\ e.y \in Int
    BY DEF Expl
  <2>2. DamageAtPoint(w, e, x, y) = DamageFrom(w, e, x, y, e.x, e.y)
    BY <1>1 DEF DamageAtPoint
  <2> QED
    BY <2>1, <2>2, DamageFromType
<1>2. CASE e.type = "napalm"
  <2> DEFINE n == Len(e.spill)
             c == [w |-> w, e |-> e, x |-> x, y |-> y, seq |-> e.spill]
  <2>1. n \in Nat /\ \A i \in 1 .. n : e.spill[i][1] \in Int /\ e.spill[i][2] \in Int
    <3>1. e.spill \in Seq(Columns \X Rows)
      BY DEF Expl
    <3>2. \A i \in 1 .. n : e.spill[i] \in Columns \X Rows
      BY <3>1
    <3> QED
      BY <3>1, <3>2, Sizes
  <2>2. PICK f : IsRun("DamageAtPoint", 0, c, n, f) /\ DamageAtPoint(w, e, x, y) = f[n]
    BY <1>2, <2>1, DamageAtPointLoop
  <2>3. \A s \in Nat, i \in 1 .. n : Step("DamageAtPoint", s, i, c) \in Nat
    <3>1. \A s, i : Step("DamageAtPoint", s, i, c) = s + DamageFrom(w, e, e.spill[i][1], e.spill[i][2], x, y)
      BY DEF Step
    <3>2. \A i \in 1 .. n : DamageFrom(w, e, e.spill[i][1], e.spill[i][2], x, y) \in Nat
      BY <2>1, DamageFromType
    <3> HIDE DEF c, n
    <3> QED
      BY <3>1, <3>2
  <2>4. f[n] \in Nat
    <3> HIDE DEF c, n
    <3> QED
      BY <2>1, <2>2, <2>3, RunKept
  <2> QED
    BY <2>2, <2>4
<1>3. CASE e.type \notin {"normal", "plasma", "spider"} /\ e.type # "napalm"
  BY <1>3 DEF DamageAtPoint
<1> QED
  BY <1>1, <1>2, <1>3

\* Shields.
LEMMA ShieldType ==
    ASSUME NEW s \in Shield, NEW loss \in Nat
    PROVE  /\ (IF s.kind = "none" THEN s ELSE ShieldWith(s, s.life - loss)) \in Shield
           /\ NewShield("standard") \in Shield
<1>1. ShieldLife \in Nat \ {0} /\ "standard" \in ShieldKinds
  BY TanksAssumption DEF ShieldKinds
<1>2. CASE s = NoShield
  BY <1>1, <1>2 DEF NoShield, NewShield, Shield
<1>3. CASE s \in [kind : ShieldKinds, life : 1 .. ShieldLife]
  BY <1>1, <1>3 DEF ShieldWith, NoShield, NewShield, Shield
<1> QED
  BY <1>2, <1>3 DEF Shield

LEMMA ShieldInitTurnType ==
    ASSUME NEW t \in TankRec
    PROVE  /\ ShieldInitTurn(t) \in TankRec
           /\ ShieldInitTurn(t) = [t EXCEPT !.shield = ShieldInitTurn(t).shield]
<1>1. CASE t.shield.kind = "none" \/ ~t.recharger
  BY <1>1 DEF ShieldInitTurn, TankRec
<1>2. CASE ~(t.shield.kind = "none" \/ ~t.recharger)
  <2> DEFINE l == Min({ShieldLife, t.shield.life + Recharge})
             h == [t.shield EXCEPT !.life = l]
  <2>1. t.shield \in [kind : ShieldKinds, life : 1 .. ShieldLife]
    BY <1>2 DEF TankRec, Shield, NoShield
  <2>2. ShieldLife \in Nat \ {0} /\ Recharge \in Nat
    BY TanksAssumption
  <2>3. l \in 1 .. ShieldLife
    <3> DEFINE z == t.shield.life + Recharge
    <3>1. z \in Int /\ z >= 1 /\ ShieldLife \in Int /\ ShieldLife >= 1
      BY <2>1, <2>2
    <3>2. l = Min({ShieldLife, z})
      OBVIOUS
    <3> HIDE DEF z, l
    <3>3. l \in {ShieldLife, z} /\ l <= ShieldLife
      BY <3>1, <3>2, OfTwo
    <3> QED
      BY <3>1, <3>3
  <2> HIDE DEF l
  <2>4. h \in Shield
    BY <2>1, <2>3 DEF Shield
  <2>5. ShieldInitTurn(t) = [t EXCEPT !.shield = h]
    BY <1>2 DEF ShieldInitTurn, l, TankRec
  <2> HIDE DEF h
  <2> QED
    BY <2>4, <2>5 DEF TankRec
<1> QED
  BY <1>1, <1>2

\* Spills: what has been flooded, and the cells still to try.
Try == [x : Int, y : Int, up : BOOLEAN]
Spilling == [cells : Seq(Columns \X Rows), todo : Seq(Try)]

LEMMA SpillAroundType ==
    ASSUME NEW x \in Int, NEW y \in Int, NEW dir \in Int, NEW up \in BOOLEAN
    PROVE  SpillAround(x, y, dir, up) \in Seq(Try)
<1> DEFINE try(dx, dy, u) == [x |-> x + dx, y |-> y + dy, up |-> u]
           first == <<try(0, -1, FALSE), try(dir, -1, FALSE), try(-dir, -1, FALSE),
                      try(dir, 0, FALSE), try(-dir, 0, FALSE)>>
           then == IF up THEN <<try(0, 1, TRUE), try(dir, 1, TRUE), try(-dir, 1, TRUE)>> ELSE <<>>
<1>1. \A dx, dy \in Int, u \in BOOLEAN : try(dx, dy, u) \in Try
  BY DEF Try
<1>2. 0 \in Int /\ -1 \in Int /\ 1 \in Int /\ -dir \in Int
  OBVIOUS
<1>3. SpillAround(x, y, dir, up) = first \o then
  BY DEF SpillAround
<1> HIDE DEF try
<1>4. first \in Seq(Try)
  <2>1. \A a, b, c, d, e \in Try : <<a, b, c, d, e>> \in Seq(Try)
    OBVIOUS
  <2>2. try(0, -1, FALSE) \in Try /\ try(dir, -1, FALSE) \in Try /\ try(-dir, -1, FALSE) \in Try
        /\ try(dir, 0, FALSE) \in Try /\ try(-dir, 0, FALSE) \in Try
    BY <1>1, <1>2
  <2> QED
    BY <2>1, <2>2, Zenon
<1>5. then \in Seq(Try)
  <2>1. (\A a, b, c \in Try : <<a, b, c>> \in Seq(Try)) /\ <<>> \in Seq(Try)
    OBVIOUS
  <2>2. try(0, 1, TRUE) \in Try /\ try(dir, 1, TRUE) \in Try /\ try(-dir, 1, TRUE) \in Try
    BY <1>1, <1>2
  <2>3. <<try(0, 1, TRUE), try(dir, 1, TRUE), try(-dir, 1, TRUE)>> \in Seq(Try)
    BY <2>1, <2>2, Zenon
  <2>4. CASE up
    BY <2>3, <2>4, Zenon
  <2>5. CASE ~up
    BY <2>1, <2>5, Zenon
  <2> QED
    BY <2>4, <2>5
<1> HIDE DEF first, then
<1> QED
  BY <1>3, <1>4, <1>5

\* _sc_spill_try_fill
LEMMA SpillTryType ==
    ASSUME NEW w, NEW s \in Spilling, s.todo # <<>>, NEW size, NEW dir \in Int
    PROVE  SpillTry(w, s, size, dir) \in Spilling
<1> DEFINE t    == Head(s.todo)
           cell == <<TranslateX(w, t.x, 1).at, t.y>>
           wet  == Len(s.cells) < size /\ Sky(w, t.x, t.y) /\ cell \notin ToSet(s.cells)
           more == SpillAround(cell[1], cell[2], dir, t.up)
<1>1. s.cells \in Seq(Columns \X Rows) /\ s.todo \in Seq(Try)
  BY DEF Spilling
<1>2. t \in Try /\ Tail(s.todo) \in Seq(Try)
  BY <1>1
<1>3. t.x \in Int /\ t.y \in Int /\ t.up \in BOOLEAN
  BY <1>2 DEF Try
<1>4. CASE wet
  <2>1. TranslateX(w, t.x, 1).at \in Columns /\ t.y \in Rows
    <3>1. OnField(w, t.x, t.y)
      BY <1>4 DEF Sky
    <3> HIDE DEF t
    <3> QED
      BY <1>3, <3>1, OnFieldType
  <2>2. cell \in Columns \X Rows /\ cell[1] \in Int /\ cell[2] \in Int
    BY <2>1, Sizes
  <2>3. SpillTry(w, s, size, dir) = [cells |-> Append(s.cells, cell), todo |-> more \o Tail(s.todo)]
    BY <1>4 DEF SpillTry
  <2>4. more \in Seq(Try)
    <3> HIDE DEF cell, t
    <3> QED
      BY <1>3, <2>2, SpillAroundType
  <2> HIDE DEF more, cell, t
  <2>5. Append(s.cells, cell) \in Seq(Columns \X Rows) /\ more \o Tail(s.todo) \in Seq(Try)
    BY <1>1, <1>2, <2>2, <2>4
  <2> QED
    BY <2>3, <2>5 DEF Spilling
<1>5. CASE ~wet
  <2>1. SpillTry(w, s, size, dir) = [s EXCEPT !.todo = Tail(@)]
    BY <1>5 DEF SpillTry
  <2> HIDE DEF t
  <2> QED
    BY <1>1, <1>2, <2>1 DEF Spilling
<1> QED
  BY <1>4, <1>5

\* sc_spill_new
LEMMA SpillType ==
    ASSUME NEW w, NEW x \in Int, NEW y \in Int, NEW size \in Nat, NEW dir \in Int
    PROVE  SpillNew(w, x, y, size, dir) \in Seq(Columns \X Rows)
<1> DEFINE n == 8 * (size + 1)
           c == [pit |-> Crater(w, x, y), size |-> size, dir |-> dir]
           s0 == [cells |-> <<>>, todo |-> SpillAround(TranslateX(w, x, 1).at, y - 1, dir, TRUE)]
<1>1. PICK f : IsRun("SpillNew", s0, c, n, f)
               /\ SpillNew(w, x, y, size, dir) = IF OnField(w, x, y) THEN f[n].cells ELSE <<>>
  BY SpillNewLoop
<1>2. s0 \in Spilling
  <2>1. TranslateX(w, x, 1).at \in Int /\ y - 1 \in Int
    BY TranslateXType
  <2>2. SpillAround(TranslateX(w, x, 1).at, y - 1, dir, TRUE) \in Seq(Try)
    BY <2>1, SpillAroundType
  <2>3. <<>> \in Seq(Columns \X Rows)
    OBVIOUS
  <2> HIDE DEF Try
  <2> QED
    BY <2>2, <2>3 DEF Spilling
<1>3. \A s \in Spilling, i \in 1 .. n : Step("SpillNew", s, i, c) \in Spilling
  <2>1. \A s, i : Step("SpillNew", s, i, c) = IF s.todo = <<>> THEN s ELSE SpillTry(c.pit, s, size, dir)
    BY DEF Step
  <2> HIDE DEF c, n
  <2> QED
    BY <2>1, SpillTryType
<1>4. f[n] \in Spilling
  <2>1. n \in Nat
    OBVIOUS
  <2> HIDE DEF c, n, s0
  <2> QED
    BY <1>1, <1>2, <1>3, <2>1, RunKept
<1>5. <<>> \in Seq(Columns \X Rows)
  OBVIOUS
<1> HIDE DEF n, s0, c
<1> QED
  BY <1>1, <1>4, <1>5 DEF Spilling

\* Explosions are added, the land changes below them and nothing else does.
Bursts(w, v) ==
    /\ v \in World
    /\ v.walls = w.walls /\ v.physics = w.physics /\ v.fast = w.fast
    /\ v.shots = w.shots /\ v.tank = w.tank
    /\ v.expl # <<>> \/ v = w

LEMMA BurstsTwice ==
    ASSUME NEW w, NEW u, NEW v, Bursts(w, u), Bursts(u, v)
    PROVE  Bursts(w, v)
  BY DEF Bursts

\* An explosion before it is added.
Planned == [x : Int, y : Int, radius : Nat, force : Nat, playerid : Player,
            type : ExplosionTypes, spill : Seq(Columns \X Rows)]

LEMMA ExplAddType ==
    ASSUME NEW w \in World, NEW e \in Planned
    PROVE  LET v == [w EXCEPT !.expl = ExplAdd(@, e)]
           IN  Bursts(w, v) /\ v.land = w.land
               /\ (e.radius = 0 => v = w) /\ (e.radius > 0 => v.expl # <<>>)
<1> DEFINE v == [w EXCEPT !.expl = ExplAdd(@, e)]
           l == ExplAdd(w.expl, e)
<1>1. w.expl \in Seq(Expl) /\ e.radius \in Nat
  BY DEF World, Planned
<1>2. v = [w EXCEPT !.expl = l]
  BY DEF World
<1>3. CASE e.radius = 0
  <2>1. l = w.expl
    BY <1>3 DEF ExplAdd
  <2>2. v = w
    BY <1>2, <2>1 DEF World
  <2> QED
    BY <1>3, <2>2 DEF Bursts
<1>4. CASE e.radius > 0
  <2>1. e \in Expl
    BY <1>1, <1>4 DEF Expl, Planned
  <2>2. l \in Seq(Expl) /\ l # <<>>
    BY <1>1, <1>4, <2>1 DEF ExplAdd
  <2> HIDE DEF l, v
  <2>3. v \in World /\ v.expl = l /\ v.land = w.land /\ v.walls = w.walls /\ v.physics = w.physics
        /\ v.fast = w.fast /\ v.shots = w.shots /\ v.tank = w.tank
    BY <1>2, <2>2 DEF World
  <2> QED
    BY <1>1, <1>4, <2>2, <2>3 DEF Bursts, v
<1> QED
  BY <1>1, <1>3, <1>4

LEMMA CraterType ==
    ASSUME NEW w \in World, NEW x \in Int, NEW y \in Int
    PROVE  LandOnly(w, Crater(w, x, y))
<1>1. {<<x, y>>} \in SUBSET (Int \X Int)
  OBVIOUS
<1> QED
  BY <1>1, PointsType DEF Crater

LEMMA AddBlastType ==
    ASSUME NEW w \in World, NEW e \in Planned, NEW liquid \in Nat, NEW dir \in Int
    PROVE  LET v == AddBlast(w, e, liquid, dir)
           IN  Bursts(w, v) /\ (e.radius = 0 => v = w) /\ (e.radius > 0 => v.expl # <<>>)
<1>0. e.radius \in Nat /\ e.x \in Int /\ e.y \in Int
  BY DEF Planned
<1>1. CASE e.type \in Liquids /\ e.radius > 0
  <2> DEFINE spill == SpillNew(w, e.x, e.y, liquid, dir)
             d == [e EXCEPT !.spill = spill]
             u == Crater(w, e.x, e.y)
             v == [u EXCEPT !.expl = ExplAdd(@, d)]
  <2>1. AddBlast(w, e, liquid, dir) = v
    BY <1>1 DEF AddBlast
  <2>2. spill \in Seq(Columns \X Rows)
    BY <1>0, SpillType
  <2> HIDE DEF spill
  <2>3. d \in Planned /\ d.radius = e.radius
    BY <2>2 DEF Planned
  <2> HIDE DEF d
  <2>4. LandOnly(w, u)
    BY <1>0, CraterType
  <2>5. u \in World /\ u.walls = w.walls /\ u.physics = w.physics /\ u.fast = w.fast
        /\ u.shots = w.shots /\ u.tank = w.tank
    BY <2>4, LandOnlyKeeps
  <2> HIDE DEF u
  <2>6. Bursts(u, v) /\ v.expl # <<>>
    BY <1>1, <2>3, <2>5, ExplAddType
  <2> HIDE DEF v
  <2> QED
    BY <1>0, <1>1, <2>1, <2>5, <2>6 DEF Bursts
<1>2. CASE ~(e.type \in Liquids /\ e.radius > 0)
  <2>1. AddBlast(w, e, liquid, dir) = [w EXCEPT !.expl = ExplAdd(@, e)]
    BY <1>2 DEF AddBlast
  <2> QED
    BY <2>1, ExplAddType
<1> QED
  BY <1>1, <1>2

\* A new explosion.
LEMMA ExplNewType ==
    ASSUME NEW x \in Int, NEW y \in Int, NEW radius \in Nat, NEW force \in Nat, NEW p \in Player,
           NEW type \in ExplosionTypes
    PROVE  /\ ExplNew(x, y, radius, force, p, type) \in Planned
           /\ radius > 0 => ExplNew(x, y, radius, force, p, type) \in Expl
           /\ ExplNew(x, y, radius, force, p, type).radius = radius
<1>1. <<>> \in Seq(Columns \X Rows)
  OBVIOUS
<1> QED
  BY <1>1 DEF ExplNew, Planned, Expl

\* What an explosion does to the land.
LEMMA BlastedType ==
    ASSUME NEW e \in Expl
    PROVE  Blasted(e) \in SUBSET (Int \X Int)
<1>1. e.x \in Int /\ e.y \in Int /\ e.radius \in Nat
  BY DEF Expl
<1>2. \A d \in Circle(e.radius) : d[1] \in Int /\ d[2] \in Int
  BY <1>1 DEF Circle
<1> QED
  BY <1>1, <1>2 DEF Blasted

LEMMA AnnihilateType ==
    ASSUME NEW w \in World, NEW e \in Expl
    PROVE  LandOnly(w, Annihilate(w, e)) /\ LandOnly(w, AnnihilateDone(w, e))
<1>1. LandOnly(w, w)
  BY DEF LandOnly, World
<1>2. LandOnly(w, AnnihilateFill(w, e)) /\ LandOnly(w, AnnihilateClear(w, e))
  BY BlastedType, PointsType DEF AnnihilateFill, AnnihilateClear
<1>3. LandOnly(w, CreateDirt(w, ToSet(e.spill)))
  <2>1. e.spill \in Seq(Columns \X Rows)
    BY DEF Expl
  <2>2. ToSet(e.spill) \in SUBSET (Int \X Int)
    <3>1. \A c \in ToSet(e.spill) : c \in Columns \X Rows
      BY <2>1 DEF ToSet
    <3> QED
      BY <3>1, Sizes
  <2> QED
    BY <2>2, PointsType
<1> QED
  BY <1>1, <1>2, <1>3 DEF Annihilate, AnnihilateDone

\* sc_player_death
LEMMA PlayerDeathType ==
    ASSUME NEW w \in World, NEW p \in Player, w.tank[p].killedby \in Player, NEW draw \in Draw
    PROVE  Bursts(w, PlayerDeath(w, p, draw))
<1> DEFINE t == w.tank[p]
           blast(b, type) == ExplNew(t.x, t.y, b.radius, b.force, t.killedby, type)
           stages == <<blast(SmallBlast, "normal"), blast(MediumBlast, "normal"), blast(LargeBlast, "plasma")>>
<1>1. t.x \in Int /\ t.y \in Int
  <2>1. t \in TankRec
    BY DEF World
  <2> QED
    BY <2>1, Sizes DEF TankRec
<1>2. draw.stages \in 0 .. 3 /\ draw.dir \in Int
  BY DEF Draw
<1>3. \A b \in {SmallBlast, MediumBlast, LargeBlast, NapalmBlast} : b.radius \in Nat \ {0} /\ b.force \in Nat
  BY BlastAssumption
<1>4. CASE draw.stages = 0
  <2> DEFINE e == blast(NapalmBlast, "napalm")
  <2>1. PlayerDeath(w, p, draw) = AddBlast(w, e, NapalmLiquid, draw.dir)
    BY <1>4 DEF PlayerDeath
  <2>2. e \in Planned
    <3> HIDE DEF t
    <3>1. NapalmBlast.radius \in Nat /\ NapalmBlast.force \in Nat /\ "napalm" \in ExplosionTypes
      BY <1>3 DEF ExplosionTypes
    <3>2. t.killedby \in Player
      BY DEF t
    <3> QED
      BY <1>1, <3>1, <3>2, ExplNewType
  <2>3. NapalmLiquid \in Nat
    BY BlastAssumption
  <2> HIDE DEF e
  <2> QED
    BY <1>2, <2>1, <2>2, <2>3, AddBlastType
<1>5. CASE draw.stages # 0
  <2>1. PlayerDeath(w, p, draw) = [w EXCEPT !.expl = @ \o SubSeq(stages, 1, draw.stages)]
    BY <1>5 DEF PlayerDeath
  <2>2. stages \in Seq(Expl) /\ Len(stages) = 3
    <3> DEFINE a == blast(SmallBlast, "normal")
               b == blast(MediumBlast, "normal")
               c == blast(LargeBlast, "plasma")
    <3>1. {"normal", "plasma"} \subseteq ExplosionTypes
      BY DEF ExplosionTypes
    <3>2. t.killedby \in Player
      OBVIOUS
    <3>3. a \in Expl /\ b \in Expl /\ c \in Expl
      <4> HIDE DEF t
      <4>1. /\ SmallBlast.radius \in Nat /\ SmallBlast.radius > 0 /\ SmallBlast.force \in Nat
            /\ MediumBlast.radius \in Nat /\ MediumBlast.radius > 0 /\ MediumBlast.force \in Nat
            /\ LargeBlast.radius \in Nat /\ LargeBlast.radius > 0 /\ LargeBlast.force \in Nat
        BY <1>3
      <4> QED
        BY <1>1, <3>1, <3>2, <4>1, ExplNewType
    <3> HIDE DEF a, b, c
    <3>4. <<a, b, c>> \in Seq(Expl) /\ Len(<<a, b, c>>) = 3
      BY <3>3
    <3> QED
      BY <3>4 DEF a, b, c
  <2> DEFINE more == SubSeq(stages, 1, draw.stages)
             l == w.expl \o more
             v == PlayerDeath(w, p, draw)
  <2> HIDE DEF stages
  <2>3. more \in Seq(Expl) /\ Len(more) = draw.stages
    <3> DEFINE k == draw.stages
    <3>1. k \in 1 .. 3
      BY <1>2, <1>5
    <3>2. \A i \in 1 .. k : stages[i] \in Expl
      <4> HIDE DEF k
      <4>1. ASSUME NEW i \in 1 .. k PROVE i \in 1 .. Len(stages)
        BY <2>2, <3>1
      <4> QED
        BY <2>2, <4>1, ElementOfSeq
    <3>3. more = SubSeq(stages, 1, k)
      OBVIOUS
    <3> HIDE DEF k, more
    <3>4. more \in Seq(Expl) /\ Len(more) = IF 1 <= k THEN k - 1 + 1 ELSE 0
      BY <3>1, <3>2, <3>3, SubSeqProperties
    <3> QED
      BY <3>1, <3>4 DEF k
  <2>4. w.expl \in Seq(Expl)
    BY DEF World
  <2>5. v = [w EXCEPT !.expl = l]
    BY <2>1
  <2> HIDE DEF more
  <2>6. l \in Seq(Expl) /\ Len(l) > 0
    BY <1>2, <1>5, <2>3, <2>4
  <2>7. l # <<>>
    BY <2>6
  <2> HIDE DEF l, v
  <2>8. v \in World /\ v.expl = l /\ v.walls = w.walls /\ v.physics = w.physics
        /\ v.fast = w.fast /\ v.shots = w.shots /\ v.tank = w.tank
    BY <2>5, <2>6 DEF World
  <2> QED
    BY <2>7, <2>8 DEF Bursts, v
<1> QED
  BY <1>4, <1>5

\* Each death has been credited once.
Lifeless(w) == {p \in Player : w.tank[p].life = 0}
Victims(w, p) == {q \in Lifeless(w) : w.tank[q].killedby = p}
Scored(w) ==
    \A p \in Player :
        /\ w.tank[p].kills = Cardinality(Victims(w, p) \ {p})
        /\ w.tank[p].suicides = Cardinality(Victims(w, p) \cap {p})
        /\ w.tank[p].killedby \in (IF p \in Lifeless(w) THEN Player ELSE {Nobody})

\* The score goes with these.
SameScore(w, v) ==
    /\ Lifeless(v) = Lifeless(w)
    /\ \A q \in Player : /\ v.tank[q].killedby = w.tank[q].killedby
                         /\ v.tank[q].kills = w.tank[q].kills
                         /\ v.tank[q].suicides = w.tank[q].suicides

LEMMA ScoreKept ==
    ASSUME NEW w, NEW v, SameScore(w, v), Scored(w)
    PROVE  Scored(v)
<1>1. ASSUME NEW p \in Player PROVE Victims(v, p) = Victims(w, p)
  <2>1. \A q \in Lifeless(w) : q \in Player
    BY DEF Lifeless
  <2> QED
    BY <2>1 DEF SameScore, Victims
<1> HIDE DEF Victims
<1> QED
  BY <1>1 DEF Scored, SameScore

\* What an explosion does to tanks: they keep their places, and no life comes back.
Hurts(w, v) ==
    /\ TanksOnly(w, v)
    /\ \A q \in Player : /\ v.tank[q].x = w.tank[q].x /\ v.tank[q].y = w.tank[q].y
                         /\ v.tank[q].dead = w.tank[q].dead
                         /\ w.tank[q].life = 0 => v.tank[q].life = 0

LEMMA HurtsTwice ==
    ASSUME NEW w \in World, NEW u, NEW v, Hurts(w, u), Hurts(u, v)
    PROVE  Hurts(w, v)
<1>1. TanksOnly(w, v)
  BY TanksOnlyTwice DEF Hurts
<1> QED
  BY <1>1 DEF Hurts

\* One tank is hurt and keeps its life.
LEMMA TankHurt ==
    ASSUME NEW w \in World, NEW p \in Player, NEW t \in TankRec, Scored(w),
           t.x = w.tank[p].x, t.y = w.tank[p].y, t.dead = w.tank[p].dead,
           t.life = 0 <=> w.tank[p].life = 0,
           t.killedby = w.tank[p].killedby, t.kills = w.tank[p].kills, t.suicides = w.tank[p].suicides
    PROVE  LET v == [w EXCEPT !.tank[p] = t] IN Hurts(w, v) /\ Scored(v)
<1> DEFINE v == [w EXCEPT !.tank[p] = t]
<1>1. TanksOnly(w, v) /\ v.tank[p] = t /\ \A q \in Player : q # p => v.tank[q] = w.tank[q]
  BY OneTankOnly, TankWith
<1> HIDE DEF v
<1>2. Hurts(w, v)
  BY <1>1 DEF Hurts
<1>3. SameScore(w, v)
  BY <1>1 DEF SameScore, Lifeless
<1> QED
  BY <1>2, <1>3, ScoreKept DEF v

LEMMA UnabsorbedType ==
    ASSUME NEW t \in TankRec, NEW e, NEW force \in Nat
    PROVE  Unabsorbed(t, e, force) \in Nat
<1>1. t.shield \in Shield
  BY DEF TankRec
<1>2. t.shield.kind = "none" \/ t.shield.life \in Nat
  BY <1>1, TanksAssumption DEF Shield, NoShield
<1> QED
  BY <1>2 DEF Unabsorbed

LEMMA AutoShieldType ==
    ASSUME NEW t \in TankRec
    PROVE  /\ AutoShield(t) \in TankRec
           /\ AutoShield(t).x = t.x /\ AutoShield(t).y = t.y /\ AutoShield(t).dead = t.dead
           /\ AutoShield(t).life = t.life /\ AutoShield(t).killedby = t.killedby
           /\ AutoShield(t).kills = t.kills /\ AutoShield(t).suicides = t.suicides
<1> DEFINE n == NewShield("standard")
           m == t.spare - 1
<1>1. n \in Shield
  BY TanksAssumption DEF NewShield, Shield, ShieldKinds
<1>2. CASE t.spare > 0
  <2>1. AutoShield(t) = [t EXCEPT !.shield = n, !.spare = m]
    BY <1>2 DEF AutoShield, TankRec
  <2>2. m \in Nat
    BY <1>2 DEF TankRec
  <2> HIDE DEF n, m
  <2> QED
    BY <1>1, <2>1, <2>2 DEF TankRec
<1>3. CASE ~(t.spare > 0)
  BY <1>3 DEF AutoShield
<1> QED
  BY <1>2, <1>3

\* The credit for the last life of a tank.
LEMMA CreditType ==
    ASSUME NEW w \in World, Scored(w), NEW p \in Player, NEW killer \in Player, w.tank[p].life # 0,
           NEW hit \in TankRec, hit.x = w.tank[p].x, hit.y = w.tank[p].y, hit.dead = w.tank[p].dead,
           hit.kills = w.tank[p].kills, hit.suicides = w.tank[p].suicides,
           hit.life = 0, hit.killedby = killer
    PROVE  LET v == Credit([w EXCEPT !.tank[p] = hit], p, killer) IN Hurts(w, v) /\ Scored(v)
<1> DEFINE u == [w EXCEPT !.tank[p] = hit]
           v == Credit(u, p, killer)
<1>1. TanksOnly(w, u) /\ u \in World /\ u.tank[p] = hit /\ \A q \in Player : q # p => u.tank[q] = w.tank[q]
  BY OneTankOnly, TankWith
<1> HIDE DEF u
<1>2. Hurts(w, u)
  BY <1>1 DEF Hurts
<1>3. Lifeless(u) = Lifeless(w) \cup {p} /\ p \notin Lifeless(w)
  BY <1>1 DEF Lifeless
<1>4. ASSUME NEW q \in Player
      PROVE  Victims(u, q) = Victims(w, q) \cup (IF q = killer THEN {p} ELSE {})
  <2>1. \A k \in Lifeless(w) : k \in Player /\ k # p
    BY <1>3 DEF Lifeless
  <2> QED
    BY <1>1, <1>3, <2>1 DEF Victims
<1>5. \A q \in Player : p \notin Victims(w, q) /\ IsFiniteSet(Victims(w, q))
  <2>1. IsFiniteSet(Player)
    <3>1. 0 \in Int /\ NumPlayers - 1 \in Int
      BY VolleyAssumption
    <3> QED
      BY <3>1, FS_Interval DEF Player
  <2>2. \A q \in Player : Victims(w, q) \subseteq Player /\ p \notin Victims(w, q)
    BY <1>3 DEF Victims, Lifeless
  <2> QED
    BY <2>1, <2>2, FS_Subset
\* In the end the killer has one more death to its name.
<1> DEFINE T == IF killer = p THEN [u.tank[p] EXCEPT !.suicides = @ + 1] ELSE [u.tank[killer] EXCEPT !.kills = @ + 1]
<1>6. u.tank[killer] \in TankRec
  BY <1>1 DEF World
<1>7. v = [u EXCEPT !.tank[killer] = T]
  BY <1>1 DEF Credit, World
<1>8. /\ T \in TankRec /\ T.x = u.tank[killer].x /\ T.y = u.tank[killer].y
      /\ T.dead = u.tank[killer].dead /\ T.life = u.tank[killer].life /\ T.killedby = u.tank[killer].killedby
      /\ killer = p => T.suicides = u.tank[p].suicides + 1 /\ T.kills = u.tank[p].kills
      /\ killer # p => T.kills = u.tank[killer].kills + 1 /\ T.suicides = u.tank[killer].suicides
  BY <1>6 DEF TankRec
<1> HIDE DEF T, v
<1>9. TanksOnly(u, v) /\ v.tank[killer] = T /\ \A q \in Player : q # killer => v.tank[q] = u.tank[q]
  BY <1>1, <1>7, <1>8, OneTankOnly, TankWith
<1>10. Hurts(u, v)
  BY <1>8, <1>9 DEF Hurts
<1>11. Lifeless(v) = Lifeless(u) /\ \A q \in Player : v.tank[q].killedby = u.tank[q].killedby
  BY <1>8, <1>9 DEF Lifeless
<1>12. ASSUME NEW q \in Player PROVE Victims(v, q) = Victims(u, q)
  <2>1. \A k \in Lifeless(u) : k \in Player
    BY DEF Lifeless
  <2> QED
    BY <1>11, <2>1 DEF Victims
<1>13. ASSUME NEW q \in Player
       PROVE  /\ v.tank[q].kills = Cardinality(Victims(v, q) \ {q})
              /\ v.tank[q].suicides = Cardinality(Victims(v, q) \cap {q})
  <2> DEFINE V == Victims(w, q)
  <2>1. w.tank[q].kills = Cardinality(V \ {q}) /\ w.tank[q].suicides = Cardinality(V \cap {q})
    BY DEF Scored
  <2>2. u.tank[q].kills = w.tank[q].kills /\ u.tank[q].suicides = w.tank[q].suicides
    BY <1>1
  <2>3. Victims(v, q) = V \cup (IF q = killer THEN {p} ELSE {}) /\ p \notin V /\ IsFiniteSet(V)
    BY <1>4, <1>5, <1>12
  <2> HIDE DEF V
  <2>4. CASE q # killer
    <3>1. v.tank[q] = u.tank[q] /\ Victims(v, q) = V
      BY <1>9, <2>3, <2>4
    <3> QED
      BY <2>1, <2>2, <3>1
  <2>5. CASE q = killer /\ killer = p
    <3>1. Victims(v, q) \ {q} = V \ {q} /\ Victims(v, q) \cap {q} = (V \cap {q}) \cup {p} /\ p \notin V \cap {q}
      BY <2>3, <2>5
    <3>2. Cardinality((V \cap {q}) \cup {p}) = Cardinality(V \cap {q}) + 1
      <4>1. IsFiniteSet(V \cap {q})
        BY <2>3, FS_Subset
      <4> QED
        BY <3>1, <4>1, FS_AddElement
    <3>3. v.tank[q] = T /\ T.suicides = u.tank[q].suicides + 1 /\ T.kills = u.tank[q].kills
      BY <1>8, <1>9, <2>5
    <3> QED
      BY <2>1, <2>2, <3>1, <3>2, <3>3
  <2>6. CASE q = killer /\ killer # p
    <3>1. Victims(v, q) \ {q} = (V \ {q}) \cup {p} /\ Victims(v, q) \cap {q} = V \cap {q} /\ p \notin V \ {q}
      BY <2>3, <2>6
    <3>2. Cardinality((V \ {q}) \cup {p}) = Cardinality(V \ {q}) + 1
      <4>1. IsFiniteSet(V \ {q})
        BY <2>3, FS_Subset
      <4> QED
        BY <3>1, <4>1, FS_AddElement
    <3>3. v.tank[q] = T /\ T.kills = u.tank[q].kills + 1 /\ T.suicides = u.tank[q].suicides
      BY <1>8, <1>9, <2>6
    <3> QED
      BY <2>1, <2>2, <3>1, <3>2, <3>3
  <2> QED
    BY <2>4, <2>5, <2>6
<1>14. ASSUME NEW q \in Player
       PROVE  v.tank[q].killedby \in (IF q \in Lifeless(v) THEN Player ELSE {Nobody})
  <2>1. w.tank[q].killedby \in (IF q \in Lifeless(w) THEN Player ELSE {Nobody})
    BY DEF Scored
  <2>2. CASE q = p
    <3>1. v.tank[q].killedby = killer
      BY <1>1, <1>11, <2>2
    <3> QED
      BY <1>3, <1>11, <2>2, <3>1
  <2>3. CASE q # p
    <3>1. v.tank[q].killedby = w.tank[q].killedby /\ (q \in Lifeless(v) <=> q \in Lifeless(w))
      BY <1>1, <1>3, <1>11, <2>3
    <3> QED
      BY <2>1, <3>1
  <2> QED
    BY <2>2, <2>3
<1>15. Scored(v)
  BY <1>13, <1>14 DEF Scored
<1>16. Hurts(w, v)
  BY <1>2, <1>10, HurtsTwice
<1> QED
  BY <1>15, <1>16 DEF v, u

\* _sc_player_damage
LEMMA WoundType ==
    ASSUME NEW w \in World, Scored(w), NEW p \in Player, NEW e \in Expl, NEW force \in Nat
    PROVE  Hurts(w, Wound(w, p, e, force)) /\ Scored(Wound(w, p, e, force))
<1> DEFINE t    == w.tank[p]
           loss == Unabsorbed(t, e, force)
           left == t.life - loss
           hit  == [t EXCEPT !.shield = IF @.kind = "none" THEN @ ELSE ShieldWith(@, @.life - force)]
<1>1. t \in TankRec
  BY DEF World
<1>2. loss \in Nat
  BY <1>1, UnabsorbedType
<1>3. t.life \in 0 .. FullLife /\ FullLife \in Nat /\ t.shield \in Shield
  BY <1>1, TanksAssumption DEF TankRec
<1>4. /\ hit \in TankRec /\ hit.x = t.x /\ hit.y = t.y /\ hit.dead = t.dead /\ hit.life = t.life
      /\ hit.killedby = t.killedby /\ hit.kills = t.kills /\ hit.suicides = t.suicides
  <2> DEFINE s == t.shield
             h == IF s.kind = "none" THEN s ELSE ShieldWith(s, s.life - force)
  <2>1. h \in Shield
    <3> HIDE DEF s
    <3>1. s \in Shield
      BY <1>3 DEF s
    <3> QED
      BY <3>1, ShieldType
  <2>2. hit = [t EXCEPT !.shield = h]
    BY <1>1 DEF TankRec
  <2> HIDE DEF h, hit
  <2> QED
    BY <1>1, <2>1, <2>2 DEF TankRec
<1>5. CASE ~Alive(t) \/ force <= 0
  <2>1. Wound(w, p, e, force) = w
    BY <1>5 DEF Wound
  <2> QED
    BY <2>1 DEF Hurts, TanksOnly, World
<1>6. CASE ~(~Alive(t) \/ force <= 0) /\ loss <= 0
  <2>1. Wound(w, p, e, force) = [w EXCEPT !.tank[p] = hit]
    BY <1>6 DEF Wound
  <2> HIDE DEF hit
  <2> QED
    BY <1>4, <2>1, TankHurt
<1>7. CASE ~(~Alive(t) \/ force <= 0) /\ ~(loss <= 0) /\ left > 0
  <2> DEFINE h == [hit EXCEPT !.life = left]
  <2>1. Wound(w, p, e, force) = [w EXCEPT !.tank[p] = AutoShield(h)]
    BY <1>7 DEF Wound
  <2>2. left \in 0 .. FullLife /\ left # 0
    BY <1>2, <1>3, <1>7
  <2> HIDE DEF hit, loss, left
  <2>3. /\ h \in TankRec /\ h.x = t.x /\ h.y = t.y /\ h.dead = t.dead /\ h.life = left
        /\ h.killedby = t.killedby /\ h.kills = t.kills /\ h.suicides = t.suicides
    BY <1>4, <2>2 DEF TankRec
  <2>4. t.life # 0
    BY <1>3, <1>7 DEF Alive
  <2> HIDE DEF h
  <2> DEFINE a == AutoShield(h)
  <2>5. /\ a \in TankRec /\ a.x = t.x /\ a.y = t.y /\ a.dead = t.dead /\ a.life = left
        /\ a.killedby = t.killedby /\ a.kills = t.kills /\ a.suicides = t.suicides
    BY <2>3, AutoShieldType
  <2> HIDE DEF a
  <2>6. Wound(w, p, e, force) = [w EXCEPT !.tank[p] = a]
    BY <2>1 DEF a
  <2> QED
    BY <2>2, <2>4, <2>5, <2>6, TankHurt
<1>8. CASE ~(~Alive(t) \/ force <= 0) /\ ~(loss <= 0) /\ ~(left > 0)
  <2> DEFINE h == [hit EXCEPT !.life = 0, !.killedby = e.playerid]
  <2>1. Wound(w, p, e, force) = Credit([w EXCEPT !.tank[p] = h], p, e.playerid)
    BY <1>8 DEF Wound
  <2>2. e.playerid \in Player
    BY DEF Expl
  <2> HIDE DEF hit, loss, left
  <2>3. /\ h \in TankRec /\ h.x = t.x /\ h.y = t.y /\ h.dead = t.dead /\ h.life = 0
        /\ h.killedby = e.playerid /\ h.kills = t.kills /\ h.suicides = t.suicides
    <3> DEFINE k == e.playerid
    <3>1. k \in Player /\ 0 \in 0 .. FullLife
      BY <1>3, <2>2
    <3>2. h = [hit EXCEPT !.life = 0, !.killedby = k]
      OBVIOUS
    <3> HIDE DEF k, h, t
    <3>3. /\ h \in TankRec /\ h.x = hit.x /\ h.y = hit.y /\ h.dead = hit.dead /\ h.life = 0
          /\ h.killedby = k /\ h.kills = hit.kills /\ h.suicides = hit.suicides
      BY <1>4, <3>1, <3>2 DEF TankRec
    <3> QED
      BY <1>4, <3>3 DEF k
  <2>4. t.life # 0
    BY <1>3, <1>8 DEF Alive
  <2> HIDE DEF h
  <2> QED
    BY <2>1, <2>2, <2>3, <2>4, CreditType
<1> QED
  BY <1>5, <1>6, <1>7, <1>8

\* sc_player_damage_all
LEMMA DamageAllType ==
    ASSUME NEW w \in World, Scored(w), NEW e \in Expl
    PROVE  Hurts(w, DamageAll(w, e)) /\ Scored(DamageAll(w, e))
<1> DEFINE n == NumPlayers
           c == [e |-> e, seq |-> FromLast(w)]
           S == {v \in World : Hurts(w, v) /\ Scored(v)}
<1>1. n \in Nat /\ Len(FromLast(w)) = n /\ \A i \in 1 .. n : FromLast(w)[i] \in Player
  BY PlayersType
<1>2. PICK f : IsRun("DamageAll", w, c, n, f) /\ DamageAll(w, e) = f[n]
  BY <1>1, DamageAllLoop
<1>3. w \in S
  BY DEF Hurts, TanksOnly, World
<1>4. ASSUME NEW s \in S, NEW i \in 1 .. n PROVE Step("DamageAll", s, i, c) \in S
  <2> DEFINE p == FromLast(w)[i]
             force == DamageAtPoint(s, e, s.tank[p].x, s.tank[p].y)
             v == Wound(s, p, e, force)
  <2>1. Step("DamageAll", s, i, c) = v
    BY DEF Step, DamageTank
  <2>2. p \in Player
    BY <1>1
  <2> HIDE DEF p
  <2>3. s.tank[p] \in TankRec
    BY <2>2 DEF World
  <2>4. s.tank[p].x \in Int /\ s.tank[p].y \in Int
    BY <2>3, Sizes DEF TankRec
  <2>5. force \in Nat
    BY <2>4, DamageType
  <2> HIDE DEF force
  <2>6. Hurts(s, v) /\ Scored(v)
    BY <2>2, <2>5, WoundType
  <2> HIDE DEF v
  <2>7. Hurts(w, v) /\ v \in World
    BY <2>6, HurtsTwice DEF Hurts, TanksOnly
  <2> QED
    BY <2>1, <2>6, <2>7
<1>5. f[n] \in S
  <2> HIDE DEF c, n, S
  <2> QED
    BY <1>1, <1>2, <1>3, <1>4, RunKept
<1> QED
  BY <1>2, <1>5

-----------------------------------------------------------------------------
(* Falling and driving.                                                    *)

\* Every tank has a place on the field.
OnX(w, x) == TranslateX(w, x, 1).ok
Placed(w) == \A q \in Player : OnX(w, w.tank[q].x)

\* A profile fits only where its middle is on the field.
LEMMA PassableOnField ==
    ASSUME NEW w, NEW p, NEW x \in Int, NEW y \in Int, Passable(w, p, x, y)
    PROVE  OnField(w, x, y)
<1>1. <<0, 0>> \in Profile
  <2>1. Opaque(0, 0)
    <3>1. Radius * Radius \in Nat
      BY Sizes, Products
    <3> QED
      BY <3>1 DEF Opaque
  <2>2. 0 \in -Radius .. Radius /\ 0 \in 0 .. Radius
    BY Sizes
  <2> QED
    BY <2>1, <2>2 DEF Profile
<1>2. <<x + 0, y + 0>> \in ProfileAt(x, y)
  BY <1>1 DEF ProfileAt
<1>3. <<x, y>> \in ProfileAt(x, y)
  BY <1>2
<1>4. PassablePoint(w, p, x, y)
  <2> DEFINE P == ProfileAt(x, y)
             point == <<x, y>>
  <2>1. point \in P /\ \A q \in P : PassablePoint(w, p, q[1], q[2])
    BY <1>3 DEF Passable
  <2>2. PassablePoint(w, p, point[1], point[2])
    <3> HIDE DEF P, point
    <3> QED
      BY <2>1
  <2> QED
    BY <2>2
<1> QED
  BY <1>4 DEF PassablePoint, Sky

\* sc_land_support
LEMMA SupportType ==
    ASSUME NEW w, NEW x \in Int, NEW y \in Int
    PROVE  Support(w, x, y) \in Int
<1>1. ASSUME NEW side \in {-1, 1} PROVE SupportShift(w, x, y - 1, side) \in Int
  <2> DEFINE E == ShelfEdge(w, x, y - 1, side)
             S == {0} \cup {k + 1 : k \in {i \in 0 .. ShelfSize - 2 : ~Free(w, x, y - 1, side, i)}}
  <2>1. S \in SUBSET (0 .. ShelfSize) /\ S # {}
    BY Sizes
  <2>2. E = Max(S)
    BY DEF ShelfEdge
  <2>3. E \in Int
    <3> HIDE DEF S, E
    <3>1. 0 \in Int /\ ShelfSize \in Int
      BY Sizes
    <3>2. Max(S) \in S
      BY <2>1, <3>1, Extremes
    <3>3. \A k \in 0 .. ShelfSize : k \in Int
      OBVIOUS
    <3>4. Max(S) \in 0 .. ShelfSize
      BY <2>1, <3>2
    <3> QED
      BY <2>2, <3>3, <3>4
  <2>4. side * E \in Int
    <3> HIDE DEF E
    <3> QED
      BY <2>3
  <2> HIDE DEF E
  <2>5. SupportShift(w, x, y - 1, side) = ShiftTo(w, x, y - 1, side, E)
    BY DEF SupportShift, E
  <2> QED
    BY <2>4, <2>5 DEF ShiftTo
<1>2. SupportShift(w, x, y - 1, 1) \in Int /\ SupportShift(w, x, y - 1, -1) \in Int
  BY <1>1
<1> QED
  BY <1>2 DEF Support, OneOf

LEMMA FallDepthType ==
    ASSUME NEW w, NEW p, NEW most \in Nat
    PROVE  /\ FallDepth(w, p, most) \in 0 .. most
           /\ \A j \in 1 .. FallDepth(w, p, most) : Passable(w, p, w.tank[p].x, w.tank[p].y - j)
<1> DEFINE S == {k \in 0 .. most : \A j \in 1 .. k : Passable(w, p, w.tank[p].x, w.tank[p].y - j)}
<1>1. 0 \in S /\ S \in SUBSET (0 .. most)
  OBVIOUS
<1>2. FallDepth(w, p, most) = Max(S)
  BY DEF FallDepth
<1>3. Max(S) \in S
  <2> HIDE DEF S
  <2>1. 0 \in Int /\ most \in Int /\ S # {}
    BY <1>1
  <2> QED
    BY <1>1, <2>1, Extremes
<1> QED
  BY <1>2, <1>3

\* What falling does: tanks come down, and stay on the field.
NotHigher(t, h) ==
    /\ h.y <= t.y /\ h.life = t.life /\ h.dead = t.dead
    /\ h.killedby = t.killedby /\ h.kills = t.kills /\ h.suicides = t.suicides
Sinks(w, v) ==
    /\ TanksOnly(w, v)
    /\ \A q \in Player : NotHigher(w.tank[q], v.tank[q])
    /\ Placed(w) => Placed(v)
Lowered(w, v) == \E q \in Player : v.tank[q].y < w.tank[q].y

LEMMA SinksNot ==
    ASSUME NEW w \in World
    PROVE  Sinks(w, w)
<1>1. ASSUME NEW q \in Player PROVE NotHigher(w.tank[q], w.tank[q])
  <2>1. w.tank[q] \in TankRec
    BY DEF World
  <2>2. w.tank[q].y \in Int
    BY <2>1, Sizes DEF TankRec
  <2> QED
    BY <2>2 DEF NotHigher
<1>2. TanksOnly(w, w)
  BY DEF TanksOnly, World
<1> QED
  BY <1>1, <1>2 DEF Sinks

LEMMA SinksTwice ==
    ASSUME NEW w \in World, NEW u, NEW v, Sinks(w, u), Sinks(u, v)
    PROVE  Sinks(w, v) /\ (Lowered(w, u) \/ Lowered(u, v) => Lowered(w, v))
<1>1. u \in World /\ v \in World /\ TanksOnly(w, v)
  BY TanksOnlyTwice DEF Sinks, TanksOnly
<1>2. ASSUME NEW q \in Player
      PROVE  /\ NotHigher(w.tank[q], v.tank[q])
             /\ v.tank[q].y < u.tank[q].y \/ u.tank[q].y < w.tank[q].y => v.tank[q].y < w.tank[q].y
  <2> DEFINE a == w.tank[q]
             b == u.tank[q]
             c == v.tank[q]
  <2>1. a \in TankRec /\ b \in TankRec /\ c \in TankRec
    BY <1>1 DEF World
  <2>2. NotHigher(a, b) /\ NotHigher(b, c)
    BY DEF Sinks
  <2> HIDE DEF a, b, c
  <2>3. a.y \in Int /\ b.y \in Int /\ c.y \in Int
    BY <2>1, Sizes DEF TankRec
  <2>4. NotHigher(a, c) /\ (c.y < b.y \/ b.y < a.y => c.y < a.y)
    BY <2>2, <2>3 DEF NotHigher
  <2> QED
    BY <2>4 DEF a, b, c
<1>3. Sinks(w, v)
  BY <1>1, <1>2 DEF Sinks
<1> QED
  BY <1>2, <1>3 DEF Lowered

\* One tank comes down.
MovedTo(w, p, x, y) == [w EXCEPT !.tank[p].x = x, !.tank[p].y = y]

LEMMA TankSinks ==
    ASSUME NEW w \in World, NEW p \in Player, NEW x \in Int, NEW y \in 0 .. Height,
           y < w.tank[p].y, OnX(w, x)
    PROVE  LET v == MovedTo(w, p, x, y)
           IN  Sinks(w, v) /\ v \in World /\ v.tank[p].x = x /\ v.tank[p].y = y
<1> DEFINE t == w.tank[p]
           h == [t EXCEPT !.x = x, !.y = y]
           v == MovedTo(w, p, x, y)
<1>1. t \in TankRec
  BY DEF World
<1>2. h \in TankRec /\ h.x = x /\ h.y = y
  BY <1>1 DEF TankRec
<1>3. v = [w EXCEPT !.tank[p] = h]
  BY <1>1 DEF MovedTo, World, TankRec
<1> HIDE DEF v
<1> HIDE DEF h
<1>4. TanksOnly(w, v) /\ v \in World /\ v.tank[p] = h /\ (\A q \in Player : q # p => v.tank[q] = w.tank[q])
      /\ v.walls = w.walls
  <2> DEFINE u == [w EXCEPT !.tank[p] = h]
  <2>1. TanksOnly(w, u) /\ u \in World /\ u.tank[p] = h /\ (\A q \in Player : q # p => u.tank[q] = w.tank[q])
        /\ u.walls = w.walls
    BY <1>2, OneTankOnly, TankWith
  <2> QED
    BY <1>3, <2>1
<1>5. ASSUME NEW q \in Player PROVE NotHigher(w.tank[q], v.tank[q])
  <2> DEFINE a == w.tank[q]
  <2>1. a \in TankRec /\ t \in TankRec
    BY <1>1 DEF World
  <2>2. a.y \in Int /\ t.y \in Int /\ y \in Int
    <3> HIDE DEF a, t
    <3> QED
      BY <2>1, Sizes DEF TankRec
  <2>3. NotHigher(a, a) /\ NotHigher(t, h)
    <3>1. y < t.y
      OBVIOUS
    <3> HIDE DEF a, t
    <3> QED
      BY <1>1, <2>2, <3>1 DEF NotHigher, h, TankRec
  <2>4. v.tank[q] = IF q = p THEN h ELSE a
    BY <1>4
  <2> QED
    BY <2>3, <2>4
<1>6. \A k : OnX(v, k) <=> OnX(w, k)
  BY <1>4 DEF OnX, TranslateX
<1>7. Placed(w) => Placed(v)
  BY <1>2, <1>4, <1>6 DEF Placed
<1> QED
  BY <1>2, <1>3, <1>4, <1>5, <1>7 DEF Sinks, v

\* One pass of _sc_player_drop.
Dropping == [w : World, left : Int, moved : BOOLEAN]

LEMMA DropStepSinks ==
    ASSUME NEW s \in Dropping, Placed(s.w), NEW p \in Player
    PROVE  /\ DropStep(s, p) \in Dropping /\ Sinks(s.w, DropStep(s, p).w)
           /\ \/ DropStep(s, p) = s
              \/ DropStep(s, p).moved /\ Lowered(s.w, DropStep(s, p).w)
<1> DEFINE w == s.w
           t == w.tank[p]
           slide == Support(w, t.x, t.y)
           depth == FallDepth(w, p, s.left)
           r == DropStep(s, p)
<1>1. w \in World /\ s.left \in Int /\ t \in TankRec
  BY DEF Dropping, World
<1>2. t.x \in Int /\ t.y \in 0 .. Height /\ t.y \in Int
  BY <1>1, Sizes DEF TankRec
<1>3. r = Descend(s, p, depth, slide)
  BY DEF DropStep
<1>4. slide \in Int
  <2> HIDE DEF w, t
  <2> QED
    BY <1>2, SupportType
<1>5. Sinks(w, w)
  BY <1>1, SinksNot
<1> HIDE DEF slide, depth, r
<1>6. CASE s.left <= 0 \/ t.dead
  <2>1. r = s
    BY <1>3, <1>6 DEF Descend
  <2> QED
    BY <1>5, <2>1 DEF r
<1>7. CASE ~(s.left <= 0 \/ t.dead) /\ depth > 0
  <2> DEFINE y == t.y - depth
             v == [w EXCEPT !.tank[p].y = y]
  <2>1. r = [w |-> v, left |-> s.left - depth, moved |-> TRUE]
    BY <1>3, <1>7 DEF Descend
  <2>2. depth \in 0 .. s.left /\ Passable(w, p, t.x, t.y - depth)
    <3>1. s.left \in Nat
      BY <1>1, <1>7
    <3>2. depth \in 0 .. s.left /\ \A j \in 1 .. depth : Passable(w, p, t.x, t.y - j)
      BY <3>1, FallDepthType DEF depth
    <3>3. depth \in 1 .. depth
      BY <1>7, <3>1, <3>2
    <3> QED
      BY <3>2, <3>3
  <2>3. y \in Int /\ depth \in Int
    BY <1>1, <1>2, <2>2
  <2> HIDE DEF y, t
  <2>4. OnX(w, t.x) /\ y \in Rows
    <3>1. OnField(w, t.x, y)
      BY <1>2, <2>2, <2>3, PassableOnField DEF y
    <3> QED
      BY <1>2, <2>3, <3>1, OnFieldType DEF OnX
  <2>5. y \in 0 .. Height /\ y < t.y
    BY <1>2, <1>7, <2>3, <2>4, Sizes DEF y
  <2>6. v = MovedTo(w, p, t.x, y)
    <3>1. w.tank[p] \in TankRec /\ w.tank[p] = t
      BY <1>1 DEF t
    <3> HIDE DEF w
    <3> QED
      BY <1>1, <3>1 DEF MovedTo, World, TankRec
  <2> HIDE DEF v, w
  <2>7. Sinks(w, v) /\ v \in World /\ v.tank[p].y = y
    <3> DEFINE x == t.x
               u == MovedTo(w, p, x, y)
    <3>1. x \in Int /\ OnX(w, x) /\ y < w.tank[p].y /\ v = u
      BY <1>2, <2>4, <2>5, <2>6 DEF t
    <3> HIDE DEF x
    <3>2. v = MovedTo(w, p, x, y)
      BY <3>1
    <3> HIDE DEF u
    <3> QED
      BY <1>1, <2>5, <3>1, <3>2, TankSinks
  <2>8. r \in Dropping /\ r.w = v /\ r.moved
    BY <1>1, <2>1, <2>3, <2>7 DEF Dropping
  <2>9. Lowered(w, v)
    BY <2>5, <2>7 DEF Lowered, t
  <2> QED
    BY <2>7, <2>8, <2>9 DEF r, w
<1>8. CASE ~(s.left <= 0 \/ t.dead) /\ ~(depth > 0) /\ slide # 0 /\ Passable(w, p, t.x + slide, t.y - 1)
  <2> DEFINE y == t.y - 1
             x == t.x + slide
             v == [w EXCEPT !.tank[p].x = x, !.tank[p].y = y]
             left == s.left - 4 * Magnitude(slide)
  <2>1. r = [w |-> v, left |-> left, moved |-> TRUE]
    BY <1>3, <1>8 DEF Descend
  <2>2. x \in Int /\ y \in Int /\ left \in Int
    BY <1>1, <1>2, <1>4, Magnitudes
  <2>3. Passable(w, p, x, y)
    BY <1>8
  <2> HIDE DEF x, y, left
  <2>4. OnX(w, x) /\ y \in Rows
    <3>1. OnField(w, x, y)
      BY <2>2, <2>3, PassableOnField
    <3> QED
      BY <2>2, <3>1, OnFieldType DEF OnX
  <2>5. y \in 0 .. Height /\ y < t.y
    BY <1>2, <2>4, Sizes DEF y
  <2>6. Sinks(w, v) /\ v \in World /\ v.tank[p].y = y
    <3>1. y < w.tank[p].y /\ v = MovedTo(w, p, x, y)
      BY <2>5 DEF MovedTo
    <3> HIDE DEF w, t, v
    <3> QED
      BY <1>1, <2>2, <2>4, <2>5, <3>1, TankSinks
  <2> HIDE DEF v, w
  <2>7. r \in Dropping /\ r.w = v /\ r.moved
    BY <2>1, <2>2, <2>6 DEF Dropping
  <2>8. Lowered(w, v)
    BY <2>5, <2>6 DEF Lowered
  <2> QED
    BY <2>6, <2>7, <2>8 DEF r, w
<1>9. CASE ~(s.left <= 0 \/ t.dead) /\ ~(depth > 0) /\ ~(slide # 0 /\ Passable(w, p, t.x + slide, t.y - 1))
  <2>1. r = s
    BY <1>3, <1>9 DEF Descend
  <2> QED
    BY <1>5, <2>1 DEF r
<1> QED
  BY <1>6, <1>7, <1>8, <1>9

\* What a call that drops tanks has done: nothing, or some tank is lower.
Falling == [w : World, moved : BOOLEAN]
Dropped(w, s) == Sinks(w, s.w) /\ (s.moved \/ s.w = w) /\ (s.moved => Lowered(w, s.w))

\* _sc_player_drop
LEMMA PlayerDropSinks ==
    ASSUME NEW s \in Falling, Placed(s.w), NEW p \in Player
    PROVE  LET v == PlayerDrop(s, p)
           IN  /\ v \in Falling /\ Sinks(s.w, v.w)
               /\ \/ v.moved = s.moved /\ v.w = s.w
                  \/ v.moved /\ Lowered(s.w, v.w)
<1> DEFINE n == TankDrop
           c == [p |-> p]
           w == s.w
           s0 == [w |-> w, left |-> TankDrop, moved |-> FALSE]
           S == {t \in Dropping : Placed(t.w) /\ Dropped(w, t)}
<1>0. n \in Nat /\ w \in World /\ s.moved \in BOOLEAN
  BY TanksAssumption DEF Falling
<1>1. PICK f : IsRun("PlayerDrop", s0, c, n, f) /\ PlayerDrop(s, p) = [w |-> f[n].w, moved |-> s.moved \/ f[n].moved]
  BY PlayerDropLoop
<1>2. s0 \in S
  <2>1. s0 \in Dropping /\ s0.w = w /\ ~s0.moved
    BY <1>0 DEF Dropping
  <2> HIDE DEF s0
  <2> QED
    BY <1>0, <2>1, SinksNot DEF Dropped
<1> HIDE DEF w
<1>3. ASSUME NEW t \in S, NEW i \in 1 .. n PROVE Step("PlayerDrop", t, i, c) \in S
  <2> DEFINE r == DropStep(t, p)
  <2>1. Step("PlayerDrop", t, i, c) = r
    BY DEF Step
  <2>2. r \in Dropping /\ Sinks(t.w, r.w) /\ (r = t \/ (r.moved /\ Lowered(t.w, r.w)))
    BY DropStepSinks
  <2> HIDE DEF r
  <2>3. t \in Dropping /\ Placed(t.w) /\ Dropped(w, t)
    OBVIOUS
  <2>4. Placed(r.w)
    BY <2>2, <2>3 DEF Sinks
  <2>5. CASE r = t
    BY <2>1, <2>3, <2>5
  <2>6. CASE r.moved /\ Lowered(t.w, r.w)
    <3>1. Sinks(w, r.w) /\ Lowered(w, r.w)
      BY <1>0, <2>2, <2>3, <2>6, SinksTwice DEF Dropped
    <3> QED
      BY <2>1, <2>2, <2>4, <2>6, <3>1 DEF Dropped
  <2> QED
    BY <2>2, <2>5, <2>6
<1>4. f[n] \in S
  <2> HIDE DEF c, n, S, s0
  <2> QED
    BY <1>0, <1>1, <1>2, <1>3, RunKept
<1> DEFINE t == f[n]
           v == PlayerDrop(s, p)
<1>5. t \in Dropping /\ Dropped(w, t) /\ v = [w |-> t.w, moved |-> s.moved \/ t.moved]
  BY <1>1, <1>4
<1> HIDE DEF t, v
<1>6. v \in Falling /\ v.w = t.w /\ v.moved = (s.moved \/ t.moved)
  BY <1>0, <1>5 DEF Dropping, Falling
<1>7. CASE t.moved
  BY <1>5, <1>6, <1>7 DEF Dropped, v, w
<1>8. CASE ~t.moved
  <2>1. v.moved = s.moved
    BY <1>0, <1>6, <1>8
  <2> QED
    BY <1>5, <1>6, <1>8, <2>1 DEF Dropped, v, w
<1> QED
  BY <1>7, <1>8

\* sc_player_drop_all
LEMMA PlayerDropAllSinks ==
    ASSUME NEW w \in World, Placed(w)
    PROVE  PlayerDropAll(w) \in Falling /\ Dropped(w, PlayerDropAll(w))
<1> DEFINE n == NumPlayers
           c == [seq |-> FromLast(w)]
           s0 == [w |-> w, moved |-> FALSE]
           S == {t \in Falling : Placed(t.w) /\ Dropped(w, t)}
<1>1. n \in Nat /\ Len(FromLast(w)) = n /\ \A i \in 1 .. n : FromLast(w)[i] \in Player
  BY PlayersType
<1>2. PICK f : IsRun("PlayerDropAll", s0, c, n, f) /\ PlayerDropAll(w) = f[n]
  BY <1>1, PlayerDropAllLoop
<1>3. s0 \in S
  <2>1. s0 \in Falling /\ s0.w = w /\ ~s0.moved
    BY DEF Falling
  <2> HIDE DEF s0
  <2> QED
    BY <2>1, SinksNot DEF Dropped
<1>4. ASSUME NEW s \in S, NEW i \in 1 .. n PROVE Step("PlayerDropAll", s, i, c) \in S
  <2> DEFINE p == FromLast(w)[i]
             v == PlayerDrop(s, p)
  <2>1. Step("PlayerDropAll", s, i, c) = v
    BY DEF Step
  <2>2. p \in Player /\ s \in Falling /\ Placed(s.w) /\ Dropped(w, s)
    BY <1>1
  <2> HIDE DEF p
  <2>3. v \in Falling /\ Sinks(s.w, v.w) /\ ((v.moved = s.moved /\ v.w = s.w) \/ (v.moved /\ Lowered(s.w, v.w)))
    BY <2>2, PlayerDropSinks
  <2> HIDE DEF v
  <2>4. Placed(v.w) /\ Sinks(w, v.w) /\ (Lowered(w, s.w) \/ Lowered(s.w, v.w) => Lowered(w, v.w))
    BY <2>2, <2>3, SinksTwice DEF Sinks, Dropped
  <2>5. Dropped(w, v)
    BY <2>2, <2>3, <2>4 DEF Dropped
  <2> QED
    BY <2>1, <2>3, <2>4, <2>5
<1>5. f[n] \in S
  <2> HIDE DEF c, n, S, s0
  <2> QED
    BY <1>1, <1>2, <1>3, <1>4, RunKept
<1> QED
  BY <1>2, <1>5

\* How high the tanks of a field are, all together: the cells at or below one.
Air(w) == {c \in Player \X (1 .. Height) : c[2] <= w.tank[c[1]].y}

LEMMA AirFinite ==
    ASSUME NEW w
    PROVE  IsFiniteSet(Air(w)) /\ Cardinality(Air(w)) \in Nat /\ Cardinality(Air(w)) <= NumPlayers * Height
<1>1. IsFiniteSet(Player) /\ Cardinality(Player) = NumPlayers
  <2>1. 0 \in Int /\ NumPlayers - 1 \in Int /\ NumPlayers \in Nat \ {0}
    BY VolleyAssumption
  <2>2. IsFiniteSet(0 .. NumPlayers - 1)
        /\ Cardinality(0 .. NumPlayers - 1) = IF 0 > NumPlayers - 1 THEN 0 ELSE NumPlayers - 1 - 0 + 1
    BY <2>1, FS_Interval
  <2> QED
    BY <2>1, <2>2 DEF Player
<1>2. IsFiniteSet(1 .. Height) /\ Cardinality(1 .. Height) = Height
  <2>1. 1 \in Int /\ Height \in Int /\ Height >= 1
    BY Sizes
  <2>2. IsFiniteSet(1 .. Height) /\ Cardinality(1 .. Height) = IF 1 > Height THEN 0 ELSE Height - 1 + 1
    BY <2>1, FS_Interval
  <2> QED
    BY <2>1, <2>2
<1>3. IsFiniteSet(Player \X (1 .. Height)) /\ Cardinality(Player \X (1 .. Height)) = NumPlayers * Height
  BY <1>1, <1>2, FS_Product
<1>4. Air(w) \subseteq Player \X (1 .. Height)
  BY DEF Air
<1>5. IsFiniteSet(Air(w)) /\ Cardinality(Air(w)) <= NumPlayers * Height
  BY <1>3, <1>4, FS_Subset
<1> QED
  BY <1>5, FS_CardinalityType

LEMMA AirLess ==
    ASSUME NEW w \in World, NEW v, Sinks(w, v), Lowered(w, v)
    PROVE  Cardinality(Air(v)) < Cardinality(Air(w))
<1>1. v \in World
  BY DEF Sinks, TanksOnly
<1>2. ASSUME NEW q \in Player PROVE v.tank[q].y <= w.tank[q].y /\ v.tank[q].y \in 0 .. Height /\ w.tank[q].y \in 0 .. Height
  <2>1. v.tank[q] \in TankRec /\ w.tank[q] \in TankRec
    BY <1>1 DEF World
  <2>2. NotHigher(w.tank[q], v.tank[q])
    BY DEF Sinks
  <2> QED
    BY <2>1, <2>2 DEF NotHigher, TankRec
<1>3. Air(v) \subseteq Air(w)
  <2>1. ASSUME NEW c \in Air(v) PROVE c \in Air(w)
    <3> DEFINE a == v.tank[c[1]].y
               b == w.tank[c[1]].y
    <3>1. c \in Player \X (1 .. Height) /\ c[2] <= a
      BY DEF Air
    <3>2. a <= b /\ a \in Int /\ b \in Int /\ c[2] \in Int
      BY <1>2, <3>1, Sizes
    <3>3. c[2] <= b
      <4> HIDE DEF a, b
      <4> QED
        BY <3>1, <3>2
    <3> QED
      BY <3>1, <3>3 DEF Air
  <2> QED
    BY <2>1
<1>4. PICK q \in Player : v.tank[q].y < w.tank[q].y
  BY DEF Lowered
<1> DEFINE c == <<q, w.tank[q].y>>
<1>5. c \in Air(w) /\ c \notin Air(v)
  <2> DEFINE a == v.tank[q].y
             b == w.tank[q].y
  <2>1. a < b /\ a \in 0 .. Height /\ b \in 0 .. Height
    BY <1>2, <1>4
  <2>2. b \in 1 .. Height /\ b <= b /\ ~(b <= a)
    <3> HIDE DEF a, b
    <3> QED
      BY <2>1, Sizes
  <2> QED
    BY <2>2 DEF Air
<1>6. Cardinality(Air(v)) <= Cardinality(Air(w)) /\ (Cardinality(Air(v)) = Cardinality(Air(w)) => Air(v) = Air(w))
  BY <1>3, AirFinite, FS_Subset
<1>7. Cardinality(Air(v)) # Cardinality(Air(w))
  BY <1>5, <1>6
<1> QED
  BY <1>6, <1>7, AirFinite

\* sc_player_drop_all until nobody moves: everybody has come to rest.
LEMMA SettlePlayersSettles ==
    ASSUME NEW w \in World, Placed(w)
    PROVE  Sinks(w, SettlePlayers(w)) /\ Settled(SettlePlayers(w))
<1> DEFINE most == NumPlayers * Height
           n == Height * Cardinality(Players(w)) + 1
           s0 == [w |-> w, moved |-> TRUE]
           Good(s, i) == /\ s \in Falling /\ Placed(s.w) /\ Sinks(w, s.w)
                         /\ ~s.moved => Settled(s.w)
                         /\ s.moved => Cardinality(Air(s.w)) + i <= most
<1>1. n = most + 1 /\ most \in Nat /\ n \in Nat
  <2>1. NumPlayers \in Nat /\ Height \in Nat /\ Cardinality(Players(w)) = NumPlayers
    BY PlayersType, Sizes
  <2>2. NumPlayers * Height \in Nat /\ Height * NumPlayers = NumPlayers * Height
    BY <2>1, Products
  <2> QED
    BY <2>1, <2>2
<1>2. PICK f : IsRun("SettlePlayers", s0, 0, n, f) /\ SettlePlayers(w) = f[n].w
  BY <1>1, SettlePlayersLoop
<1>3. f[0] = s0 /\ \A i \in 1 .. n : f[i] = IF f[i - 1].moved THEN PlayerDropAll(f[i - 1].w) ELSE f[i - 1]
  <2>1. \A s, i : Step("SettlePlayers", s, i, 0) = IF s.moved THEN PlayerDropAll(s.w) ELSE s
    BY DEF Step
  <2>2. f[0] = s0 /\ \A i \in 1 .. n : f[i] = Step("SettlePlayers", f[i - 1], i, 0)
    <3> HIDE DEF s0, n
    <3> QED
      BY <1>1, <1>2, Passes
  <2> QED
    BY <2>1, <2>2
<1> HIDE DEF n, most
<1>4. Good(f[0], 0)
  <2>1. s0 \in Falling /\ s0.w = w /\ s0.moved
    BY DEF Falling
  <2>2. Cardinality(Air(w)) + 0 <= most
    BY AirFinite DEF most
  <2> HIDE DEF s0
  <2> QED
    BY <1>3, <2>1, <2>2, SinksNot
<1>5. ASSUME NEW i \in 1 .. n, Good(f[i - 1], i - 1) PROVE Good(f[i], i)
  <2> DEFINE s == f[i - 1]
             t == f[i]
  <2>1. t = IF s.moved THEN PlayerDropAll(s.w) ELSE s
    BY <1>3
  <2>2. s \in Falling /\ Placed(s.w) /\ Sinks(w, s.w) /\ s.w \in World
    BY <1>5 DEF Sinks, TanksOnly
  <2>3. CASE ~s.moved
    BY <1>5, <2>1, <2>3
  <2>4. CASE s.moved
    <3>1. t = PlayerDropAll(s.w)
      BY <2>1, <2>4
    <3>2. t \in Falling /\ Dropped(s.w, t)
      BY <2>2, <3>1, PlayerDropAllSinks
    <3>3. Cardinality(Air(s.w)) + (i - 1) <= most
      BY <1>5, <2>4
    <3>4. ~t.moved => Settled(t.w)
      BY <3>1, <3>2 DEF Dropped, Settled
    <3> HIDE DEF s, t
    <3>5. Sinks(w, t.w) /\ Placed(t.w)
      BY <2>2, <3>2, SinksTwice DEF Dropped, Sinks
    <3>6. ASSUME t.moved PROVE Cardinality(Air(t.w)) + i <= most
      <4> DEFINE a == Cardinality(Air(s.w))
                 b == Cardinality(Air(t.w))
      <4>1. b < a
        BY <2>2, <3>2, <3>6, AirLess DEF Dropped
      <4>2. a \in Nat /\ b \in Nat /\ i \in Int
        BY AirFinite
      <4> HIDE DEF a, b
      <4>3. a + (i - 1) <= most
        BY <3>3 DEF a
      <4>4. b + i <= most
        BY <1>1, <4>1, <4>2, <4>3
      <4> QED
        BY <4>4 DEF b
    <3>7. Good(t, i)
      BY <3>2, <3>4, <3>5, <3>6
    <3> QED
      BY <3>7 DEF t
  <2> QED
    BY <2>3, <2>4
<1> DEFINE I == {i \in 0 .. n : Good(f[i], i)}
<1> HIDE DEF Good, s0
<1>6. 0 \in I
  BY <1>1, <1>4
<1>7. \A i \in 1 .. n : i - 1 \in I => i \in I
  BY <1>5
<1>8. n \in I
  <2> HIDE DEF I
  <2> QED
    BY <1>1, <1>6, <1>7, Kept
<1> DEFINE t == f[n]
<1>9. Good(t, n)
  BY <1>8
<1> HIDE DEF t
<1>10. ~t.moved
  <2>1. Cardinality(Air(t.w)) \in Nat
    BY AirFinite
  <2>2. ~(Cardinality(Air(t.w)) + n <= most)
    BY <1>1, <2>1
  <2> QED
    BY <1>9, <2>2 DEF Good
<1> QED
  BY <1>2, <1>9, <1>10 DEF Good, t

\* A tank that stays where it is.
Still(w, p) ==
    LET t == w.tank[p]
    IN  \/ t.dead
        \/ /\ ~(FallDepth(w, p, TankDrop) > 0)
           /\ ~(Support(w, t.x, t.y) # 0 /\ Passable(w, p, t.x + Support(w, t.x, t.y), t.y - 1))

LEMMA StillStep ==
    ASSUME NEW w \in World, NEW p \in Player
    PROVE  LET s == [w |-> w, left |-> TankDrop, moved |-> FALSE]
           IN  IF Still(w, p) THEN DropStep(s, p) = s ELSE DropStep(s, p).moved
<1> DEFINE s == [w |-> w, left |-> TankDrop, moved |-> FALSE]
           slide == Support(w, w.tank[p].x, w.tank[p].y)
           depth == FallDepth(w, p, TankDrop)
<1>1. ~(TankDrop <= 0)
  BY TanksAssumption
<1>2. s.w = w /\ s.left = TankDrop
  OBVIOUS
<1>3. DropStep(s, p) = Descend(s, p, depth, slide)
  BY <1>2 DEF DropStep
<1>4. Still(w, p) <=> \/ w.tank[p].dead
                      \/ ~(depth > 0) /\ ~(slide # 0 /\ Passable(w, p, w.tank[p].x + slide, w.tank[p].y - 1))
  BY DEF Still
<1> HIDE DEF s, slide, depth
<1> QED
  BY <1>1, <1>2, <1>3, <1>4 DEF Descend, s

LEMMA StillDrop ==
    ASSUME NEW w \in World, Placed(w), NEW p \in Player
    PROVE  LET s == [w |-> w, moved |-> FALSE]
           IN  IF Still(w, p) THEN PlayerDrop(s, p) = s ELSE PlayerDrop(s, p).moved
<1> DEFINE n == TankDrop
           c == [p |-> p]
           s == [w |-> w, moved |-> FALSE]
           s0 == [w |-> w, left |-> TankDrop, moved |-> FALSE]
<1>0. n \in Nat /\ n >= 1
  BY TanksAssumption
<1>1. PICK f : IsRun("PlayerDrop", s0, c, n, f) /\ PlayerDrop(s, p) = [w |-> f[n].w, moved |-> s.moved \/ f[n].moved]
  <2>1. s.w = w
    OBVIOUS
  <2> HIDE DEF s
  <2> QED
    BY <2>1, PlayerDropLoop
<1>2. f[0] = s0 /\ \A i \in 1 .. n : f[i] = DropStep(f[i - 1], p)
  <2>1. \A t, i : Step("PlayerDrop", t, i, c) = DropStep(t, p)
    BY DEF Step
  <2>2. f[0] = s0 /\ \A i \in 1 .. n : f[i] = Step("PlayerDrop", f[i - 1], i, c)
    <3>1. IsRun("PlayerDrop", s0, c, n, f)
      BY <1>1
    <3> HIDE DEF s, s0, n, c
    <3> QED
      BY <1>0, <3>1, Passes
  <2> QED
    BY <2>1, <2>2
<1>3. s0 \in Dropping /\ s0.w = w /\ s0.moved = FALSE /\ s.moved = FALSE
  BY <1>0 DEF Dropping
<1>4. IF Still(w, p) THEN DropStep(s0, p) = s0 ELSE DropStep(s0, p).moved
  BY StillStep
<1> HIDE DEF n, s0, c
<1>5. CASE Still(w, p)
  <2> DEFINE I == {i \in 0 .. n : f[i] = s0}
  <2>1. 0 \in I /\ \A i \in 1 .. n : i - 1 \in I => i \in I
    BY <1>0, <1>2, <1>4, <1>5
  <2>2. n \in I
    <3> HIDE DEF I
    <3> QED
      BY <1>0, <2>1, Kept
  <2>3. f[n] = s0
    BY <2>2
  <2> QED
    BY <1>1, <1>3, <1>5, <2>3
<1>6. CASE ~Still(w, p)
  <2> DEFINE Good(i) == f[i] \in Dropping /\ Placed(f[i].w) /\ (i >= 1 => f[i].moved)
             I == {i \in 0 .. n : Good(i)}
  <2>1. 0 \in I
    BY <1>0, <1>2, <1>3
  <2>2. ASSUME NEW i \in 1 .. n, i - 1 \in I PROVE i \in I
    <3> DEFINE t == f[i - 1]
               r == f[i]
    <3>1. t \in Dropping /\ Placed(t.w) /\ r = DropStep(t, p) /\ (i - 1 >= 1 => t.moved)
      BY <1>2, <2>2
    <3> HIDE DEF t, r
    <3>2. r \in Dropping /\ Sinks(t.w, r.w) /\ (r = t \/ r.moved)
      BY <3>1, DropStepSinks
    <3>3. Placed(r.w)
      BY <3>1, <3>2 DEF Sinks
    <3>4. r.moved
      <4>1. CASE i = 1
        <5>1. t = s0
          BY <1>2, <4>1 DEF t
        <5> QED
          BY <1>4, <1>6, <3>1, <5>1
      <4>2. CASE i # 1
        <5>1. i - 1 >= 1
          BY <4>2
        <5> QED
          BY <3>1, <3>2, <5>1
      <4> QED
        BY <4>1, <4>2
    <3>5. Good(i)
      BY <3>2, <3>3, <3>4 DEF r
    <3> HIDE DEF Good
    <3> QED
      BY <1>0, <3>5
  <2>3. n \in I
    <3> HIDE DEF I
    <3> QED
      BY <1>0, <2>1, <2>2, Kept
  <2>4. f[n].moved /\ f[n].moved \in BOOLEAN
    BY <1>0, <2>3 DEF Dropping
  <2> DEFINE m == s.moved \/ f[n].moved
  <2>5. m = TRUE
    BY <2>4
  <2>6. PlayerDrop(s, p) = [w |-> f[n].w, moved |-> m]
    BY <1>1
  <2> HIDE DEF m
  <2>7. PlayerDrop(s, p).moved
    BY <2>5, <2>6
  <2> QED
    BY <1>6, <2>7
<1> QED
  BY <1>5, <1>6

\* A field is settled when every tank stays where it is.
LEMMA SettledStill ==
    ASSUME NEW w \in World, Placed(w)
    PROVE  Settled(w) <=> \A p \in Player : Still(w, p)
<1> DEFINE n == NumPlayers
           c == [seq |-> FromLast(w)]
           s0 == [w |-> w, moved |-> FALSE]
           seq == FromLast(w)
<1>1. n \in Nat /\ Len(seq) = n /\ \A i \in 1 .. n : seq[i] \in Player /\ seq[i] = n - i
  BY PlayersType
<1>2. PICK f : IsRun("PlayerDropAll", s0, c, n, f) /\ PlayerDropAll(w) = f[n]
  BY <1>1, PlayerDropAllLoop
<1>3. f[0] = s0 /\ \A i \in 1 .. n : f[i] = PlayerDrop(f[i - 1], seq[i])
  <2>1. \A t, i : Step("PlayerDropAll", t, i, c) = PlayerDrop(t, seq[i])
    BY DEF Step
  <2>2. f[0] = s0 /\ \A i \in 1 .. n : f[i] = Step("PlayerDropAll", f[i - 1], i, c)
    <3> HIDE DEF s0, n, c
    <3> QED
      BY <1>1, <1>2, Passes
  <2> QED
    BY <2>1, <2>2
<1>4. Settled(w) <=> ~f[n].moved
  BY <1>2 DEF Settled
<1>5. s0 \in Falling /\ s0.w = w /\ s0.moved = FALSE
  BY DEF Falling
<1>6. \A p \in Player : IF Still(w, p) THEN PlayerDrop(s0, p) = s0 ELSE PlayerDrop(s0, p).moved
  BY StillDrop
<1> HIDE DEF n, s0, c, seq
<1>7. ASSUME \A p \in Player : Still(w, p) PROVE Settled(w)
  <2> DEFINE I == {i \in 0 .. n : f[i] = s0}
  <2>1. 0 \in I /\ \A i \in 1 .. n : i - 1 \in I => i \in I
    BY <1>1, <1>3, <1>6, <1>7
  <2>2. n \in I
    <3> HIDE DEF I
    <3> QED
      BY <1>1, <2>1, Kept
  <2> QED
    BY <1>4, <1>5, <2>2
<1>8. ASSUME NEW p \in Player, Settled(w) PROVE Still(w, p)
  <2> DEFINE Good(i) == /\ f[i] \in Falling /\ Placed(f[i].w)
                        /\ ~f[i].moved => f[i] = s0 /\ \A j \in 1 .. i : Still(w, seq[j])
             I == {i \in 0 .. n : Good(i)}
  <2>1. 0 \in I
    BY <1>1, <1>3, <1>5
  <2>2. ASSUME NEW i \in 1 .. n, i - 1 \in I PROVE i \in I
    <3> DEFINE t == f[i - 1]
               r == f[i]
    <3>1. t \in Falling /\ Placed(t.w) /\ r = PlayerDrop(t, seq[i])
          /\ (~t.moved => t = s0 /\ \A j \in 1 .. i - 1 : Still(w, seq[j]))
      BY <1>3, <2>2
    <3> HIDE DEF t, r
    <3>2. r \in Falling /\ Sinks(t.w, r.w) /\ ((r.moved = t.moved /\ r.w = t.w) \/ r.moved)
      BY <1>1, <3>1, PlayerDropSinks
    <3>3. Placed(r.w)
      BY <3>1, <3>2 DEF Sinks
    <3>4. ASSUME ~r.moved PROVE r = s0 /\ \A j \in 1 .. i : Still(w, seq[j])
      <4>1. ~t.moved
        BY <3>2, <3>4
      <4>2. t = s0 /\ \A j \in 1 .. i - 1 : Still(w, seq[j])
        BY <3>1, <4>1
      <4>3. Still(w, seq[i]) /\ r = s0
        BY <1>1, <1>6, <3>1, <3>4, <4>2
      <4>4. \A j \in 1 .. i : j \in 1 .. i - 1 \/ j = i
        OBVIOUS
      <4> QED
        BY <4>2, <4>3, <4>4
    <3>5. Good(i)
      BY <3>2, <3>3, <3>4 DEF r
    <3> HIDE DEF Good
    <3> QED
      BY <1>1, <3>5
  <2>3. n \in I
    <3> HIDE DEF I
    <3> QED
      BY <1>1, <2>1, <2>2, Kept
  <2>4. \A j \in 1 .. n : Still(w, seq[j])
    BY <1>4, <1>8, <2>3
  <2>5. n - p \in 1 .. n /\ n - (n - p) = p
    <3>1. p \in 0 .. n - 1
      BY DEF Player, n
    <3> QED
      BY <1>1, <3>1
  <2>6. seq[n - p] = p
    BY <1>1, <2>5
  <2> QED
    BY <2>4, <2>5, <2>6
<1> QED
  BY <1>7, <1>8

\* Two fields that are the same to a tank that may fall.
Alike(w, v) ==
    /\ v.walls = w.walls /\ v.land = w.land
    /\ \A q \in Player : /\ v.tank[q].x = w.tank[q].x /\ v.tank[q].y = w.tank[q].y
                         /\ v.tank[q].dead = w.tank[q].dead /\ v.tank[q].life = w.tank[q].life

LEMMA AlikePassable ==
    ASSUME NEW w \in World, NEW v \in World, Alike(w, v)
    PROVE  /\ \A x, u : TranslateX(v, x, u) = TranslateX(w, x, u)
           /\ \A y, u : TranslateY(v, y, u) = TranslateY(w, y, u)
           /\ \A e, x, y : PassablePoint(v, e, x, y) <=> PassablePoint(w, e, x, y)
<1>1. v.walls = w.walls /\ v.land = w.land /\ Players(v) = Player /\ Players(w) = Player
  BY PlayersType DEF Alike
<1>2. \A x, u : TranslateX(v, x, u) = TranslateX(w, x, u)
  BY <1>1 DEF TranslateX
<1>3. \A y, u : TranslateY(v, y, u) = TranslateY(w, y, u)
  BY <1>1 DEF TranslateY
<1>4. \A x, y : Sky(v, x, y) <=> Sky(w, x, y)
  BY <1>1, <1>2, <1>3 DEF Sky, OnField, Ground
<1>5. ASSUME NEW q \in Player, NEW x, NEW y
      PROVE  PassableOpponent(v, v.tank[q], x, y) <=> PassableOpponent(w, w.tank[q], x, y)
  <2> DEFINE a == w.tank[q].x
             b == w.tank[q].y
  <2>1. v.tank[q].x = a /\ v.tank[q].y = b
    BY DEF Alike
  <2> HIDE DEF a, b
  <2>2. Deltas(v, x, y, a, b, 1) = Deltas(w, x, y, a, b, 1)
    BY <1>1, <1>2, <1>3 DEF Deltas, Between, ShortWay
  <2>3. PassableOpponent(v, v.tank[q], x, y) <=> ~Opaque(Deltas(v, x, y, a, b, 1).x, Deltas(v, x, y, a, b, 1).y)
    BY <2>1 DEF PassableOpponent
  <2>4. PassableOpponent(w, w.tank[q], x, y) <=> ~Opaque(Deltas(w, x, y, a, b, 1).x, Deltas(w, x, y, a, b, 1).y)
    BY DEF PassableOpponent, a, b
  <2> QED
    BY <2>2, <2>3, <2>4
<1>6. \A q \in Player : Alive(v.tank[q]) <=> Alive(w.tank[q])
  BY DEF Alike, Alive
<1>7. \A e, x, y : PassablePoint(v, e, x, y) <=> PassablePoint(w, e, x, y)
  BY <1>1, <1>4, <1>5, <1>6 DEF PassablePoint
<1> QED
  BY <1>2, <1>3, <1>7

LEMMA AlikeStill ==
    ASSUME NEW w \in World, NEW v \in World, Alike(w, v), NEW p \in Player
    PROVE  Still(v, p) <=> Still(w, p)
<1>1. \A e, x, y : PassablePoint(v, e, x, y) <=> PassablePoint(w, e, x, y)
  BY AlikePassable
<1>2. \A y, u : TranslateY(v, y, u) = TranslateY(w, y, u)
  BY AlikePassable
<1>3. \A q, x, y : Passable(v, q, x, y) <=> Passable(w, q, x, y)
  BY <1>1 DEF Passable
<1>4. \A x, y, side, k : Free(v, x, y, side, k) <=> Free(w, x, y, side, k)
  BY <1>1, <1>2 DEF Free
<1>5. ASSUME NEW x, NEW y, NEW side PROVE SupportShift(v, x, y, side) = SupportShift(w, x, y, side)
  <2>1. {i \in 0 .. ShelfSize - 2 : ~Free(v, x, y, side, i)} = {i \in 0 .. ShelfSize - 2 : ~Free(w, x, y, side, i)}
    BY <1>4
  <2>2. ShelfEdge(v, x, y, side) = ShelfEdge(w, x, y, side)
    BY <2>1 DEF ShelfEdge
  <2>3. \A edge : ShiftTo(v, x, y, side, edge) = ShiftTo(w, x, y, side, edge)
    <3> HIDE DEF Free, TranslateY
    <3> QED
      BY <1>2, <1>4 DEF ShiftTo
  <2> QED
    BY <2>2, <2>3 DEF SupportShift
<1>6. \A x, y : Support(v, x, y) = Support(w, x, y)
  BY <1>5 DEF Support
<1>7. v.tank[p].x = w.tank[p].x /\ v.tank[p].y = w.tank[p].y /\ v.tank[p].dead = w.tank[p].dead
  BY DEF Alike
<1>8. FallDepth(v, p, TankDrop) = FallDepth(w, p, TankDrop)
  <2> DEFINE S(u) == {k \in 0 .. TankDrop : \A j \in 1 .. k : Passable(u, p, u.tank[p].x, u.tank[p].y - j)}
  <2>1. S(v) = S(w)
    BY <1>3, <1>7
  <2>2. FallDepth(v, p, TankDrop) = Max(S(v)) /\ FallDepth(w, p, TankDrop) = Max(S(w))
    BY DEF FallDepth
  <2> HIDE DEF S
  <2> QED
    BY <2>1, <2>2
<1> QED
  BY <1>3, <1>6, <1>7, <1>8 DEF Still

LEMMA AlikeSettled ==
    ASSUME NEW w \in World, NEW v \in World, Alike(w, v), Placed(w)
    PROVE  Placed(v) /\ (Settled(v) <=> Settled(w))
<1>1. Placed(v)
  <2>1. \A x : OnX(v, x) <=> OnX(w, x)
    BY AlikePassable DEF OnX
  <2> QED
    BY <2>1 DEF Placed, Alike
<1> QED
  BY <1>1, AlikeStill, SettledStill

\* sc_player_move
LEMMA PlayerMoveType ==
    ASSUME NEW w \in World, NEW p \in Player, NEW delta \in {-1, 1}, CanMove(w, p, delta), Placed(w)
    PROVE  LET v == PlayerMove(w, p, delta)
           IN  TanksOnly(w, v) /\ Placed(v)
               /\ \A q \in Player : /\ v.tank[q].life = w.tank[q].life /\ v.tank[q].dead = w.tank[q].dead
                                    /\ v.tank[q].killedby = w.tank[q].killedby
                                    /\ v.tank[q].kills = w.tank[q].kills /\ v.tank[q].suicides = w.tank[q].suicides
<1> DEFINE t == w.tank[p]
           x == t.x + delta
           y == HeightAround(w, t.x + delta, Height, Radius)
           h == [t EXCEPT !.x = x, !.y = y]
           v == PlayerMove(w, p, delta)
<1>1. t \in TankRec
  BY DEF World
<1>2. x \in Int
  BY <1>1 DEF TankRec
<1>3. y \in 0 .. Height /\ y \in Int
  <2>1. y = HeightAround(w, x, Height, Radius)
    OBVIOUS
  <2> HIDE DEF x, y
  <2>2. Height \in Int /\ Radius \in Nat
    BY Sizes
  <2> QED
    BY <1>2, <2>1, <2>2, HeightAroundType
<1>4. Passable(w, p, x, y)
  BY DEF CanMove
<1>5. v = [w EXCEPT !.tank[p] = h]
  BY <1>1 DEF PlayerMove, World, TankRec
<1> HIDE DEF x, y, v
<1>6. OnX(w, x)
  <2>1. OnField(w, x, y)
    BY <1>2, <1>3, <1>4, PassableOnField
  <2> QED
    BY <1>2, <1>3, <2>1, OnFieldType DEF OnX
<1>7. h \in TankRec /\ h.x = x /\ h.life = t.life /\ h.dead = t.dead /\ h.killedby = t.killedby
      /\ h.kills = t.kills /\ h.suicides = t.suicides
  BY <1>1, <1>2, <1>3 DEF TankRec
<1> HIDE DEF h
<1>8. TanksOnly(w, v) /\ v.tank[p] = h /\ (\A q \in Player : q # p => v.tank[q] = w.tank[q]) /\ v.walls = w.walls
  <2> DEFINE u == [w EXCEPT !.tank[p] = h]
  <2>1. TanksOnly(w, u) /\ u.tank[p] = h /\ (\A q \in Player : q # p => u.tank[q] = w.tank[q]) /\ u.walls = w.walls
    BY <1>7, OneTankOnly, TankWith
  <2> QED
    BY <1>5, <2>1
<1>9. \A k : OnX(v, k) <=> OnX(w, k)
  BY <1>8 DEF OnX, TranslateX
<1>10. Placed(v)
  BY <1>6, <1>7, <1>8, <1>9 DEF Placed
<1> QED
  BY <1>7, <1>8, <1>10 DEF v

\* Every tank stays as it is: only the land and the shields change.
InPlace(w, v) ==
    /\ v \in World
    /\ v.walls = w.walls /\ v.physics = w.physics /\ v.fast = w.fast
    /\ v.expl = w.expl /\ v.shots = w.shots
    /\ \A q \in Player : /\ v.tank[q].x = w.tank[q].x /\ v.tank[q].y = w.tank[q].y
                         /\ v.tank[q].life = w.tank[q].life /\ v.tank[q].dead = w.tank[q].dead
                         /\ v.tank[q].killedby = w.tank[q].killedby
                         /\ v.tank[q].kills = w.tank[q].kills /\ v.tank[q].suicides = w.tank[q].suicides

LEMMA InPlaceTwice ==
    ASSUME NEW w, NEW u, NEW v, InPlace(w, u), InPlace(u, v)
    PROVE  InPlace(w, v)
  BY DEF InPlace

\* sc_player_init_turn
LEMMA PlayerInitTurnType ==
    ASSUME NEW w \in World, NEW p \in Player
    PROVE  InPlace(w, PlayerInitTurn(w, p))
<1> DEFINE u == ClearProfile(w, p)
           h == ShieldInitTurn(u.tank[p])
           v == [u EXCEPT !.tank[p] = h]
<1>1. w.tank[p].x \in Int /\ w.tank[p].y \in Int
  <2>1. w.tank[p] \in TankRec
    BY DEF World
  <2> QED
    BY <2>1, Sizes DEF TankRec
<1>2. LandOnly(w, u)
  <2> DEFINE x == w.tank[p].x
             y == w.tank[p].y
             P == ProfileAt(x, y)
  <2>1. P \in SUBSET (Int \X Int)
    <3> HIDE DEF x, y
    <3>0. x \in Int /\ y \in Int
      BY <1>1 DEF x, y
    <3>1. \A d \in Profile : d[1] \in Int /\ d[2] \in Int
      BY Sizes DEF Profile
    <3>2. \A d \in Profile : <<x + d[1], y + d[2]>> \in Int \X Int
      BY <3>0, <3>1
    <3> HIDE DEF Profile
    <3> QED
      BY <3>2 DEF ProfileAt
  <2>2. u = ClearPoints(w, P)
    BY DEF ClearProfile
  <2> HIDE DEF P
  <2> QED
    BY <2>1, <2>2, PointsType
<1>3. /\ u \in World
      /\ u.walls = w.walls /\ u.physics = w.physics /\ u.fast = w.fast
      /\ u.expl = w.expl /\ u.shots = w.shots /\ u.tank = w.tank
  BY <1>2, LandOnlyKeeps
<1>4. PlayerInitTurn(w, p) = v
  BY DEF PlayerInitTurn
<1> HIDE DEF u
<1>5. h \in TankRec /\ h = [u.tank[p] EXCEPT !.shield = h.shield]
  <2> DEFINE t == u.tank[p]
  <2>1. t \in TankRec
    BY <1>3 DEF World
  <2> HIDE DEF t
  <2>2. ShieldInitTurn(t) \in TankRec /\ ShieldInitTurn(t) = [t EXCEPT !.shield = ShieldInitTurn(t).shield]
    BY <2>1, ShieldInitTurnType
  <2> QED
    BY <2>2 DEF t
<1> HIDE DEF h
<1>6. /\ h.x = u.tank[p].x /\ h.y = u.tank[p].y /\ h.life = u.tank[p].life /\ h.dead = u.tank[p].dead
      /\ h.killedby = u.tank[p].killedby /\ h.kills = u.tank[p].kills /\ h.suicides = u.tank[p].suicides
  <2> DEFINE t == u.tank[p]
  <2>1. t \in TankRec /\ h = [t EXCEPT !.shield = h.shield]
    BY <1>3, <1>5 DEF World
  <2> HIDE DEF t
  <2>2. /\ h.x = t.x /\ h.y = t.y /\ h.life = t.life /\ h.dead = t.dead
        /\ h.killedby = t.killedby /\ h.kills = t.kills /\ h.suicides = t.suicides
    BY <2>1 DEF TankRec
  <2> QED
    BY <2>2 DEF t
<1>7. /\ v \in World /\ v.tank[p] = h /\ \A q \in Player : q # p => v.tank[q] = u.tank[q]
      /\ v.walls = u.walls /\ v.physics = u.physics /\ v.fast = u.fast
      /\ v.expl = u.expl /\ v.shots = u.shots
  BY <1>3, <1>5, TankWith
<1> HIDE DEF v
<1> QED
  BY <1>3, <1>4, <1>6, <1>7 DEF InPlace

\* sc_config_init_turn
LEMMA InitTurnType ==
    ASSUME NEW w \in World
    PROVE  InPlace(w, InitTurn(w))
<1> DEFINE n == NumPlayers
           c == [seq |-> FromLast(w)]
           S == {v \in World : InPlace(w, v)}
<1>1. n \in Nat /\ Len(FromLast(w)) = n /\ \A i \in 1 .. n : FromLast(w)[i] \in Player
  BY PlayersType
<1>2. PICK f : IsRun("InitTurn", w, c, n, f) /\ InitTurn(w) = f[n]
  BY <1>1, InitTurnLoop
<1>3. w \in S
  BY DEF InPlace
<1>4. ASSUME NEW s \in S, NEW i \in 1 .. n PROVE Step("InitTurn", s, i, c) \in S
  <2> DEFINE p == FromLast(w)[i]
             v == PlayerInitTurn(s, p)
  <2>1. Step("InitTurn", s, i, c) = IF Alive(s.tank[p]) THEN v ELSE s
    BY DEF Step, InitOne
  <2>2. p \in Player
    BY <1>1
  <2> HIDE DEF p
  <2>3. InPlace(s, v)
    BY <2>2, PlayerInitTurnType
  <2> HIDE DEF v
  <2>4. v \in World /\ InPlace(w, v)
    BY <2>3 DEF InPlace
  <2> QED
    BY <2>1, <2>4
<1>5. f[n] \in S
  <2> HIDE DEF c, n, S
  <2> QED
    BY <1>1, <1>2, <1>3, <1>4, RunKept
<1> QED
  BY <1>2, <1>5

-----------------------------------------------------------------------------
(* Trajectories.                                                           *)

LEMMA PixelType ==
    ASSUME NEW a \in Int
    PROVE  Pixel(a) \in Int /\ Truncated(a) \in Int /\ Ceiling(a) \in Nat
<1>1. Unit \in Nat \ {0}
  BY Sizes
<1>2. Pixel(a) \in Int
  BY <1>1, RintType DEF Pixel
<1> DEFINE m == Magnitude(a)
           g == Sgn(a)
<1>3. m \in Nat /\ g \in {-1, 0, 1}
  BY Magnitudes
<1>4. Truncated(a) = g * (m \div Unit) /\ Ceiling(a) = (m + Unit - 1) \div Unit
  BY DEF Truncated, Ceiling
<1> HIDE DEF m, g
<1>5. m \div Unit \in Nat
  BY <1>1, <1>3, Quotients
<1>6. g * (m \div Unit) \in Int
  <2> DEFINE k == m \div Unit
  <2>1. k \in Int
    BY <1>5
  <2> HIDE DEF k
  <2>2. g * k \in Int
    BY <1>3, <2>1
  <2> QED
    BY <2>2 DEF k
<1>7. (m + Unit - 1) \div Unit \in Nat
  <2> DEFINE k == m + Unit - 1
  <2>1. k \in Int /\ k >= 0
    BY <1>1, <1>3
  <2> HIDE DEF k
  <2>2. k \div Unit \in Nat
    BY <1>1, <2>1, Quotients
  <2> QED
    BY <2>2 DEF k
<1> QED
  BY <1>2, <1>4, <1>6, <1>7

\* Where a weapon is and how fast.
LEMMA MotionType ==
    ASSUME NEW tr \in Traj
    PROVE  /\ VelocityX(tr) \in Int /\ VelocityY(tr) \in Int
           /\ CurrentX(tr) \in Int /\ CurrentY(tr) \in Int
           /\ tr.timestep * tr.timestep \in Int
<1> DEFINE n == tr.timestep
<1>1. /\ n \in Int /\ tr.velx \in Int /\ tr.vely \in Int /\ tr.accx \in Int /\ tr.accy \in Int
      /\ tr.ctrx \in Int /\ tr.ctry \in Int
  BY DEF Traj
<1> DEFINE ax == tr.accx
           ay == tr.accy
           vx == tr.velx
           vy == tr.vely
           x == tr.ctrx
           y == tr.ctry
<1>2. /\ VelocityX(tr) = vx + ax * n /\ VelocityY(tr) = vy - ay * n
      /\ CurrentX(tr) = x + n * vx + (n * n * ax) \div 2
      /\ CurrentY(tr) = y + n * vy - (n * n * ay) \div 2
  BY DEF VelocityX, VelocityY, CurrentX, CurrentY
<1> HIDE DEF n, ax, ay, vx, vy, x, y
<1>3. n \in Int /\ ax \in Int /\ ay \in Int /\ vx \in Int /\ vy \in Int /\ x \in Int /\ y \in Int
  BY <1>1 DEF n, ax, ay, vx, vy, x, y
<1>4. ax * n \in Int /\ ay * n \in Int /\ n * vx \in Int /\ n * vy \in Int /\ n * n \in Int
  BY <1>3, Products
<1> DEFINE nn == n * n
<1>5. nn \in Int
  BY <1>4
<1>6. CurrentX(tr) = x + n * vx + (nn * ax) \div 2 /\ CurrentY(tr) = y + n * vy - (nn * ay) \div 2
  BY <1>2
<1> HIDE DEF nn
<1>7. nn * ax \in Int /\ nn * ay \in Int
  BY <1>3, <1>5, Products
<1>8. (nn * ax) \div 2 \in Int /\ (nn * ay) \div 2 \in Int
  BY <1>7
<1>9. n * n = tr.timestep * tr.timestep
  BY DEF n
<1> QED
  BY <1>2, <1>3, <1>4, <1>6, <1>8, <1>9

\* The motion of a trajectory changes.
SameFall(tr, T) == T.landfall_x1 = tr.landfall_x1 /\ T.landfall_x2 = tr.landfall_x2
Bent(tr, T) == T \in Traj /\ SameFall(tr, T) /\ T.victim = tr.victim

LEMMA BentTwice ==
    ASSUME NEW a, NEW b, NEW c, Bent(a, b), Bent(b, c)
    PROVE  Bent(a, c)
  BY DEF Bent, SameFall

\* sc_traj_new_control_equation
LEMMA NewControlType ==
    ASSUME NEW tr \in Traj, NEW x \in Int, NEW y \in Int, NEW vx \in Int, NEW vy \in Int
    PROVE  Bent(tr, NewControl(tr, x, y, vx, vy))
<1> DEFINE n == tr.timestep
           nn == n * n
           ax == tr.accx
           ay == tr.accy
           velx == vx - n * ax
           vely == vy + n * ay
           ctrx == x - n * velx - (nn * ax) \div 2
           ctry == y - n * vely + (nn * ay) \div 2
           T == NewControl(tr, x, y, vx, vy)
<1>1. n \in Int /\ ax \in Int /\ ay \in Int
  BY DEF Traj
<1>2. T = [tr EXCEPT !.velx = velx, !.vely = vely, !.ctrx = ctrx, !.ctry = ctry]
  BY DEF NewControl
<1> HIDE DEF n, ax, ay, T
<1>3. nn \in Int /\ n * ax \in Int /\ n * ay \in Int
  BY <1>1, Products
<1>4. velx \in Int /\ vely \in Int
  BY <1>3
<1> HIDE DEF nn, velx, vely
<1>5. n * velx \in Int /\ n * vely \in Int /\ nn * ax \in Int /\ nn * ay \in Int
  BY <1>1, <1>3, <1>4, Products
<1>6. ctrx \in Int /\ ctry \in Int
  BY <1>5
<1> HIDE DEF ctrx, ctry
<1>7. T \in Traj /\ T.landfall_x1 = tr.landfall_x1 /\ T.landfall_x2 = tr.landfall_x2 /\ T.victim = tr.victim
  BY <1>2, <1>4, <1>6 DEF Traj
<1> QED
  BY <1>7 DEF Bent, SameFall, T

LEMMA ReviseType ==
    ASSUME NEW tr \in Traj, NEW a \in Int, NEW b \in Int
    PROVE  Bent(tr, ReviseVelocity(tr, a, b)) /\ Bent(tr, ReviseAcceleration(tr, a, b))
<1>1. Bent(tr, tr)
  BY DEF Bent, SameFall
<1>2. CurrentX(tr) \in Int /\ CurrentY(tr) \in Int /\ VelocityX(tr) \in Int /\ VelocityY(tr) \in Int
  BY MotionType
<1>3. Bent(tr, NewControl(tr, CurrentX(tr), CurrentY(tr), a, b))
  BY <1>2, NewControlType
<1> DEFINE T == [tr EXCEPT !.accx = a, !.accy = b]
<1>4. T \in Traj /\ T.landfall_x1 = tr.landfall_x1 /\ T.landfall_x2 = tr.landfall_x2 /\ T.victim = tr.victim
  BY DEF Traj
<1>5. ReviseAcceleration(tr, a, b) = NewControl(T, CurrentX(tr), CurrentY(tr), VelocityX(tr), VelocityY(tr))
  BY DEF ReviseAcceleration
<1> HIDE DEF T
<1>6. Bent(tr, T)
  BY <1>4 DEF Bent, SameFall
<1>7. Bent(T, NewControl(T, CurrentX(tr), CurrentY(tr), VelocityX(tr), VelocityY(tr)))
  BY <1>2, <1>4, NewControlType
<1> QED
  BY <1>1, <1>3, <1>5, <1>6, <1>7, BentTwice DEF ReviseVelocity

LEMMA TrajResetType ==
    ASSUME NEW tr \in Traj
    PROVE  TrajReset(tr) \in Traj /\ SameFall(tr, TrajReset(tr))
<1> DEFINE T == TrajReset(tr)
<1>1. T = [tr EXCEPT !.victim = -1, !.timestep = 0, !.curx = tr.ctrx, !.cury = tr.ctry,
                     !.lastx = tr.ctry, !.dir = 0]
  BY DEF TrajReset
<1> HIDE DEF T
<1>2. -1 \in Player \cup {Nobody} /\ 0 \in Nat /\ 0 \in Int
  BY DEF Nobody
<1>3. T \in Traj /\ T.landfall_x1 = tr.landfall_x1 /\ T.landfall_x2 = tr.landfall_x2
  BY <1>1, <1>2 DEF Traj
<1> QED
  BY <1>3 DEF SameFall, T

\* Dirt has been dug away: there will be a landfall.
Pends(tr) == tr.landfall_x1 <= tr.landfall_x2

LEMMA TrajNewType ==
    ASSUME NEW p \in Player, NEW x \in Int, NEW y \in Int, NEW vx \in Int, NEW vy \in Int,
           NEW wind \in Int, NEW junk \in Int
    PROVE  TrajNew(p, x, y, vx, vy, wind, junk) \in Traj /\ ~Pends(TrajNew(p, x, y, vx, vy, wind, junk))
<1> DEFINE T == [type |-> "flight", player |-> p, ctrx |-> x, ctry |-> y, velx |-> vx, vely |-> vy,
                 accx |-> wind, accy |-> Gravity, oaccx |-> wind, oaccy |-> Gravity,
                 curx |-> x, cury |-> y, lastx |-> x, lasty |-> junk,
                 timestep |-> 0, finalstep |-> 0, stopstep |-> Timeout,
                 landfall_x1 |-> Width, landfall_x2 |-> 0, victim |-> -1, dir |-> 0]
<1>1. Gravity \in Int /\ Timeout \in Int /\ Width \in Int /\ Width > 0
  BY TrajectoryAssumption, Sizes
<1>2. T \in Traj /\ T.landfall_x1 = Width /\ T.landfall_x2 = 0
  BY <1>1 DEF Traj, Nobody
<1>3. TrajNew(p, x, y, vx, vy, wind, junk) = TrajReset(T)
  BY DEF TrajNew
<1> HIDE DEF T
<1>4. TrajReset(T) \in Traj /\ SameFall(T, TrajReset(T))
  BY <1>2, TrajResetType
<1> QED
  BY <1>1, <1>2, <1>3, <1>4 DEF Pends, SameFall

\* _sc_traj_landfall
LEMMA LandfallType ==
    ASSUME NEW tr \in Traj, NEW x \in Columns
    PROVE  Landfall(tr, x) \in Traj /\ Pends(Landfall(tr, x)) /\ Landfall(tr, x).victim = tr.victim
<1> DEFINE a == Lower(tr.landfall_x1, x)
           b == IF tr.landfall_x2 < x THEN x ELSE tr.landfall_x2
           T == Landfall(tr, x)
<1>1. T = [tr EXCEPT !.landfall_x1 = a, !.landfall_x2 = b]
  BY DEF Landfall
<1>2. tr.landfall_x1 \in Int /\ tr.landfall_x2 \in Nat /\ x \in Nat
  BY Sizes DEF Traj
<1>3. a \in Int /\ b \in Nat /\ a <= b
  BY <1>2 DEF Lower
<1> HIDE DEF a, b, T
<1>4. T \in Traj /\ T.landfall_x1 = a /\ T.landfall_x2 = b /\ T.victim = tr.victim
  BY <1>1, <1>3 DEF Traj
<1> QED
  BY <1>3, <1>4 DEF Pends, T

\* A stretch of a trajectory.
Results == {"continue", "sizzle"} \cup Impacts
Stretch == [w : World, tr : Traj, dx : Int, dy : Int, res : Results]
Passing == {s \in Stretch : s.res = "shield" => s.tr.victim \in Player}

\* The weapon has moved and the field is the same.
Onward(s, t) == t \in Passing /\ t.w = s.w /\ SameFall(s.tr, t.tr)

LEMMA PassingFields ==
    ASSUME NEW s \in Passing
    PROVE  /\ s \in Stretch
           /\ s.w \in World /\ s.tr \in Traj /\ s.dx \in Int /\ s.dy \in Int /\ s.res \in Results
           /\ s.res = "shield" => s.tr.victim \in Player
  BY DEF Passing, Stretch

LEMMA OnwardNot ==
    ASSUME NEW s \in Passing
    PROVE  Onward(s, s)
  BY DEF Onward, SameFall

LEMMA OnwardTwice ==
    ASSUME NEW s, NEW t, NEW u, Onward(s, t), Onward(t, u)
    PROVE  Onward(s, u)
  BY DEF Onward, SameFall

LEMMA OnwardTo ==
    ASSUME NEW s \in Passing, NEW t \in Stretch, t.w = s.w, SameFall(s.tr, t.tr),
           t.res = "shield" => t.tr.victim \in Player
    PROVE  Onward(s, t)
  BY DEF Onward, Passing

\* The result changes.
LEMMA ResultTo ==
    ASSUME NEW s \in Passing, NEW res \in Results \ {"shield"}
    PROVE  Onward(s, [s EXCEPT !.res = res])
<1> DEFINE t == [s EXCEPT !.res = res]
<1>1. t \in Stretch /\ t.w = s.w /\ t.tr = s.tr /\ t.res = res
  BY PassingFields DEF Stretch
<1> HIDE DEF t
<1>2. SameFall(s.tr, t.tr)
  BY <1>1 DEF SameFall
<1>3. Onward(s, t)
  BY <1>1, <1>2, OnwardTo
<1> QED
  BY <1>3 DEF t

\* The trajectory changes.
LEMMA BentTo ==
    ASSUME NEW s \in Passing, NEW T, Bent(s.tr, T)
    PROVE  Onward(s, [s EXCEPT !.tr = T])
<1> DEFINE t == [s EXCEPT !.tr = T]
<1>1. T \in Traj /\ SameFall(s.tr, T) /\ T.victim = s.tr.victim
  BY DEF Bent
<1>2. t \in Stretch /\ t.w = s.w /\ t.tr = T /\ t.res = s.res
  BY <1>1, PassingFields DEF Stretch
<1> HIDE DEF t
<1>3. t.res = "shield" => t.tr.victim \in Player
  BY <1>1, <1>2, PassingFields
<1>4. Onward(s, t)
  BY <1>1, <1>2, <1>3, OnwardTo
<1> QED
  BY <1>4 DEF t

\* The places in a trajectory change.
LEMMA PlacedAt ==
    ASSUME NEW tr \in Traj, NEW a \in Int, NEW b \in Int
    PROVE  /\ Bent(tr, [tr EXCEPT !.curx = a, !.cury = b])
           /\ Bent(tr, [tr EXCEPT !.lastx = a, !.lasty = b])
           /\ Bent(tr, [tr EXCEPT !.velx = a])
           /\ Bent(tr, [tr EXCEPT !.curx = a])
           /\ Bent(tr, [tr EXCEPT !.dir = a])
  BY DEF Traj, Bent, SameFall

LEMMA PlacesOf ==
    ASSUME NEW tr \in Traj
    PROVE  /\ tr.curx \in Int /\ tr.cury \in Int /\ tr.lastx \in Int /\ tr.lasty \in Int
           /\ tr.velx \in Int /\ tr.dir \in Int /\ tr.timestep \in Nat /\ tr.finalstep \in Int
           /\ tr.player \in Player /\ tr.oaccx \in Int /\ tr.oaccy \in Int /\ tr.ctrx \in Int
           /\ tr.ctry \in Int /\ tr.stopstep \in Int /\ tr.victim \in Player \cup {Nobody}
  BY DEF Traj

\* _sc_traj_pass_wall_elastic
LEMMA ReboundType ==
    ASSUME NEW s \in Passing, NEW x \in Int, NEW y \in Int,
           NEW wayx \in {-1, 0, 1}, NEW wayy \in {-1, 0, 1}
    PROVE  Onward(s, Rebound(s, x, y, wayx, wayy))
<1> DEFINE tr == s.tr
           elastic(v) == Rint(v * Elasticity(s.w.physics), 2)
           velocity(way, v) == IF way = 0 THEN v ELSE -elastic(v)
           step(way, d) == IF way = 0 THEN elastic(d) ELSE way * elastic(Magnitude(d))
           vx == velocity(wayx, VelocityX(tr))
           vy == velocity(wayy, VelocityY(tr))
           stop == tr.stopstep - tr.timestep
           T == [tr EXCEPT !.curx = x, !.cury = y, !.ctrx = x, !.ctry = y, !.velx = vx, !.vely = vy,
                           !.stopstep = stop, !.timestep = 0, !.finalstep = 0]
           dx == step(wayx, s.dx)
           dy == step(wayy, s.dy)
<1>1. tr \in Traj /\ s.dx \in Int /\ s.dy \in Int /\ s.res \in Results
  BY PassingFields
<1>2. ASSUME NEW v \in Int PROVE elastic(v) \in Int
  <2>1. Elasticity(s.w.physics) \in Int
    BY DEF Elasticity
  <2> DEFINE k == v * Elasticity(s.w.physics)
  <2>2. k \in Int
    BY <2>1, Products
  <2> HIDE DEF k
  <2>3. Rint(k, 2) \in Int
    BY <2>2, RintType
  <2> QED
    BY <2>3 DEF k
<1>3. VelocityX(tr) \in Int /\ VelocityY(tr) \in Int
  BY <1>1, MotionType
<1>4. Rebound(s, x, y, wayx, wayy) = [s EXCEPT !.tr = T, !.dx = dx, !.dy = dy]
  BY DEF Rebound
<1>5. \A d \in Int, way \in {-1, 0, 1} : velocity(way, d) \in Int /\ step(way, d) \in Int
  <2> HIDE DEF elastic
  <2>1. \A d \in Int : elastic(d) \in Int /\ Magnitude(d) \in Int
    BY <1>2, Magnitudes
  <2>2. \A d \in Int : elastic(Magnitude(d)) \in Int
    BY <2>1
  <2> QED
    BY <2>1, <2>2
<1> HIDE DEF velocity, step, elastic
<1>6. vx \in Int /\ vy \in Int /\ dx \in Int /\ dy \in Int
  BY <1>1, <1>3, <1>5
<1>7. stop \in Int
  BY <1>1, PlacesOf
<1> HIDE DEF vx, vy, dx, dy, stop, tr
<1>8. T \in Traj /\ SameFall(tr, T) /\ T.victim = tr.victim
  <2>1. tr \in Traj /\ 0 \in Nat /\ 0 \in Int
    BY <1>1
  <2>2. T \in Traj
    BY <1>6, <1>7, <2>1 DEF Traj
  <2>3. T.landfall_x1 = tr.landfall_x1 /\ T.landfall_x2 = tr.landfall_x2 /\ T.victim = tr.victim
    BY <2>1 DEF Traj
  <2> QED
    BY <2>2, <2>3 DEF SameFall
<1> HIDE DEF T
<1> DEFINE t == [s EXCEPT !.tr = T, !.dx = dx, !.dy = dy]
<1>9. t \in Stretch /\ t.w = s.w /\ t.tr = T /\ t.res = s.res
  BY <1>6, <1>8, PassingFields DEF Stretch
<1>10. t = Rebound(s, x, y, wayx, wayy)
  BY <1>4
<1> HIDE DEF t
<1>11. SameFall(s.tr, t.tr) /\ (t.res = "shield" => t.tr.victim \in Player)
  BY <1>8, <1>9, PassingFields DEF tr
<1>12. Onward(s, t)
  BY <1>9, <1>11, OnwardTo
<1> QED
  BY <1>9, <1>10, <1>12

LEMMA ReboundSidesType ==
    ASSUME NEW s \in Passing
    PROVE  Onward(s, ReboundSides(s))
<1>1. s.tr.curx \in Int /\ s.tr.cury \in Int
  BY PassingFields, PlacesOf
<1>2. Pixel(s.tr.curx) \in Int /\ Width \in Int /\ Unit \in Int /\ Width > 0
  <2>1. Pixel(s.tr.curx) \in Int
    BY <1>1, PixelType
  <2>2. Width \in Int /\ Unit \in Int /\ Width > 0
    BY Sizes
  <2> QED
    BY <2>1, <2>2
<1>3. (Width - 1) * Unit \in Int /\ 0 \in Int
  BY <1>2, Products
<1>4. Onward(s, Rebound(s, 0, s.tr.cury, 1, 0))
  BY <1>1, <1>3, ReboundType
<1>5. Onward(s, Rebound(s, (Width - 1) * Unit, s.tr.cury, -1, 0))
  BY <1>1, <1>3, ReboundType
<1>6. Onward(s, s)
  BY OnwardNot
<1>7. ReboundSides(s) \in {Rebound(s, 0, s.tr.cury, 1, 0), Rebound(s, (Width - 1) * Unit, s.tr.cury, -1, 0), s}
  BY <1>2 DEF ReboundSides
<1> QED
  BY <1>4, <1>5, <1>6, <1>7

LEMMA ReboundFloorType ==
    ASSUME NEW s \in Passing
    PROVE  Onward(s, ReboundFloor(s))
<1>1. s.tr.curx \in Int /\ s.tr.cury \in Int
  BY PassingFields, PlacesOf
<1>2. Height \in Int /\ Unit \in Int
  BY Sizes
<1>3. (Height - 1) * Unit \in Int /\ 0 \in Int
  BY <1>2, Products
<1>4. Onward(s, Rebound(s, s.tr.curx, 0, 0, 1))
  BY <1>1, <1>3, ReboundType
<1>5. Onward(s, Rebound(s, s.tr.curx, (Height - 1) * Unit, 0, -1))
  BY <1>1, <1>3, ReboundType
<1>6. Onward(s, s)
  BY OnwardNot
<1>7. Onward(s, [s EXCEPT !.res = "ground"])
  <2>1. "ground" \in Results \ {"shield"}
    BY DEF Results, Impacts
  <2> QED
    BY <2>1, ResultTo
<1>8. ReboundFloor(s) \in {[s EXCEPT !.res = "ground"], Rebound(s, s.tr.curx, 0, 0, 1),
                           Rebound(s, s.tr.curx, (Height - 1) * Unit, 0, -1), s}
  BY DEF ReboundFloor
<1> QED
  BY <1>4, <1>5, <1>6, <1>7, <1>8

\* _sc_traj_pass_wall_wrap
LEMMA WrapAroundType ==
    ASSUME NEW tr \in Traj
    PROVE  Bent(tr, WrapAround(tr))
<1> DEFINE k == Pixel(tr.curx) \div Width
           kw == k * Width
           shift == kw * Unit
<1>1. tr.curx \in Int /\ Width \in Nat \ {0} /\ Unit \in Int /\ tr.ctrx \in Int
  BY Sizes, PlacesOf
<1>2. k \in Int
  BY <1>1, PixelType, Quotients
<1>3. WrapAround(tr) = [tr EXCEPT !.curx = @ - shift, !.ctrx = @ - shift]
  BY DEF WrapAround
<1> HIDE DEF k
<1>4. kw \in Int
  BY <1>1, <1>2, Products
<1> HIDE DEF kw
<1>5. shift \in Int
  BY <1>1, <1>4, Products
<1> HIDE DEF shift
<1> DEFINE a == tr.curx - shift
           b == tr.ctrx - shift
<1>6. a \in Int /\ b \in Int
  BY <1>1, <1>5
<1>7. WrapAround(tr) = [tr EXCEPT !.curx = a, !.ctrx = b]
  BY <1>3
<1> HIDE DEF a, b
<1>8. [tr EXCEPT !.curx = a, !.ctrx = b] \in Traj /\ SameFall(tr, [tr EXCEPT !.curx = a, !.ctrx = b])
      /\ [tr EXCEPT !.curx = a, !.ctrx = b].victim = tr.victim
  BY <1>6 DEF Traj, SameFall
<1> QED
  BY <1>7, <1>8 DEF Bent

\* _sc_traj_pass_wall
LEMMA PassWallType ==
    ASSUME NEW s \in Passing
    PROVE  Onward(s, PassWall(s))
<1>1. ASSUME NEW res \in {"wall", "ground", "sizzle"}
      PROVE  Onward(s, [s EXCEPT !.res = res])
  <2>1. res \in Results \ {"shield"}
    BY DEF Results, Impacts
  <2> QED
    BY <2>1, ResultTo
<1>2. Onward(s, ReboundFloor(ReboundSides(s)))
  <2>1. Onward(s, ReboundSides(s))
    BY ReboundSidesType
  <2>2. ReboundSides(s) \in Passing
    BY <2>1 DEF Onward
  <2>3. Onward(ReboundSides(s), ReboundFloor(ReboundSides(s)))
    BY <2>1, <2>2, ReboundFloorType
  <2> QED
    BY <2>1, <2>3, OnwardTwice
<1>3. Onward(s, [s EXCEPT !.tr = WrapAround(@)])
  <2>1. Bent(s.tr, WrapAround(s.tr))
    BY PassingFields, WrapAroundType
  <2>2. [s EXCEPT !.tr = WrapAround(@)] = [s EXCEPT !.tr = WrapAround(s.tr)]
    OBVIOUS
  <2> QED
    BY <2>1, <2>2, BentTo
<1>4. Onward(s, s)
  BY OnwardNot
<1>5. \/ PassWall(s) \in {ReboundFloor(ReboundSides(s)), [s EXCEPT !.tr = WrapAround(@)], s}
      \/ \E res \in {"wall", "ground", "sizzle"} : PassWall(s) = [s EXCEPT !.res = res]
  BY DEF PassWall
<1> QED
  BY <1>1, <1>2, <1>3, <1>4, <1>5

\* _sc_traj_pass_shield, and what it has in common with _sc_traj_hit
LEMMA StruckType ==
    ASSUME NEW s \in Passing, NEW players \in SUBSET Player, NEW res \in {"shield", "tank"}
    PROVE  Onward(s, Struck(s, players, res))
<1>1. CASE players = {} \/ s.res # "continue"
  BY <1>1, OnwardNot DEF Struck
<1>2. CASE ~(players = {} \/ s.res # "continue")
  <2> DEFINE v == Max(players)
             T == [s.tr EXCEPT !.victim = v]
  <2>1. NumPlayers \in Nat /\ players \in SUBSET (0 .. NumPlayers - 1)
    BY VolleyAssumption DEF Player
  <2>2. v \in players
    <3>1. players # {} /\ 0 \in Int /\ NumPlayers - 1 \in Int
      BY <1>2, <2>1
    <3> QED
      BY <2>1, <3>1, Extremes
  <2> HIDE DEF v
  <2>3. s.tr \in Traj /\ s.dx \in Int /\ s.dy \in Int
    BY PassingFields
  <2>4. v \in Player
    BY <2>2
  <2>5. T \in Traj /\ SameFall(s.tr, T) /\ T.victim = v
    BY <2>3, <2>4 DEF Traj, SameFall
  <2> DEFINE t == [s EXCEPT !.tr = T, !.res = res]
  <2>6. Struck(s, players, res) = t
    BY <1>2 DEF Struck, v
  <2>7. res \in Results
    BY DEF Results, Impacts
  <2> HIDE DEF T
  <2>8. t \in Stretch /\ t.w = s.w /\ t.tr = T
    BY <2>5, <2>7, PassingFields DEF Stretch
  <2> HIDE DEF t
  <2>9. Onward(s, t)
    BY <2>4, <2>5, <2>8, OnwardTo
  <2> QED
    BY <2>6, <2>9
<1> QED
  BY <1>1, <1>2

LEMMA PassShieldType ==
    ASSUME NEW s \in Passing, NEW flags
    PROVE  Onward(s, PassShield(s, flags))
<1>1. Players(s.w) = Player
  BY PassingFields, PlayersType
<1> QED
  BY <1>1, StruckType DEF PassShield

LEMMA PassType ==
    ASSUME NEW s \in Passing, NEW flags
    PROVE  Onward(s, Pass(s, flags))
<1>1. Onward(s, PassWall(s))
  BY PassWallType
<1>2. PassWall(s) \in Passing
  BY <1>1 DEF Onward
<1>3. Onward(PassWall(s), PassShield(PassWall(s), flags))
  BY <1>2, PassShieldType
<1> QED
  BY <1>1, <1>3, OnwardTwice DEF Pass

\* _sc_traj_hit_land
LEMMA HitLandType ==
    ASSUME NEW s \in Passing, NEW flags
    PROVE  Onward(s, HitLand(s, flags))
<1> DEFINE tr == s.tr
           vx == Damped(VelocityX(tr))
           vy == Damped(VelocityY(tr))
           slowed == ReviseVelocity(tr, vx, vy)
<1>1. tr \in Traj /\ VelocityX(tr) \in Int /\ VelocityY(tr) \in Int
  BY PassingFields, MotionType
<1>2. \A v \in Int : Damped(v) \in Int
  <2>1. \A v \in Int : 4 * v \in Int /\ 5 \in Nat \ {0}
    OBVIOUS
  <2> QED
    BY <2>1, RintType DEF Damped
<1>3. Bent(tr, slowed)
  BY <1>1, <1>2, ReviseType
<1>4. slowed \in Traj
  BY <1>3 DEF Bent
<1>5. Bent(slowed, ReviseAcceleration(slowed, 0, 0))
  BY <1>4, ReviseType
<1>6. Bent(tr, ReviseAcceleration(slowed, 0, 0))
  BY <1>3, <1>5, BentTwice
<1>7. Bent(tr, ReviseAcceleration(tr, tr.oaccx, tr.oaccy))
  BY <1>1, PlacesOf, ReviseType
<1>8. Onward(s, [s EXCEPT !.tr = ReviseAcceleration(slowed, 0, 0)])
  BY <1>6, BentTo
<1>9. Onward(s, [s EXCEPT !.tr = ReviseAcceleration(tr, tr.oaccx, tr.oaccy)])
  BY <1>7, BentTo
<1>10. Onward(s, [s EXCEPT !.res = "land"])
  <2>1. "land" \in Results \ {"shield"}
    BY DEF Results, Impacts
  <2> QED
    BY <2>1, ResultTo
<1>11. Onward(s, s)
  BY OnwardNot
<1>12. HitLand(s, flags) \in {[s EXCEPT !.tr = ReviseAcceleration(slowed, 0, 0)], [s EXCEPT !.res = "land"],
                              [s EXCEPT !.tr = ReviseAcceleration(tr, tr.oaccx, tr.oaccy)], s}
  <2> DEFINE solid == OnField(s.w, Pixel(tr.curx), Pixel(tr.cury)) /\ Ground(s.w, Pixel(tr.curx), Pixel(tr.cury))
             digs == /\ "tunneling" \in flags /\ tr.type = "flight"
                     /\ Square(vx) + Square(vy) >= Square(TunnelMin)
  <2>1. HitLand(s, flags) =
          CASE solid /\ digs -> [s EXCEPT !.tr = ReviseAcceleration(slowed, 0, 0)]
            [] solid /\ ~digs -> [s EXCEPT !.res = "land"]
            [] ~solid /\ tr.type = "flight" -> [s EXCEPT !.tr = ReviseAcceleration(tr, tr.oaccx, tr.oaccy)]
            [] OTHER -> s
    BY DEF HitLand
  <2> HIDE DEF solid, digs, tr, slowed
  <2> QED
    BY <2>1
<1> QED
  BY <1>8, <1>9, <1>10, <1>11, <1>12

\* _sc_traj_hit
LEMMA HitType ==
    ASSUME NEW s \in Passing, NEW flags
    PROVE  Onward(s, Hit(s, flags))
<1> DEFINE t == HitTank(s)
<1>1. Players(s.w) = Player
  BY PassingFields, PlayersType
<1>2. Onward(s, t)
  BY <1>1, StruckType DEF HitTank
<1>3. t \in Passing
  BY <1>2 DEF Onward
<1>4. Hit(s, flags) = IF t.res = "continue" THEN HitLand(t, flags) ELSE t
  BY DEF Hit
<1> HIDE DEF t
<1>5. Onward(t, HitLand(t, flags))
  BY <1>3, HitLandType
<1> QED
  BY <1>2, <1>4, <1>5, OnwardTwice

\* _sc_traj_pass_or_hit
LEMMA PassOrHitType ==
    ASSUME NEW s \in Passing, NEW flags
    PROVE  Onward(s, PassOrHit(s, flags))
<1>1. Onward(s, Pass(s, flags))
  BY PassType
<1>2. Pass(s, flags) \in Passing
  BY <1>1 DEF Onward
<1>3. Onward(Pass(s, flags), Hit(Pass(s, flags), flags))
  BY <1>2, HitType
<1> QED
  BY <1>1, <1>3, OnwardTwice DEF PassOrHit

\* _sc_traj_roller_setup and the look at what is there
LEMMA ProbeType ==
    ASSUME NEW s \in Passing, NEW dx \in Int, NEW dy \in Int, NEW flags
    PROVE  Onward(s, Probe(s, dx, dy, flags))
<1> DEFINE a == s.tr.curx + dx
           b == s.tr.cury + dy
           T == [s.tr EXCEPT !.curx = a, !.cury = b]
           t == [s EXCEPT !.tr.curx = @ + dx, !.tr.cury = @ + dy, !.dx = dx, !.dy = dy]
<1>1. s.tr \in Traj /\ a \in Int /\ b \in Int
  BY PassingFields, PlacesOf
<1>2. Bent(s.tr, T)
  <2> HIDE DEF a, b
  <2> QED
    BY <1>1, PlacedAt
<1>3. T \in Traj /\ SameFall(s.tr, T) /\ T.victim = s.tr.victim
  BY <1>2 DEF Bent
<1>4. t = [s EXCEPT !.tr = T, !.dx = dx, !.dy = dy]
  BY PassingFields DEF Stretch, Traj
<1> HIDE DEF T
<1>5. t \in Stretch /\ t.w = s.w /\ t.tr = T /\ t.res = s.res
  BY <1>3, <1>4, PassingFields DEF Stretch
<1>6. Probe(s, dx, dy, flags) = PassOrHit(t, flags)
  BY DEF Probe
<1> HIDE DEF t
<1>7. Onward(s, t)
  BY <1>3, <1>5, PassingFields, OnwardTo
<1>8. t \in Passing
  BY <1>7 DEF Onward
<1> QED
  BY <1>6, <1>7, <1>8, PassOrHitType, OnwardTwice

\* _sc_traj_roller_restore
LEMMA RestoredType ==
    ASSUME NEW s \in Passing, NEW at \in Traj
    PROVE  Onward(s, Restored(s, at)) /\ Restored(s, at).res = "continue"
<1> DEFINE a == at.curx
           b == at.cury
           T == [s.tr EXCEPT !.curx = a, !.cury = b]
           t == Restored(s, at)
<1>1. s.tr \in Traj /\ a \in Int /\ b \in Int
  BY PassingFields, PlacesOf
<1>2. Bent(s.tr, T)
  <2> HIDE DEF a, b
  <2> QED
    BY <1>1, PlacedAt
<1>3. T \in Traj /\ SameFall(s.tr, T)
  BY <1>2 DEF Bent
<1>4. t = [s EXCEPT !.tr = T, !.res = "continue"]
  BY PassingFields DEF Stretch, Traj, Restored
<1> HIDE DEF T
<1>5. "continue" \in Results
  BY DEF Results
<1>6. t \in Stretch /\ t.w = s.w /\ t.tr = T /\ t.res = "continue"
  BY <1>3, <1>4, <1>5, PassingFields DEF Stretch
<1> HIDE DEF t
<1>7. Onward(s, t)
  BY <1>3, <1>6, OnwardTo
<1> QED
  BY <1>6, <1>7 DEF t

\* A roller changes its velocity.
LEMMA TurnedType ==
    ASSUME NEW s \in Passing, NEW v \in Int
    PROVE  Onward(s, [s EXCEPT !.tr.velx = v]) /\ [s EXCEPT !.tr.velx = v].res = s.res
<1>1. Bent(s.tr, [s.tr EXCEPT !.velx = v])
  BY PassingFields, PlacedAt
<1>2. [s EXCEPT !.tr.velx = v] = [s EXCEPT !.tr = [s.tr EXCEPT !.velx = v]]
  OBVIOUS
<1>3. [s EXCEPT !.tr.velx = v].res = s.res
  BY PassingFields DEF Stretch
<1> QED
  BY <1>1, <1>2, <1>3, BentTo

\* One way of _sc_traj_roller_fallthrough
Ways == {"down", "on", "back"}
Tried(s) == {acc \in [s : Passing, free : BOOLEAN] : Onward(s, acc.s)}

LEMMA WayType ==
    ASSUME NEW v \in Int, NEW way \in Ways
    PROVE  Way(v, way).x \in Int /\ Way(v, way).y \in Int
<1>1. Sgn(v) \in {-1, 0, 1} /\ Unit \in Int
  BY Magnitudes, Sizes
<1> DEFINE k == Sgn(v) * Unit
           m == -Sgn(v) * Unit
<1>2. k \in Int /\ m \in Int
  BY <1>1
<1>3. Way(v, way) \in {[x |-> 0, y |-> -Unit], [x |-> k, y |-> 0], [x |-> m, y |-> 0]}
  BY DEF Way, Ways
<1> HIDE DEF k, m
<1> QED
  BY <1>1, <1>2, <1>3

LEMMA TryWayType ==
    ASSUME NEW s, NEW acc \in Tried(s), NEW way \in Ways, NEW flags
    PROVE  TryWay(acc, way, flags) \in Tried(s)
<1> DEFINE at == acc.s.tr
           d  == Way(at.velx, way)
           probe == Probe(acc.s, d.x, d.y, flags)
           r == Restored(probe, at)
           v == IF way = "back" /\ ~IsImpact(probe.res) THEN -r.tr.velx ELSE r.tr.velx
           t == [r EXCEPT !.tr.velx = v]
           free == ~IsImpact(probe.res)
<1>1. acc.s \in Passing /\ acc.free \in BOOLEAN /\ Onward(s, acc.s)
  BY DEF Tried
<1>2. at \in Traj /\ d.x \in Int /\ d.y \in Int
  <2>1. at \in Traj /\ at.velx \in Int
    BY <1>1, PassingFields, PlacesOf
  <2> QED
    BY <2>1, WayType
<1>3. TryWay(acc, way, flags) = IF acc.free THEN acc ELSE [free |-> free, s |-> t]
  BY DEF TryWay
<1>4. CASE acc.free
  BY <1>3, <1>4
<1>5. CASE ~acc.free
  <2> HIDE DEF at, d
  <2>1. Onward(acc.s, probe)
    BY <1>1, <1>2, ProbeType
  <2>2. probe \in Passing /\ free \in BOOLEAN
    BY <2>1 DEF Onward
  <2> HIDE DEF probe, free
  <2>3. Onward(probe, r)
    BY <1>2, <2>2, RestoredType
  <2>4. r \in Passing /\ r.tr.velx \in Int
    <3>1. r \in Passing
      BY <2>3 DEF Onward
    <3> QED
      BY <3>1, PassingFields, PlacesOf
  <2> HIDE DEF r
  <2>5. v \in Int
    BY <2>4
  <2> HIDE DEF v
  <2>6. Onward(r, t)
    BY <2>4, <2>5, TurnedType
  <2> HIDE DEF t
  <2>7. Onward(s, t) /\ t \in Passing
    <3>1. Onward(s, probe)
      BY <1>1, <2>1, OnwardTwice
    <3>2. Onward(s, r)
      BY <2>3, <3>1, OnwardTwice
    <3> QED
      BY <2>6, <3>2, OnwardTwice DEF Onward
  <2>8. TryWay(acc, way, flags) = [free |-> free, s |-> t]
    BY <1>3, <1>5
  <2> QED
    BY <2>2, <2>7, <2>8 DEF Tried
<1> QED
  BY <1>1, <1>4, <1>5

\* _sc_traj_roller_fallthrough
LEMMA FallthroughType ==
    ASSUME NEW s \in Passing, NEW flags
    PROVE  Onward(s, Fallthrough(s, flags))
<1> DEFINE seq == <<"down", "on", "back">>
           n == Len(seq)
           c == [flags |-> flags, seq |-> seq]
           s0 == [s |-> s, free |-> FALSE]
<1>1. n \in Nat /\ n = 3
  OBVIOUS
<1>2. PICK f : IsRun("Fallthrough", s0, c, n, f) /\ Fallthrough(s, flags) = f[n].s
  BY <1>1, FallthroughLoop
<1>3. s0 \in Tried(s)
  BY OnwardNot DEF Tried
<1>4. \A i \in 1 .. n : seq[i] \in Ways
  BY DEF Ways
<1>5. c.flags = flags /\ c.seq = seq
  OBVIOUS
<1>6. IsRun("Fallthrough", s0, c, n, f)
  BY <1>2
<1> HIDE DEF seq, n, c, s0
<1>7. \A acc \in Tried(s), i \in 1 .. n : Step("Fallthrough", acc, i, c) \in Tried(s)
  BY <1>4, <1>5, TryWayType DEF Step
<1>8. f[n] \in Tried(s)
  BY <1>1, <1>3, <1>6, <1>7, RunKept
<1> QED
  BY <1>2, <1>8 DEF Tried

\* The last place of a roller is where it was.
LEMMA MovedType ==
    ASSUME NEW s \in Passing, NEW at \in Traj
    PROVE  Onward(s, Moved(s, at))
<1> DEFINE a == at.curx
           b == at.cury
           T == [s.tr EXCEPT !.lastx = a, !.lasty = b]
<1>1. s.tr \in Traj /\ a \in Int /\ b \in Int
  BY PassingFields, PlacesOf
<1>2. Bent(s.tr, T)
  <2> HIDE DEF a, b
  <2> QED
    BY <1>1, PlacedAt
<1>3. Moved(s, at) = [s EXCEPT !.tr = T]
  BY PassingFields DEF Stretch, Traj, Moved
<1> HIDE DEF T
<1> QED
  BY <1>2, <1>3, BentTo

\* A roller climbs.
LEMMA TryClimbType ==
    ASSUME NEW s \in Passing, NEW at \in Traj, NEW rows \in Int, NEW flags
    PROVE  Onward(s, TryClimb(s, at, rows, flags))
<1> DEFINE r == Restored(s, at)
           r1 == [r EXCEPT !.res = "continue"]
           p == Probe(r1, 0, rows * Unit, flags)
           land == [Restored(p, at) EXCEPT !.res = "land"]
           m == Moved(p, at)
           v == m.tr.velx - rows * RollerGain * Sgn(m.tr.velx)
           T == [m.tr EXCEPT !.velx = v]
           up == [m EXCEPT !.res = "continue", !.tr.velx = v]
<1>1. TryClimb(s, at, rows, flags) \in {s, land, up}
  BY DEF TryClimb
<1>2. "land" \in Results \ {"shield"} /\ "continue" \in Results \ {"shield"}
  BY DEF Results, Impacts
<1>3. Onward(s, r)
  BY RestoredType
<1>4. r \in Passing
  BY <1>3 DEF Onward
<1> HIDE DEF r
<1>5. Onward(r, r1)
  BY <1>2, <1>4, ResultTo
<1>6. r1 \in Passing /\ 0 \in Int /\ rows * Unit \in Int
  BY <1>5, Sizes, Products DEF Onward
<1> HIDE DEF r1
<1>7. Onward(r1, p)
  BY <1>6, ProbeType
<1>8. p \in Passing
  BY <1>7 DEF Onward
<1> HIDE DEF p
<1>9. Onward(s, p)
  BY <1>3, <1>5, <1>7, OnwardTwice
<1>10. Onward(p, land)
  <2>1. Onward(p, Restored(p, at))
    BY <1>8, RestoredType
  <2>2. Restored(p, at) \in Passing
    BY <2>1 DEF Onward
  <2>3. Onward(Restored(p, at), land)
    BY <1>2, <2>2, ResultTo
  <2> QED
    BY <2>1, <2>3, OnwardTwice
<1>11. Onward(p, m)
  BY <1>8, MovedType
<1>12. m \in Passing /\ m.tr \in Traj
  BY <1>11, PassingFields DEF Onward
<1> HIDE DEF m
<1>13. v \in Int
  <2>1. m.tr.velx \in Int /\ RollerGain \in Int
    BY <1>12, PlacesOf, TrajectoryAssumption
  <2>2. Sgn(m.tr.velx) \in Int
    BY <2>1, Magnitudes
  <2>3. rows * RollerGain \in Int
    BY <2>1, Products
  <2>4. rows * RollerGain * Sgn(m.tr.velx) \in Int
    BY <2>2, <2>3, Products
  <2> QED
    BY <2>1, <2>4
<1> HIDE DEF v
<1>14. Bent(m.tr, T)
  BY <1>12, <1>13, PlacedAt
<1>15. T \in Traj /\ SameFall(m.tr, T)
  BY <1>14 DEF Bent
<1>16. up = [m EXCEPT !.res = "continue", !.tr = T]
  OBVIOUS
<1> HIDE DEF T
<1>17. up \in Stretch /\ up.w = m.w /\ up.tr = T /\ up.res = "continue"
  BY <1>2, <1>12, <1>15, <1>16, PassingFields DEF Stretch
<1> HIDE DEF up
<1>18. Onward(m, up)
  BY <1>12, <1>15, <1>17, OnwardTo
<1>19. Onward(s, land) /\ Onward(s, up)
  BY <1>9, <1>10, <1>11, <1>18, OnwardTwice
<1> QED
  BY <1>1, <1>19, OnwardNot

LEMMA RollUpType ==
    ASSUME NEW s \in Passing, NEW at \in Traj, NEW flags
    PROVE  Onward(s, RollUp(s, at, flags))
<1> DEFINE seq == <<1, 2>>
           n == Len(seq)
           c == [at |-> at, flags |-> flags, seq |-> seq]
           s0 == [Restored(s, at) EXCEPT !.res = "land"]
           S == {t \in Passing : Onward(s, t)}
<1>1. n \in Nat /\ n = 2
  OBVIOUS
<1>2. PICK f : IsRun("RollUp", s0, c, n, f) /\ RollUp(s, at, flags) = f[n]
  BY <1>1, RollUpLoop
<1>3. s0 \in S
  <2>1. "land" \in Results \ {"shield"}
    BY DEF Results, Impacts
  <2>2. Onward(s, Restored(s, at))
    BY RestoredType
  <2>3. Restored(s, at) \in Passing
    BY <2>2 DEF Onward
  <2>4. Onward(Restored(s, at), s0)
    BY <2>1, <2>3, ResultTo
  <2>5. Onward(s, s0)
    BY <2>2, <2>4, OnwardTwice
  <2> QED
    BY <2>5 DEF Onward
<1>4. \A i \in 1 .. n : seq[i] \in Int
  OBVIOUS
<1>5. c.flags = flags /\ c.seq = seq /\ c.at = at
  OBVIOUS
<1>6. IsRun("RollUp", s0, c, n, f)
  BY <1>2
<1> HIDE DEF seq, n, c, s0
<1>7. ASSUME NEW t \in S, NEW i \in 1 .. n PROVE Step("RollUp", t, i, c) \in S
  <2>1. Step("RollUp", t, i, c) = TryClimb(t, at, seq[i], flags)
    BY <1>5 DEF Step
  <2>2. Onward(t, TryClimb(t, at, seq[i], flags))
    BY <1>4, TryClimbType
  <2> QED
    BY <2>1, <2>2, OnwardTwice DEF Onward
<1> HIDE DEF S
<1>8. f[n] \in S
  BY <1>1, <1>3, <1>6, <1>7, RunKept
<1> QED
  BY <1>2, <1>8 DEF S

\* The remainder of C.
LEMMA RemainderType ==
    ASSUME NEW a \in Int
    PROVE  Remainder(a, 4) \in Int
<1>1. Magnitude(a) \in Nat /\ Sgn(a) \in {-1, 0, 1}
  BY Magnitudes
<1> DEFINE m == Magnitude(a) % 4
<1>2. m \in Int
  BY <1>1
<1> HIDE DEF m
<1>3. Sgn(a) * m \in Int
  BY <1>1, <1>2
<1> QED
  BY <1>3 DEF Remainder, m

\* _sc_traj_digger_get_direction
LEMMA DiggerStepType ==
    ASSUME NEW s \in Passing, NEW turns \in Int
    PROVE  Onward(s, DiggerStep(s, turns))
<1> DEFINE way == Remainder(s.tr.dir + (IF turns < 0 THEN turns + 4 ELSE turns), 4)
           dx  == CASE way \in {0, 2} -> 0 [] way = 1 -> -Unit [] OTHER -> Unit
           dy  == CASE way = 0 -> -Unit [] way = 2 -> Unit [] OTHER -> 0
           a == s.tr.curx + dx
           b == s.tr.cury + dy
           T == [s.tr EXCEPT !.curx = a, !.cury = b]
           t == [s EXCEPT !.dx = dx, !.dy = dy, !.tr.curx = @ + dx, !.tr.cury = @ + dy]
<1>1. DiggerStep(s, turns) = t
  BY DEF DiggerStep
<1>2. dx \in Int /\ dy \in Int
  <2> HIDE DEF way
  <2> QED
    BY Sizes
<1> HIDE DEF dx, dy
<1>3. s.tr \in Traj /\ a \in Int /\ b \in Int
  BY <1>2, PassingFields, PlacesOf
<1>4. Bent(s.tr, T)
  <2> HIDE DEF a, b
  <2> QED
    BY <1>3, PlacedAt
<1>5. T \in Traj /\ SameFall(s.tr, T) /\ T.victim = s.tr.victim
  BY <1>4 DEF Bent
<1>6. t = [s EXCEPT !.dx = dx, !.dy = dy, !.tr = T]
  BY PassingFields DEF Stretch, Traj
<1> HIDE DEF T, t
<1>7. t \in Stretch /\ t.w = s.w /\ t.tr = T /\ t.res = s.res
  BY <1>2, <1>5, <1>6, PassingFields DEF Stretch
<1>8. Onward(s, t)
  BY <1>5, <1>7, PassingFields, OnwardTo
<1> QED
  BY <1>1, <1>8

LEMMA OverGapType ==
    ASSUME NEW s \in Passing, NEW flags
    PROVE  Onward(s, OverGap(s, flags))
<1> DEFINE a == s.tr.curx + s.dx
           b == s.tr.cury + s.dy
           T == [s.tr EXCEPT !.curx = a, !.cury = b]
           t == [s EXCEPT !.tr.curx = @ + s.dx, !.tr.cury = @ + s.dy]
<1>1. OverGap(s, flags) \in {Hit(t, flags), s}
  BY DEF OverGap
<1>2. s.tr \in Traj /\ a \in Int /\ b \in Int
  BY PassingFields, PlacesOf
<1>3. Bent(s.tr, T)
  <2> HIDE DEF a, b
  <2> QED
    BY <1>2, PlacedAt
<1>4. t = [s EXCEPT !.tr = T]
  BY PassingFields DEF Stretch, Traj
<1> HIDE DEF T
<1>5. Onward(s, t)
  BY <1>3, <1>4, BentTo
<1> HIDE DEF t
<1>6. t \in Passing
  BY <1>5 DEF Onward
<1>7. Onward(t, Hit(t, flags))
  BY <1>6, HitType
<1> QED
  BY <1>1, <1>5, <1>7, OnwardTwice, OnwardNot

\* _sc_traj_digger_direction_clear
Looked(s) == {acc \in [good : BOOLEAN, s : Passing] : Onward(s, acc.s)}

LEMMA DirectionClearType ==
    ASSUME NEW s \in Passing, NEW turns \in Int, NEW flags
    PROVE  DirectionClear(s, turns, flags) \in Looked(s)
<1> DEFINE step == DiggerStep(s, turns)
           hit == Hit(step, flags)
           met == OverGap(hit, flags)
           good == met.res = "land"
           v == IF met.res = "land" THEN Remainder(met.tr.dir + turns, 4) ELSE met.tr.dir
           T == [met.tr EXCEPT !.dir = v]
           t == [met EXCEPT !.res = "continue", !.tr.dir = v]
<1>1. DirectionClear(s, turns, flags) = [good |-> good, s |-> t]
  BY DEF DirectionClear
<1>2. Onward(s, step)
  BY DiggerStepType
<1>3. step \in Passing
  BY <1>2 DEF Onward
<1> HIDE DEF step
<1>4. Onward(step, hit)
  BY <1>3, HitType
<1>5. hit \in Passing
  BY <1>4 DEF Onward
<1> HIDE DEF hit
<1>6. Onward(hit, met)
  BY <1>5, OverGapType
<1>7. met \in Passing /\ met.tr \in Traj /\ met.tr.dir \in Int /\ good \in BOOLEAN
  BY <1>6, PassingFields, PlacesOf DEF Onward
<1> HIDE DEF met, good
<1>8. v \in Int
  <2>1. met.tr.dir + turns \in Int
    BY <1>7
  <2> QED
    BY <1>7, <2>1, RemainderType
<1> HIDE DEF v
<1>9. Bent(met.tr, T)
  BY <1>7, <1>8, PlacedAt
<1>10. T \in Traj /\ SameFall(met.tr, T)
  BY <1>9 DEF Bent
<1>11. t = [met EXCEPT !.res = "continue", !.tr = T]
  OBVIOUS
<1> HIDE DEF T
<1>12. t \in Stretch /\ t.w = met.w /\ t.tr = T /\ t.res = "continue"
  BY <1>7, <1>10, <1>11, PassingFields DEF Stretch, Results
<1> HIDE DEF t
<1>13. Onward(met, t)
  BY <1>7, <1>10, <1>12, OnwardTo
<1>14. Onward(s, t)
  <2>1. Onward(s, hit)
    BY <1>2, <1>4, OnwardTwice
  <2>2. Onward(s, met)
    BY <1>6, <2>1, OnwardTwice
  <2> QED
    BY <1>13, <2>2, OnwardTwice
<1>15. t \in Passing
  BY <1>14 DEF Onward
<1> QED
  BY <1>1, <1>7, <1>14, <1>15 DEF Looked

\* _sc_traj_digger_reselect_dir
LEMMA ReselectDirType ==
    ASSUME NEW s \in Passing, NEW turns \in Int, NEW flags
    PROVE  Onward(s, ReselectDir(s, turns, flags))
<1> DEFINE seq == <<turns, -turns, 2, 0>>
           n == Len(seq)
           c == [flags |-> flags, seq |-> seq]
           s0 == [s |-> s, good |-> FALSE]
<1>1. n \in Nat /\ n = 4
  OBVIOUS
<1>2. PICK f : IsRun("ReselectDir", s0, c, n, f) /\ ReselectDir(s, turns, flags) = f[n].s
  BY <1>1, ReselectDirLoop
<1>3. s0 \in Looked(s)
  BY OnwardNot DEF Looked
<1>4. \A i \in 1 .. n : seq[i] \in Int
  OBVIOUS
<1>5. c.flags = flags /\ c.seq = seq
  OBVIOUS
<1>6. IsRun("ReselectDir", s0, c, n, f)
  BY <1>2
<1> HIDE DEF seq, n, c, s0
<1>7. ASSUME NEW acc \in Looked(s), NEW i \in 1 .. n PROVE Step("ReselectDir", acc, i, c) \in Looked(s)
  <2>1. Step("ReselectDir", acc, i, c) = IF acc.good THEN acc ELSE DirectionClear(acc.s, seq[i], flags)
    BY <1>5 DEF Step
  <2>2. acc.s \in Passing /\ Onward(s, acc.s)
    BY DEF Looked
  <2> DEFINE d == DirectionClear(acc.s, seq[i], flags)
  <2>3. d \in Looked(acc.s)
    BY <1>4, <2>2, DirectionClearType
  <2> HIDE DEF d
  <2>4. d \in [good : BOOLEAN, s : Passing] /\ Onward(acc.s, d.s)
    BY <2>3 DEF Looked
  <2>5. Onward(s, d.s)
    BY <2>2, <2>4, OnwardTwice
  <2>6. d \in Looked(s)
    BY <2>4, <2>5 DEF Looked
  <2> QED
    BY <2>1, <2>6 DEF d
<1>8. f[n] \in Looked(s)
  BY <1>1, <1>3, <1>6, <1>7, RunKept
<1> QED
  BY <1>2, <1>8 DEF Looked

\* A stretch begins.
LEMMA BeginType ==
    ASSUME NEW w \in World, NEW tr \in Traj, NEW dx \in Int, NEW dy \in Int
    PROVE  /\ [w |-> w, tr |-> tr, dx |-> dx, dy |-> dy, res |-> "continue"] \in Passing
           /\ [w |-> w, tr |-> tr, dx |-> dx, dy |-> dy, res |-> "continue"].w = w
           /\ [w |-> w, tr |-> tr, dx |-> dx, dy |-> dy, res |-> "continue"].tr = tr
  BY DEF Passing, Stretch, Results

\* The conversions of a weapon in flight.
LEMMA ConvertRollerType ==
    ASSUME NEW w \in World, NEW tr \in Traj, NEW flags
    PROVE  ConvertRoller(w, tr, flags) \in Traj /\ SameFall(tr, ConvertRoller(w, tr, flags))
<1> DEFINE x == Truncated(tr.lastx - Unit)
           slope == LandHeight(w, x, Truncated(tr.lasty + Unit))
                    - LandHeight(w, Truncated(tr.lastx + Unit), Truncated(tr.lasty + Unit))
           velx == IF slope * tr.velx > 0 THEN -tr.velx ELSE tr.velx
           T == [tr EXCEPT !.type = "roller", !.ctrx = tr.lastx, !.ctry = tr.lasty, !.velx = velx, !.vely = 0]
           s == [w |-> w, tr |-> TrajReset(T), dx |-> 0, dy |-> 0, res |-> "continue"]
<1>1. tr.lastx \in Int /\ tr.lasty \in Int /\ tr.velx \in Int
  BY PlacesOf
<1>2. velx \in Int
  <2> HIDE DEF slope
  <2> QED
    BY <1>1
<1>3. ConvertRoller(w, tr, flags) = Fallthrough(s, flags).tr
  BY DEF ConvertRoller
<1> HIDE DEF velx
<1>4. T \in Traj /\ T.landfall_x1 = tr.landfall_x1 /\ T.landfall_x2 = tr.landfall_x2
  <2> DEFINE a == tr.lastx
             b == tr.lasty
  <2>1. a \in Int /\ b \in Int /\ T = [tr EXCEPT !.type = "roller", !.ctrx = a, !.ctry = b, !.velx = velx, !.vely = 0]
    BY <1>1
  <2> HIDE DEF a, b, T
  <2> DEFINE K == [tr EXCEPT !.type = "roller"]
  <2>2. T \in Traj
    <3>1. K \in Traj
      BY DEF Traj
    <3>2. T = [K EXCEPT !.ctrx = a, !.ctry = b, !.velx = velx, !.vely = 0]
      BY <2>1
    <3> HIDE DEF K
    <3>3. a \in Int /\ b \in Int /\ velx \in Int /\ 0 \in Int
      BY <1>2, <2>1
    <3>4. [K EXCEPT !.ctrx = a, !.ctry = b, !.velx = velx, !.vely = 0] \in Traj
      BY <3>1, <3>3 DEF Traj
    <3> QED
      BY <3>2, <3>4
  <2>3. T.landfall_x1 = tr.landfall_x1 /\ T.landfall_x2 = tr.landfall_x2
    BY <2>1 DEF Traj
  <2> QED
    BY <2>2, <2>3
<1> HIDE DEF T
<1>5. TrajReset(T) \in Traj /\ SameFall(T, TrajReset(T))
  BY <1>4, TrajResetType
<1>6. s \in Passing /\ s.tr = TrajReset(T)
  BY <1>5, BeginType
<1> HIDE DEF s
<1>7. Onward(s, Fallthrough(s, flags))
  BY <1>6, FallthroughType
<1>8. Fallthrough(s, flags).tr \in Traj /\ SameFall(s.tr, Fallthrough(s, flags).tr)
  BY <1>7, PassingFields DEF Onward
<1> QED
  BY <1>3, <1>4, <1>5, <1>6, <1>8 DEF SameFall

LEMMA ConvertDiggerType ==
    ASSUME NEW w \in World, NEW tr \in Traj, NEW flags, NEW draw \in Draw
    PROVE  ConvertDigger(w, tr, flags, draw) \in Traj /\ SameFall(tr, ConvertDigger(w, tr, flags, draw))
<1> DEFINE ground == LandHeight(w, Truncated(tr.curx), Height) * Unit
           ctry == IF ground > tr.cury THEN ground ELSE tr.cury
           T == [tr EXCEPT !.type = "digger", !.ctrx = tr.curx, !.ctry = ctry, !.vely = 0]
           s == [w |-> w, tr |-> TrajReset(T), dx |-> 0, dy |-> 0, res |-> "continue"]
<1>1. tr.curx \in Int /\ tr.cury \in Int /\ draw.dir \in Int
  BY PlacesOf DEF Draw
<1>2. ctry \in Int
  <2>1. Truncated(tr.curx) \in Int /\ Height \in Int /\ Unit \in Int
    <3>1. Truncated(tr.curx) \in Int
      BY <1>1, PixelType
    <3> QED
      BY <3>1, Sizes
  <2>2. LandHeight(w, Truncated(tr.curx), Height) \in Int
    BY <2>1, LandHeightType, Sizes
  <2>3. ground \in Int
    BY <2>1, <2>2, Products
  <2> HIDE DEF ground
  <2> QED
    BY <1>1, <2>3
<1>3. ConvertDigger(w, tr, flags, draw) = ReselectDir(s, draw.dir, flags).tr
  BY DEF ConvertDigger
<1> HIDE DEF ctry
<1>4. T \in Traj /\ T.landfall_x1 = tr.landfall_x1 /\ T.landfall_x2 = tr.landfall_x2
  <2> DEFINE a == tr.curx
  <2>1. a \in Int /\ T = [tr EXCEPT !.type = "digger", !.ctrx = a, !.ctry = ctry, !.vely = 0]
    BY <1>1
  <2> HIDE DEF a, T
  <2> DEFINE K == [tr EXCEPT !.type = "digger"]
  <2>2. T \in Traj
    <3>1. K \in Traj
      BY DEF Traj
    <3>2. T = [K EXCEPT !.ctrx = a, !.ctry = ctry, !.vely = 0]
      BY <2>1
    <3> HIDE DEF K
    <3>3. a \in Int /\ ctry \in Int /\ 0 \in Int
      BY <1>2, <2>1
    <3>4. [K EXCEPT !.ctrx = a, !.ctry = ctry, !.vely = 0] \in Traj
      BY <3>1, <3>3 DEF Traj
    <3> QED
      BY <3>2, <3>4
  <2>3. T.landfall_x1 = tr.landfall_x1 /\ T.landfall_x2 = tr.landfall_x2
    BY <2>1 DEF Traj
  <2> QED
    BY <2>2, <2>3
<1> HIDE DEF T
<1>5. TrajReset(T) \in Traj /\ SameFall(T, TrajReset(T))
  BY <1>4, TrajResetType
<1>6. s \in Passing /\ s.tr = TrajReset(T)
  BY <1>5, BeginType
<1> HIDE DEF s
<1>7. Onward(s, ReselectDir(s, draw.dir, flags))
  BY <1>1, <1>6, ReselectDirType
<1>8. ReselectDir(s, draw.dir, flags).tr \in Traj /\ SameFall(s.tr, ReselectDir(s, draw.dir, flags).tr)
  BY <1>7, PassingFields DEF Onward
<1> QED
  BY <1>3, <1>4, <1>5, <1>6, <1>8 DEF SameFall

\* The weapon has moved: where dirt was cleared on the way, there will be a landfall.
FliesTo(s, t) ==
    /\ t \in Passing /\ InPlace(s.w, t.w)
    /\ Pends(s.tr) => Pends(t.tr)
    /\ t.w.land # s.w.land => Pends(t.tr)

LEMMA InPlaceNot ==
    ASSUME NEW w \in World
    PROVE  InPlace(w, w)
  BY DEF InPlace

LEMMA InPlaceLand ==
    ASSUME NEW w \in World, NEW v, LandOnly(w, v)
    PROVE  InPlace(w, v)
<1>1. /\ v \in World /\ v.walls = w.walls /\ v.physics = w.physics /\ v.fast = w.fast
      /\ v.expl = w.expl /\ v.shots = w.shots /\ v.tank = w.tank
  BY LandOnlyKeeps
<1> QED
  BY <1>1 DEF InPlace

LEMMA FliesTwice ==
    ASSUME NEW s, NEW t, NEW u, FliesTo(s, t), FliesTo(t, u)
    PROVE  FliesTo(s, u)
<1>1. InPlace(s.w, u.w)
  BY InPlaceTwice DEF FliesTo
<1> QED
  BY <1>1 DEF FliesTo

LEMMA OnwardFlies ==
    ASSUME NEW s \in Passing, NEW t, Onward(s, t)
    PROVE  FliesTo(s, t)
<1>1. InPlace(s.w, s.w)
  BY PassingFields, InPlaceNot
<1> QED
  BY <1>1 DEF Onward, FliesTo, SameFall, Pends

\* A shield changes.
ShieldTo(w, p, shield) == [w EXCEPT !.tank[p].shield = shield]

LEMMA ShieldToType ==
    ASSUME NEW w \in World, NEW p \in Player, NEW shield \in Shield
    PROVE  InPlace(w, ShieldTo(w, p, shield)) /\ ShieldTo(w, p, shield).land = w.land
<1> DEFINE t == w.tank[p]
           h == [t EXCEPT !.shield = shield]
           v == [w EXCEPT !.tank[p] = h]
<1>1. t \in TankRec
  BY DEF World
<1>2. ShieldTo(w, p, shield) = v
  BY DEF ShieldTo
<1> HIDE DEF t
<1>3. h \in TankRec
  BY <1>1 DEF TankRec
<1>4. /\ h.x = t.x /\ h.y = t.y /\ h.life = t.life /\ h.dead = t.dead
      /\ h.killedby = t.killedby /\ h.kills = t.kills /\ h.suicides = t.suicides
  BY <1>1 DEF TankRec
<1> HIDE DEF h
<1>5. /\ v \in World /\ v.tank[p] = h /\ \A q \in Player : q # p => v.tank[q] = w.tank[q]
      /\ v.land = w.land /\ v.walls = w.walls /\ v.physics = w.physics /\ v.fast = w.fast
      /\ v.expl = w.expl /\ v.shots = w.shots
  BY <1>3, TankWith
<1> HIDE DEF v
<1> QED
  BY <1>2, <1>4, <1>5 DEF InPlace, t

\* sc_shield_absorb_hit
LEMMA AbsorbShotType ==
    ASSUME NEW w \in World, NEW p \in Player, NEW sapper \in BOOLEAN
    PROVE  InPlace(w, AbsorbShot(w, p, sapper)) /\ AbsorbShot(w, p, sapper).land = w.land
<1> DEFINE h == w.tank[p].shield
           loss == IF sapper THEN AbsorbHit * SapperRate ELSE AbsorbHit
           k == IF h.kind = "none" THEN h ELSE ShieldWith(h, h.life - loss)
<1>1. h \in Shield
  BY DEF World, TankRec
<1>2. loss \in Nat
  BY TanksAssumption, Products
<1>3. AbsorbShot(w, p, sapper) = ShieldTo(w, p, k)
  BY DEF AbsorbShot, ShieldTo
<1> HIDE DEF h, loss
<1>4. k \in Shield
  BY <1>1, <1>2, ShieldType
<1> QED
  BY <1>3, <1>4, ShieldToType

\* _sc_weapon_track_point
LEMMA TrackPointType ==
    ASSUME NEW s \in Passing
    PROVE  FliesTo(s, TrackPoint(s))
<1> DEFINE x == Pixel(s.tr.curx)
           y == Pixel(s.tr.cury)
           W == ClearPoints(s.w, {<<x, y>>})
           at == TranslateX(s.w, x, 1).at
           T == Landfall(s.tr, at)
           t == [s EXCEPT !.w = W, !.tr = T]
<1>1. s.w \in World /\ s.tr \in Traj /\ x \in Int /\ y \in Int
  BY PassingFields, PlacesOf, PixelType
<1>2. TrackPoint(s) = IF OnField(s.w, x, y) /\ Ground(s.w, x, y) THEN t ELSE s
  BY DEF TrackPoint
<1> HIDE DEF x, y
<1>3. CASE ~(OnField(s.w, x, y) /\ Ground(s.w, x, y))
  BY <1>2, <1>3, OnwardNot, OnwardFlies
<1>4. CASE OnField(s.w, x, y) /\ Ground(s.w, x, y)
  <2>1. at \in Columns
    BY <1>1, <1>4, OnFieldType
  <2>2. LandOnly(s.w, W)
    <3>1. {<<x, y>>} \in SUBSET (Int \X Int)
      BY <1>1
    <3> QED
      BY <1>1, <3>1, PointsType
  <2>3. InPlace(s.w, W) /\ W \in World
    BY <1>1, <2>2, InPlaceLand, LandOnlyKeeps
  <2>4. T \in Traj /\ Pends(T) /\ T.victim = s.tr.victim
    BY <1>1, <2>1, LandfallType
  <2> HIDE DEF W, T
  <2>5. t \in Stretch /\ t.w = W /\ t.tr = T /\ t.res = s.res
    BY <2>3, <2>4, PassingFields DEF Stretch
  <2>6. TrackPoint(s) = t
    BY <1>2, <1>4
  <2> HIDE DEF t
  <2>7. t \in Passing
    BY <2>4, <2>5, PassingFields DEF Passing
  <2> QED
    BY <2>3, <2>4, <2>5, <2>6, <2>7 DEF FliesTo
<1> QED
  BY <1>3, <1>4

\* The next point of the path
LEMMA OnwardFromType ==
    ASSUME NEW s \in Passing
    PROVE  FliesTo(s, OnwardFrom(s))
<1> DEFINE u == TrackPoint(s)
           a == u.tr.curx + u.dx
           b == u.tr.cury + u.dy
           k == u.tr.curx
           m == u.tr.cury
           T == [u.tr EXCEPT !.lastx = k, !.lasty = m, !.curx = a, !.cury = b]
           t == [u EXCEPT !.tr = T]
<1>1. OnwardFrom(s) \in {t, s}
  BY DEF OnwardFrom, Advance
<1>2. FliesTo(s, u)
  BY TrackPointType
<1>3. u \in Passing
  BY <1>2 DEF FliesTo
<1> HIDE DEF u
<1>4. u.tr \in Traj /\ a \in Int /\ b \in Int /\ k \in Int /\ m \in Int
  BY <1>3, PassingFields, PlacesOf
<1>5. T \in Traj /\ SameFall(u.tr, T) /\ T.victim = u.tr.victim
  <2> DEFINE tr == u.tr
  <2>1. tr \in Traj
    BY <1>4
  <2> HIDE DEF a, b, k, m, tr
  <2>2. [tr EXCEPT !.lastx = k, !.lasty = m, !.curx = a, !.cury = b] \in Traj
    BY <1>4, <2>1 DEF Traj
  <2>3. /\ [tr EXCEPT !.lastx = k, !.lasty = m, !.curx = a, !.cury = b].landfall_x1 = tr.landfall_x1
        /\ [tr EXCEPT !.lastx = k, !.lasty = m, !.curx = a, !.cury = b].landfall_x2 = tr.landfall_x2
        /\ [tr EXCEPT !.lastx = k, !.lasty = m, !.curx = a, !.cury = b].victim = tr.victim
    BY <2>1 DEF Traj
  <2> QED
    BY <2>2, <2>3 DEF tr, SameFall
<1>6. Bent(u.tr, T)
  BY <1>5 DEF Bent
<1> HIDE DEF T
<1>7. Onward(u, t)
  BY <1>3, <1>6, BentTo
<1>8. FliesTo(s, t)
  BY <1>2, <1>3, <1>7, OnwardFlies, FliesTwice
<1>9. FliesTo(s, s)
  BY OnwardNot, OnwardFlies
<1> QED
  BY <1>1, <1>8, <1>9

\* One point of _sc_traj_traverse_path
LEMMA TraversePointType ==
    ASSUME NEW s \in Passing, NEW flags
    PROVE  FliesTo(s, TraversePoint(s, flags))
<1> DEFINE p == Pass(s, flags)
           h == HitThere(p, flags)
<1>1. TraversePoint(s, flags) \in {OnwardFrom(h), s}
  BY DEF TraversePoint
<1>2. Onward(s, p)
  BY PassType
<1>3. p \in Passing
  BY <1>2 DEF Onward
<1> HIDE DEF p
<1>4. Onward(p, h)
  BY <1>3, HitType, OnwardNot DEF HitThere
<1>5. Onward(s, h)
  BY <1>2, <1>4, OnwardTwice
<1>6. h \in Passing
  BY <1>4 DEF Onward
<1> HIDE DEF h
<1>7. FliesTo(h, OnwardFrom(h)) /\ FliesTo(s, h) /\ FliesTo(s, s)
  BY <1>5, <1>6, OnwardFromType, OnwardFlies, OnwardNot
<1> QED
  BY <1>1, <1>7, FliesTwice

\* _sc_traj_traverse_path
LEMMA TraversePathType ==
    ASSUME NEW w \in World, NEW tr \in Traj, NEW x \in Int, NEW y \in Int, NEW flags
    PROVE  LET t == TraversePath(w, tr, x, y, flags)
           IN  /\ t \in Passing /\ InPlace(w, t.w)
               /\ Pends(tr) => Pends(t.tr)
               /\ t.w.land # w.land => Pends(t.tr)
<1> DEFINE steps == PathSteps(tr, x, y)
           s0 == PathStart(w, tr, x, y)
           s1 == [w |-> w, tr |-> tr, dx |-> 0, dy |-> 0, res |-> "continue"]
           t == TraversePath(w, tr, x, y, flags)
<1>1. x - tr.curx \in Int /\ y - tr.cury \in Int
  BY PlacesOf
<1>2. steps \in Nat
  <2>1. Ceiling(x - tr.curx) \in Nat /\ Ceiling(y - tr.cury) \in Nat
    BY <1>1, PixelType
  <2> QED
    BY <2>1 DEF PathSteps
<1>3. steps = 0 => t = s1
  BY DEF TraversePath, PathSteps
<1> HIDE DEF steps
<1>4. CASE steps = 0
  <2>1. s1 \in Passing /\ s1.w = w /\ s1.tr = tr
    BY BeginType
  <2>2. t = s1
    BY <1>3, <1>4
  <2> HIDE DEF s1, t
  <2>3. InPlace(w, w)
    BY InPlaceNot
  <2>4. /\ t \in Passing /\ InPlace(w, t.w)
        /\ Pends(tr) => Pends(t.tr)
        /\ t.w.land # w.land => Pends(t.tr)
    BY <2>1, <2>2, <2>3
  <2> QED
    BY <2>4 DEF t
<1>5. CASE steps # 0
  <2> DEFINE sx == Rint(x - tr.curx, steps)
             sy == Rint(y - tr.cury, steps)
  <2>1. sx \in Int /\ sy \in Int
    <3>1. steps \in Nat \ {0}
      BY <1>2, <1>5
    <3> QED
      BY <1>1, <3>1, RintType
  <2>2. s0 = [w |-> w, tr |-> tr, dx |-> sx, dy |-> sy, res |-> "continue"]
    BY DEF PathStart, steps
  <2> HIDE DEF sx, sy, s0
  <2>3. s0 \in Passing /\ s0.w = w /\ s0.tr = tr
    BY <2>1, <2>2, BeginType
  <2> DEFINE c == [flags |-> flags]
             S == {s \in Passing : FliesTo(s0, s)}
  <2>4. PICK f : IsRun("TraversePath", s0, c, steps, f) /\ t = f[steps]
    BY <1>2, <1>5, TraversePathLoop DEF steps, s0
  <2>5. c.flags = flags
    OBVIOUS
  <2>6. IsRun("TraversePath", s0, c, steps, f)
    BY <2>4
  <2> HIDE DEF c
  <2>7. s0 \in S
    BY <2>3, OnwardNot, OnwardFlies
  <2>8. ASSUME NEW s \in S, NEW i \in 1 .. steps PROVE Step("TraversePath", s, i, c) \in S
    <3>1. Step("TraversePath", s, i, c) = TraversePoint(s, flags)
      BY <2>5 DEF Step
    <3>2. FliesTo(s0, s) /\ FliesTo(s, TraversePoint(s, flags))
      BY TraversePointType
    <3> QED
      BY <3>1, <3>2, FliesTwice DEF FliesTo
  <2> HIDE DEF S
  <2>9. f[steps] \in S
    BY <1>2, <2>6, <2>7, <2>8, RunKept
  <2> HIDE DEF t
  <2>10. t \in Passing /\ FliesTo(s0, t)
    BY <2>4, <2>9 DEF S
  <2>11. /\ t \in Passing /\ InPlace(w, t.w)
         /\ Pends(tr) => Pends(t.tr)
         /\ t.w.land # w.land => Pends(t.tr)
    BY <2>3, <2>10 DEF FliesTo
  <2> QED
    BY <2>11 DEF t
<1> QED
  BY <1>4, <1>5

\* The field changes in place, and the trajectory.
LEMMA FliesIn ==
    ASSUME NEW s \in Passing, NEW t \in Stretch, InPlace(s.w, t.w), t.w.land = s.w.land, Bent(s.tr, t.tr),
           t.res = s.res
    PROVE  FliesTo(s, t)
<1>1. t \in Passing
  BY PassingFields DEF Passing, Bent
<1> QED
  BY <1>1 DEF FliesTo, Bent, SameFall, Pends

\* sc_shield_get_reflection
LEMMA ReflectAtType ==
    ASSUME NEW s \in Passing, NEW p \in Player, NEW d, d.x \in Int, d.y \in Int
    PROVE  FliesTo(s, ReflectAt(s, p, d))
<1> DEFINE tr == s.tr
           tank == s.w.tank[p]
           dx == d.x
           dy == d.y
           d2 == Max({1, Square(dx) + Square(dy)})
           radial == dx * VelocityX(tr) + dy * VelocityY(tr)
           out(k) == Rint(k * Square((Radius + 1) * Unit), d2)
           x == tank.x * Unit + out(dx)
           y == tank.y * Unit + out(dy)
           vx == VelocityX(tr) - Rint(2 * radial * dx, d2)
           vy == VelocityY(tr) - Rint(2 * radial * dy, d2)
           N == NewControl(tr, x, y, vx, vy)
           T == [N EXCEPT !.curx = x, !.cury = y, !.victim = -1]
           W == AbsorbShot(s.w, p, FALSE)
           t == [s EXCEPT !.w = W, !.res = "continue", !.tr = T]
<1>1. ReflectAt(s, p, d) = t
  BY DEF ReflectAt
<1>2. tr \in Traj /\ VelocityX(tr) \in Int /\ VelocityY(tr) \in Int
  BY PassingFields, MotionType
<1>3. d2 \in Nat \ {0}
  <2> DEFINE k == Square(dx) + Square(dy)
  <2>1. k \in Nat
    BY Products
  <2> HIDE DEF k
  <2> DEFINE B == {1, k}
  <2>2. B \in SUBSET (0 .. k + 1) /\ B # {} /\ 0 \in Int /\ k + 1 \in Int /\ 1 \in B
    BY <2>1
  <2>3. \A e \in B : e \in Int
    BY <2>1
  <2>4. d2 = Max(B)
    BY DEF k
  <2> HIDE DEF B, d2
  <2>5. Max(B) \in B /\ \A e \in B : Max(B) >= e
    BY <2>2, Extremes
  <2>6. Max(B) \in Int /\ Max(B) >= 1
    BY <2>2, <2>3, <2>5
  <2> QED
    BY <2>4, <2>6
<1> HIDE DEF d2
<1>4. \A k \in Int : out(k) \in Int
  <2> DEFINE r == Square((Radius + 1) * Unit)
  <2>1. r \in Int
    BY Sizes, Products
  <2> HIDE DEF r
  <2>2. \A k \in Int : k * r \in Int
    BY <2>1, Products
  <2>3. \A k \in Int : Rint(k * r, d2) \in Int
    BY <1>3, <2>2, RintType
  <2> QED
    BY <2>3 DEF r
<1> HIDE DEF out
<1>5. tank.x * Unit \in Int /\ tank.y * Unit \in Int
  <2>1. tank \in TankRec
    BY PassingFields DEF World
  <2>2. tank.x \in Int /\ tank.y \in Int /\ Unit \in Int
    BY <2>1, Sizes DEF TankRec
  <2> QED
    BY <2>2, Products
<1>6. x \in Int /\ y \in Int
  BY <1>4, <1>5
<1> HIDE DEF x, y
<1>7. dx \in Int /\ dy \in Int
  OBVIOUS
<1> HIDE DEF dx, dy, tr
<1>8. radial \in Int
  <2>1. dx * VelocityX(tr) \in Int /\ dy * VelocityY(tr) \in Int
    BY <1>2, <1>7, Products
  <2> QED
    BY <2>1
<1> HIDE DEF radial
<1>9. vx \in Int /\ vy \in Int
  <2>1. 2 * radial \in Int
    BY <1>8
  <2>2. 2 * radial * dx \in Int /\ 2 * radial * dy \in Int
    BY <1>7, <2>1, Products
  <2>3. Rint(2 * radial * dx, d2) \in Int /\ Rint(2 * radial * dy, d2) \in Int
    BY <1>3, <2>2, RintType
  <2> QED
    BY <1>2, <2>3
<1> HIDE DEF vx, vy
<1>10. Bent(tr, N)
  BY <1>2, <1>6, <1>9, NewControlType
<1>11. N \in Traj /\ SameFall(tr, N)
  BY <1>10 DEF Bent
<1> HIDE DEF N
<1>12. T \in Traj /\ T.landfall_x1 = N.landfall_x1 /\ T.landfall_x2 = N.landfall_x2
  BY <1>6, <1>11 DEF Traj, Nobody
<1> HIDE DEF T
<1>13. InPlace(s.w, W) /\ W.land = s.w.land /\ W \in World
  <2>1. s.w \in World
    BY PassingFields
  <2> QED
    BY <2>1, AbsorbShotType DEF InPlace
<1> HIDE DEF W
<1>14. t \in Stretch /\ t.w = W /\ t.tr = T /\ t.res = "continue"
  BY <1>12, <1>13, PassingFields DEF Stretch, Results
<1> HIDE DEF t
<1>15. t \in Passing
  BY <1>14 DEF Passing
<1>16. SameFall(s.tr, t.tr)
  BY <1>11, <1>12, <1>14 DEF SameFall, tr
<1> QED
  BY <1>1, <1>13, <1>14, <1>15, <1>16 DEF FliesTo, SameFall, Pends

LEMMA FromTankType ==
    ASSUME NEW s \in Passing, NEW p \in Player, NEW x \in Int, NEW y \in Int
    PROVE  FromTank(s, p, x, y).x \in Int /\ FromTank(s, p, x, y).y \in Int
<1>1. s.w.tank[p] \in TankRec
  BY PassingFields DEF World
<1>2. s.w.tank[p].x \in Int /\ s.w.tank[p].y \in Int /\ Unit \in Nat \ {0}
  BY <1>1, Sizes DEF TankRec
<1>3. s.w.tank[p].x * Unit \in Int /\ s.w.tank[p].y * Unit \in Int
  BY <1>2, Products
<1> QED
  BY <1>2, <1>3, DeltasType DEF FromTank

LEMMA ReflectType ==
    ASSUME NEW s \in Passing, NEW flags
    PROVE  FliesTo(s, Reflect(s, flags))
<1> DEFINE p == s.tr.victim
           d == FromTank(s, p, s.tr.curx, s.tr.cury)
<1>1. Reflect(s, flags) = s \/ (s.res = "shield" /\ Reflect(s, flags) = ReflectAt(s, p, d))
  BY DEF Reflect
<1>2. s.tr.curx \in Int /\ s.tr.cury \in Int
  BY PassingFields, PlacesOf
<1>3. CASE s.res = "shield"
  <2>1. p \in Player
    BY <1>3, PassingFields
  <2> HIDE DEF p
  <2>2. d.x \in Int /\ d.y \in Int
    BY <1>2, <2>1, FromTankType
  <2> HIDE DEF d
  <2>3. FliesTo(s, ReflectAt(s, p, d))
    BY <2>1, <2>2, ReflectAtType
  <2> QED
    BY <1>1, <2>3, OnwardNot, OnwardFlies
<1> QED
  BY <1>1, <1>3, OnwardNot, OnwardFlies

\* sc_shield_get_deflection
LEMMA PushAwayType ==
    ASSUME NEW s \in Passing, NEW p \in Player, NEW d, d.x \in Int, d.y \in Int
    PROVE  FliesTo(s, PushAway(s, p, d))
<1> DEFINE d2 == Square(d.x) + Square(d.y)
           near == d2 < Square(MagDist * Unit) /\ d2 > Square(Radius * Unit)
           vx == VelocityX(s.tr) + Rint(MagForce * Unit * d.x, d2)
           vy == VelocityY(s.tr) + Rint(MagForce * Unit * d.y, d2)
           T == ReviseVelocity(s.tr, vx, vy)
           h == s.w.tank[p].shield
           k == ShieldWith(h, h.life - MagCost)
           W == ShieldTo(s.w, p, k)
           t == [s EXCEPT !.tr = ReviseVelocity(@, VelocityX(@) + Rint(MagForce * Unit * d.x, d2),
                                                   VelocityY(@) + Rint(MagForce * Unit * d.y, d2)),
                          !.w.tank[p].shield = ShieldWith(@, @.life - MagCost)]
<1>1. PushAway(s, p, d) =
        IF p # s.tr.player /\ s.w.tank[p].shield.kind = "magnetic" /\ near THEN t ELSE s
  BY DEF PushAway
<1>2. CASE ~(p # s.tr.player /\ s.w.tank[p].shield.kind = "magnetic" /\ near)
  BY <1>1, <1>2, OnwardNot, OnwardFlies
<1>3. CASE p # s.tr.player /\ s.w.tank[p].shield.kind = "magnetic" /\ near
  <2>1. d2 \in Nat \ {0}
    <3> DEFINE a == Square(d.x)
               b == Square(d.y)
               e == Square(Radius * Unit)
    <3>1. a \in Nat /\ b \in Nat /\ Radius * Unit \in Int
      <4>1. Radius \in Int /\ Unit \in Int
        BY Sizes
      <4>2. a \in Nat /\ b \in Nat
        BY Products
      <4> QED
        BY <4>1, <4>2, Products
    <3>2. e \in Nat
      BY <3>1, Products
    <3>3. a + b > e
      BY <1>3
    <3> HIDE DEF a, b, e
    <3>4. a + b \in Nat \ {0}
      BY <3>1, <3>2, <3>3
    <3> QED
      BY <3>4 DEF a, b
  <2> HIDE DEF d2
  <2>2. vx \in Int /\ vy \in Int
    <3>1. VelocityX(s.tr) \in Int /\ VelocityY(s.tr) \in Int
      BY PassingFields, MotionType
    <3>2. MagForce * Unit \in Int
      BY Sizes, Products, TrajectoryAssumption
    <3>3. MagForce * Unit * d.x \in Int /\ MagForce * Unit * d.y \in Int
      BY <3>2, Products
    <3>4. Rint(MagForce * Unit * d.x, d2) \in Int /\ Rint(MagForce * Unit * d.y, d2) \in Int
      BY <2>1, <3>3, RintType
    <3> QED
      BY <3>1, <3>4
  <2>3. k \in Shield
    <3>1. h \in Shield /\ h.kind = "magnetic"
      BY <1>3, PassingFields DEF World, TankRec
    <3>2. MagCost \in Nat
      BY TrajectoryAssumption
    <3> HIDE DEF h
    <3>3. (IF h.kind = "none" THEN h ELSE ShieldWith(h, h.life - MagCost)) \in Shield
      BY <3>1, <3>2, ShieldType
    <3>4. h.kind # "none"
      BY <3>1
    <3> QED
      BY <3>3, <3>4
  <2>4. InPlace(s.w, W) /\ W.land = s.w.land
    <3> HIDE DEF k
    <3> QED
      BY <2>3, PassingFields, ShieldToType
  <2>5. W \in World
    BY <2>4 DEF InPlace
  <2>6. W = [s.w EXCEPT !.tank[p].shield = ShieldWith(@, @.life - MagCost)]
    BY DEF ShieldTo
  <2>7. t = [s EXCEPT !.tr = T, !.w = [s.w EXCEPT !.tank[p].shield = ShieldWith(@, @.life - MagCost)]]
    OBVIOUS
  <2>8. t = [s EXCEPT !.tr = T, !.w = W]
    BY <2>6, <2>7
  <2> HIDE DEF vx, vy
  <2>9. Bent(s.tr, T)
    BY <2>2, PassingFields, ReviseType
  <2>10. T \in Traj
    BY <2>9 DEF Bent
  <2>11. PushAway(s, p, d) = t
    BY <1>1, <1>3
  <2> HIDE DEF W, T
  <2>12. t \in Stretch /\ t.w = W /\ t.tr = T /\ t.res = s.res
    BY <2>5, <2>8, <2>10, PassingFields DEF Stretch
  <2> HIDE DEF t
  <2> QED
    BY <2>4, <2>9, <2>11, <2>12, FliesIn
<1> QED
  BY <1>2, <1>3

\* All shields in turn
LEMMA DeflectType ==
    ASSUME NEW s \in Passing
    PROVE  FliesTo(s, Deflect(s))
<1> DEFINE n == Len(FromFirst(s.w))
           c == [seq |-> FromFirst(s.w)]
           S == {t \in Passing : FliesTo(s, t)}
<1>1. /\ n = NumPlayers /\ n \in Nat
      /\ \A i \in 1 .. n : FromFirst(s.w)[i] \in Player
  BY PassingFields, PlayersType
<1>2. PICK f : IsRun("Deflect", s, c, n, f) /\ Deflect(s) = f[n]
  BY <1>1, DeflectLoop
<1>3. IsRun("Deflect", s, c, n, f)
  BY <1>2
<1>4. s \in S
  BY OnwardNot, OnwardFlies
<1>5. \A i \in 1 .. n : c.seq[i] \in Player
  BY <1>1
<1> HIDE DEF n, c
<1>6. ASSUME NEW t \in S, NEW i \in 1 .. n PROVE Step("Deflect", t, i, c) \in S
  <2> DEFINE p == c.seq[i]
             d == FromTank(t, p, CurrentX(t.tr), CurrentY(t.tr))
  <2>1. p \in Player
    BY <1>5
  <2>2. Step("Deflect", t, i, c) = PushAway(t, p, d)
    BY DEF Step, DeflectBy
  <2> HIDE DEF p
  <2>3. CurrentX(t.tr) \in Int /\ CurrentY(t.tr) \in Int
    BY PassingFields, MotionType
  <2>4. d.x \in Int /\ d.y \in Int
    BY <2>1, <2>3, FromTankType
  <2> HIDE DEF d
  <2>5. FliesTo(t, PushAway(t, p, d)) /\ FliesTo(s, t)
    BY <2>1, <2>4, PushAwayType
  <2> QED
    BY <2>2, <2>5, FliesTwice DEF FliesTo
<1> HIDE DEF S
<1>7. f[n] \in S
  BY <1>1, <1>3, <1>4, <1>6, RunKept
<1> QED
  BY <1>2, <1>7 DEF S

\* The step of time at the end of a vertex
LEMMA NextVertexType ==
    ASSUME NEW s \in Passing
    PROVE  Onward(s, NextVertex(s))
<1> DEFINE k == s.tr.timestep + 1
           T == [s.tr EXCEPT !.timestep = k]
<1>1. s.tr \in Traj /\ k \in Nat
  BY PassingFields, PlacesOf
<1>2. NextVertex(s) \in {s, [s EXCEPT !.tr = T]}
  BY DEF NextVertex
<1> HIDE DEF k
<1>3. Bent(s.tr, T)
  BY <1>1 DEF Traj, Bent, SameFall
<1> HIDE DEF T
<1> QED
  BY <1>2, <1>3, BentTo, OnwardNot

\* One vertex of _sc_traj_step_flight
LEMMA FlightVertexType ==
    ASSUME NEW s \in Passing, NEW flags
    PROVE  FliesTo(s, FlightVertex(s, flags))
<1> DEFINE x == CurrentX(s.tr)
           y == CurrentY(s.tr)
           a == TraversePath(s.w, s.tr, x, y, flags)
           b == Reflect(a, flags)
           t == NextVertex(b)
<1>1. FlightVertex(s, flags) \in {Deflect(t), t}
  BY DEF FlightVertex
<1>2. x \in Int /\ y \in Int /\ s.w \in World /\ s.tr \in Traj
  BY PassingFields, MotionType
<1> HIDE DEF x, y
<1>3. /\ a \in Passing /\ InPlace(s.w, a.w)
      /\ Pends(s.tr) => Pends(a.tr)
      /\ a.w.land # s.w.land => Pends(a.tr)
  BY <1>2, TraversePathType
<1>4. FliesTo(s, a)
  BY <1>3 DEF FliesTo
<1> HIDE DEF a
<1>5. FliesTo(a, b)
  BY <1>3, ReflectType
<1>6. b \in Passing
  BY <1>5 DEF FliesTo
<1> HIDE DEF b
<1>7. Onward(b, t) /\ FliesTo(b, t)
  BY <1>6, NextVertexType, OnwardFlies
<1>8. t \in Passing
  BY <1>7 DEF Onward
<1> HIDE DEF t
<1>9. FliesTo(t, Deflect(t))
  BY <1>8, DeflectType
<1>10. FliesTo(s, b)
  BY <1>4, <1>5, FliesTwice
<1>11. FliesTo(s, t)
  BY <1>7, <1>10, FliesTwice
<1> QED
  BY <1>1, <1>9, <1>11, FliesTwice

\* A roller with nothing in its way
LEMMA RollOnType ==
    ASSUME NEW s \in Passing, NEW at \in Traj, NEW step \in Int, NEW flags
    PROVE  FliesTo(s, RollOn(s, at, step, flags))
<1> DEFINE v == IF Sgn(s.dx) # Sgn(s.tr.velx) THEN -s.tr.velx ELSE s.tr.velx
           turned == [s EXCEPT !.tr.velx = v]
           p == TrackPoint(turned)
           m == Moved(p, at)
           r == Restored(m, at)
           below == Probe(r, 0, -step, flags)
           q == Restored(below, at)
           x == q.tr.curx + Sgn(below.tr.velx) * step
           K == [q.tr EXCEPT !.curx = x]
           back == [q EXCEPT !.tr = K]
           k == below.tr.velx + RollerFall * Sgn(below.tr.velx)
           T == [below.tr EXCEPT !.velx = k]
           t == [below EXCEPT !.res = "continue", !.tr = T]
<1>1. RollOn(s, at, step, flags) \in {back, Fallthrough(t, flags)}
  BY DEF RollOn
<1>2. s.tr.velx \in Int
  BY PassingFields, PlacesOf
<1>3. v \in Int
  BY <1>2
<1> HIDE DEF v
<1>4. Onward(s, turned)
  BY <1>3, TurnedType
<1>5. turned \in Passing
  BY <1>4 DEF Onward
<1> HIDE DEF turned
<1>6. FliesTo(turned, p)
  BY <1>5, TrackPointType
<1>7. p \in Passing /\ FliesTo(s, p)
  <2>1. FliesTo(s, turned)
    BY <1>4, OnwardFlies
  <2> QED
    BY <1>6, <2>1, FliesTwice DEF FliesTo
<1> HIDE DEF p
<1>8. Onward(p, m)
  BY <1>7, MovedType
<1>9. m \in Passing
  BY <1>8 DEF Onward
<1> HIDE DEF m
<1>10. Onward(m, r)
  BY <1>9, RestoredType
<1>11. r \in Passing
  BY <1>10 DEF Onward
<1> HIDE DEF r
<1>12. Onward(r, below)
  <2>1. 0 \in Int /\ -step \in Int
    OBVIOUS
  <2> QED
    BY <1>11, <2>1, ProbeType
<1>13. below \in Passing /\ below.tr \in Traj
  BY <1>12, PassingFields DEF Onward
<1> HIDE DEF below
<1>14. below.tr.velx \in Int /\ Sgn(below.tr.velx) \in {-1, 0, 1}
  BY <1>13, PlacesOf, Magnitudes
<1>15. Onward(below, q)
  BY <1>13, RestoredType
<1>16. q \in Passing /\ q.tr \in Traj
  BY <1>15, PassingFields DEF Onward
<1> HIDE DEF q
<1>17. x \in Int
  <2>1. q.tr.curx \in Int
    BY <1>16, PlacesOf
  <2>2. Sgn(below.tr.velx) * step \in Int
    BY <1>14
  <2> QED
    BY <2>1, <2>2
<1> HIDE DEF x
<1>18. Bent(q.tr, K)
  BY <1>16, <1>17, PlacedAt
<1> HIDE DEF K
<1>19. Onward(q, back)
  BY <1>16, <1>18, BentTo
<1> HIDE DEF back
<1>20. k \in Int
  <2>1. RollerFall \in Int
    BY TrajectoryAssumption
  <2>2. RollerFall * Sgn(below.tr.velx) \in Int
    BY <1>14, <2>1
  <2> QED
    BY <1>14, <2>2
<1> HIDE DEF k
<1>21. Bent(below.tr, T)
  BY <1>13, <1>20, PlacedAt
<1>22. T \in Traj /\ SameFall(below.tr, T)
  BY <1>21 DEF Bent
<1> HIDE DEF T
<1>23. t \in Stretch /\ t.w = below.w /\ t.tr = T /\ t.res = "continue"
  BY <1>13, <1>22, PassingFields DEF Stretch, Results
<1> HIDE DEF t
<1>24. Onward(below, t)
  BY <1>13, <1>22, <1>23, OnwardTo
<1>25. t \in Passing
  BY <1>24 DEF Onward
<1>26. Onward(t, Fallthrough(t, flags))
  BY <1>25, FallthroughType
<1>27. Onward(p, below)
  <2>1. Onward(p, r)
    BY <1>8, <1>10, OnwardTwice
  <2> QED
    BY <1>12, <2>1, OnwardTwice
<1>28. Onward(p, back)
  <2>1. Onward(below, back)
    BY <1>15, <1>19, OnwardTwice
  <2> QED
    BY <1>27, <2>1, OnwardTwice
<1>29. Onward(p, Fallthrough(t, flags))
  <2>1. Onward(below, Fallthrough(t, flags))
    BY <1>24, <1>26, OnwardTwice
  <2> QED
    BY <1>27, <2>1, OnwardTwice
<1>30. FliesTo(p, back) /\ FliesTo(p, Fallthrough(t, flags))
  BY <1>7, <1>28, <1>29, OnwardFlies
<1> QED
  BY <1>1, <1>7, <1>30, FliesTwice

\* One step of _sc_traj_traverse_roller
LEMMA RollerPointType ==
    ASSUME NEW s \in Passing, NEW step \in Int, NEW flags
    PROVE  FliesTo(s, RollerPoint(s, step, flags))
<1> DEFINE dx == step * Sgn(s.tr.velx)
           u == [s EXCEPT !.dx = dx, !.dy = 0]
           met == PassOrHit(u, flags)
<1>1. RollerPoint(s, step, flags) \in {s, met, RollOn(met, s.tr, step, flags), RollUp(met, s.tr, flags)}
  BY DEF RollerPoint
<1>2. s.tr \in Traj /\ Sgn(s.tr.velx) \in {-1, 0, 1}
  BY PassingFields, PlacesOf, Magnitudes
<1>3. dx \in Int
  BY <1>2
<1> HIDE DEF dx
<1>4. u \in Stretch /\ u.w = s.w /\ u.tr = s.tr /\ u.res = s.res
  <2> DEFINE k == 0
  <2>1. k \in Int
    OBVIOUS
  <2>2. u = [s EXCEPT !.dx = dx, !.dy = k]
    OBVIOUS
  <2> HIDE DEF u, k
  <2>3. s \in Stretch
    BY PassingFields
  <2> QED
    BY <1>3, <2>1, <2>2, <2>3 DEF Stretch
<1> HIDE DEF u
<1>5. SameFall(s.tr, u.tr) /\ (u.res = "shield" => u.tr.victim \in Player)
  BY <1>4, PassingFields DEF SameFall
<1>6. Onward(s, u)
  BY <1>4, <1>5, OnwardTo
<1>7. u \in Passing
  BY <1>6 DEF Onward
<1>8. Onward(u, met)
  BY <1>7, PassOrHitType
<1>9. met \in Passing
  BY <1>8 DEF Onward
<1> HIDE DEF met
<1>10. FliesTo(s, met)
  BY <1>6, <1>8, OnwardTwice, OnwardFlies
<1>11. FliesTo(met, RollOn(met, s.tr, step, flags))
  BY <1>2, <1>9, RollOnType
<1>12. FliesTo(met, RollUp(met, s.tr, flags))
  BY <1>2, <1>9, RollUpType, OnwardFlies
<1>13. FliesTo(s, s)
  BY OnwardNot, OnwardFlies
<1> QED
  BY <1>1, <1>10, <1>11, <1>12, <1>13, FliesTwice

\* One vertex of _sc_traj_step_roller
LEMMA RollerVertexType ==
    ASSUME NEW s \in Passing, NEW flags
    PROVE  FliesTo(s, RollerVertex(s, flags))
<1> DEFINE speed == Magnitude(s.tr.velx)
           seq == FromTo(1, Ceiling(speed))
           n == Len(seq)
           c == [speed |-> speed, flags |-> flags, seq |-> seq]
           S == {t \in Passing : FliesTo(s, t)}
<1>1. speed \in Nat
  <2>1. s.tr.velx \in Int
    BY PassingFields, PlacesOf
  <2> QED
    BY <2>1, Magnitudes
<1>2. n \in Nat /\ \A i \in 1 .. n : seq[i] \in Int
  <2> HIDE DEF speed
  <2>1. Ceiling(speed) \in Int /\ 1 \in Int
    BY <1>1, PixelType
  <2> DEFINE b == Ceiling(speed)
  <2> HIDE DEF b
  <2>2. Len(FromTo(1, b)) \in Nat /\ \A i \in 1 .. Len(FromTo(1, b)) : FromTo(1, b)[i] \in 1 .. b
    BY <2>1, FromToType DEF b
  <2> QED
    BY <2>2 DEF b
<1>3. PICK f : IsRun("RollerVertex", s, c, n, f) /\ RollerVertex(s, flags) = NextVertex(f[n])
  BY <1>2, RollerVertexLoop
<1>4. IsRun("RollerVertex", s, c, n, f)
  BY <1>3
<1>5. c.speed = speed /\ c.seq = seq /\ c.flags = flags
  OBVIOUS
<1> HIDE DEF speed, seq, n, c
<1>6. s \in S
  BY OnwardNot, OnwardFlies
<1>7. ASSUME NEW t \in S, NEW i \in 1 .. n PROVE Step("RollerVertex", t, i, c) \in S
  <2> DEFINE step == Lower(Unit, speed - (seq[i] - 1) * Unit)
  <2>1. step \in Int
    <3>1. Unit \in Int /\ seq[i] - 1 \in Int
      BY <1>2, Sizes
    <3>2. (seq[i] - 1) * Unit \in Int
      BY <3>1, Products
    <3> QED
      BY <1>1, <3>1, <3>2 DEF Lower
  <2>2. Step("RollerVertex", t, i, c) = RollerPoint(t, step, flags)
    BY <1>5 DEF Step
  <2> HIDE DEF step
  <2>3. FliesTo(s, t) /\ FliesTo(t, RollerPoint(t, step, flags))
    BY <2>1, RollerPointType
  <2> QED
    BY <2>2, <2>3, FliesTwice DEF FliesTo
<1> HIDE DEF S
<1>8. f[n] \in S
  BY <1>2, <1>4, <1>6, <1>7, RunKept
<1>9. f[n] \in Passing /\ FliesTo(s, f[n])
  BY <1>8 DEF S
<1>10. FliesTo(f[n], NextVertex(f[n]))
  BY <1>9, NextVertexType, OnwardFlies
<1> QED
  BY <1>3, <1>9, <1>10, FliesTwice

\* One step of _sc_traj_traverse_digger
LEMMA DiggerPointType ==
    ASSUME NEW s \in Passing, NEW draw \in Draw, NEW flags
    PROVE  FliesTo(s, DiggerPoint(s, draw, flags))
<1> DEFINE u == DiggerStep(s, 0)
           met == Hit(u, flags)
           on == [met EXCEPT !.res = "continue"]
           dug == TrackPoint(on)
           off == [met EXCEPT !.res = "sizzle"]
<1>1. DiggerPoint(s, draw, flags) \in {s, met, off, dug, ReselectDir(dug, draw.turn, flags)}
  BY DEF DiggerPoint
<1>2. draw.turn \in Int
  BY DEF Draw
<1>3. Onward(s, u)
  <2>1. 0 \in Int
    OBVIOUS
  <2> QED
    BY <2>1, DiggerStepType
<1>4. u \in Passing
  BY <1>3 DEF Onward
<1> HIDE DEF u
<1>5. Onward(u, met)
  BY <1>4, HitType
<1>6. met \in Passing
  BY <1>5 DEF Onward
<1> HIDE DEF met
<1>7. Onward(met, on) /\ Onward(met, off)
  <2>1. {"continue", "sizzle"} \subseteq Results \ {"shield"}
    BY DEF Results
  <2> QED
    BY <1>6, <2>1, ResultTo
<1>8. on \in Passing
  BY <1>7 DEF Onward
<1> HIDE DEF on, off
<1>9. Onward(s, met)
  BY <1>3, <1>5, OnwardTwice
<1>10. FliesTo(s, met) /\ FliesTo(s, off) /\ FliesTo(s, on) /\ FliesTo(s, s)
  <2>1. Onward(s, off) /\ Onward(s, on)
    BY <1>7, <1>9, OnwardTwice
  <2> QED
    BY <1>9, <2>1, OnwardNot, OnwardFlies
<1>11. FliesTo(on, dug)
  BY <1>8, TrackPointType
<1>12. dug \in Passing /\ FliesTo(s, dug)
  BY <1>10, <1>11, FliesTwice DEF FliesTo
<1> HIDE DEF dug
<1>13. FliesTo(dug, ReselectDir(dug, draw.turn, flags))
  BY <1>2, <1>12, ReselectDirType, OnwardFlies
<1> QED
  BY <1>1, <1>10, <1>12, <1>13, FliesTwice

\* One vertex of _sc_traj_step_digger
LEMMA DiggerVertexType ==
    ASSUME NEW s \in Passing, NEW draw \in Draw, NEW flags
    PROVE  FliesTo(s, DiggerVertex(s, draw, flags))
<1> DEFINE n == Ceiling(s.tr.timestep * Magnitude(s.tr.velx))
           c == [draw |-> draw, flags |-> flags]
           S == {t \in Passing : FliesTo(s, t)}
<1>1. n \in Nat
  <2>1. s.tr.timestep \in Nat /\ s.tr.velx \in Int
    BY PassingFields, PlacesOf
  <2>2. Magnitude(s.tr.velx) \in Nat
    BY <2>1, Magnitudes
  <2> DEFINE k == s.tr.timestep * Magnitude(s.tr.velx)
  <2>3. k \in Int
    BY <2>1, <2>2, Products
  <2> HIDE DEF k
  <2>4. Ceiling(k) \in Nat
    BY <2>3, PixelType
  <2> QED
    BY <2>4 DEF k
<1>2. PICK f : IsRun("DiggerVertex", s, c, n, f) /\ DiggerVertex(s, draw, flags) = NextVertex(f[n])
  BY <1>1, DiggerVertexLoop
<1>3. IsRun("DiggerVertex", s, c, n, f)
  BY <1>2
<1>4. c.draw = draw /\ c.flags = flags
  OBVIOUS
<1> HIDE DEF n, c
<1>5. s \in S
  BY OnwardNot, OnwardFlies
<1>6. ASSUME NEW t \in S, NEW i \in 1 .. n PROVE Step("DiggerVertex", t, i, c) \in S
  <2>1. Step("DiggerVertex", t, i, c) = DiggerPoint(t, draw, flags)
    BY <1>4 DEF Step
  <2>2. FliesTo(s, t) /\ FliesTo(t, DiggerPoint(t, draw, flags))
    BY DiggerPointType
  <2> QED
    BY <2>1, <2>2, FliesTwice DEF FliesTo
<1> HIDE DEF S
<1>7. f[n] \in S
  BY <1>1, <1>3, <1>5, <1>6, RunKept
<1>8. f[n] \in Passing /\ FliesTo(s, f[n])
  BY <1>7 DEF S
<1>9. FliesTo(f[n], NextVertex(f[n]))
  BY <1>8, NextVertexType, OnwardFlies
<1> QED
  BY <1>2, <1>8, <1>9, FliesTwice

LEMMA VertexType ==
    ASSUME NEW s \in Passing, NEW draw \in Draw, NEW flags
    PROVE  FliesTo(s, Vertex(s, draw, flags))
<1>1. s.tr.type \in {"flight", "roller", "digger"}
  BY PassingFields DEF Traj
<1>2. Vertex(s, draw, flags) \in {FlightVertex(s, flags), RollerVertex(s, flags), DiggerVertex(s, draw, flags)}
  BY <1>1 DEF Vertex
<1> QED
  BY <1>2, FlightVertexType, RollerVertexType, DiggerVertexType

\* sc_traj_step
LEMMA TrajStepType ==
    ASSUME NEW w \in World, NEW tr \in Traj, NEW draw \in Draw, NEW flags
    PROVE  LET t == TrajStep(w, tr, draw, flags)
           IN  /\ t \in Passing /\ InPlace(w, t.w)
               /\ Pends(tr) => Pends(t.tr)
               /\ t.w.land # w.land => Pends(t.tr)
<1> DEFINE final == Lower(tr.timestep + SubSteps, tr.stopstep)
           T == [tr EXCEPT !.finalstep = final]
           s0 == StepStart(w, tr)
           t == TrajStep(w, tr, draw, flags)
           n == SubSteps + 1
           c == [draw |-> draw, flags |-> flags]
           S == {s \in Passing : FliesTo(s0, s)}
<1>1. final \in Int
  <2>1. tr.timestep \in Int /\ tr.stopstep \in Int /\ SubSteps \in Int
    BY PlacesOf, TrajectoryAssumption
  <2> QED
    BY <2>1 DEF Lower
<1>2. s0 = [w |-> w, tr |-> T, dx |-> 0, dy |-> 0, res |-> "continue"]
  BY DEF StepStart
<1>3. tr.timestep >= tr.stopstep => t = [s0 EXCEPT !.res = "sizzle"]
  BY DEF TrajStep, StepStart
<1> HIDE DEF final
<1>4. T \in Traj /\ SameFall(tr, T)
  BY <1>1 DEF Traj, SameFall
<1> HIDE DEF T, s0
<1>5. s0 \in Passing /\ s0.w = w /\ s0.tr = T
  <2>1. 0 \in Int
    OBVIOUS
  <2> QED
    BY <1>2, <1>4, <2>1, BeginType
<1>6. FliesTo(s0, t)
  <2>1. CASE tr.timestep >= tr.stopstep
    <3>1. "sizzle" \in Results \ {"shield"}
      BY DEF Results
    <3>2. Onward(s0, [s0 EXCEPT !.res = "sizzle"])
      BY <1>5, <3>1, ResultTo
    <3> QED
      BY <1>3, <1>5, <2>1, <3>2, OnwardFlies
  <2>2. CASE ~(tr.timestep >= tr.stopstep)
    <3>1. n \in Nat
      BY TrajectoryAssumption
    <3>2. PICK f : IsRun("TrajStep", s0, c, n, f) /\ t = f[n]
      BY <2>2, TrajStepLoop DEF s0
    <3>3. IsRun("TrajStep", s0, c, n, f)
      BY <3>2
    <3>4. c.draw = draw /\ c.flags = flags
      OBVIOUS
    <3> HIDE DEF n, c
    <3>5. s0 \in S
      BY <1>5, OnwardNot, OnwardFlies
    <3>6. ASSUME NEW s \in S, NEW i \in 1 .. n PROVE Step("TrajStep", s, i, c) \in S
      <4>1. Step("TrajStep", s, i, c) \in {Vertex(s, draw, flags), s}
        BY <3>4 DEF Step, NextVertices
      <4>2. FliesTo(s0, s) /\ FliesTo(s, Vertex(s, draw, flags))
        BY VertexType
      <4> QED
        BY <4>1, <4>2, FliesTwice DEF FliesTo
    <3> HIDE DEF S
    <3>7. f[n] \in S
      BY <3>1, <3>3, <3>5, <3>6, RunKept
    <3> QED
      BY <3>2, <3>7 DEF S
  <2> QED
    BY <2>1, <2>2
<1> HIDE DEF t
<1>7. /\ t \in Passing /\ InPlace(w, t.w)
      /\ Pends(tr) => Pends(t.tr)
      /\ t.w.land # w.land => Pends(t.tr)
  BY <1>4, <1>5, <1>6 DEF FliesTo, SameFall, Pends
<1> QED
  BY <1>7 DEF t

-----------------------------------------------------------------------------
(* Weapons and what they become.                                           *)

LEMMA InfoFields ==
    ASSUME NEW info \in WeaponInfo
    PROVE  /\ info.radius \in Nat /\ info.force \in Nat /\ info.type \in ExplosionTypes
           /\ info.liquid \in Nat /\ info.sapper \in BOOLEAN /\ info.count \in Nat /\ info.scatter \in Int
           /\ info.child \in {"none"} \cup DOMAIN Info
  BY DEF WeaponInfo

LEMMA InfoOf ==
    ASSUME NEW name \in DOMAIN Info
    PROVE  Info[name] \in WeaponInfo
  BY VolleyAssumption

LEMMA WeaponFields ==
    ASSUME NEW wp \in Weapon
    PROVE  /\ wp.info \in WeaponInfo /\ wp.playerid \in Player /\ wp.triggered \in BOOLEAN
           /\ wp.defer \in BOOLEAN /\ wp.children \in Nat /\ wp.exp \in Nat /\ wp.tr \in Traj
  BY DEF Weapon

\* The weapon goes on along its trajectory.
OnWay(wp, tr) == [wp EXCEPT !.tr = tr]

LEMMA OnWayType ==
    ASSUME NEW wp \in Weapon, NEW tr \in Traj
    PROVE  /\ OnWay(wp, tr) \in Weapon /\ OnWay(wp, tr).tr = tr
           /\ OnWay(wp, tr).info = wp.info /\ OnWay(wp, tr).playerid = wp.playerid
           /\ OnWay(wp, tr).exp = wp.exp
  BY DEF OnWay, Weapon

\* sc_weapon_new
LEMMA WeaponNewType ==
    ASSUME NEW info \in WeaponInfo, NEW p \in Player, NEW x \in Int, NEW y \in Int, NEW vx \in Int,
           NEW vy \in Int, NEW triggered \in BOOLEAN, NEW draw \in Draw
    PROVE  LET wp == WeaponNew(info, p, x, y, vx, vy, triggered, draw)
           IN  wp \in Weapon /\ ~Pends(wp.tr)
<1> DEFINE tr == TrajNew(p, x, y, vx, vy, draw.wind, draw.junk)
           wp == WeaponNew(info, p, x, y, vx, vy, triggered, draw)
<1>1. draw.wind \in Int /\ draw.junk \in Int
  BY DEF Draw
<1>2. tr \in Traj /\ ~Pends(tr)
  BY <1>1, TrajNewType
<1>3. wp = [info |-> info, playerid |-> p, triggered |-> triggered, defer |-> FALSE,
            children |-> 0, exp |-> 100, tr |-> tr]
  BY DEF WeaponNew
<1> HIDE DEF tr, wp
<1>4. wp \in Weapon /\ wp.tr = tr
  BY <1>2, <1>3 DEF Weapon
<1> QED
  BY <1>2, <1>4 DEF wp

\* The radius of a weapon's explosion.
LEMMA RealRadiusType ==
    ASSUME NEW wp \in Weapon, NEW radius \in Nat
    PROVE  RealRadius(wp, radius) \in Nat
<1>1. wp.exp \in Nat
  BY WeaponFields
<1>2. wp.exp * radius \in Nat
  BY <1>1, Products
<1> DEFINE a == wp.exp * radius
<1>3. RealRadius(wp, radius) = a \div 100
  BY DEF RealRadius
<1> HIDE DEF a
<1>4. a \in Nat /\ a \in Int /\ 100 \in Nat \ {0}
  BY <1>2 DEF a
<1> QED
  BY <1>3, <1>4, Quotients

\* sc_weapon_get_explosion, and _sc_weapon_explode that adds it.
LEMMA GetExplosionType ==
    ASSUME NEW wp \in Weapon
    PROVE  /\ GetExplosion(wp) \in Planned
           /\ GetExplosion(wp).radius = RealRadius(wp, wp.info.radius)
           /\ RealRadius(wp, wp.info.radius) \in Nat
<1>1. wp.info \in WeaponInfo /\ wp.playerid \in Player /\ wp.tr \in Traj
  BY WeaponFields
<1>2. wp.info.radius \in Nat /\ wp.info.force \in Nat /\ wp.info.type \in ExplosionTypes
  BY <1>1, InfoFields
<1>3. RealRadius(wp, wp.info.radius) \in Nat
  BY <1>2, RealRadiusType
<1>4. wp.tr.curx \in Int /\ wp.tr.cury \in Int
  BY <1>1, PlacesOf
<1>5. Truncated(wp.tr.curx) \in Int /\ Truncated(wp.tr.cury) \in Int
  BY <1>4, PixelType
<1> DEFINE x == Truncated(wp.tr.curx)
           y == Truncated(wp.tr.cury)
           radius == RealRadius(wp, wp.info.radius)
           force == wp.info.force
           p == wp.playerid
           type == wp.info.type
<1>6. x \in Int /\ y \in Int /\ radius \in Nat /\ force \in Nat /\ p \in Player /\ type \in ExplosionTypes
  BY <1>1, <1>2, <1>3, <1>5
<1>7. GetExplosion(wp) = ExplNew(x, y, radius, force, p, type)
  BY DEF GetExplosion
<1> HIDE DEF x, y, radius, force, p, type
<1>8. ExplNew(x, y, radius, force, p, type) \in Planned
      /\ ExplNew(x, y, radius, force, p, type).radius = radius
  BY <1>6, ExplNewType
<1> QED
  BY <1>6, <1>7, <1>8 DEF radius

LEMMA GoOffType ==
    ASSUME NEW w \in World, NEW wp \in Weapon, NEW draw \in Draw
    PROVE  /\ Bursts(w, GoOff(w, wp, draw))
           /\ ~GoesOff(wp) => GoOff(w, wp, draw) = w
           /\ GoesOff(wp) => GoOff(w, wp, draw).expl # <<>>
<1> DEFINE e == GetExplosion(wp)
<1>1. e \in Planned /\ e.radius = RealRadius(wp, wp.info.radius) /\ e.radius \in Nat
  BY GetExplosionType
<1>2. wp.info.liquid \in Nat
  BY WeaponFields, InfoFields
<1>3. draw.dir \in Int
  BY DEF Draw
<1>4. GoOff(w, wp, draw) = AddBlast(w, e, wp.info.liquid, draw.dir)
  BY DEF GoOff
<1>5. GoesOff(wp) <=> e.radius > 0
  BY <1>1 DEF GoesOff
<1> HIDE DEF e
<1>6. ~(e.radius > 0) => e.radius = 0
  BY <1>1
<1> DEFINE v == AddBlast(w, e, wp.info.liquid, draw.dir)
<1>7. Bursts(w, v) /\ (e.radius = 0 => v = w) /\ (e.radius > 0 => v.expl # <<>>)
  BY <1>1, <1>2, <1>3, AddBlastType
<1> HIDE DEF v
<1>8. GoOff(w, wp, draw) = v
  BY <1>4 DEF v
<1> QED
  BY <1>5, <1>6, <1>7, <1>8

\* What a phoenix may do: only a weapon that goes off changes the field, and
\* then an explosion waits; what fell below the weapon is not forgotten.
Becomes(w, wp, o) ==
    /\ Bursts(w, o.w) /\ (o.w = w \/ o.res = "detonate")
    /\ o.wp \in Weapon /\ SameFall(wp.tr, o.wp.tr) /\ o.wp.info = wp.info /\ o.wp.playerid = wp.playerid
    /\ o.new \in Seq(Weapon) /\ o.res \in {"none", "reset", "detonate", "sizzle", "failure"}

LEMMA BurstsNot ==
    ASSUME NEW w \in World
    PROVE  Bursts(w, w)
  BY DEF Bursts

\* A weapon that becomes nothing.
LEMMA BecomesNothing ==
    ASSUME NEW w \in World, NEW wp \in Weapon, NEW res \in {"none", "failure"}
    PROVE  Becomes(w, wp, Outcome(w, res, wp, <<>>))
<1>1. <<>> \in Seq(Weapon)
  BY EmptySeq
<1>2. Bursts(w, w) /\ SameFall(wp.tr, wp.tr)
  BY BurstsNot DEF SameFall
<1> QED
  BY <1>1, <1>2 DEF Becomes, Outcome

LEMMA PhoenixDetonateType ==
    ASSUME NEW w \in World, NEW wp \in Weapon, NEW draw \in Draw
    PROVE  Becomes(w, wp, PhoenixDetonate(w, wp, draw))
<1> DEFINE v == GoOff(w, wp, draw)
           res == IF GoesOff(wp) THEN "detonate" ELSE "failure"
<1>1. PhoenixDetonate(w, wp, draw) = [w |-> v, res |-> res, wp |-> wp, new |-> <<>>]
  BY DEF PhoenixDetonate, Outcome
<1>2. Bursts(w, v) /\ (v = w \/ res = "detonate") /\ res \in {"detonate", "failure"}
  BY GoOffType
<1>3. <<>> \in Seq(Weapon) /\ SameFall(wp.tr, wp.tr)
  BY EmptySeq DEF SameFall
<1> HIDE DEF v, res
<1> QED
  BY <1>1, <1>2, <1>3 DEF Becomes

LEMMA PhoenixConvertType ==
    ASSUME NEW w \in World, NEW wp \in Weapon, NEW draw \in Draw
    PROVE  Becomes(w, wp, PhoenixConvert(w, wp, draw))
<1> DEFINE converted(tr) == Outcome(w, "reset", OnWay(wp, tr), <<>>)
           roller == ConvertRoller(w, wp.tr, TrajFlags(wp))
           digger == ConvertDigger(w, wp.tr, TrajFlags(wp), draw)
<1>1. PhoenixConvert(w, wp, draw) \in
        {Outcome(w, "none", wp, <<>>), PhoenixDetonate(w, wp, draw), converted(roller), converted(digger)}
  BY DEF PhoenixConvert, OnWay
<1>2. wp.tr \in Traj
  BY WeaponFields
<1>3. roller \in Traj /\ SameFall(wp.tr, roller)
  BY <1>2, ConvertRollerType
<1>4. digger \in Traj /\ SameFall(wp.tr, digger)
  BY <1>2, ConvertDiggerType
<1>5. ASSUME NEW tr \in Traj, SameFall(wp.tr, tr) PROVE Becomes(w, wp, converted(tr))
  <2>1. OnWay(wp, tr) \in Weapon /\ OnWay(wp, tr).tr = tr /\ OnWay(wp, tr).info = wp.info
        /\ OnWay(wp, tr).playerid = wp.playerid
    BY OnWayType
  <2>2. <<>> \in Seq(Weapon) /\ Bursts(w, w)
    BY EmptySeq, BurstsNot
  <2> QED
    BY <1>5, <2>1, <2>2 DEF Becomes, Outcome
<1> HIDE DEF roller, digger
<1>6. Becomes(w, wp, converted(roller)) /\ Becomes(w, wp, converted(digger))
  BY <1>3, <1>4, <1>5
<1> HIDE DEF converted
<1>7. Becomes(w, wp, Outcome(w, "none", wp, <<>>)) /\ Becomes(w, wp, PhoenixDetonate(w, wp, draw))
  BY BecomesNothing, PhoenixDetonateType
<1> QED
  BY <1>1, <1>6, <1>7

\* The speed of a frog.
LEMMA FrogSpeedType ==
    ASSUME NEW v \in Int, NEW exp \in Nat
    PROVE  FrogSpeed(v, exp) \in Int
<1> DEFINE a == Magnitude(v) * exp
<1>1. Magnitude(v) \in Nat
  BY Magnitudes
<1>2. a \in Nat
  BY <1>1, Products
<1>3. FrogMin \in Int /\ FrogMax \in Int
  BY VolleyAssumption
<1>4. FrogSpeed(v, exp) \in {a \div 100, FrogMin, FrogMax}
  BY DEF FrogSpeed
<1> HIDE DEF a
<1>5. a \div 100 \in Int
  BY <1>2
<1> QED
  BY <1>3, <1>4, <1>5

\* The weapon at another height.
LEMMA HigherType ==
    ASSUME NEW tr \in Traj, NEW y \in Int
    PROVE  [tr EXCEPT !.cury = y] \in Traj /\ SameFall(tr, [tr EXCEPT !.cury = y])
<1> DEFINE T == [tr EXCEPT !.cury = y]
<1>1. T \in Traj
  BY DEF Traj
<1>2. T.landfall_x1 = tr.landfall_x1 /\ T.landfall_x2 = tr.landfall_x2
  BY DEF Traj
<1> QED
  BY <1>1, <1>2 DEF SameFall

\* A frog that leaps on.
FrogOf(frog, exp, children) == [frog EXCEPT !.defer = TRUE, !.exp = exp, !.children = children]

LEMMA FrogOfType ==
    ASSUME NEW frog \in Weapon, NEW exp \in Nat, NEW children \in Nat
    PROVE  FrogOf(frog, exp, children) \in Weapon
<1> DEFINE yes == TRUE
<1>1. yes \in BOOLEAN
  OBVIOUS
<1>2. FrogOf(frog, exp, children) = [frog EXCEPT !.defer = yes, !.exp = exp, !.children = children]
  BY DEF FrogOf
<1> HIDE DEF yes
<1> QED
  BY <1>1, <1>2 DEF Weapon

\* The blast it leaves behind.
BlastOf(e, radius, force) == [e EXCEPT !.radius = radius, !.force = force]

LEMMA BlastOfType ==
    ASSUME NEW e \in Planned, NEW radius \in Nat, NEW force \in Nat
    PROVE  BlastOf(e, radius, force) \in Planned
  BY DEF BlastOf, Planned

LEMMA PhoenixChainType ==
    ASSUME NEW w \in World, NEW wp \in Weapon, NEW draw \in Draw, wp.info.child \in DOMAIN Info
    PROVE  Becomes(w, wp, PhoenixChain(w, wp, draw))
<1> DEFINE y     == TranslateY(w, wp.tr.cury, Unit).at
           high  == IF y <= 0 THEN Unit ELSE y
           here  == [wp EXCEPT !.tr.cury = high]
           exp   == (wp.exp * 85) \div 100
           vx    == VelocityX(wp.tr)
           speed == FrogSpeed(vx, exp)
           leap  == IF vx < 0 THEN -speed ELSE speed
           rise  == FrogSpeed(VelocityY(wp.tr), exp)
           new   == WeaponNew(wp.info, wp.playerid, wp.tr.curx, high, leap, rise, wp.triggered, draw)
           frog  == FrogOf(new, exp, wp.children + 1)
           child == Info[wp.info.child]
           blast == BlastOf(GetExplosion(here), RealRadius(wp, child.radius), child.force)
           v     == AddBlast(w, blast, wp.info.liquid, draw.dir)
<1>1. here = OnWay(wp, [wp.tr EXCEPT !.cury = high])
  BY DEF OnWay
<1>2. PhoenixChain(w, wp, draw) =
        IF wp.children >= wp.info.count THEN Outcome(w, "none", wp, <<>>)
        ELSE IF GoesOff(wp) THEN Outcome(v, "detonate", here, <<frog>>)
        ELSE Outcome(w, "failure", here, <<frog>>)
  BY DEF PhoenixChain, FrogOf, BlastOf
<1>3. wp.info \in WeaponInfo /\ wp.playerid \in Player /\ wp.triggered \in BOOLEAN
      /\ wp.children \in Nat /\ wp.exp \in Nat /\ wp.tr \in Traj
  BY WeaponFields
<1>4. wp.tr.curx \in Int /\ wp.tr.cury \in Int
  BY <1>3, PlacesOf
<1>5. Unit \in Nat \ {0}
  BY Sizes
<1>6. y \in Int
  BY <1>4, <1>5, TranslateYType
<1> HIDE DEF y
<1>7. high \in Int
  BY <1>5, <1>6
<1> HIDE DEF high
<1>8. [wp.tr EXCEPT !.cury = high] \in Traj /\ SameFall(wp.tr, [wp.tr EXCEPT !.cury = high])
  BY <1>3, <1>7, HigherType
<1> HIDE DEF here
<1>9. here \in Weapon /\ SameFall(wp.tr, here.tr) /\ here.info = wp.info /\ here.playerid = wp.playerid
  BY <1>1, <1>8, OnWayType
<1>10. exp \in Nat
  <2> DEFINE a == wp.exp * 85
  <2>1. a \in Nat
    BY <1>3
  <2> HIDE DEF a
  <2>2. a \div 100 \in Nat
    BY <2>1
  <2> QED
    BY <2>2 DEF a
<1> HIDE DEF exp
<1>11. vx \in Int /\ VelocityY(wp.tr) \in Int
  BY <1>3, MotionType
<1> HIDE DEF vx
<1>12. speed \in Int /\ rise \in Int
  BY <1>10, <1>11, FrogSpeedType
<1> HIDE DEF speed, rise
<1>13. leap \in Int
  BY <1>12
<1> HIDE DEF leap
<1>14. new \in Weapon
  BY <1>3, <1>4, <1>7, <1>12, <1>13, WeaponNewType
<1> HIDE DEF new
<1>15. frog \in Weapon
  <2>1. wp.children + 1 \in Nat
    BY <1>3
  <2> QED
    BY <1>10, <1>14, <2>1, FrogOfType
<1> HIDE DEF frog
<1>16. child \in WeaponInfo
  BY InfoOf
<1> HIDE DEF child
<1>17. child.radius \in Nat /\ child.force \in Nat
  BY <1>16, InfoFields
<1>18. RealRadius(wp, child.radius) \in Nat
  BY <1>17, RealRadiusType
<1>19. GetExplosion(here) \in Planned
  BY <1>9, GetExplosionType
<1>20. blast \in Planned
  BY <1>17, <1>18, <1>19, BlastOfType
<1> HIDE DEF blast
<1>21. Bursts(w, v)
  <2>1. wp.info.liquid \in Nat
    BY <1>3, InfoFields
  <2>2. draw.dir \in Int
    BY DEF Draw
  <2> QED
    BY <1>20, <2>1, <2>2, AddBlastType
<1> HIDE DEF v
<1>22. <<frog>> \in Seq(Weapon) /\ Bursts(w, w)
  BY <1>15, BurstsNot
<1>23. Becomes(w, wp, Outcome(v, "detonate", here, <<frog>>))
  BY <1>9, <1>21, <1>22 DEF Becomes, Outcome
<1>24. Becomes(w, wp, Outcome(w, "failure", here, <<frog>>))
  BY <1>9, <1>22 DEF Becomes, Outcome
<1>25. Becomes(w, wp, Outcome(w, "none", wp, <<>>))
  BY BecomesNothing
<1> QED
  BY <1>2, <1>23, <1>24, <1>25

LEMMA LegType ==
    ASSUME NEW w \in World, NEW wp \in Weapon, NEW d \in Int, wp.info.child \in DOMAIN Info
    PROVE  Leg(w, wp, d) \in Planned
<1> DEFINE child == Info[wp.info.child]
           x == Truncated(wp.tr.curx) + d
           y == LandHeight(w, x, Height)
<1>1. wp.playerid \in Player /\ wp.tr.curx \in Int
  BY WeaponFields, PlacesOf
<1>2. x \in Int
  BY <1>1, PixelType
<1> HIDE DEF x
<1>3. Height \in Int
  BY Sizes
<1>4. y \in 0 .. Height
  BY <1>2, <1>3, LandHeightType
<1>5. y \in Int
  BY <1>3, <1>4
<1> HIDE DEF y
<1>6. child \in WeaponInfo
  BY InfoOf
<1> HIDE DEF child
<1>7. child.radius \in Nat /\ child.force \in Nat
  BY <1>6, InfoFields
<1>8. RealRadius(wp, child.radius) \in Nat
  BY <1>7, RealRadiusType
<1>9. "spider" \in ExplosionTypes
  BY DEF ExplosionTypes
<1> DEFINE e == ExplNew(x, y, RealRadius(wp, child.radius), child.force, wp.playerid, "spider")
<1>10. e \in Planned
  BY <1>1, <1>2, <1>5, <1>7, <1>8, <1>9, ExplNewType
<1>11. Leg(w, wp, d) = e
  BY DEF Leg, e, child, x, y
<1> HIDE DEF e
<1> QED
  BY <1>10, <1>11

LEMMA AddLegType ==
    ASSUME NEW w \in World, NEW wp \in Weapon, NEW d \in Int, wp.info.child \in DOMAIN Info,
           NEW u \in World
    PROVE  Bursts(u, AddLeg(u, wp, w, d))
<1> DEFINE e == Leg(w, wp, d)
<1>1. e \in Planned
  BY LegType
<1>2. AddLeg(u, wp, w, d) \in {u, [u EXCEPT !.expl = ExplAdd(@, e)]}
  BY DEF AddLeg
<1> HIDE DEF e
<1>3. Bursts(u, [u EXCEPT !.expl = ExplAdd(@, e)])
  BY <1>1, ExplAddType
<1> QED
  BY <1>2, <1>3, BurstsNot

LEMMA PhoenixSpiderType ==
    ASSUME NEW w \in World, NEW wp \in Weapon, NEW draw \in Draw, wp.info.child \in DOMAIN Info
    PROVE  Becomes(w, wp, PhoenixSpider(w, wp, draw))
<1>1. CASE ~GoesOff(wp)
  <2>1. PhoenixSpider(w, wp, draw) = Outcome(w, "failure", wp, <<>>)
    BY <1>1 DEF PhoenixSpider
  <2> QED
    BY <2>1, BecomesNothing
<1>2. CASE GoesOff(wp)
  <2> DEFINE n == Len(draw.legs)
             c == [wp |-> wp, w |-> w, seq |-> draw.legs]
             s0 == GoOff(w, wp, draw)
             S == {u \in World : Bursts(w, u)}
  <2>1. draw.legs \in Seq(Int)
    BY DEF Draw
  <2>2. n \in Nat /\ \A i \in 1 .. n : draw.legs[i] \in Int
    BY <2>1, ElementOfSeq, LenProperties
  <2>3. PICK f : /\ IsRun("PhoenixSpider", s0, c, n, f)
                 /\ PhoenixSpider(w, wp, draw) = Outcome(f[n], "detonate", wp, <<>>)
    BY <1>2, <2>2, PhoenixSpiderLoop
  <2>4. s0 \in S
    BY GoOffType DEF Bursts
  <2>5. ASSUME NEW u \in S, NEW i \in 1 .. n PROVE Step("PhoenixSpider", u, i, c) \in S
    <3> DEFINE d == draw.legs[i]
    <3>1. Step("PhoenixSpider", u, i, c) = AddLeg(u, wp, w, d)
      BY DEF Step
    <3>2. d \in Int
      BY <2>2
    <3> HIDE DEF d
    <3> DEFINE v == AddLeg(u, wp, w, d)
    <3>3. Bursts(u, v)
      BY <3>2, AddLegType
    <3> HIDE DEF v
    <3>4. Bursts(w, v) /\ v \in World
      BY <3>3, BurstsTwice DEF Bursts
    <3>5. Step("PhoenixSpider", u, i, c) = v
      BY <3>1 DEF v
    <3> QED
      BY <3>4, <3>5
  <2> HIDE DEF n, c, s0, S
  <2>6. IsRun("PhoenixSpider", s0, c, n, f)
    BY <2>3
  <2>7. f[n] \in S
    BY <2>2, <2>4, <2>5, <2>6, RunKept
  <2>8. Bursts(w, f[n])
    BY <2>7 DEF S
  <2>9. <<>> \in Seq(Weapon) /\ SameFall(wp.tr, wp.tr)
    BY EmptySeq DEF SameFall
  <2> DEFINE v == f[n]
  <2> HIDE DEF v
  <2>10. PhoenixSpider(w, wp, draw) = Outcome(v, "detonate", wp, <<>>) /\ Bursts(w, v)
    BY <2>3, <2>8 DEF v
  <2>11. Becomes(w, wp, Outcome(v, "detonate", wp, <<>>))
    BY <2>9, <2>10 DEF Becomes, Outcome
  <2> QED
    BY <2>10, <2>11
<1> QED
  BY <1>1, <1>2

\* The square root, rounded down.
LEMMA IsqrtType ==
    ASSUME NEW n \in Nat
    PROVE  Isqrt(n) \in Nat
<1> DEFINE S == {k \in 0 .. n : k * k <= n}
<1>1. 0 \in S
  OBVIOUS
<1>2. S \in SUBSET (0 .. n) /\ S # {} /\ 0 \in Int /\ n \in Int
  BY <1>1
<1>3. Isqrt(n) = Max(S)
  BY DEF Isqrt
<1> HIDE DEF S
<1>4. Max(S) \in S
  BY <1>2, Extremes
<1>5. Max(S) \in 0 .. n
  BY <1>2, <1>4
<1> QED
  BY <1>3, <1>5

\* A part of a spread.
LEMMA PartType ==
    ASSUME NEW s \in Int, NEW n \in Nat \ {0}, NEW k \in 1 .. n
    PROVE  Rint(s * (2 * k - n), 2 * n) \in Int
<1> DEFINE a == 2 * k - n
           b == 2 * n
<1>1. a \in Int /\ b \in Nat \ {0}
  OBVIOUS
<1>2. s * a \in Int
  <2> HIDE DEF a, b
  <2> QED
    BY <1>1, Products
<1> HIDE DEF a, b
<1>3. Rint(s * a, b) \in Int
  BY <1>1, <1>2, RintType
<1> QED
  BY <1>3 DEF a, b

LEMMA PhoenixScatterType ==
    ASSUME NEW w \in World, NEW wp \in Weapon, NEW draw \in Draw, wp.info.child \in DOMAIN Info
    PROVE  Becomes(w, wp, PhoenixScatter(w, wp, draw))
<1> DEFINE vx == VelocityX(wp.tr)
           vy == VelocityY(wp.tr)
           sum == Square(vx) + Square(vy)
           v  == Isqrt(sum)
           n  == wp.info.count
           spread == IF n > 1 THEN wp.info.scatter ELSE 0
           sx == IF v = 0 THEN spread ELSE Rint(spread * vx, v)
           sy == IF v = 0 THEN 0 ELSE Rint(spread * vy, v)
           info == Info[wp.info.child]
           child(k) == WeaponNew(info, wp.playerid, wp.tr.curx, wp.tr.cury,
                                 vx + Rint(sx * (2 * k - n), 2 * n), vy + Rint(sy * (2 * k - n), 2 * n),
                                 wp.triggered, draw)
           new == [k \in 1 .. n |-> child(k)]
<1>1. PhoenixScatter(w, wp, draw) = Outcome(w, "sizzle", wp, new)
  BY DEF PhoenixScatter
<1>2. wp.info \in WeaponInfo /\ wp.playerid \in Player /\ wp.triggered \in BOOLEAN /\ wp.tr \in Traj
  BY WeaponFields
<1>3. wp.tr.curx \in Int /\ wp.tr.cury \in Int
  BY <1>2, PlacesOf
<1>4. n \in Nat /\ wp.info.scatter \in Int
  BY <1>2, InfoFields
<1>5. vx \in Int /\ vy \in Int
  BY <1>2, MotionType
<1>6. spread \in Int
  BY <1>4
<1> HIDE DEF vx, vy, spread, n
<1>7. Square(vx) \in Nat /\ Square(vy) \in Nat
  BY <1>5, Products
<1>8. sum \in Nat
  BY <1>7
<1> HIDE DEF sum
<1>9. v \in Nat
  BY <1>8, IsqrtType
<1> HIDE DEF v
<1>10. spread * vx \in Int /\ spread * vy \in Int
  BY <1>5, <1>6, Products
<1>11. sx \in Int /\ sy \in Int
  <2>1. CASE v = 0
    BY <1>6, <2>1
  <2>2. CASE v # 0
    <3>1. v \in Nat \ {0}
      BY <1>9, <2>2
    <3>2. Rint(spread * vx, v) \in Int /\ Rint(spread * vy, v) \in Int
      BY <1>10, <3>1, RintType
    <3> QED
      BY <2>2, <3>2
  <2> QED
    BY <2>1, <2>2
<1> HIDE DEF sx, sy
<1>12. info \in WeaponInfo
  BY InfoOf
<1> HIDE DEF info
<1>13. ASSUME NEW k \in 1 .. n PROVE child(k) \in Weapon
  <2> DEFINE a == vx + Rint(sx * (2 * k - n), 2 * n)
             b == vy + Rint(sy * (2 * k - n), 2 * n)
  <2>1. n \in Nat \ {0}
    BY <1>4
  <2>2. Rint(sx * (2 * k - n), 2 * n) \in Int /\ Rint(sy * (2 * k - n), 2 * n) \in Int
    BY <1>11, <2>1, PartType
  <2>3. a \in Int /\ b \in Int
    BY <1>5, <2>2
  <2>4. child(k) = WeaponNew(info, wp.playerid, wp.tr.curx, wp.tr.cury, a, b, wp.triggered, draw)
    OBVIOUS
  <2> HIDE DEF a, b, child
  <2>5. WeaponNew(info, wp.playerid, wp.tr.curx, wp.tr.cury, a, b, wp.triggered, draw) \in Weapon
    BY <1>2, <1>3, <1>12, <2>3, WeaponNewType
  <2> QED
    BY <2>4, <2>5
<1> HIDE DEF child
<1>14. new \in Seq(Weapon)
  BY <1>4, <1>13, SeqDef
<1>15. Bursts(w, w) /\ SameFall(wp.tr, wp.tr)
  BY BurstsNot DEF SameFall
<1> HIDE DEF new
<1>16. Becomes(w, wp, Outcome(w, "sizzle", wp, new))
  BY <1>14, <1>15 DEF Becomes, Outcome
<1> QED
  BY <1>1, <1>16

\* sc_phoenix
LEMMA PhoenixType ==
    ASSUME NEW w \in World, NEW wp \in Weapon, NEW draw \in Draw
    PROVE  Becomes(w, wp, Phoenix(w, wp, draw))
<1> DEFINE needy == wp.info.child # "none" /\ wp.info.count > 0
<1>1. \/ Phoenix(w, wp, draw) \in
           {Outcome(w, "none", wp, <<>>), PhoenixDetonate(w, wp, draw), PhoenixConvert(w, wp, draw)}
      \/ needy /\ Phoenix(w, wp, draw) \in
           {PhoenixChain(w, wp, draw), PhoenixSpider(w, wp, draw), PhoenixScatter(w, wp, draw)}
  BY DEF Phoenix
<1>2. needy => wp.info.child \in DOMAIN Info
  BY WeaponFields, InfoFields
<1> HIDE DEF needy
<1>3. /\ Becomes(w, wp, Outcome(w, "none", wp, <<>>))
      /\ Becomes(w, wp, PhoenixDetonate(w, wp, draw))
      /\ Becomes(w, wp, PhoenixConvert(w, wp, draw))
  BY BecomesNothing, PhoenixDetonateType, PhoenixConvertType
<1>4. needy => /\ Becomes(w, wp, PhoenixChain(w, wp, draw))
               /\ Becomes(w, wp, PhoenixSpider(w, wp, draw))
               /\ Becomes(w, wp, PhoenixScatter(w, wp, draw))
  BY <1>2, PhoenixChainType, PhoenixSpiderType, PhoenixScatterType
<1> QED
  BY <1>1, <1>3, <1>4

-----------------------------------------------------------------------------
(* Tracking.                                                               *)

\* Nobody on the field is hurt, and nobody leaves it.
Unhurt(w, v) ==
    /\ v \in World
    /\ v.walls = w.walls /\ v.physics = w.physics /\ v.fast = w.fast
    /\ \A q \in Player : /\ v.tank[q].life = w.tank[q].life /\ v.tank[q].dead = w.tank[q].dead
                         /\ v.tank[q].killedby = w.tank[q].killedby
                         /\ v.tank[q].kills = w.tank[q].kills /\ v.tank[q].suicides = w.tank[q].suicides
    /\ Placed(w) => Placed(v)

LEMMA UnhurtTwice ==
    ASSUME NEW w, NEW u, NEW v, Unhurt(w, u), Unhurt(u, v)
    PROVE  Unhurt(w, v)
  BY DEF Unhurt

\* A place on the field depends on the walls alone.
LEMMA OnXAlike ==
    ASSUME NEW w, NEW v, NEW x, v.walls = w.walls
    PROVE  OnX(v, x) <=> OnX(w, x)
  BY DEF OnX, TranslateX

LEMMA InPlaceUnhurt ==
    ASSUME NEW w, NEW v, InPlace(w, v)
    PROVE  Unhurt(w, v)
<1>1. \A x : OnX(v, x) <=> OnX(w, x)
  BY OnXAlike DEF InPlace
<1>2. Placed(w) => Placed(v)
  BY <1>1 DEF InPlace, Placed
<1> QED
  BY <1>2 DEF InPlace, Unhurt

LEMMA BurstsUnhurt ==
    ASSUME NEW w, NEW v, Bursts(w, v)
    PROVE  Unhurt(w, v)
<1>1. \A x : OnX(v, x) <=> OnX(w, x)
  BY OnXAlike DEF Bursts
<1>2. Placed(w) => Placed(v)
  BY <1>1 DEF Bursts, Placed
<1> QED
  BY <1>2 DEF Bursts, Unhurt

LEMMA SinksUnhurt ==
    ASSUME NEW w \in World, NEW v, Sinks(w, v)
    PROVE  Unhurt(w, v) /\ v.expl = w.expl /\ v.shots = w.shots
<1>1. TanksOnly(w, v)
  BY DEF Sinks
<1>2. v \in World /\ v.walls = w.walls /\ v.physics = w.physics /\ v.fast = w.fast
      /\ v.expl = w.expl /\ v.shots = w.shots
  BY <1>1, TanksOnlyKeeps
<1> QED
  BY <1>2 DEF Sinks, NotHigher, Unhurt

\* sc_traj_landfall: dirt comes down, and then the tanks do, until all is at rest.
LEMMA TrajLandfallType ==
    ASSUME NEW w \in World, Placed(w), NEW tr \in Traj
    PROVE  LET v == TrajLandfall(w, tr)
           IN  /\ Unhurt(w, v) /\ v.expl = w.expl /\ v.shots = w.shots
               /\ IF Pends(tr) THEN Settled(v) ELSE v = w
<1>1. CASE ~Pends(tr)
  <2>1. TrajLandfall(w, tr) = w
    BY <1>1 DEF TrajLandfall, Pends
  <2>2. Unhurt(w, w)
    BY DEF Unhurt
  <2> QED
    BY <1>1, <2>1, <2>2
<1>2. CASE Pends(tr)
  <2> DEFINE u == DropZoneAll(w, tr.landfall_x1, tr.landfall_x2)
             v == SettlePlayers(u)
  <2>1. TrajLandfall(w, tr) = v
    BY <1>2 DEF TrajLandfall, Pends
  <2>2. tr.landfall_x1 \in Int /\ tr.landfall_x2 \in Int
    BY DEF Traj
  <2>3. LandOnly(w, u)
    BY <2>2, ZoneAllFalls DEF Fallen
  <2> HIDE DEF u
  <2>4. InPlace(w, u)
    BY <2>3, InPlaceLand
  <2>5. Unhurt(w, u) /\ u \in World /\ Placed(u) /\ u.expl = w.expl /\ u.shots = w.shots
    BY <2>4, InPlaceUnhurt DEF InPlace, Unhurt
  <2>6. Sinks(u, v) /\ Settled(v)
    BY <2>5, SettlePlayersSettles
  <2> HIDE DEF v
  <2>7. Unhurt(u, v) /\ v.expl = u.expl /\ v.shots = u.shots
    BY <2>5, <2>6, SinksUnhurt
  <2>8. Unhurt(w, v)
    BY <2>5, <2>7, UnhurtTwice
  <2> QED
    BY <1>2, <2>1, <2>5, <2>6, <2>7, <2>8
<1> QED
  BY <1>1, <1>2

\* What a step of a weapon may do, before it ends or stays: what has fallen
\* below tanks is on the weapon's account, unless an explosion waits.
Carried(w, wp, o) ==
    /\ Unhurt(w, o.w) /\ o.w.shots = w.shots
    /\ o.wp \in Weapon /\ o.new \in Seq(Weapon)
    /\ w.expl # <<>> => o.w.expl # <<>>
    /\ o.w.expl = w.expl \/ o.res = "detonate"
    /\ Pends(wp.tr) => Pends(o.wp.tr)
    /\ Settled(w) => Settled(o.w) \/ o.w.expl # <<>> \/ Pends(o.wp.tr)

\* And after it: a weapon that ends settles its account.
Tracked(w, wp, t) ==
    /\ Unhurt(w, t.w) /\ t.w.shots = w.shots
    /\ t.chain \in Seq(Weapon) /\ t.res \in {"recurse", "detonate", "sizzle"}
    /\ t.res = "recurse" => t.chain # <<>>
    /\ w.expl # <<>> => t.w.expl # <<>>
    /\ t.w.expl = w.expl \/ t.res = "detonate"
    /\ \/ Settled(t.w) \/ t.w.expl # <<>>
       \/ t.res = "recurse" /\ Pends(Head(t.chain).tr)
       \/ ~Pends(wp.tr) /\ ~Settled(w)

LEMMA EndedTracked ==
    ASSUME NEW w \in World, Placed(w), NEW wp \in Weapon, NEW o, Carried(w, wp, o),
           NEW res \in {"detonate", "sizzle"}, o.w.expl = w.expl \/ res = "detonate"
    PROVE  Tracked(w, wp, Ended(o, res))
<1> DEFINE v == TrajLandfall(o.w, o.wp.tr)
<1>1. Ended(o, res) = [w |-> v, res |-> res, chain |-> o.new]
  BY DEF Ended
<1>2. o.w \in World /\ Placed(o.w) /\ o.wp.tr \in Traj
  BY WeaponFields DEF Carried, Unhurt
<1>3. Unhurt(o.w, v) /\ v.expl = o.w.expl /\ v.shots = o.w.shots
      /\ IF Pends(o.wp.tr) THEN Settled(v) ELSE v = o.w
  BY <1>2, TrajLandfallType
<1> HIDE DEF v
<1>4. Unhurt(w, v)
  BY <1>3, UnhurtTwice DEF Carried
<1>5. Settled(v) \/ v.expl # <<>> \/ (~Pends(wp.tr) /\ ~Settled(w))
  BY <1>3 DEF Carried
<1> QED
  BY <1>1, <1>3, <1>4, <1>5 DEF Carried, Tracked

LEMMA StillTracked ==
    ASSUME NEW w \in World, Placed(w), NEW wp \in Weapon, NEW o, Carried(w, wp, o), o.w.expl = w.expl
    PROVE  Tracked(w, wp, StillThere(o))
<1> DEFINE chain == <<o.wp>> \o o.new
<1>1. StillThere(o) = [w |-> o.w, res |-> "recurse", chain |-> chain]
  BY DEF StillThere
<1>2. o.wp \in Weapon /\ o.new \in Seq(Weapon) /\ <<o.wp>> \in Seq(Weapon) /\ Len(<<o.wp>>) = 1 /\ <<o.wp>>[1] = o.wp
  BY DEF Carried
<1>3. chain \in Seq(Weapon) /\ Len(chain) = 1 + Len(o.new) /\ chain[1] = o.wp /\ Len(o.new) \in Nat
  <2>1. Len(o.new) \in Nat
    BY <1>2, LenProperties
  <2>2. chain \in Seq(Weapon) /\ Len(chain) = Len(<<o.wp>>) + Len(o.new)
        /\ \A i \in 1 .. Len(<<o.wp>>) + Len(o.new) :
              chain[i] = IF i <= Len(<<o.wp>>) THEN <<o.wp>>[i] ELSE o.new[i - Len(<<o.wp>>)]
    BY <1>2, ConcatProperties
  <2>3. 1 \in 1 .. Len(<<o.wp>>) + Len(o.new)
    BY <1>2, <2>1
  <2> HIDE DEF chain
  <2> QED
    BY <1>2, <2>1, <2>2, <2>3
<1> HIDE DEF chain
<1>4. chain # <<>> /\ Head(chain) = o.wp
  <2>1. Len(chain) # 0
    BY <1>3
  <2>2. chain # <<>>
    BY <2>1, EmptySeq
  <2>3. Head(chain) = chain[1]
    BY <1>3, <2>2, HeadTailProperties
  <2> QED
    BY <1>3, <2>2, <2>3
<1> QED
  BY <1>1, <1>3, <1>4 DEF Carried, Tracked

\* The weapon has moved, and something may have fallen.
LEMMA CarriedBy ==
    ASSUME NEW w \in World, Placed(w), NEW wp \in Weapon, NEW v, InPlace(w, v), NEW tr \in Traj,
           Pends(wp.tr) => Pends(tr), v.land # w.land => Pends(tr)
    PROVE  Carried(w, wp, Outcome(v, "none", OnWay(wp, tr), <<>>))
<1> DEFINE o == Outcome(v, "none", OnWay(wp, tr), <<>>)
<1>1. o.w = v /\ o.res = "none" /\ o.wp = OnWay(wp, tr) /\ o.new = <<>>
  BY DEF Outcome
<1>2. OnWay(wp, tr) \in Weapon /\ OnWay(wp, tr).tr = tr
  BY OnWayType
<1>3. <<>> \in Seq(Weapon)
  BY EmptySeq
<1>4. Unhurt(w, v)
  BY InPlaceUnhurt
<1>5. v.expl = w.expl /\ v.shots = w.shots /\ v \in World
  BY DEF InPlace
<1>6. v.land = w.land => (Settled(v) <=> Settled(w))
  <2> SUFFICES ASSUME v.land = w.land PROVE Settled(v) <=> Settled(w)
    OBVIOUS
  <2>1. Alike(w, v)
    BY DEF Alike, InPlace
  <2> QED
    BY <1>5, <2>1, AlikeSettled
<1> HIDE DEF o
<1> QED
  BY <1>1, <1>2, <1>3, <1>4, <1>5, <1>6 DEF Carried, o

\* It goes off, or becomes something else.
LEMMA CarriedOn ==
    ASSUME NEW w \in World, NEW wp, NEW o, Carried(w, wp, o), NEW p,
           Bursts(o.w, p.w), p.w = o.w \/ p.res = "detonate", o.w.expl = w.expl,
           p.wp \in Weapon, SameFall(o.wp.tr, p.wp.tr), p.new \in Seq(Weapon)
    PROVE  Carried(w, wp, p)
<1>1. Unhurt(o.w, p.w)
  BY BurstsUnhurt
<1>2. Unhurt(w, p.w)
  BY <1>1, UnhurtTwice DEF Carried
<1>3. Pends(o.wp.tr) <=> Pends(p.wp.tr)
  BY DEF SameFall, Pends
<1>4. p.w.shots = w.shots /\ (p.w.expl # <<>> \/ p.w = o.w)
  BY DEF Carried, Bursts
<1> QED
  BY <1>2, <1>3, <1>4 DEF Carried

LEMMA PhoenixCarried ==
    ASSUME NEW w \in World, Placed(w), NEW wp \in Weapon, NEW o, Carried(w, wp, o), o.w.expl = w.expl,
           NEW draw \in Draw
    PROVE  Carried(w, wp, Phoenix(o.w, o.wp, draw))
<1> DEFINE p == Phoenix(o.w, o.wp, draw)
<1>1. o.w \in World /\ o.wp \in Weapon
  BY DEF Carried, Unhurt
<1>2. Becomes(o.w, o.wp, p)
  BY <1>1, PhoenixType
<1> HIDE DEF p
<1>3. Carried(w, wp, p)
  BY <1>2, CarriedOn DEF Becomes
<1> QED
  BY <1>3 DEF p

\* SC_WEAPON_FLAGS of what was hit.
LEMMA ImpactLandType ==
    ASSUME NEW w \in World, Placed(w), NEW wp \in Weapon, NEW o, Carried(w, wp, o), NEW draw \in Draw
    PROVE  Tracked(w, wp, ImpactLand(o, draw))
<1>1. CASE o.res \in {"detonate", "sizzle"}
  <2>1. ImpactLand(o, draw) = Ended(o, o.res)
    BY <1>1 DEF ImpactLand
  <2>2. o.w.expl = w.expl \/ o.res = "detonate"
    BY DEF Carried
  <2> QED
    BY <1>1, <2>1, <2>2, EndedTracked
<1>2. CASE o.res \notin {"detonate", "sizzle"} /\ ~(o.res # "reset" /\ o.w.expl = <<>>)
  <2>1. ImpactLand(o, draw) = StillThere(o)
    BY <1>2 DEF ImpactLand
  <2>2. o.w.expl = w.expl
    BY <1>2 DEF Carried
  <2> QED
    BY <2>1, <2>2, StillTracked
<1>3. CASE o.res \notin {"detonate", "sizzle", "reset"} /\ o.w.expl = <<>>
  <2> DEFINE v == GoOff(o.w, o.wp, draw)
             x == [o EXCEPT !.w = v]
             y == [w |-> v, res |-> "detonate", wp |-> o.wp, new |-> o.new]
  <2>1. ImpactLand(o, draw) = Ended(x, "detonate")
    BY <1>3 DEF ImpactLand
  <2>2. o.w \in World /\ o.wp \in Weapon /\ o.new \in Seq(Weapon)
    BY DEF Carried, Unhurt
  <2>3. Bursts(o.w, v)
    BY <2>2, GoOffType
  <2> HIDE DEF v
  <2>4. o.w.expl = w.expl
    BY <1>3 DEF Carried
  <2>5. y.w = v /\ y.res = "detonate" /\ y.wp = o.wp /\ y.new = o.new
    OBVIOUS
  <2>6. SameFall(o.wp.tr, o.wp.tr)
    BY DEF SameFall
  <2> HIDE DEF y
  <2>7. Carried(w, wp, y)
    BY <2>2, <2>3, <2>4, <2>5, <2>6, CarriedOn
  <2>8. Tracked(w, wp, Ended(y, "detonate"))
    BY <2>7, EndedTracked
  <2>9. Ended(x, "detonate") = Ended(y, "detonate")
    BY <2>5 DEF Ended
  <2> QED
    BY <2>1, <2>8, <2>9
<1> QED
  BY <1>1, <1>2, <1>3

\* _sc_weapon_track
LEMMA TrackType ==
    ASSUME NEW w \in World, Placed(w), NEW wp \in Weapon, NEW draw \in Draw
    PROVE  Tracked(w, wp, Track(w, wp, draw))
<1>0. wp.tr \in Traj /\ wp.info \in WeaponInfo
  BY WeaponFields
<1>1. CASE wp.defer
  <2> DEFINE later == [wp EXCEPT !.defer = FALSE]
             o == Outcome(w, "none", later, <<>>)
  <2>1. Track(w, wp, draw) = StillThere(o)
    BY <1>1 DEF Track
  <2>2. later \in Weapon /\ later.tr = wp.tr
    <3> DEFINE no == FALSE
    <3>1. no \in BOOLEAN /\ later = [wp EXCEPT !.defer = no]
      OBVIOUS
    <3> HIDE DEF no, later
    <3> QED
      BY <3>1 DEF Weapon
  <2> HIDE DEF later
  <2>3. o.w = w /\ o.res = "none" /\ o.wp = later /\ o.new = <<>>
    BY DEF Outcome
  <2> HIDE DEF o
  <2>4. <<>> \in Seq(Weapon)
    BY EmptySeq
  <2>5. Carried(w, wp, o)
    BY <2>2, <2>3, <2>4 DEF Carried, Unhurt
  <2>6. Tracked(w, wp, StillThere(o))
    BY <2>3, <2>5, StillTracked
  <2> QED
    BY <2>1, <2>6
<1>2. CASE ~wp.defer
  <2> DEFINE step == TrajStep(w, wp.tr, draw, TrajFlags(wp))
             moved == OnWay(wp, step.tr)
             still == Outcome(step.w, "none", moved, <<>>)
             split == Phoenix(step.w, moved, draw)
             hit == AbsorbShot(step.w, step.tr.victim, wp.info.sapper)
             taken == Outcome(hit, "none", moved, <<>>)
  <2>1. \/ step.res = "shield" /\ Track(w, wp, draw) = Ended(taken, "sizzle")
        \/ Track(w, wp, draw) \in {Ended(still, "sizzle"), ImpactLand(split, draw), ImpactLand(still, draw),
                                   SplitInFlight(split), StillThere(still)}
    BY <1>2 DEF Track, Arrived, OnWay, Outcome
  <2>2. /\ step \in Passing /\ InPlace(w, step.w)
        /\ Pends(wp.tr) => Pends(step.tr)
        /\ step.w.land # w.land => Pends(step.tr)
    BY <1>0, TrajStepType
  <2> HIDE DEF step
  <2>3. step.tr \in Traj /\ step.w \in World /\ (step.res = "shield" => step.tr.victim \in Player)
    BY <2>2, PassingFields
  <2>4. Carried(w, wp, still)
    BY <2>2, <2>3, CarriedBy
  <2>5. still.w.expl = w.expl /\ still.w = step.w /\ still.wp = moved
    BY <2>2 DEF Outcome, InPlace
  <2> HIDE DEF still, moved
  <2>6. Carried(w, wp, split)
    BY <2>4, <2>5, PhoenixCarried
  <2> HIDE DEF split
  <2>7. step.res = "shield" => Carried(w, wp, taken)
    <3> SUFFICES ASSUME step.res = "shield" PROVE Carried(w, wp, taken)
      OBVIOUS
    <3>1. wp.info.sapper \in BOOLEAN
      BY <1>0, InfoFields
    <3>2. InPlace(step.w, hit) /\ hit.land = step.w.land
      BY <2>3, <3>1, AbsorbShotType
    <3> HIDE DEF hit
    <3>3. InPlace(w, hit) /\ (hit.land # w.land => Pends(step.tr))
      BY <2>2, <3>2, InPlaceTwice
    <3> QED
      BY <2>2, <2>3, <3>3, CarriedBy DEF moved
  <2>8. step.res = "shield" => taken.w.expl = w.expl
    <3> SUFFICES ASSUME step.res = "shield" PROVE taken.w.expl = w.expl
      OBVIOUS
    <3>1. wp.info.sapper \in BOOLEAN
      BY <1>0, InfoFields
    <3>2. InPlace(step.w, hit)
      BY <2>3, <3>1, AbsorbShotType
    <3> HIDE DEF hit
    <3> QED
      BY <2>2, <3>2 DEF Outcome, InPlace
  <2> HIDE DEF taken
  <2>9. step.res = "shield" => Tracked(w, wp, Ended(taken, "sizzle"))
    BY <2>7, <2>8, EndedTracked
  <2>10. Tracked(w, wp, Ended(still, "sizzle")) /\ Tracked(w, wp, StillThere(still))
    BY <2>4, <2>5, EndedTracked, StillTracked
  <2>11. Tracked(w, wp, ImpactLand(split, draw)) /\ Tracked(w, wp, ImpactLand(still, draw))
    BY <2>4, <2>6, ImpactLandType
  <2>12. Tracked(w, wp, SplitInFlight(split))
    <3>1. split.w.expl = w.expl \/ split.res = "detonate"
      BY <2>6 DEF Carried
    <3>2. CASE split.res \in {"detonate", "sizzle"}
      <4>1. SplitInFlight(split) = Ended(split, split.res)
        BY <3>2 DEF SplitInFlight
      <4> QED
        BY <2>6, <3>1, <3>2, <4>1, EndedTracked
    <3>3. CASE split.res \notin {"detonate", "sizzle"}
      <4>1. SplitInFlight(split) = StillThere(split)
        BY <3>3 DEF SplitInFlight
      <4> QED
        BY <2>6, <3>1, <3>3, <4>1, StillTracked
    <3> QED
      BY <3>2, <3>3
  <2> QED
    BY <2>1, <2>9, <2>10, <2>11, <2>12
<1> QED
  BY <1>1, <1>2

\* Whether a weapon of a chain has yet to settle what fell.
AnyPends(chain) == \E i \in 1 .. Len(chain) : Pends(chain[i].tr)

LEMMA AnyOfBoth ==
    ASSUME NEW a \in Seq(Weapon), NEW b \in Seq(Weapon)
    PROVE  a \o b \in Seq(Weapon) /\ (AnyPends(a \o b) <=> AnyPends(a) \/ AnyPends(b))
<1> DEFINE m == Len(a)
           k == Len(b)
           c == a \o b
<1>1. m \in Nat /\ k \in Nat
  BY LenProperties
<1>2. c \in Seq(Weapon) /\ Len(c) = m + k /\ \A i \in 1 .. m + k : c[i] = IF i <= m THEN a[i] ELSE b[i - m]
  BY ConcatProperties
<1> HIDE DEF c
<1>3. ASSUME AnyPends(c) PROVE AnyPends(a) \/ AnyPends(b)
  <2>1. PICK i \in 1 .. m + k : Pends(c[i].tr)
    BY <1>2, <1>3 DEF AnyPends
  <2>2. CASE i <= m
    <3>1. i \in 1 .. m /\ c[i] = a[i]
      BY <1>1, <1>2, <2>2
    <3> QED
      BY <2>1, <3>1 DEF AnyPends
  <2>3. CASE ~(i <= m)
    <3>1. i - m \in 1 .. k /\ c[i] = b[i - m]
      BY <1>1, <1>2, <2>3
    <3> QED
      BY <2>1, <3>1 DEF AnyPends
  <2> QED
    BY <2>2, <2>3
<1>4. ASSUME AnyPends(a) PROVE AnyPends(c)
  <2>1. PICK i \in 1 .. m : Pends(a[i].tr)
    BY <1>4 DEF AnyPends
  <2>2. i \in 1 .. m + k /\ c[i] = a[i]
    BY <1>1, <1>2
  <2> QED
    BY <1>2, <2>1, <2>2 DEF AnyPends
<1>5. ASSUME AnyPends(b) PROVE AnyPends(c)
  <2>1. PICK i \in 1 .. k : Pends(b[i].tr)
    BY <1>5 DEF AnyPends
  <2>2. m + i \in 1 .. m + k /\ ~(m + i <= m) /\ (m + i) - m = i
    BY <1>1
  <2>3. c[m + i] = b[i]
    BY <1>2, <2>2
  <2> QED
    BY <1>2, <2>1, <2>2, <2>3 DEF AnyPends
<1> QED
  BY <1>2, <1>3, <1>4, <1>5 DEF c

LEMMA AnyOfNext ==
    ASSUME NEW a \in Seq(Weapon), NEW wp \in Weapon
    PROVE  /\ Append(a, wp) \in Seq(Weapon)
           /\ AnyPends(a) \/ Pends(wp.tr) => AnyPends(Append(a, wp))
<1> DEFINE c == Append(a, wp)
           m == Len(a)
<1>1. m \in Nat
  BY LenProperties
<1>2. c \in Seq(Weapon) /\ Len(c) = m + 1 /\ c[m + 1] = wp /\ \A i \in 1 .. m : c[i] = a[i]
  BY AppendProperties
<1> HIDE DEF c
<1>3. m + 1 \in 1 .. m + 1 /\ 1 .. m \subseteq 1 .. m + 1
  BY <1>1
<1>4. AnyPends(a) => AnyPends(c)
  BY <1>2, <1>3 DEF AnyPends
<1>5. Pends(wp.tr) => AnyPends(c)
  BY <1>2, <1>3 DEF AnyPends
<1> QED
  BY <1>2, <1>4, <1>5 DEF c

LEMMA AnyOfFirst ==
    ASSUME NEW a \in Seq(Weapon), a # <<>>
    PROVE  /\ Head(a) \in Weapon /\ Tail(a) \in Seq(Weapon)
           /\ AnyPends(a) => Pends(Head(a).tr) \/ AnyPends(Tail(a))
<1>1. Len(a) \in Nat \ {0}
  BY EmptySeq
<1>2. Head(a) \in Weapon /\ Tail(a) \in Seq(Weapon) /\ Len(Tail(a)) = Len(a) - 1 /\ Head(a) = a[1]
      /\ \A i \in 1 .. Len(Tail(a)) : Tail(a)[i] = a[i + 1]
  <2>1. Tail(a) \in Seq(Weapon) /\ Len(Tail(a)) = Len(a) - 1
        /\ \A i \in 1 .. Len(Tail(a)) : Tail(a)[i] = a[i + 1]
    BY HeadTailProperties
  <2>2. Head(a) \in Weapon
    BY HeadTailProperties
  <2>3. Head(a) = a[1]
    BY <1>1
  <2> QED
    BY <2>1, <2>2, <2>3
<1>3. ASSUME AnyPends(a), ~Pends(Head(a).tr) PROVE AnyPends(Tail(a))
  <2>1. PICK i \in 1 .. Len(a) : Pends(a[i].tr)
    BY <1>3 DEF AnyPends
  <2>2. i # 1
    BY <1>2, <1>3, <2>1
  <2>3. i - 1 \in 1 .. Len(Tail(a)) /\ (i - 1) + 1 = i
    BY <1>1, <1>2, <2>2
  <2>4. Tail(a)[i - 1] = a[i]
    BY <1>2, <2>3
  <2> QED
    BY <2>1, <2>3, <2>4 DEF AnyPends
<1> QED
  BY <1>2, <1>3

\* A pass over the chain of a player.
Passed == {"none", "recurse", "detonate"}
Chaining == [w : World, todo : Seq(Weapon), done : Seq(Weapon), res : Passed]

\* The field is at rest, or something is still to happen that will bring it there.
Elsewhere(w, p) == \E q \in Player \ {p} : AnyPends(w.shots[q])
Awaits(s, p) ==
    \/ Settled(s.w) \/ s.w.expl # <<>> \/ Elsewhere(s.w, p)
    \/ AnyPends(s.todo) \/ AnyPends(s.done)

Follows(s, u, p) ==
    /\ u \in Chaining /\ Unhurt(s.w, u.w) /\ u.w.shots = s.w.shots
    /\ u.res = "none" => s.res = "none" /\ u.w.expl = s.w.expl /\ u.done = s.done
    /\ Awaits(s, p) => Awaits(u, p)

LEMMA FollowsTwice ==
    ASSUME NEW s, NEW t, NEW u, NEW p, Follows(s, t, p), Follows(t, u, p)
    PROVE  Follows(s, u, p)
<1>1. Unhurt(s.w, u.w)
  BY UnhurtTwice DEF Follows
<1> QED
  BY <1>1 DEF Follows

LEMMA ChainingFields ==
    ASSUME NEW s \in Chaining
    PROVE  s.w \in World /\ s.todo \in Seq(Weapon) /\ s.done \in Seq(Weapon) /\ s.res \in Passed
  BY DEF Chaining

LEMMA RelinkFollows ==
    ASSUME NEW s \in Chaining, NEW p \in Player, s.todo # <<>>, NEW t, Tracked(s.w, Head(s.todo), t)
    PROVE  Follows(s, Relink(s, t), p)
<1> DEFINE ended == t.res # "recurse"
           todo == IF ended THEN t.chain \o Tail(s.todo) ELSE Tail(t.chain) \o Tail(s.todo)
           done == IF ended THEN s.done ELSE Append(s.done, Head(t.chain))
           res == IF t.res = "detonate" THEN "detonate"
                  ELSE IF t.res = "recurse" /\ s.res = "none" THEN "recurse" ELSE s.res
           u == Relink(s, t)
<1>1. u = [w |-> t.w, todo |-> todo, done |-> done, res |-> res]
  BY DEF Relink
<1>2. s.w \in World /\ s.todo \in Seq(Weapon) /\ s.done \in Seq(Weapon) /\ s.res \in Passed
  BY ChainingFields
<1>3. /\ Unhurt(s.w, t.w) /\ t.w \in World /\ t.w.shots = s.w.shots
      /\ t.chain \in Seq(Weapon) /\ t.res \in {"recurse", "detonate", "sizzle"}
      /\ t.res = "recurse" => t.chain # <<>>
      /\ s.w.expl # <<>> => t.w.expl # <<>>
      /\ t.w.expl = s.w.expl \/ t.res = "detonate"
  BY DEF Tracked, Unhurt
<1>4. Tail(s.todo) \in Seq(Weapon) /\ (AnyPends(s.todo) => Pends(Head(s.todo).tr) \/ AnyPends(Tail(s.todo)))
  BY <1>2, AnyOfFirst
<1>5. todo \in Seq(Weapon) /\ (AnyPends(Tail(s.todo)) => AnyPends(todo))
  <2>1. CASE ended
    BY <1>3, <1>4, <2>1, AnyOfBoth
  <2>2. CASE ~ended
    <3>1. Tail(t.chain) \in Seq(Weapon)
      BY <1>3, <2>2, AnyOfFirst
    <3> QED
      BY <1>4, <2>2, <3>1, AnyOfBoth
  <2> QED
    BY <2>1, <2>2
<1>6. done \in Seq(Weapon) /\ (AnyPends(s.done) => AnyPends(done))
      /\ (t.res = "recurse" /\ Pends(Head(t.chain).tr) => AnyPends(done))
  <2>1. CASE ended
    BY <1>2, <2>1
  <2>2. CASE ~ended
    <3>1. Head(t.chain) \in Weapon
      BY <1>3, <2>2, AnyOfFirst
    <3> QED
      BY <1>2, <2>2, <3>1, AnyOfNext
  <2> QED
    BY <2>1, <2>2
<1>7. res \in Passed /\ (res = "none" => s.res = "none" /\ t.w.expl = s.w.expl /\ done = s.done)
  BY <1>2, <1>3 DEF Passed
<1>8. Awaits(s, p) => \/ Settled(t.w) \/ t.w.expl # <<>> \/ Elsewhere(t.w, p)
                      \/ AnyPends(todo) \/ AnyPends(done)
  <2>1. Elsewhere(s.w, p) => Elsewhere(t.w, p)
    BY <1>3 DEF Elsewhere
  <2> HIDE DEF todo, done
  <2> QED
    BY <1>3, <1>4, <1>5, <1>6, <2>1 DEF Awaits, Tracked
<1> HIDE DEF todo, done, res, u
<1>9. u.w = t.w /\ u.todo = todo /\ u.done = done /\ u.res = res
  BY <1>1
<1>10. u \in Chaining
  BY <1>1, <1>3, <1>5, <1>6, <1>7 DEF Chaining
<1>11. Follows(s, u, p)
  BY <1>3, <1>7, <1>8, <1>9, <1>10 DEF Follows, Awaits
<1> QED
  BY <1>11 DEF u

LEMMA TrackNextFollows ==
    ASSUME NEW s \in Chaining, Placed(s.w), NEW p \in Player, NEW draw \in Draw
    PROVE  Follows(s, TrackNext(s, draw), p)
<1>1. CASE s.todo = <<>>
  <2>1. TrackNext(s, draw) = s
    BY <1>1 DEF TrackNext
  <2>2. Unhurt(s.w, s.w)
    BY ChainingFields DEF Unhurt
  <2> QED
    BY <2>1, <2>2 DEF Follows
<1>2. CASE s.todo # <<>>
  <2> DEFINE t == Track(s.w, Head(s.todo), draw)
  <2>1. TrackNext(s, draw) = Relink(s, t)
    BY <1>2 DEF TrackNext
  <2>2. s.w \in World /\ Head(s.todo) \in Weapon
    BY <1>2, ChainingFields, AnyOfFirst
  <2>3. Tracked(s.w, Head(s.todo), t)
    BY <2>2, TrackType
  <2> HIDE DEF t
  <2> QED
    BY <1>2, <2>1, <2>3, RelinkFollows
<1> QED
  BY <1>1, <1>2

\* The chain is stored again.
ShotsTo(w, p, chain) == [w EXCEPT !.shots[p] = chain]

LEMMA ShotsToType ==
    ASSUME NEW w \in World, NEW p \in Player, NEW chain \in Seq(Weapon)
    PROVE  LET v == ShotsTo(w, p, chain)
           IN  /\ v \in World
               /\ v.walls = w.walls /\ v.physics = w.physics /\ v.fast = w.fast
               /\ v.expl = w.expl /\ v.tank = w.tank /\ v.land = w.land
               /\ v.shots[p] = chain /\ \A q \in Player : q # p => v.shots[q] = w.shots[q]
<1> DEFINE shots == [w.shots EXCEPT ![p] = chain]
           v == ShotsTo(w, p, chain)
<1>1. w.shots \in [Player -> Seq(Weapon)]
  BY DEF World
<1>2. shots \in [Player -> Seq(Weapon)] /\ shots[p] = chain /\ \A q \in Player : q # p => shots[q] = w.shots[q]
  BY <1>1
<1>3. v = [w EXCEPT !.shots = shots]
  BY DEF ShotsTo
<1> HIDE DEF shots, v
<1>4. v \in World /\ v.shots = shots
      /\ v.walls = w.walls /\ v.physics = w.physics /\ v.fast = w.fast
      /\ v.expl = w.expl /\ v.tank = w.tank /\ v.land = w.land
  BY <1>2, <1>3 DEF World
<1> QED
  BY <1>2, <1>4 DEF v

LEMMA ShotsUnhurt ==
    ASSUME NEW w \in World, NEW p \in Player, NEW chain \in Seq(Weapon)
    PROVE  /\ Unhurt(w, ShotsTo(w, p, chain))
           /\ Placed(w) => (Settled(ShotsTo(w, p, chain)) <=> Settled(w))
<1> DEFINE v == ShotsTo(w, p, chain)
<1>1. v \in World /\ v.walls = w.walls /\ v.physics = w.physics /\ v.fast = w.fast
      /\ v.tank = w.tank /\ v.land = w.land
  BY ShotsToType
<1> HIDE DEF v
<1>2. Alike(w, v)
  BY <1>1 DEF Alike
<1>3. Placed(w) => Placed(v) /\ (Settled(v) <=> Settled(w))
  BY <1>1, <1>2, AlikeSettled
<1>4. Unhurt(w, v)
  BY <1>1, <1>3 DEF Unhurt
<1> QED
  BY <1>3, <1>4 DEF v

\* _sc_weapon_track_chain: at its end nothing is left in the air when the
\* result is none, and what has to come down is not forgotten.
Rest(w) == Settled(w) \/ w.expl # <<>> \/ \E q \in Player : AnyPends(w.shots[q])
Tracking == [w : World, res : Passed]

Chained(s, v, p) ==
    /\ v \in Tracking /\ Unhurt(s.w, v.w)
    /\ \A q \in Player : q # p => v.w.shots[q] = s.w.shots[q]
    /\ v.res = "none" => s.res = "none" /\ v.w.expl = s.w.expl /\ v.w.shots[p] = <<>>
    /\ Rest(s.w) => Rest(v.w)

LEMMA StoredChained ==
    ASSUME NEW s \in Tracking, Placed(s.w), NEW p \in Player, NEW end, Follows(ChainStart(s, p), end, p)
    PROVE  Chained(s, Stored(end, p), p)
<1> DEFINE start == ChainStart(s, p)
           chain == end.done \o end.todo
           res == IF end.res = "none" /\ end.todo # <<>> THEN "recurse" ELSE end.res
           v == Stored(end, p)
           u == ShotsTo(end.w, p, chain)
<1>1. v = [w |-> u, res |-> res]
  BY DEF Stored, ShotsTo
<1>2. start.w = s.w /\ start.todo = s.w.shots[p] /\ start.done = <<>> /\ start.res = s.res
  BY DEF ChainStart
<1> HIDE DEF start
<1>3. /\ end \in Chaining /\ Unhurt(s.w, end.w) /\ end.w.shots = s.w.shots
      /\ end.res = "none" => s.res = "none" /\ end.w.expl = s.w.expl /\ end.done = <<>>
      /\ Awaits(start, p) => Awaits(end, p)
  BY <1>2 DEF Follows, start
<1>4. end.w \in World /\ end.todo \in Seq(Weapon) /\ end.done \in Seq(Weapon) /\ end.res \in Passed
  BY <1>3, ChainingFields
<1>5. chain \in Seq(Weapon) /\ (AnyPends(end.done) \/ AnyPends(end.todo) => AnyPends(chain))
  BY <1>4, AnyOfBoth
<1>6. res \in Passed /\ (res = "none" => end.res = "none" /\ chain = <<>>)
  <2>1. res = "none" => end.res = "none" /\ end.todo = <<>>
    OBVIOUS
  <2>2. res = "none" => end.done = <<>> /\ end.todo = <<>>
    BY <1>3, <2>1
  <2>3. <<>> \o <<>> = <<>>
    OBVIOUS
  <2>4. res \in Passed
    BY <1>4 DEF Passed
  <2> QED
    BY <2>1, <2>2, <2>3, <2>4
<1> HIDE DEF chain, res, u, v
<1>7. u \in World /\ u.expl = end.w.expl /\ u.shots[p] = chain
      /\ \A q \in Player : q # p => u.shots[q] = end.w.shots[q]
  BY <1>4, <1>5, ShotsToType DEF u
<1>8. Placed(end.w)
  BY <1>3 DEF Unhurt
<1>9. Unhurt(end.w, u) /\ (Settled(u) <=> Settled(end.w))
  BY <1>4, <1>5, <1>8, ShotsUnhurt DEF u
<1>10. Unhurt(s.w, u)
  BY <1>3, <1>9, UnhurtTwice
<1>11. Rest(s.w) => Awaits(start, p)
  BY <1>2 DEF Rest, Awaits, Elsewhere
<1>12. Awaits(end, p) => Rest(u)
  <2>1. Elsewhere(end.w, p) => \E q \in Player : AnyPends(u.shots[q])
    BY <1>7 DEF Elsewhere
  <2> QED
    BY <1>5, <1>7, <1>9, <2>1 DEF Awaits, Rest
<1>13. v.w = u /\ v.res = res /\ v \in Tracking
  BY <1>1, <1>6, <1>7 DEF Tracking
<1>14. Chained(s, v, p)
  BY <1>3, <1>6, <1>7, <1>10, <1>11, <1>12, <1>13 DEF Chained
<1> QED
  BY <1>14 DEF v

LEMMA TrackChainType ==
    ASSUME NEW s \in Tracking, Placed(s.w), NEW p \in Player, NEW draw \in Draw
    PROVE  Chained(s, TrackChain(s, p, draw), p)
<1> DEFINE n == MostWeapons
           c == [draw |-> draw]
           start == ChainStart(s, p)
           S == {u \in Chaining : Follows(start, u, p) /\ Placed(u.w)}
<1>1. PICK f : IsRun("TrackChain", start, c, n, f) /\ TrackChain(s, p, draw) = Stored(f[n], p)
  BY TrackChainLoop
<1>2. n \in Nat
  BY Bounds
<1>3. start \in S
  <2>1. s.w \in World /\ s.res \in Passed
    BY DEF Tracking
  <2>2. s.w.shots[p] \in Seq(Weapon)
    BY <2>1 DEF World
  <2>3. start = [w |-> s.w, todo |-> s.w.shots[p], done |-> <<>>, res |-> s.res]
    BY DEF ChainStart
  <2>4. <<>> \in Seq(Weapon)
    BY EmptySeq
  <2> HIDE DEF start
  <2>5. start \in Chaining /\ start.w = s.w
    BY <2>1, <2>2, <2>3, <2>4 DEF Chaining
  <2>6. Follows(start, start, p)
    BY <2>1, <2>5 DEF Follows, Unhurt
  <2> QED
    BY <2>5, <2>6
<1>4. ASSUME NEW u \in S, NEW i \in 1 .. n PROVE Step("TrackChain", u, i, c) \in S
  <2> DEFINE v == TrackNext(u, draw)
  <2>1. Step("TrackChain", u, i, c) = v
    BY DEF Step
  <2>2. u \in Chaining /\ Placed(u.w) /\ Follows(start, u, p)
    OBVIOUS
  <2>3. Follows(u, v, p)
    BY <2>2, TrackNextFollows
  <2> HIDE DEF v, start
  <2>4. Follows(start, v, p)
    BY <2>2, <2>3, FollowsTwice, Zenon
  <2>5. v \in Chaining /\ Placed(v.w)
    BY <2>2, <2>3 DEF Follows, Unhurt
  <2> QED
    BY <2>1, <2>4, <2>5
<1> HIDE DEF n, c, start, S
<1>5. IsRun("TrackChain", start, c, n, f)
  BY <1>1
<1>6. f[n] \in S
  BY <1>2, <1>3, <1>4, <1>5, RunKept
<1> DEFINE end == f[n]
<1> HIDE DEF end
<1>7. Follows(ChainStart(s, p), end, p)
  BY <1>6 DEF S, end, start
<1>8. Chained(s, Stored(end, p), p)
  BY <1>7, StoredChained
<1> QED
  BY <1>1, <1>8 DEF end

\* sc_weapon_track_all
LEMMA TrackAllType ==
    ASSUME NEW w \in World, Placed(w), NEW draw \in Draw
    PROVE  LET v == TrackAll(w, draw)
           IN  /\ v \in Tracking /\ Unhurt(w, v.w)
               /\ v.res = "none" => v.w.expl = w.expl /\ \A q \in Player : v.w.shots[q] = <<>>
               /\ Rest(w) => Rest(v.w)
<1> DEFINE seq == FromFirst(w)
           n == Len(seq)
           c == [draw |-> draw, seq |-> seq]
           s0 == [w |-> w, res |-> "none"]
<1>1. n = NumPlayers /\ NumPlayers \in Nat \ {0} /\ \A i \in 1 .. NumPlayers : seq[i] = i - 1 /\ seq[i] \in Player
  BY PlayersType
<1>2. PICK f : IsRun("TrackAll", s0, c, n, f) /\ TrackAll(w, draw) = f[n]
  BY <1>1, TrackAllLoop
<1> DEFINE Good(i, s) ==
             /\ s \in Tracking /\ Unhurt(w, s.w) /\ Placed(s.w)
             /\ s.res = "none" => s.w.expl = w.expl /\ \A q \in 0 .. i - 1 : s.w.shots[q] = <<>>
             /\ Rest(w) => Rest(s.w)
           I == {i \in 0 .. n : Good(i, f[i])}
<1>3. Good(0, s0)
  <2>1. s0 \in Tracking /\ s0.w = w
    BY DEF Tracking, Passed
  <2>2. Unhurt(w, w)
    BY DEF Unhurt
  <2> QED
    BY <2>1, <2>2
<1>4. ASSUME NEW i \in 1 .. n, NEW s, Good(i - 1, s) PROVE Good(i, Step("TrackAll", s, i, c))
  <2> DEFINE p == seq[i]
             v == TrackChain(s, p, draw)
  <2>1. Step("TrackAll", s, i, c) = v
    BY DEF Step
  <2>2. p = i - 1 /\ p \in Player
    BY <1>1
  <2>3. s \in Tracking /\ Placed(s.w)
    BY <1>4
  <2> HIDE DEF p
  <2>4. Chained(s, v, p)
    BY <2>2, <2>3, TrackChainType
  <2> HIDE DEF v
  <2>5. Unhurt(w, v.w) /\ Placed(v.w)
    BY <1>4, <2>4, UnhurtTwice DEF Chained, Unhurt
  <2>6. ASSUME v.res = "none", NEW q \in 0 .. i - 1 PROVE v.w.shots[q] = <<>>
    <3>1. CASE q = p
      BY <2>4, <2>6, <3>1 DEF Chained
    <3>2. CASE q # p
      <4>1. q \in 0 .. (i - 1) - 1 /\ q \in Player
        BY <1>1, <2>2, <3>2 DEF Player
      <4>2. v.w.shots[q] = s.w.shots[q] /\ s.res = "none"
        BY <2>4, <2>6, <3>2, <4>1 DEF Chained
      <4> QED
        BY <1>4, <4>1, <4>2
    <3> QED
      BY <3>1, <3>2
  <2>7. v \in Tracking /\ (v.res = "none" => v.w.expl = w.expl) /\ (Rest(w) => Rest(v.w))
    BY <1>4, <2>4 DEF Chained
  <2> QED
    BY <2>1, <2>5, <2>6, <2>7
<1> HIDE DEF c, s0, Good, seq
<1>5. n \in Nat
  BY <1>1
<1>6. IsRun("TrackAll", s0, c, n, f)
  BY <1>2
<1> HIDE DEF n
<1>7. f[0] = s0 /\ \A i \in 1 .. n : f[i] = Step("TrackAll", f[i - 1], i, c)
  BY <1>5, <1>6, Passes
<1>8. 0 \in I
  BY <1>3, <1>5, <1>7
<1>9. ASSUME NEW i \in 1 .. n, i - 1 \in I PROVE i \in I
  <2>1. Good(i - 1, f[i - 1])
    BY <1>9
  <2>2. Good(i, Step("TrackAll", f[i - 1], i, c))
    BY <1>4, <2>1
  <2>3. Good(i, f[i]) /\ i \in 0 .. n
    BY <1>7, <2>2
  <2> QED
    BY <2>3
<1>10. Good(n, f[n])
  <2> HIDE DEF I
  <2>1. n \in I
    BY <1>5, <1>8, <1>9, Kept
  <2> QED
    BY <2>1 DEF I
<1> DEFINE v == f[n]
<1> HIDE DEF v
<1>11. TrackAll(w, draw) = v /\ Good(NumPlayers, v)
  <2>1. n = NumPlayers
    BY <1>1
  <2> QED
    BY <1>2, <1>10, <2>1 DEF v
<1>12. Player = 0 .. NumPlayers - 1
  BY DEF Player
<1> QED
  BY <1>11, <1>12 DEF Good

-----------------------------------------------------------------------------
(* Launch.                                                                 *)

\* What is ordered.
Ordered == [Player -> Order \cup {NoOrder}]

LEMMA TripledType ==
    ASSUME NEW order \in Order
    PROVE  Tripled(order) \in WeaponInfo
<1> DEFINE info == Info[order.weapon]
           at == info.at \cup {"tank"}
           how == info.how \cup {"scatter"}
           child == order.weapon
           three == 3
<1>1. child \in DOMAIN Info
  BY DEF Order
<1>2. info \in WeaponInfo
  BY <1>1, InfoOf
<1>3. Tripled(order) \in {info, [info EXCEPT !.at = at, !.how = how, !.child = child, !.count = three,
                                             !.scatter = Unit]}
  BY DEF Tripled
<1> HIDE DEF info
<1>4. at \in SUBSET {"land", "apex", "rand", "tank"}
      /\ how \in SUBSET {"detonate", "convert", "chain", "spider", "scatter"}
  BY <1>2 DEF WeaponInfo
<1>5. three \in Nat /\ Unit \in Int
  BY Sizes
<1> HIDE DEF at, how, child, three
<1>6. [info EXCEPT !.at = at, !.how = how, !.child = child, !.count = three, !.scatter = Unit] \in WeaponInfo
  BY <1>1, <1>2, <1>4, <1>5 DEF WeaponInfo
<1> QED
  BY <1>2, <1>3, <1>6

\* The weapon without its turret.
Plain(wp, info) == [wp EXCEPT !.info = info]

LEMMA PlainType ==
    ASSUME NEW wp \in Weapon, NEW info \in WeaponInfo
    PROVE  Plain(wp, info) \in Weapon
  BY DEF Plain, Weapon

\* While weapons are launched the tanks stay as they are, and the land does
\* unless an explosion waits, which is noticed.
Launching(w) ==
    {s \in [w : World, explosions : BOOLEAN] :
        /\ s.w.walls = w.walls /\ s.w.physics = w.physics /\ s.w.fast = w.fast
        /\ s.w.tank = w.tank
        /\ s.w.expl = <<>> => s.w.land = w.land
        /\ s.w.expl # <<>> => s.explosions}

LEMMA LaunchedTo ==
    ASSUME NEW w \in World, NEW s \in Launching(w), NEW p \in Player, NEW v, Bursts(s.w, v),
           NEW chain \in Seq(Weapon), NEW boom \in BOOLEAN, v = s.w \/ boom, s.explosions => boom
    PROVE  [w |-> ShotsTo(v, p, chain), explosions |-> boom] \in Launching(w)
<1> DEFINE u == ShotsTo(v, p, chain)
           t == [w |-> u, explosions |-> boom]
<1>1. v \in World /\ v.walls = s.w.walls /\ v.physics = s.w.physics /\ v.fast = s.w.fast
      /\ v.tank = s.w.tank /\ (v.expl # <<>> \/ v = s.w)
  BY DEF Bursts
<1>2. u \in World /\ u.walls = v.walls /\ u.physics = v.physics /\ u.fast = v.fast
      /\ u.expl = v.expl /\ u.tank = v.tank /\ u.land = v.land
  BY <1>1, ShotsToType
<1> HIDE DEF u
<1>3. t \in [w : World, explosions : BOOLEAN] /\ t.w = u /\ t.explosions = boom
  BY <1>2
<1> HIDE DEF t
<1>4. t \in Launching(w)
  BY <1>1, <1>2, <1>3 DEF Launching
<1> QED
  BY <1>4 DEF t, u

\* _sc_weapon_fire_new
LEMMA FireNewType ==
    ASSUME NEW w \in World, NEW s \in Launching(w), NEW p \in Player, NEW order \in Order, NEW draw \in Draw
    PROVE  FireNew(s, p, order, draw) \in Launching(w)
<1> DEFINE t == s.w.tank[p]
           x == t.x * Unit + order.x
           y == t.y * Unit + order.y
           wp == WeaponNew(Tripled(order), p, x, y, order.vx, order.vy, order.triggered, draw)
           none == Outcome(s.w, "none", wp, <<>>)
           split == Phoenix(s.w, wp, draw)
           o == IF "tank" \in wp.info.at THEN split ELSE none
           info == Info[order.weapon]
           plain == Plain(o.wp, info)
           landed == TrajLandfall(o.w, o.wp.tr)
           boom == s.explosions \/ o.res = "detonate"
           A == [s EXCEPT !.w = ShotsTo(s.w, p, <<plain>>)]
           B == [s EXCEPT !.w = ShotsTo(o.w, p, <<>>)]
           C == [w |-> ShotsTo(landed, p, o.new), explosions |-> boom]
<1>1. FireNew(s, p, order, draw) =
        CASE o.res \in {"none", "reset"} -> A [] o.res = "failure" -> B [] OTHER -> C
  BY DEF FireNew, Fired, Plain, ShotsTo
<1>2. s.w \in World /\ s.explosions \in BOOLEAN
  BY DEF Launching
<1>3. s.w.tank[p] \in TankRec
  BY <1>2 DEF World
<1>4. t.x \in Int /\ t.y \in Int
  BY <1>3, Sizes DEF TankRec
<1>5. order.x \in Int /\ order.y \in Int /\ order.vx \in Int /\ order.vy \in Int
      /\ order.triggered \in BOOLEAN /\ order.weapon \in DOMAIN Info
  BY DEF Order
<1>6. x \in Int /\ y \in Int
  <2> DEFINE a == t.x
             b == t.y
  <2>1. a \in Int /\ b \in Int /\ Unit \in Int
    BY <1>4, Sizes
  <2> HIDE DEF a, b
  <2>2. a * Unit \in Int /\ b * Unit \in Int
    BY <2>1, Products
  <2>3. x = a * Unit + order.x /\ y = b * Unit + order.y
    BY DEF a, b
  <2> HIDE DEF x, y
  <2> QED
    BY <1>5, <2>2, <2>3
<1> HIDE DEF t, x, y
<1>7. wp \in Weapon /\ ~Pends(wp.tr)
  BY <1>5, <1>6, TripledType, WeaponNewType
<1> HIDE DEF wp
<1>8. Becomes(s.w, wp, o)
  BY <1>2, <1>7, BecomesNothing, PhoenixType
<1> HIDE DEF none, split, o
<1>9. Bursts(s.w, o.w) /\ (o.w = s.w \/ o.res = "detonate") /\ o.wp \in Weapon /\ o.new \in Seq(Weapon)
      /\ o.w \in World
  BY <1>8 DEF Becomes, Bursts
<1>10. landed = o.w
  <2>1. ~Pends(o.wp.tr)
    BY <1>7, <1>8 DEF Becomes, SameFall, Pends
  <2> QED
    BY <2>1 DEF TrajLandfall, Pends
<1> HIDE DEF landed
<1>11. info \in WeaponInfo
  BY <1>5, InfoOf
<1> HIDE DEF info
<1>12. <<plain>> \in Seq(Weapon) /\ <<>> \in Seq(Weapon)
  <2>1. plain \in Weapon
    BY <1>9, <1>11, PlainType
  <2> HIDE DEF plain
  <2> QED
    BY <2>1
<1> HIDE DEF plain
<1>13. \A v : [s EXCEPT !.w = v] = [w |-> v, explosions |-> s.explosions]
  BY DEF Launching
<1>14. A \in Launching(w)
  <2>1. Bursts(s.w, s.w)
    BY <1>2, BurstsNot
  <2>2. [w |-> ShotsTo(s.w, p, <<plain>>), explosions |-> s.explosions] \in Launching(w)
    BY <1>2, <1>12, <2>1, LaunchedTo
  <2> QED
    BY <1>13, <2>2
<1>15. o.res = "failure" => B \in Launching(w)
  <2> SUFFICES ASSUME o.res = "failure" PROVE B \in Launching(w)
    OBVIOUS
  <2>1. o.w = s.w
    BY <1>9
  <2>2. [w |-> ShotsTo(o.w, p, <<>>), explosions |-> s.explosions] \in Launching(w)
    BY <1>2, <1>9, <1>12, <2>1, LaunchedTo
  <2> QED
    BY <1>13, <2>2
<1>16. C \in Launching(w)
  <2>1. boom \in BOOLEAN /\ (o.w = s.w \/ boom) /\ (s.explosions => boom)
    BY <1>2, <1>9
  <2> HIDE DEF boom
  <2>2. [w |-> ShotsTo(o.w, p, o.new), explosions |-> boom] \in Launching(w)
    BY <1>9, <2>1, LaunchedTo
  <2> QED
    BY <1>10, <2>2
<1> HIDE DEF A, B, C
<1> QED
  BY <1>1, <1>14, <1>15, <1>16

\* sc_weapon_create_all
LEMMA CreateAllType ==
    ASSUME NEW w \in World, Placed(w), w.expl = <<>>, orders \in Ordered, NEW draw \in Draw
    PROVE  LET s == CreateAll(w, draw)
           IN  /\ Unhurt(w, s.w) /\ s.explosions \in BOOLEAN
               /\ s.w.expl # <<>> => s.explosions
               /\ Rest(s.w) \/ ~Settled(w)
<1> DEFINE seq == FromLast(w)
           n == Len(seq)
           c == [w |-> w, ordered |-> orders, draw |-> draw, seq |-> seq]
           s0 == [w |-> w, explosions |-> FALSE]
           S == Launching(w)
<1>1. n = NumPlayers /\ NumPlayers \in Nat \ {0} /\ \A i \in 1 .. NumPlayers : seq[i] \in Player
  BY PlayersType
<1>2. PICK f : IsRun("CreateAll", s0, c, n, f) /\ CreateAll(w, draw) = f[n]
  BY <1>1, CreateAllLoop
<1>3. s0 \in S
  BY DEF Launching
<1>4. ASSUME NEW s \in S, NEW i \in 1 .. n PROVE Step("CreateAll", s, i, c) \in S
  <2> DEFINE p == seq[i]
  <2>1. Step("CreateAll", s, i, c) = CreateOne(s, w, orders, p, draw)
    BY DEF Step
  <2>2. p \in Player
    BY <1>1
  <2> HIDE DEF p
  <2>3. orders[p] = NoOrder \/ orders[p] \in Order
    BY <2>2 DEF Ordered
  <2>4. orders[p] \in Order => FireNew(s, p, orders[p], draw) \in Launching(w)
    BY <2>2, FireNewType
  <2> QED
    BY <2>1, <2>3, <2>4 DEF CreateOne
<1> HIDE DEF seq, n, c, s0, S
<1>5. IsRun("CreateAll", s0, c, n, f) /\ n \in Nat
  BY <1>1, <1>2
<1>6. f[n] \in S
  BY <1>3, <1>4, <1>5, RunKept
<1> DEFINE s == f[n]
<1> HIDE DEF s
<1>7. s \in Launching(w) /\ CreateAll(w, draw) = s
  BY <1>2, <1>6 DEF S, s
<1>8. /\ s.w \in World /\ s.explosions \in BOOLEAN
      /\ s.w.walls = w.walls /\ s.w.physics = w.physics /\ s.w.fast = w.fast /\ s.w.tank = w.tank
      /\ s.w.expl = <<>> => s.w.land = w.land
      /\ s.w.expl # <<>> => s.explosions
  BY <1>7 DEF Launching
<1>9. \A x : OnX(s.w, x) <=> OnX(w, x)
  BY <1>8, OnXAlike
<1>10. Placed(s.w)
  BY <1>8, <1>9 DEF Placed
<1>11. Unhurt(w, s.w)
  BY <1>8, <1>10 DEF Unhurt
<1>12. s.w.expl = <<>> => (Settled(s.w) <=> Settled(w))
  <2> SUFFICES ASSUME s.w.expl = <<>> PROVE Settled(s.w) <=> Settled(w)
    OBVIOUS
  <2>1. Alike(w, s.w)
    BY <1>8 DEF Alike
  <2> QED
    BY <1>8, <2>1, AlikeSettled
<1> QED
  BY <1>7, <1>8, <1>11, <1>12 DEF Rest

-----------------------------------------------------------------------------
(* The beginning of a round.                                               *)

LEMMA RintWithin ==
    ASSUME NEW a \in Nat, NEW b \in Nat \ {0}, NEW m \in Nat, a <= b * m
    PROVE  Rint(a, b) \in 0 .. m
<1> DEFINE q == a \div b
           r == a % b
<1>1. q \in Nat /\ r \in 0 .. b - 1 /\ a = b * q + r
  <2>1. a \in Int /\ a >= 0
    OBVIOUS
  <2> QED
    BY <2>1, Quotients
<1>2. Rint(a, b) = IF 2 * r > b \/ (2 * r = b /\ q % 2 = 1) THEN q + 1 ELSE q
  BY DEF Rint
<1> HIDE DEF q, r
<1>3. q <= m
  <2> SUFFICES ASSUME ~(q <= m) PROVE FALSE
    OBVIOUS
  <2> DEFINE k == q - (m + 1)
  <2>1. k \in Nat /\ q = m + 1 + k
    BY <1>1
  <2> HIDE DEF k
  <2>2. b * k \in Nat
    BY <2>1, Products
  <2>3. b * q = b * m + b + b * k
    BY <1>1, <2>1
  <2>4. b * m \in Nat /\ b * q \in Nat
    BY <1>1, Products
  <2> DEFINE bm == b * m
             bk == b * k
             bq == b * q
  <2> HIDE DEF bm, bk, bq
  <2>5. bm \in Nat /\ bk \in Nat /\ bq = bm + b + bk /\ a <= bm /\ a = bq + r
    BY <1>1, <2>2, <2>3, <2>4 DEF bm, bk, bq
  <2> QED
    BY <1>1, <2>5
<1>4. CASE q = m
  <2> DEFINE bm == b * m
  <2>1. bm \in Nat
    BY Products
  <2> HIDE DEF bm
  <2>2. a <= bm /\ a = bm + r
    BY <1>1, <1>4 DEF bm
  <2>3. r = 0
    BY <1>1, <2>1, <2>2
  <2>4. ~(2 * r > b \/ (2 * r = b /\ q % 2 = 1))
    BY <2>3
  <2>5. Rint(a, b) = q
    BY <1>2, <2>4
  <2> QED
    BY <1>4, <2>5
<1>5. CASE q # m
  <2>1. q + 1 <= m /\ q \in Nat
    BY <1>1, <1>3, <1>5
  <2> QED
    BY <1>2, <2>1
<1> QED
  BY <1>4, <1>5

\* Everybody stands within the field.
LEMMA StandAtType ==
    ASSUME NEW index \in Player
    PROVE  StandAt(index) \in Columns
<1> DEFINE a == (index + 1) * Width
           b == NumPlayers + 1
           m == Width - 1
           N == NumPlayers
           k == N - (index + 1)
<1>1. N \in Nat \ {0} /\ Width \in Nat \ {0} /\ Width > N /\ Columns = 0 .. Width - 1
  BY VolleyAssumption, Sizes
<1>2. index \in Nat /\ index + 1 \in Nat /\ k \in Nat /\ b \in Nat \ {0} /\ m \in Nat
  BY <1>1 DEF Player
<1>3. a \in Nat /\ k * Width \in Nat /\ N * Width \in Nat
  <2> HIDE DEF k
  <2> QED
    BY <1>1, <1>2, Products
<1>4. a + k * Width = N * Width
  BY <1>1, <1>2
<1>5. b * m = N * Width + Width - N - 1
  BY <1>1
<1>6. a <= b * m
  <2> DEFINE kw == k * Width
             nw == N * Width
             bm == b * m
  <2>1. kw \in Nat /\ nw \in Nat /\ a \in Nat /\ a + kw = nw /\ bm = nw + Width - N - 1
    BY <1>3, <1>4, <1>5
  <2> HIDE DEF kw, nw, bm, a
  <2>2. a <= bm
    BY <1>1, <2>1
  <2> QED
    BY <2>2 DEF bm
<1>7. StandAt(index) = Rint(a, b)
  BY DEF StandAt
<1> HIDE DEF a, b, m
<1>8. Rint(a, b) \in 0 .. m
  BY <1>2, <1>3, <1>6, RintWithin
<1> QED
  BY <1>1, <1>7, <1>8 DEF m

\* A column is on the field, whatever its walls.
LEMMA ColumnsOnX ==
    ASSUME NEW w, NEW x \in Columns
    PROVE  OnX(w, x)
<1>1. x >= 0 /\ x < Width * 1
  BY Sizes
<1> QED
  BY <1>1 DEF OnX, TranslateX

\* Tanks at the beginning of a round.
Unharmed(t) == t.life = FullLife /\ ~t.dead /\ t.killedby = Nobody /\ t.kills = 0 /\ t.suicides = 0
Begun ==
    {w \in World : /\ w.expl = <<>> /\ \A p \in Player : w.shots[p] = <<>>
                   /\ \A p \in Player : Unharmed(w.tank[p]) /\ OnX(w, w.tank[p].x)}

LEMMA TankType ==
    ASSUME NEW outfit \in Outfit
    PROVE  Tank(outfit) \in TankRec /\ Unharmed(Tank(outfit)) /\ Tank(outfit).x = 0
<1> DEFINE shield == IF outfit.shield = "none" THEN NoShield ELSE NewShield(outfit.shield)
           no == FALSE
           zero == 0
           t == Tank(outfit)
<1>1. t = [x |-> zero, y |-> zero, life |-> FullLife, dead |-> no, killedby |-> Nobody, kills |-> zero,
           suicides |-> zero, shield |-> shield, spare |-> outfit.spare, recharger |-> outfit.recharger]
  BY DEF Tank, Nobody
<1>2. outfit.spare \in Nat /\ outfit.recharger \in BOOLEAN /\ outfit.shield \in {"none"} \cup ShieldKinds
  BY DEF Outfit
<1>3. FullLife \in Nat \ {0} /\ ShieldLife \in Nat \ {0}
  BY TanksAssumption
<1>4. shield \in Shield
  BY <1>2, <1>3 DEF Shield, NewShield
<1>5. zero \in 0 .. Height /\ zero \in Int /\ zero \in Nat /\ no \in BOOLEAN /\ FullLife \in 0 .. FullLife
      /\ Nobody \in Player \cup {Nobody}
  BY <1>3, Sizes
<1>6. ~no /\ zero = 0
  OBVIOUS
<1> HIDE DEF shield, no, zero, t
<1>7. t \in TankRec
  BY <1>1, <1>2, <1>4, <1>5 DEF TankRec
<1>8. t.life = FullLife /\ t.dead = no /\ t.killedby = Nobody /\ t.kills = zero /\ t.suicides = zero
      /\ t.x = zero
  BY <1>1
<1> QED
  BY <1>6, <1>7, <1>8 DEF t, Unharmed

LEMMA FieldType ==
    ASSUME NEW r \in Round
    PROVE  Field(r) \in Begun
<1> DEFINE walls == LandFlags(r.physics)
           tanks == [p \in Player |-> Tank(r.outfits[p])]
           shots == [p \in Player |-> <<>>]
           nothing == <<>>
           w == Field(r)
<1>1. w = [walls |-> walls, physics |-> r.physics, fast |-> r.fast, land |-> r.land, expl |-> nothing,
           shots |-> shots, tank |-> tanks]
  BY DEF Field
<1>2. r.physics \in Physics /\ r.fast \in BOOLEAN /\ r.land \in SUBSET (Columns \X Rows)
      /\ r.outfits \in [Player -> Outfit]
  BY DEF Round
<1>3. walls \in {"open", "wrap", "box"}
  BY DEF LandFlags
<1>4. \A p \in Player : Tank(r.outfits[p]) \in TankRec /\ Unharmed(Tank(r.outfits[p])) /\ Tank(r.outfits[p]).x = 0
  BY <1>2, TankType
<1>5. tanks \in [Player -> TankRec] /\ \A p \in Player : Unharmed(tanks[p]) /\ tanks[p].x = 0
  BY <1>4
<1>6. nothing \in Seq(Expl) /\ nothing = <<>>
  BY EmptySeq
<1>7. shots \in [Player -> Seq(Weapon)] /\ \A p \in Player : shots[p] = <<>>
  BY EmptySeq
<1>8. 0 \in Columns
  BY Sizes
<1> HIDE DEF walls, tanks, shots, nothing, w
<1>9. w \in World
  BY <1>1, <1>2, <1>3, <1>5, <1>6, <1>7 DEF World
<1>10. w.expl = nothing /\ w.shots = shots /\ w.tank = tanks
  BY <1>1
<1>11. OnX(w, 0)
  BY <1>8, ColumnsOnX
<1>12. w \in Begun
  BY <1>5, <1>6, <1>7, <1>9, <1>10, <1>11 DEF Begun
<1> QED
  BY <1>12 DEF w

\* sc_player_init_round
LEMMA PlayerInitRoundType ==
    ASSUME NEW w \in Begun, NEW p \in Player, NEW index \in Player
    PROVE  PlayerInitRound(w, p, index) \in Begun
<1> DEFINE x == StandAt(index)
           y == AvgHeightAround(w, x, Height, Radius)
           t == [w.tank[p] EXCEPT !.x = x, !.y = y]
           u == [w EXCEPT !.tank[p] = t]
           v == LevelAround(u, x, Radius, y)
<1>1. PlayerInitRound(w, p, index) = v
  BY DEF PlayerInitRound
<1>2. w \in World /\ w.tank[p] \in TankRec /\ Unharmed(w.tank[p])
  BY DEF Begun, World
<1>3. x \in Columns /\ x \in Int
  BY StandAtType, Sizes
<1> HIDE DEF x
<1>4. y \in 0 .. Height
  BY <1>3, Sizes, AvgHeightAroundType
<1> HIDE DEF y
<1>5. t \in TankRec /\ t.x = x
  BY <1>2, <1>3, <1>4 DEF TankRec
<1>6. t.life = w.tank[p].life /\ t.dead = w.tank[p].dead /\ t.killedby = w.tank[p].killedby
      /\ t.kills = w.tank[p].kills /\ t.suicides = w.tank[p].suicides
  BY <1>2 DEF TankRec
<1>7. Unharmed(t)
  BY <1>2, <1>6 DEF Unharmed
<1> HIDE DEF t
<1>8. /\ u \in World /\ u.tank[p] = t /\ \A q \in Player : q # p => u.tank[q] = w.tank[q]
      /\ u.walls = w.walls /\ u.expl = w.expl /\ u.shots = w.shots
  BY <1>2, <1>5, TankWith
<1> HIDE DEF u
<1>9. LandOnly(u, v)
  BY <1>3, <1>4, <1>8, Sizes, LevelAroundType
<1> HIDE DEF v
<1>10. v \in World /\ v.walls = w.walls /\ v.expl = w.expl /\ v.shots = w.shots /\ v.tank = u.tank
  BY <1>8, <1>9, LandOnlyKeeps
<1>11. OnX(v, x)
  BY <1>3, ColumnsOnX
<1>12. \A z : OnX(v, z) <=> OnX(w, z)
  BY <1>10, OnXAlike
<1>13. \A q \in Player : Unharmed(v.tank[q]) /\ OnX(v, v.tank[q].x)
  <2> TAKE q \in Player
  <2>1. CASE q = p
    BY <1>5, <1>7, <1>8, <1>10, <1>11, <2>1
  <2>2. CASE q # p
    BY <1>8, <1>10, <1>12, <2>2 DEF Begun
  <2> QED
    BY <2>1, <2>2
<1> QED
  BY <1>1, <1>10, <1>13 DEF Begun

\* sc_config_init_round
LEMMA InitRoundType ==
    ASSUME NEW r \in Round
    PROVE  InitRound(r) \in Begun
<1> DEFINE seq == FromTo(0, NumPlayers - 1)
           n == Len(seq)
           c == [places |-> r.places, seq |-> seq]
           s0 == Field(r)
           S == Begun
<1>1. n \in Nat /\ \A i \in 1 .. n : seq[i] \in Player
  <2>1. 0 \in Int /\ NumPlayers - 1 \in Int
    BY VolleyAssumption
  <2> DEFINE b == NumPlayers - 1
  <2> HIDE DEF b
  <2>2. b \in Int
    BY <2>1 DEF b
  <2>3. Len(FromTo(0, b)) \in Nat /\ \A i \in 1 .. Len(FromTo(0, b)) : FromTo(0, b)[i] \in 0 .. b
    BY <2>2, FromToType
  <2> QED
    BY <2>3 DEF b, Player
<1>2. PICK f : IsRun("InitRound", s0, c, n, f) /\ InitRound(r) = f[n]
  BY <1>1, InitRoundLoop
<1>3. s0 \in S
  BY FieldType
<1>4. ASSUME NEW s \in S, NEW i \in 1 .. n PROVE Step("InitRound", s, i, c) \in S
  <2> DEFINE p == seq[i]
  <2>1. Step("InitRound", s, i, c) = PlayerInitRound(s, p, r.places[p])
    BY DEF Step
  <2>2. p \in Player
    BY <1>1
  <2> HIDE DEF p
  <2>3. r.places[p] \in Player
    BY <2>2 DEF Round
  <2> QED
    BY <2>1, <2>2, <2>3, PlayerInitRoundType
<1> HIDE DEF n, c, s0, S
<1>5. IsRun("InitRound", s0, c, n, f)
  BY <1>2
<1>6. f[n] \in S
  BY <1>1, <1>3, <1>4, <1>5, RunKept
<1> QED
  BY <1>2, <1>6 DEF S

-----------------------------------------------------------------------------
(* The inductive invariant.                                                *)

\* Who has lost his life and waits to be buried.
Dying(w, p) == ~w.tank[p].dead /\ w.tank[p].life <= 0
Buried(w) == \A p \in Player : w.tank[p].dead => w.tank[p].life = 0

Sound(w) == w \in World /\ Placed(w) /\ Scored(w) /\ Buried(w)

TurnTypeOK ==
    /\ phase \in {"aim", "weapons", "explosion", "drop", "death", "end"}
    /\ stage \in {"init", "clear", "done"}
    /\ sub \in 0 .. NumPlayers /\ turn \in 1 .. Turns
    /\ orders \in Ordered /\ fuel \in [Player -> 0 .. Fuel] /\ balanced \in BOOLEAN

\* Explosions wait only while they are worked through, shots fly only between
\* the orders and the end, and the dead are buried before anything else flies;
\* and what hangs in the air is known to a weapon that will settle it.
Calm ==
    /\ phase # "explosion" => stage = "init" /\ world.expl = <<>>
    /\ stage # "init" => world.expl # <<>>
    /\ phase \in {"aim", "end"} => \A p \in Player : world.shots[p] = <<>>
    /\ phase \in {"aim", "weapons", "end"} => \A p \in Player : ~Dying(world, p)
    /\ phase = "death" => \A p \in Player : p < sub => ~Dying(world, p)
    /\ balanced /\ phase \in {"weapons", "death", "end"} => Rest(world)

TurnInv == Sound(world) /\ TurnTypeOK /\ Calm

LEMMA UnhurtSound ==
    ASSUME NEW w, NEW v, Sound(w), Unhurt(w, v)
    PROVE  Sound(v) /\ \A p \in Player : Dying(v, p) <=> Dying(w, p)
<1>1. Lifeless(v) = Lifeless(w)
  BY DEF Lifeless, Unhurt
<1>2. SameScore(w, v)
  BY <1>1 DEF SameScore, Unhurt
<1>3. Scored(v)
  BY <1>2, ScoreKept DEF Sound
<1>4. v \in World /\ Placed(v) /\ Buried(v)
  BY DEF Sound, Unhurt, Buried
<1>5. \A p \in Player : Dying(v, p) <=> Dying(w, p)
  BY DEF Unhurt, Dying
<1> QED
  BY <1>3, <1>4, <1>5 DEF Sound

LEMMA LandOnlySound ==
    ASSUME NEW w, NEW v, Sound(w), LandOnly(w, v)
    PROVE  Sound(v) /\ v.expl = w.expl /\ v.shots = w.shots
<1>1. w \in World
  BY DEF Sound
<1>2. InPlace(w, v)
  BY <1>1, InPlaceLand
<1>3. Unhurt(w, v)
  BY <1>2, InPlaceUnhurt
<1> QED
  BY <1>2, <1>3, UnhurtSound DEF InPlace

LEMMA HurtsSound ==
    ASSUME NEW w, NEW v, Sound(w), Hurts(w, v), Scored(v)
    PROVE  Sound(v) /\ v.expl = w.expl /\ v.shots = w.shots
<1>1. w \in World /\ TanksOnly(w, v)
  BY DEF Sound, Hurts
<1>2. v \in World /\ v.walls = w.walls /\ v.expl = w.expl /\ v.shots = w.shots
  BY <1>1, TanksOnlyKeeps
<1>3. \A x : OnX(v, x) <=> OnX(w, x)
  BY <1>2, OnXAlike
<1>4. Placed(v)
  BY <1>3 DEF Placed, Hurts, Sound
<1>5. Buried(v)
  BY DEF Buried, Hurts, Sound
<1> QED
  BY <1>2, <1>4, <1>5 DEF Sound

\* The first explosion is over.
LEMMA NextExplType ==
    ASSUME NEW w, Sound(w), w.expl # <<>>
    PROVE  /\ Head(w.expl) \in Expl
           /\ Sound([w EXCEPT !.expl = Tail(@)])
<1> DEFINE rest == Tail(w.expl)
           v == [w EXCEPT !.expl = rest]
<1>1. w \in World /\ w.expl \in Seq(Expl)
  BY DEF Sound, World
<1>2. Head(w.expl) \in Expl /\ rest \in Seq(Expl)
  BY <1>1, HeadTailProperties
<1> HIDE DEF rest
<1>3. v \in World /\ v.walls = w.walls /\ v.physics = w.physics /\ v.fast = w.fast /\ v.tank = w.tank
  BY <1>1, <1>2 DEF World
<1> HIDE DEF v
<1>4. \A x : OnX(v, x) <=> OnX(w, x)
  BY <1>3, OnXAlike
<1>5. Unhurt(w, v)
  BY <1>3, <1>4 DEF Unhurt, Placed
<1>6. Sound(v)
  BY <1>5, UnhurtSound
<1> QED
  BY <1>2, <1>6 DEF v, rest

\* sc_player_died
LEMMA PlayerDiedType ==
    ASSUME NEW w, Sound(w), NEW p \in Player, w.tank[p].life = 0
    PROVE  Sound(PlayerDied(w, p))
<1> DEFINE yes == TRUE
           t == [w.tank[p] EXCEPT !.dead = yes]
           v == PlayerDied(w, p)
<1>1. w \in World /\ w.tank[p] \in TankRec
  BY DEF Sound, World
<1>2. v = [w EXCEPT !.tank[p] = t]
  BY DEF PlayerDied
<1>3. yes \in BOOLEAN
  OBVIOUS
<1> HIDE DEF yes
<1>4. t \in TankRec
  BY <1>1, <1>3 DEF TankRec
<1>5. t.x = w.tank[p].x /\ t.life = w.tank[p].life /\ t.killedby = w.tank[p].killedby
      /\ t.kills = w.tank[p].kills /\ t.suicides = w.tank[p].suicides
  BY <1>1 DEF TankRec
<1> HIDE DEF t, v
<1>6. /\ v \in World /\ v.tank[p] = t /\ \A q \in Player : q # p => v.tank[q] = w.tank[q]
      /\ v.walls = w.walls
  BY <1>1, <1>2, <1>4, TankWith
<1>7. \A q \in Player : /\ v.tank[q].x = w.tank[q].x /\ v.tank[q].life = w.tank[q].life
                        /\ v.tank[q].killedby = w.tank[q].killedby
                        /\ v.tank[q].kills = w.tank[q].kills /\ v.tank[q].suicides = w.tank[q].suicides
  BY <1>5, <1>6
<1>8. Lifeless(v) = Lifeless(w)
  BY <1>7 DEF Lifeless
<1>9. SameScore(w, v)
  BY <1>7, <1>8 DEF SameScore
<1>10. Scored(v)
  BY <1>9, ScoreKept DEF Sound
<1>11. \A x : OnX(v, x) <=> OnX(w, x)
  BY <1>6, OnXAlike
<1>12. Placed(v)
  BY <1>7, <1>11 DEF Placed, Sound
<1>13. Buried(v)
  BY <1>5, <1>6 DEF Buried, Sound
<1>14. Sound(v)
  BY <1>6, <1>10, <1>12, <1>13 DEF Sound
<1> QED
  BY <1>14 DEF v

LEMMA LifelessDies ==
    ASSUME NEW w, Sound(w), NEW p \in Player, Dying(w, p)
    PROVE  w.tank[p].life = 0 /\ w.tank[p].killedby \in Player
<1>1. w.tank[p] \in TankRec
  BY DEF Sound, World
<1>2. w.tank[p].life \in 0 .. FullLife
  BY <1>1 DEF TankRec
<1>3. w.tank[p].life = 0
  BY <1>2, TanksAssumption DEF Dying
<1> QED
  BY <1>3 DEF Sound, Scored, Lifeless

-----------------------------------------------------------------------------
(* It holds in the beginning, and every step keeps it.                     *)

LEMMA InitHolds ==
    ASSUME Init
    PROVE  TurnInv /\ idle \in {0, 1}
<1>1. PICK r \in Rounds : world = InitTurn(InitRound(r))
  BY DEF Init
<1> DEFINE w == InitRound(r)
<1>2. w \in Begun
  BY VolleyAssumption, InitRoundType
<1> HIDE DEF w
<1>3. w \in World /\ w.expl = <<>> /\ (\A p \in Player : w.shots[p] = <<>>)
      /\ \A p \in Player : Unharmed(w.tank[p]) /\ OnX(w, w.tank[p].x)
  BY <1>2 DEF Begun
<1>4. FullLife \in Nat \ {0}
  BY TanksAssumption
<1>5. Lifeless(w) = {}
  BY <1>3, <1>4 DEF Lifeless, Unharmed
<1>6. \A p \in Player : Victims(w, p) = {} /\ Victims(w, p) \ {p} = {} /\ Victims(w, p) \cap {p} = {}
  BY <1>5 DEF Victims
<1>7. Cardinality({}) = 0
  BY FS_EmptySet
<1>8. Scored(w)
  BY <1>3, <1>5, <1>6, <1>7 DEF Scored, Unharmed
<1>9. Placed(w) /\ Buried(w)
  BY <1>3 DEF Placed, Buried, Unharmed
<1>10. Sound(w)
  BY <1>3, <1>8, <1>9 DEF Sound
<1>11. InPlace(w, world)
  BY <1>1, <1>3, InitTurnType DEF w
<1>12. Sound(world) /\ \A p \in Player : Dying(world, p) <=> Dying(w, p)
  BY <1>10, <1>11, InPlaceUnhurt, UnhurtSound
<1>13. \A p \in Player : ~Dying(w, p)
  BY <1>3, <1>4 DEF Dying, Unharmed
<1>14. world.expl = <<>> /\ \A p \in Player : world.shots[p] = <<>>
  BY <1>3, <1>11 DEF InPlace
<1>15. TurnTypeOK
  <2>1. Fuel \in 0 .. Fuel /\ 1 \in 1 .. Turns /\ 0 \in 0 .. NumPlayers
    BY VolleyAssumption
  <2>2. orders \in Ordered
    BY DEF Init, Ordered
  <2>3. fuel \in [Player -> 0 .. Fuel]
    BY <2>1 DEF Init
  <2> QED
    BY <2>1, <2>2, <2>3 DEF Init, TurnTypeOK
<1>16. Calm
  BY <1>12, <1>13, <1>14 DEF Init, Calm
<1> QED
  BY <1>12, <1>15, <1>16 DEF Init, TurnInv

LEMMA AimKeeps ==
    ASSUME TurnInv, NEW p \in Player, Aim(p)
    PROVE  TurnInv'
<1>1. UNCHANGED <<world, phase, stage, sub, fuel, turn, balanced>>
  BY DEF Aim
<1>2. orders' \in Ordered
  <2>1. PICK order \in Orders[turn][p] : orders' = [orders EXCEPT ![p] = order]
    BY DEF Aim
  <2>2. turn \in 1 .. Turns /\ orders \in Ordered
    BY DEF TurnInv, TurnTypeOK
  <2>3. order \in Order
    BY <2>1, <2>2, VolleyAssumption
  <2> QED
    BY <2>1, <2>2, <2>3 DEF Ordered
<1>3. Sound(world)'
  BY <1>1 DEF TurnInv
<1>4. TurnTypeOK'
  BY <1>1, <1>2 DEF TurnInv, TurnTypeOK
<1>5. Calm'
  BY <1>1 DEF TurnInv, Calm
<1> QED
  BY <1>3, <1>4, <1>5 DEF TurnInv

\* What TurnInv says, for the steps below.
LEMMA TurnInvSays ==
    ASSUME TurnInv
    PROVE  /\ Sound(world) /\ world \in World /\ Placed(world) /\ Scored(world) /\ Buried(world)
           /\ TurnTypeOK /\ Calm
  BY DEF TurnInv, Sound

LEMMA DriveKeeps ==
    ASSUME TurnInv, NEW p \in Player, Drive(p)
    PROVE  TurnInv'
<1>1. Sound(world) /\ world \in World /\ Placed(world) /\ TurnTypeOK /\ Calm
  BY TurnInvSays
<1>2. PICK delta \in {-1, 1} : CanMove(world, p, delta) /\ world' = PlayerMove(world, p, delta)
  BY DEF Drive
<1>3. phase = "aim" /\ fuel[p] > 0 /\ fuel' = [fuel EXCEPT ![p] = @ - 1]
      /\ UNCHANGED <<phase, stage, sub, orders, turn, balanced>>
  BY DEF Drive
<1> DEFINE v == PlayerMove(world, p, delta)
<1>4. /\ TanksOnly(world, v) /\ Placed(v)
      /\ \A q \in Player : /\ v.tank[q].life = world.tank[q].life /\ v.tank[q].dead = world.tank[q].dead
                           /\ v.tank[q].killedby = world.tank[q].killedby
                           /\ v.tank[q].kills = world.tank[q].kills /\ v.tank[q].suicides = world.tank[q].suicides
  BY <1>1, <1>2, PlayerMoveType
<1> HIDE DEF v
<1>5. v \in World /\ v.walls = world.walls /\ v.physics = world.physics /\ v.fast = world.fast
      /\ v.expl = world.expl /\ v.shots = world.shots
  BY <1>1, <1>4, TanksOnlyKeeps
<1>6. Unhurt(world, v)
  BY <1>4, <1>5 DEF Unhurt
<1>7. Sound(v) /\ \A q \in Player : Dying(v, q) <=> Dying(world, q)
  BY <1>1, <1>6, UnhurtSound
<1>8. world' = v
  BY <1>2 DEF v
<1>9. Sound(world)'
  BY <1>7, <1>8
<1>10. TurnTypeOK'
  <2>1. fuel' \in [Player -> 0 .. Fuel]
    <3>1. fuel \in [Player -> 0 .. Fuel] /\ Fuel \in Nat
      BY <1>1, VolleyAssumption DEF TurnTypeOK
    <3>2. fuel[p] - 1 \in 0 .. Fuel
      BY <1>3, <3>1
    <3> QED
      BY <1>3, <3>1, <3>2
  <2> QED
    BY <1>1, <1>3, <2>1 DEF TurnTypeOK
<1>11. Calm'
  BY <1>1, <1>3, <1>5, <1>7, <1>8 DEF Calm
<1> QED
  BY <1>9, <1>10, <1>11 DEF TurnInv

LEMMA RunCreationKeeps ==
    ASSUME TurnInv, RunCreation
    PROVE  TurnInv'
<1>1. Sound(world) /\ world \in World /\ Placed(world) /\ TurnTypeOK /\ Calm
  BY TurnInvSays
<1>2. PICK draw \in Draws : \E s \in {CreateAll(world, draw)} :
           world' = s.w /\ phase' = IF s.explosions THEN "explosion" ELSE "weapons"
  BY DEF RunCreation
<1> DEFINE s == CreateAll(world, draw)
<1>3. world' = s.w /\ phase' = IF s.explosions THEN "explosion" ELSE "weapons"
  BY <1>2
<1>4. phase = "aim" /\ orders' = [p \in Player |-> NoOrder] /\ balanced' = Settled(world)
      /\ UNCHANGED <<stage, sub, fuel, turn>>
  BY DEF RunCreation
<1>5. world.expl = <<>> /\ stage = "init" /\ orders \in Ordered /\ \A p \in Player : ~Dying(world, p)
  BY <1>1, <1>4 DEF Calm, TurnTypeOK
<1>6. draw \in Draw
  BY VolleyAssumption
<1>7. /\ Unhurt(world, s.w) /\ s.explosions \in BOOLEAN
      /\ s.w.expl # <<>> => s.explosions
      /\ Rest(s.w) \/ ~Settled(world)
  BY <1>1, <1>5, <1>6, CreateAllType
<1> HIDE DEF s
<1>8. Sound(s.w) /\ \A p \in Player : Dying(s.w, p) <=> Dying(world, p)
  BY <1>1, <1>7, UnhurtSound
<1>9. Sound(world)'
  BY <1>3, <1>8
<1>10. TurnTypeOK'
  <2>1. orders' \in Ordered
    BY <1>4 DEF Ordered
  <2>2. balanced' \in BOOLEAN
    BY <1>4 DEF Settled
  <2>3. phase' \in {"explosion", "weapons"}
    BY <1>3
  <2> QED
    BY <1>1, <1>4, <2>1, <2>2, <2>3 DEF TurnTypeOK
<1>11. Calm'
  <2>1. phase' = "weapons" => world'.expl = <<>>
    BY <1>3, <1>7
  <2>2. phase' \in {"explosion", "weapons"} /\ stage' = "init"
    BY <1>3, <1>4, <1>5
  <2>3. \A p \in Player : ~Dying(world', p)
    BY <1>3, <1>5, <1>8
  <2>4. balanced' => Rest(world')
    BY <1>3, <1>4, <1>7
  <2> QED
    BY <2>1, <2>2, <2>3, <2>4 DEF Calm
<1> QED
  BY <1>9, <1>10, <1>11 DEF TurnInv

LEMMA RunWeaponsKeeps ==
    ASSUME TurnInv, RunWeapons
    PROVE  TurnInv'
<1>1. Sound(world) /\ world \in World /\ Placed(world) /\ TurnTypeOK /\ Calm
  BY TurnInvSays
<1>2. PICK draw \in Draws : \E s \in {TrackAll(world, draw)} :
           /\ world' = s.w
           /\ phase' = CASE s.res = "none" -> "end"
                         [] s.res = "detonate" -> "explosion"
                         [] OTHER -> IF s.w.expl # <<>> THEN "explosion" ELSE "weapons"
  BY DEF RunWeapons
<1> DEFINE s == TrackAll(world, draw)
<1>3. /\ world' = s.w
      /\ phase' = CASE s.res = "none" -> "end"
                    [] s.res = "detonate" -> "explosion"
                    [] OTHER -> IF s.w.expl # <<>> THEN "explosion" ELSE "weapons"
  BY <1>2
<1>4. phase = "weapons" /\ UNCHANGED <<stage, sub, orders, fuel, turn, balanced>>
  BY DEF RunWeapons
<1>5. world.expl = <<>> /\ stage = "init" /\ (\A p \in Player : ~Dying(world, p)) /\ (balanced => Rest(world))
  BY <1>1, <1>4 DEF Calm
<1>6. draw \in Draw
  BY VolleyAssumption
<1>7. /\ s \in Tracking /\ Unhurt(world, s.w)
      /\ s.res = "none" => s.w.expl = world.expl /\ \A q \in Player : s.w.shots[q] = <<>>
      /\ Rest(world) => Rest(s.w)
  BY <1>1, <1>6, TrackAllType
<1> HIDE DEF s
<1>8. Sound(s.w) /\ \A p \in Player : Dying(s.w, p) <=> Dying(world, p)
  BY <1>1, <1>7, UnhurtSound
<1>9. Sound(world)'
  BY <1>3, <1>8
<1>10. \/ phase' = "end" /\ s.res = "none"
       \/ phase' = "explosion"
       \/ phase' = "weapons" /\ s.w.expl = <<>>
  BY <1>3
<1>11. TurnTypeOK'
  BY <1>1, <1>4, <1>10 DEF TurnTypeOK
<1>12. Calm'
  <2>1. phase' # "explosion" => world'.expl = <<>>
    BY <1>3, <1>5, <1>7, <1>10
  <2>2. phase' = "end" => \A p \in Player : world'.shots[p] = <<>>
    BY <1>3, <1>7, <1>10
  <2>3. \A p \in Player : ~Dying(world', p)
    BY <1>3, <1>5, <1>8
  <2>4. balanced' => Rest(world')
    BY <1>3, <1>4, <1>5, <1>7
  <2>5. phase' \in {"end", "explosion", "weapons"} /\ stage' = "init"
    BY <1>4, <1>5, <1>10
  <2> QED
    BY <2>1, <2>2, <2>3, <2>4, <2>5 DEF Calm
<1> QED
  BY <1>9, <1>11, <1>12 DEF TurnInv

LEMMA DrawExplKeeps ==
    ASSUME TurnInv, DrawExpl
    PROVE  TurnInv' /\ Head(world.expl) \in Expl /\ LandOnly(world, world')
<1>1. Sound(world) /\ world \in World /\ TurnTypeOK /\ Calm
  BY TurnInvSays
<1>2. phase = "explosion" /\ world.expl # <<>> /\ world' = Annihilate(world, Head(world.expl))
      /\ stage' = "clear" /\ UNCHANGED <<phase, sub, orders, fuel, turn, balanced>>
  BY DEF DrawExpl
<1>3. Head(world.expl) \in Expl
  BY <1>1, <1>2, NextExplType
<1>4. LandOnly(world, world')
  BY <1>1, <1>2, <1>3, AnnihilateType
<1>5. Sound(world') /\ world'.expl = world.expl
  BY <1>1, <1>4, LandOnlySound
<1>6. TurnTypeOK'
  BY <1>1, <1>2 DEF TurnTypeOK
<1>7. Calm'
  BY <1>2, <1>5 DEF Calm
<1> QED
  BY <1>3, <1>4, <1>5, <1>6, <1>7 DEF TurnInv

LEMMA ClearExplKeeps ==
    ASSUME TurnInv, ClearExpl
    PROVE  /\ TurnInv' /\ Head(world.expl) \in Expl
           /\ LET u == DamageAll(world, Head(world.expl))
              IN  u \in World /\ u.walls = world.walls /\ u.land = world.land
<1> DEFINE e == Head(world.expl)
           u == DamageAll(world, e)
           v == AnnihilateDone(u, e)
<1>1. Sound(world) /\ world \in World /\ Scored(world) /\ TurnTypeOK /\ Calm
  BY TurnInvSays
<1>2. phase = "explosion" /\ stage = "clear" /\ world' = v
      /\ stage' = "done" /\ UNCHANGED <<phase, sub, orders, fuel, turn, balanced>>
  BY DEF ClearExpl
<1>3. world.expl # <<>>
  BY <1>1, <1>2 DEF Calm
<1>4. e \in Expl
  BY <1>1, <1>3, NextExplType
<1> HIDE DEF e
<1>5. Hurts(world, u) /\ Scored(u)
  BY <1>1, <1>4, DamageAllType
<1> HIDE DEF u
<1>6. Sound(u) /\ u.expl = world.expl
  BY <1>1, <1>5, HurtsSound
<1>7. u \in World
  BY <1>6 DEF Sound
<1>8. LandOnly(u, v)
  BY <1>4, <1>7, AnnihilateType
<1> HIDE DEF v
<1>9. Sound(v) /\ v.expl = u.expl
  BY <1>6, <1>8, LandOnlySound
<1>10. Sound(world)'
  BY <1>2, <1>9
<1>11. TurnTypeOK'
  BY <1>1, <1>2 DEF TurnTypeOK
<1>12. Calm'
  BY <1>2, <1>3, <1>6, <1>9 DEF Calm
<1>13. u.walls = world.walls /\ u.land = world.land
  BY <1>1, <1>5, TanksOnlyKeeps DEF Hurts
<1> QED
  BY <1>4, <1>7, <1>10, <1>11, <1>12, <1>13 DEF TurnInv, u, e

LEMMA LandFallKeeps ==
    ASSUME TurnInv, LandFall
    PROVE  /\ TurnInv'
           /\ \A x \in Columns : Falls(Column(world, x), Column(world', x))
<1> DEFINE e == Head(world.expl)
           drop == Drop(world, e.x, e.radius)
           u == [drop.w EXCEPT !.expl = Tail(@)]
<1>1. Sound(world) /\ world \in World /\ TurnTypeOK /\ Calm
  BY TurnInvSays
<1>2. /\ phase = "explosion" /\ stage = "done" /\ UNCHANGED <<phase, sub, orders, fuel, turn, balanced>>
      /\ \E d \in {drop} :
           IF d.more THEN world' = d.w /\ UNCHANGED stage
           ELSE world' = [d.w EXCEPT !.expl = Tail(@)] /\ stage' = "init"
  BY DEF LandFall
<1>3. \/ world' = drop.w /\ stage' = stage
      \/ world' = u /\ stage' = "init"
  BY <1>2
<1>4. world.expl # <<>>
  BY <1>1, <1>2 DEF Calm
<1>5. e \in Expl
  BY <1>1, <1>4, NextExplType
<1> HIDE DEF e
<1>6. e.x - e.radius \in Int /\ e.x + e.radius \in Int
  BY <1>5 DEF Expl
<1> DEFINE a == e.x - e.radius
           b == e.x + e.radius
<1>7. drop = DropZone(world, a, b)
  BY DEF Drop
<1> HIDE DEF a, b, drop
<1>8. a \in Int /\ b \in Int
  BY <1>6 DEF a, b
<1>9. Fallen(world, drop.w)
  BY <1>1, <1>7, <1>8, ZoneFalls
<1>10. LandOnly(world, drop.w) /\ \A x \in Columns : Falls(Column(world, x), Column(drop.w, x))
  BY <1>9 DEF Fallen
<1>11. Sound(drop.w) /\ drop.w.expl = world.expl
  BY <1>1, <1>10, LandOnlySound
<1>12. Sound(u)
  BY <1>4, <1>11, NextExplType
<1>13. \A x : Column(u, x) = Column(drop.w, x)
  <2>1. u.land = drop.w.land
    BY <1>11 DEF Sound, World
  <2> HIDE DEF u
  <2> QED
    BY <2>1 DEF Column
<1> HIDE DEF u
<1>14. Sound(world')
  BY <1>3, <1>11, <1>12
<1>15. TurnTypeOK'
  BY <1>1, <1>2, <1>3 DEF TurnTypeOK
<1>16. Calm'
  BY <1>2, <1>3, <1>4, <1>11 DEF Calm
<1>17. \A x \in Columns : Falls(Column(world, x), Column(world', x))
  BY <1>3, <1>10, <1>13
<1> QED
  BY <1>14, <1>15, <1>16, <1>17 DEF TurnInv

LEMMA ExplosionsOverKeeps ==
    ASSUME TurnInv, ExplosionsOver
    PROVE  TurnInv'
<1>1. Sound(world) /\ TurnTypeOK /\ Calm
  BY TurnInvSays
<1>2. world.expl = <<>> /\ phase' = "drop" /\ UNCHANGED <<world, stage, sub, orders, fuel, turn, balanced>>
  BY DEF ExplosionsOver
<1>3. stage = "init"
  BY <1>1, <1>2 DEF Calm
<1>4. Sound(world)'
  BY <1>1, <1>2
<1>5. TurnTypeOK' /\ Calm'
  BY <1>1, <1>2, <1>3 DEF TurnTypeOK, Calm
<1> QED
  BY <1>4, <1>5 DEF TurnInv

LEMMA RunPlayerDropKeeps ==
    ASSUME TurnInv, RunPlayerDrop
    PROVE  TurnInv'
<1> DEFINE s == PlayerDropAll(world)
<1>1. Sound(world) /\ world \in World /\ Placed(world) /\ TurnTypeOK /\ Calm
  BY TurnInvSays
<1>2. /\ phase = "drop" /\ UNCHANGED <<stage, orders, fuel, turn>>
      /\ \E d \in {s} : /\ world' = d.w
                        /\ phase' = IF d.moved THEN "drop" ELSE "death"
                        /\ sub' = IF d.moved THEN sub ELSE 0
                        /\ balanced' = (balanced \/ ~d.moved)
  BY DEF RunPlayerDrop
<1>3. /\ world' = s.w /\ phase' = IF s.moved THEN "drop" ELSE "death"
      /\ sub' = IF s.moved THEN sub ELSE 0
      /\ balanced' = (balanced \/ ~s.moved)
  BY <1>2
<1>4. world.expl = <<>> /\ stage = "init"
  BY <1>1, <1>2 DEF Calm
<1>5. s \in Falling /\ Dropped(world, s)
  BY <1>1, PlayerDropAllSinks
<1>6. ~s.moved => Settled(world)
  BY DEF Settled
<1> HIDE DEF s
<1>7. s.moved \in BOOLEAN /\ Sinks(world, s.w) /\ (s.moved \/ s.w = world)
  BY <1>5 DEF Falling, Dropped
<1>8. Unhurt(world, s.w) /\ s.w.expl = world.expl
  BY <1>1, <1>7, SinksUnhurt
<1>9. Sound(s.w)
  BY <1>1, <1>8, UnhurtSound
<1>10. Sound(world)'
  BY <1>3, <1>9
<1>11. TurnTypeOK'
  <2>1. 0 \in 0 .. NumPlayers
    BY VolleyAssumption
  <2>2. sub' \in 0 .. NumPlayers /\ phase' \in {"drop", "death"}
    BY <1>1, <1>3, <2>1 DEF TurnTypeOK
  <2>3. balanced' \in BOOLEAN
    BY <1>3
  <2> QED
    BY <1>1, <1>2, <2>2, <2>3 DEF TurnTypeOK
<1>12. Calm'
  <2>1. world'.expl = <<>> /\ stage' = "init"
    BY <1>2, <1>3, <1>4, <1>8
  <2>2. phase' = "death" => sub' = 0 /\ Rest(world')
    BY <1>3, <1>6, <1>7 DEF Rest
  <2>3. \A p \in Player : ~(p < 0)
    BY VolleyAssumption DEF Player
  <2>4. phase' \in {"drop", "death"}
    BY <1>3
  <2> QED
    BY <2>1, <2>2, <2>3, <2>4 DEF Calm
<1> QED
  BY <1>10, <1>11, <1>12 DEF TurnInv

LEMMA RunPlayerDeathKeeps ==
    ASSUME TurnInv, RunPlayerDeath
    PROVE  TurnInv'
<1>1. Sound(world) /\ world \in World /\ TurnTypeOK /\ Calm
  BY TurnInvSays
<1>2. phase = "death" /\ UNCHANGED <<stage, orders, fuel, turn, balanced>>
  BY DEF RunPlayerDeath
<1>3. /\ world.expl = <<>> /\ stage = "init" /\ \A p \in Player : p < sub => ~Dying(world, p)
      /\ balanced => Rest(world)
  BY <1>1, <1>2 DEF Calm
<1>4. sub \in 0 .. NumPlayers /\ NumPlayers \in Nat \ {0} /\ Player = 0 .. NumPlayers - 1
  BY <1>1, VolleyAssumption DEF TurnTypeOK, Player
<1>5. CASE sub >= NumPlayers
  <2>1. phase' = "weapons" /\ UNCHANGED <<world, sub>>
    BY <1>5 DEF RunPlayerDeath
  <2>2. \A p \in Player : p < sub
    BY <1>4, <1>5
  <2>3. Sound(world)' /\ TurnTypeOK'
    BY <1>1, <1>2, <2>1 DEF TurnTypeOK
  <2>4. Calm'
    BY <1>2, <1>3, <2>1, <2>2 DEF Calm
  <2> QED
    BY <2>3, <2>4 DEF TurnInv
<1>6. CASE ~(sub >= NumPlayers) /\ Dies(sub)
  <2>1. PICK draw \in Draws : world' = PlayerDied(PlayerDeath(world, sub, draw), sub)
    BY <1>6 DEF RunPlayerDeath
  <2>2. phase' = "explosion" /\ sub' = sub + 1
    BY <1>6 DEF RunPlayerDeath
  <2>3. draw \in Draw
    BY VolleyAssumption
  <2> DEFINE p == sub
             u == PlayerDeath(world, p, draw)
  <2>4. p \in Player /\ Dying(world, p)
    BY <1>4, <1>6 DEF Dies, Dying
  <2> HIDE DEF p
  <2>5. world.tank[p].life = 0 /\ world.tank[p].killedby \in Player
    BY <1>1, <2>4, LifelessDies
  <2>6. Bursts(world, u)
    BY <1>1, <2>3, <2>4, <2>5, PlayerDeathType
  <2> HIDE DEF u
  <2>7. Unhurt(world, u)
    BY <2>6, BurstsUnhurt
  <2>8. Sound(u)
    BY <1>1, <2>7, UnhurtSound
  <2>9. u.tank[p].life = 0
    BY <2>4, <2>5, <2>7 DEF Unhurt
  <2>10. Sound(PlayerDied(u, p))
    BY <2>4, <2>8, <2>9, PlayerDiedType
  <2>11. world' = PlayerDied(u, p)
    BY <2>1 DEF u, p
  <2>12. Sound(world)'
    BY <2>10, <2>11
  <2>13. sub' \in 0 .. NumPlayers
    BY <1>4, <1>6, <2>2
  <2>14. TurnTypeOK' /\ Calm'
    BY <1>1, <1>2, <1>3, <2>2, <2>13 DEF TurnTypeOK, Calm
  <2> QED
    BY <2>12, <2>14 DEF TurnInv
<1>7. CASE ~(sub >= NumPlayers) /\ ~Dies(sub)
  <2>1. sub' = sub + 1 /\ UNCHANGED <<world, phase>>
    BY <1>7 DEF RunPlayerDeath
  <2>2. sub' \in 0 .. NumPlayers
    BY <1>4, <1>7, <2>1
  <2>3. Sound(world)' /\ TurnTypeOK'
    BY <1>1, <1>2, <2>1, <2>2 DEF TurnTypeOK
  <2>4. \A p \in Player : p < sub + 1 => ~Dying(world, p)
    <3> TAKE p \in Player
    <3>1. p < sub + 1 => p < sub \/ p = sub
      BY <1>4
    <3>2. ~Dying(world, sub)
      BY <1>7 DEF Dies, Dying
    <3> QED
      BY <1>3, <3>1, <3>2
  <2>5. Calm'
    BY <1>2, <1>3, <2>1, <2>4 DEF Calm
  <2> QED
    BY <2>3, <2>5 DEF TurnInv
<1> QED
  BY <1>5, <1>6, <1>7

LEMMA NextTurnKeeps ==
    ASSUME TurnInv, NextTurn
    PROVE  TurnInv'
<1>1. Sound(world) /\ world \in World /\ TurnTypeOK /\ Calm
  BY TurnInvSays
<1>2. phase = "end" /\ turn < Turns /\ phase' = "aim" /\ turn' = turn + 1 /\ world' = InitTurn(world)
      /\ UNCHANGED <<stage, sub, orders, fuel, balanced>>
  BY DEF NextTurn
<1>3. world.expl = <<>> /\ stage = "init" /\ (\A p \in Player : world.shots[p] = <<>>)
      /\ \A p \in Player : ~Dying(world, p)
  BY <1>1, <1>2 DEF Calm
<1>4. InPlace(world, world')
  BY <1>1, <1>2, InitTurnType
<1>5. Sound(world') /\ \A p \in Player : Dying(world', p) <=> Dying(world, p)
  BY <1>1, <1>4, InPlaceUnhurt, UnhurtSound
<1>6. TurnTypeOK'
  <2>1. turn' \in 1 .. Turns
    BY <1>1, <1>2, VolleyAssumption DEF TurnTypeOK
  <2> QED
    BY <1>1, <1>2, <2>1 DEF TurnTypeOK
<1>7. Calm'
  BY <1>2, <1>3, <1>4, <1>5 DEF Calm, InPlace
<1> QED
  BY <1>5, <1>6, <1>7 DEF TurnInv

LEMMA NextKeeps ==
    ASSUME TurnInv, idle \in {0, 1}, [Next]_vars
    PROVE  TurnInv' /\ (idle \in {0, 1})'
<1>1. UNCHANGED turnvars => TurnInv'
  BY DEF turnvars, TurnInv, TurnTypeOK, Calm
<1>2. Run => TurnInv'
  BY RunCreationKeeps, RunWeaponsKeeps, DrawExplKeeps, ClearExplKeeps, LandFallKeeps,
     ExplosionsOverKeeps, RunPlayerDropKeeps, RunPlayerDeathKeeps DEF Run
<1>3. Other => TurnInv'
  BY <1>1, NextTurnKeeps, AimKeeps, DriveKeeps DEF Other, RoundOver
<1>4. CASE Timer
  <2>1. idle' \in {1 - idle, 0}
    BY <1>4 DEF Timer
  <2>2. idle' \in {0, 1}
    BY <2>1
  <2> QED
    BY <1>2, <1>4, <2>2 DEF Timer
<1>5. CASE Other /\ UNCHANGED idle
  BY <1>3, <1>5
<1>6. CASE UNCHANGED vars
  BY <1>1, <1>6 DEF vars
<1> QED
  BY <1>4, <1>5, <1>6 DEF Next

-----------------------------------------------------------------------------
(* What an explosion does to the land.                                     *)

Within(w, e, x, y) ==
    \E cx \in e.x - e.radius .. e.x + e.radius :
        TranslateX(w, cx, 1) = [ok |-> TRUE, at |-> x] /\ InReach(e, cx, y)
Around(w, e, x, y) ==
    \E cx \in e.x - e.radius .. e.x + e.radius :
        TranslateX(w, cx, 1) = [ok |-> TRUE, at |-> x] /\ Beside(e, cx, y)

LEMMA RootWithin ==
    ASSUME NEW b \in Int, NEW r \in Nat, NEW a \in Int, Square(a) + Square(b) <= Square(r)
    PROVE  b \in -r .. r
<1>1. Square(a) \in Nat /\ b * b \in Nat /\ r * r \in Nat
  BY Products DEF Square
<1>2. b * b <= r * r
  <2> DEFINE sa == Square(a)
             sb == b * b
             sr == r * r
  <2>1. sa \in Nat /\ sb \in Nat /\ sr \in Nat /\ sa + sb <= sr
    BY <1>1 DEF Square
  <2> HIDE DEF sa, sb, sr
  <2>2. sb <= sr
    BY <2>1
  <2> QED
    BY <2>2 DEF sb, sr
<1>3. CASE b > r
  <2>1. r < b /\ b \in Nat /\ r <= b
    BY <1>3
  <2>2. r * r < b * b
    BY <2>1, SquaresGrow
  <2> QED
    BY <1>1, <1>2, <2>2
<1>4. CASE -b > r
  <2> DEFINE c == -b
  <2>1. r < c /\ c \in Nat /\ r <= c
    BY <1>4
  <2>2. c * c = b * b
    OBVIOUS
  <2> HIDE DEF c
  <2>3. r * r < c * c
    BY <2>1, SquaresGrow
  <2> QED
    BY <1>1, <1>2, <2>2, <2>3
<1> QED
  BY <1>3, <1>4

LEMMA BlastCells ==
    ASSUME NEW w, NEW e \in Expl, NEW x \in Columns, NEW y \in Rows
    PROVE  /\ Within(w, e, x, y) => <<x, y>> \in Cells(w, Blasted(e))
           /\ <<x, y>> \in Cells(w, Blasted(e)) => Around(w, e, x, y)
<1> DEFINE r == e.radius
<1>1. r \in Nat \ {0} /\ e.x \in Int /\ e.y \in Int /\ y \in Int /\ y \in 0 .. Height - 1
  BY Sizes DEF Expl
<1>2. ASSUME Within(w, e, x, y) PROVE <<x, y>> \in Cells(w, Blasted(e))
  <2>1. PICK cx \in e.x - r .. e.x + r :
            TranslateX(w, cx, 1) = [ok |-> TRUE, at |-> x] /\ InReach(e, cx, y)
    BY <1>2 DEF Within
  <2> DEFINE a == cx - e.x
             b == y - e.y
             p == <<cx, y>>
  <2>2. cx \in Int /\ a \in -r .. r /\ a \in Int /\ b \in Int /\ e.x + a = cx /\ e.y + b = y
    BY <1>1
  <2>3. Square(a) + Square(b) <= Square(r)
    BY <2>1 DEF InReach
  <2> HIDE DEF a, b, r
  <2>4. b \in -r .. r
    BY <1>1, <2>2, <2>3, RootWithin
  <2>5. <<a, b>> \in Circle(r)
    BY <1>1, <2>2, <2>3, <2>4, CircleShape
  <2>6. p \in Blasted(e)
    <3>1. <<e.x + <<a, b>>[1], e.y + <<a, b>>[2]>> \in Blasted(e)
      BY <2>5 DEF Blasted, r
    <3>2. <<a, b>>[1] = a /\ <<a, b>>[2] = b
      OBVIOUS
    <3> QED
      BY <2>2, <3>1, <3>2
  <2>7. TranslateY(w, y, 1).ok
    BY <1>1, Sizes DEF TranslateY
  <2>8. p[1] = cx /\ p[2] = y
    OBVIOUS
  <2>9. OnField(w, p[1], p[2])
    BY <2>1, <2>7, <2>8 DEF OnField
  <2>10. <<TranslateX(w, p[1], 1).at, p[2]>> = <<x, y>>
    BY <2>1, <2>8
  <2> HIDE DEF p
  <2> QED
    BY <2>6, <2>9, <2>10 DEF Cells
<1>3. ASSUME <<x, y>> \in Cells(w, Blasted(e)) PROVE Around(w, e, x, y)
  <2>1. PICK p \in Blasted(e) : OnField(w, p[1], p[2]) /\ <<TranslateX(w, p[1], 1).at, p[2]>> = <<x, y>>
    BY <1>3 DEF Cells
  <2>2. PICK d \in Circle(r) : p = <<e.x + d[1], e.y + d[2]>>
    BY DEF Blasted
  <2> DEFINE a == d[1]
             b == d[2]
             cx == e.x + a
  <2>3. a \in -r .. r /\ b \in -r .. r /\ d = <<a, b>>
    BY DEF Circle
  <2> HIDE DEF r
  <2>4. a \in Int /\ b \in Int /\ cx \in Int /\ cx - e.x = a /\ cx \in e.x - r .. e.x + r
    BY <1>1, <2>3
  <2>5. p[1] = cx /\ p[2] = e.y + b
    BY <2>2
  <2>6. TranslateX(w, cx, 1).ok /\ TranslateX(w, cx, 1).at = x /\ e.y + b = y
    BY <2>1, <2>5 DEF OnField
  <2>7. TranslateX(w, cx, 1) = [ok |-> TRUE, at |-> x]
    BY <2>6 DEF TranslateX
  <2> HIDE DEF a, b
  <2>8. PICK da \in -1 .. 1, db \in -1 .. 1 : Square(a + da) + Square(b + db) <= Square(r)
    BY <1>1, <2>2, <2>3, CircleShape
  <2>9. (cx + da) - e.x = a + da /\ (y + db) - e.y = b + db
    BY <1>1, <2>4, <2>6
  <2> HIDE DEF cx
  <2>10. Beside(e, cx, y)
    BY <2>8, <2>9 DEF Beside, InReach, r
  <2> QED
    BY <2>4, <2>7, <2>10 DEF Around, r
<1> QED
  BY <1>2, <1>3

\* Filled or cleared, the land has the shape of the explosion.
LEMMA BlastFills ==
    ASSUME NEW w \in World, NEW u \in World, u.walls = w.walls, u.land = w.land,
           NEW e \in Expl, NEW x \in Columns, NEW y \in Rows
    PROVE  LET fill == AnnihilateFill(u, e).land
               clear == AnnihilateClear(u, e).land
           IN  /\ Within(w, e, x, y) => <<x, y>> \in fill /\ <<x, y>> \notin clear
               /\ (<<x, y>> \in w.land) # (<<x, y>> \in fill) => Around(w, e, x, y)
               /\ (<<x, y>> \in w.land) # (<<x, y>> \in clear) => Around(w, e, x, y)
<1> DEFINE cells == Cells(u, Blasted(e))
<1>1. Blasted(e) \in SUBSET (Int \X Int)
  BY BlastedType
<1>2. AnnihilateFill(u, e).land = u.land \cup cells /\ AnnihilateClear(u, e).land = u.land \ cells
  BY <1>1, PointsType DEF AnnihilateFill, AnnihilateClear
<1>3. \A cx : TranslateX(u, cx, 1) = TranslateX(w, cx, 1)
  BY DEF TranslateX
<1>4. (Within(u, e, x, y) <=> Within(w, e, x, y)) /\ (Around(u, e, x, y) <=> Around(w, e, x, y))
  BY <1>3 DEF Within, Around
<1>5. (Within(u, e, x, y) => <<x, y>> \in cells) /\ (<<x, y>> \in cells => Around(u, e, x, y))
  BY BlastCells
<1> HIDE DEF cells
<1> QED
  BY <1>2, <1>4, <1>5

-----------------------------------------------------------------------------
(* The theorems.                                                           *)

\* For every field and landscape, whatever is ordered and drawn, the invariant
\* the properties below rest on holds throughout.
THEOREM TurnSafe == Spec => [](TurnInv /\ idle \in {0, 1})
<1>1. Init => TurnInv /\ idle \in {0, 1}
  BY InitHolds
<1>2. (TurnInv /\ idle \in {0, 1}) /\ [Next]_vars => (TurnInv /\ idle \in {0, 1})'
  BY NextKeeps
<1> QED
  BY <1>1, <1>2, PTL DEF Spec

LEMMA FieldTyped ==
    ASSUME TurnInv, idle \in {0, 1}
    PROVE  FieldTypeOK
<1>1. Sound(world) /\ world \in World /\ Placed(world) /\ Buried(world) /\ TurnTypeOK
  BY TurnInvSays
<1>2. ASSUME NEW p \in Player
      PROVE  LET t == world.tank[p]
             IN  /\ TranslateX(world, t.x, 1).ok /\ t.y \in 0 .. Height
                 /\ t.life \in 0 .. FullLife /\ t.shield.life \in 0 .. ShieldLife
                 /\ (t.shield.kind = "none") <=> (t.shield.life = 0)
                 /\ t.dead => t.life = 0
  <2> DEFINE t == world.tank[p]
  <2>1. t \in TankRec
    BY <1>1 DEF World
  <2>2. TranslateX(world, t.x, 1).ok /\ (t.dead => t.life = 0)
    BY <1>1 DEF Placed, OnX, Buried
  <2> HIDE DEF t
  <2>3. t.y \in 0 .. Height /\ t.life \in 0 .. FullLife /\ t.shield \in Shield
    BY <2>1 DEF TankRec
  <2>4. ShieldLife \in Nat \ {0}
    BY TanksAssumption
  <2>5. t.shield.life \in 0 .. ShieldLife /\ ((t.shield.kind = "none") <=> (t.shield.life = 0))
    <3>1. CASE t.shield = NoShield
      BY <2>4, <3>1 DEF NoShield
    <3>2. CASE t.shield \in [kind : ShieldKinds, life : 1 .. ShieldLife]
      <4>1. t.shield.kind \in ShieldKinds /\ t.shield.life \in 1 .. ShieldLife
        BY <3>2
      <4>2. t.shield.kind # "none"
        BY <4>1 DEF ShieldKinds
      <4> QED
        BY <2>4, <4>1, <4>2
    <3> QED
      BY <2>3, <3>1, <3>2 DEF Shield
  <2> QED
    BY <2>2, <2>3, <2>5 DEF t
<1>3. world.land \subseteq Columns \X Rows
  BY <1>1 DEF World
<1> QED
  BY <1>1, <1>2, <1>3 DEF FieldTypeOK, TurnTypeOK

\* When a turn has ended nothing flies or waits to go off, the dead are buried
\* and nobody hangs in the air (the end of _sc_state_run_weapons): what dug the
\* ground away below a tank is an explosion, after which tanks drop, or a
\* weapon, which lets them settle when it ends.
THEOREM AllSettled == Spec => []SettledAtEnd
<1>1. TurnInv /\ idle \in {0, 1} => SettledAtEnd
  <2> SUFFICES ASSUME TurnInv, idle \in {0, 1} PROVE SettledAtEnd
    OBVIOUS
  <2>1. FieldTypeOK
    BY FieldTyped
  <2>2. Calm
    BY TurnInvSays
  <2>3. ASSUME phase = "end"
        PROVE  /\ world.expl = <<>> /\ \A p \in Player : world.shots[p] = <<>>
               /\ \A p \in Player : ~Dies(p)
               /\ balanced => Settled(world)
    <3>1. world.expl = <<>> /\ (\A p \in Player : world.shots[p] = <<>>)
          /\ (\A p \in Player : ~Dying(world, p)) /\ (balanced => Rest(world))
      BY <2>2, <2>3 DEF Calm
    <3>2. ~AnyPends(<<>>)
      BY DEF AnyPends
    <3>3. Rest(world) => Settled(world)
      BY <3>1, <3>2 DEF Rest
    <3> QED
      BY <3>1, <3>3 DEF Dies, Dying
  <2> QED
    BY <2>1, <2>3 DEF SettledAtEnd
<1> QED
  BY <1>1, TurnSafe, PTL

\* Each death is credited once, to whoever owned the explosion, through all the
\* explosions of dying tanks that follow (_sc_player_damage).
THEOREM EachDeathScored == Spec => []DeathsScored
<1>1. TurnInv => DeathsScored
  <2> SUFFICES ASSUME TurnInv PROVE DeathsScored
    OBVIOUS
  <2>1. Scored(world)
    BY TurnInvSays
  <2> QED
    BY <2>1 DEF DeathsScored, Scored, Victims, Lifeless
<1> QED
  BY <1>1, TurnSafe, PTL

\* What an explosion of any radius does to the land, wherever it is and however
\* the field ends (_sc_expl_annihilate_circular).
THEOREM BlastsShaped == Spec => BlastShape
<1> DEFINE Shaped ==
      (phase = "explosion" /\ stage # "done" /\ world.expl # <<>> =>
        LET e == Head(world.expl)
        IN  e.type \in (IF stage = "init" THEN {"dirt", "riot"} ELSE {"normal", "plasma", "spider"}) =>
            \A x \in Columns, y \in Rows :
                /\ Whichever(e, x, y, InReach) => (<<x, y>> \in world'.land <=> e.type = "dirt")
                /\ (<<x, y>> \in world.land) # (<<x, y>> \in world'.land) => Whichever(e, x, y, Beside))
<1>1. ASSUME TurnInv, Next PROVE Shaped
  <2> DEFINE e == Head(world.expl)
  <2>1. world \in World /\ stage \in {"init", "clear", "done"}
    BY <1>1, TurnInvSays DEF TurnTypeOK
  <2>2. \A x, y : (Whichever(e, x, y, InReach) <=> Within(world, e, x, y))
                  /\ (Whichever(e, x, y, Beside) <=> Around(world, e, x, y))
    BY DEF Whichever, Within, Around
  <2> SUFFICES ASSUME phase = "explosion", stage # "done", world.expl # <<>>,
                      e.type \in (IF stage = "init" THEN {"dirt", "riot"} ELSE {"normal", "plasma", "spider"}),
                      NEW x \in Columns, NEW y \in Rows
               PROVE  /\ Within(world, e, x, y) => (<<x, y>> \in world'.land <=> e.type = "dirt")
                      /\ (<<x, y>> \in world.land) # (<<x, y>> \in world'.land) => Around(world, e, x, y)
    BY <2>2
  <2>3. CASE stage = "init"
    <3>1. DrawExpl
      BY <1>1, <2>3 DEF Next, Timer, Run, Other, RunCreation, RunWeapons, ClearExpl, LandFall, ExplosionsOver,
                        RunPlayerDrop, RunPlayerDeath, NextTurn, RoundOver, Aim, Drive
    <3>2. world' = Annihilate(world, e)
      BY <3>1 DEF DrawExpl
    <3>3. e \in Expl
      BY <1>1, <3>1, DrawExplKeeps
    <3>4. e.type \in {"dirt", "riot"}
      BY <2>3
    <3> HIDE DEF e
    <3>5. world' = IF e.type = "dirt" THEN AnnihilateFill(world, e) ELSE AnnihilateClear(world, e)
      BY <3>2, <3>4 DEF Annihilate
    <3>6. LET fill == AnnihilateFill(world, e).land
              clear == AnnihilateClear(world, e).land
          IN  /\ Within(world, e, x, y) => <<x, y>> \in fill /\ <<x, y>> \notin clear
              /\ (<<x, y>> \in world.land) # (<<x, y>> \in fill) => Around(world, e, x, y)
              /\ (<<x, y>> \in world.land) # (<<x, y>> \in clear) => Around(world, e, x, y)
      BY <2>1, <3>3, BlastFills
    <3> QED
      BY <3>5, <3>6
  <2>4. CASE stage = "clear"
    <3> DEFINE u == DamageAll(world, e)
    <3>1. ClearExpl
      BY <1>1, <2>4 DEF Next, Timer, Run, Other, RunCreation, RunWeapons, DrawExpl, LandFall, ExplosionsOver,
                        RunPlayerDrop, RunPlayerDeath, NextTurn, RoundOver, Aim, Drive
    <3>2. world' = AnnihilateDone(u, e)
      BY <3>1 DEF ClearExpl
    <3>3. e \in Expl /\ u \in World /\ u.walls = world.walls /\ u.land = world.land
      BY <1>1, <3>1, ClearExplKeeps
    <3>4. e.type \in {"normal", "plasma", "spider"}
      BY <2>4
    <3> HIDE DEF e, u
    <3>5. world' = AnnihilateClear(u, e)
      BY <3>2, <3>4 DEF AnnihilateDone
    <3>6. LET fill == AnnihilateFill(u, e).land
              clear == AnnihilateClear(u, e).land
          IN  /\ Within(world, e, x, y) => <<x, y>> \in fill /\ <<x, y>> \notin clear
              /\ (<<x, y>> \in world.land) # (<<x, y>> \in fill) => Around(world, e, x, y)
              /\ (<<x, y>> \in world.land) # (<<x, y>> \in clear) => Around(world, e, x, y)
      BY <2>1, <3>3, BlastFills
    <3>7. e.type # "dirt"
      BY <3>4
    <3> QED
      BY <3>5, <3>6, <3>7
  <2> QED
    BY <2>1, <2>3, <2>4
<1>2. TurnInv /\ [Next]_vars => [Shaped]_vars
  BY <1>1
<1> QED
  BY <1>2, TurnSafe, PTL DEF Spec, BlastShape

\* Falling dirt is neither lost nor made, and none of it rises, in columns of
\* any height (_sc_land_drop_column).
THEOREM DirtFalls == Spec => DirtKept
<1> DEFINE Kept1 ==
      (stage = "done" /\ world.land # world'.land =>
        \A x \in Columns :
            LET before == Column(world, x)
                after  == Column(world', x)
                upto(rows, y) == {k \in rows : k <= y}
            IN  /\ Cardinality(before) = Cardinality(after)
                /\ \A y \in Rows : Cardinality(upto(before, y)) <= Cardinality(upto(after, y)))
<1>1. ASSUME TurnInv, Next PROVE Kept1
  <2> SUFFICES ASSUME stage = "done", NEW x \in Columns
               PROVE  Falls(Column(world, x), Column(world', x))
    BY DEF Falls, UpTo
  <2>1. phase = "explosion" /\ world.expl # <<>>
    BY <1>1, TurnInvSays DEF Calm
  <2>2. LandFall
    BY <1>1, <2>1 DEF Next, Timer, Run, Other, RunCreation, RunWeapons, DrawExpl, ClearExpl, ExplosionsOver,
                      RunPlayerDrop, RunPlayerDeath, NextTurn, RoundOver, Aim, Drive
  <2> QED
    BY <1>1, <2>2, LandFallKeeps
<1>2. TurnInv /\ [Next]_vars => [Kept1]_vars
  BY <1>1
<1> QED
  BY <1>2, TurnSafe, PTL DEF Spec, DirtKept

============================================================================
