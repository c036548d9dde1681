----------------------------- MODULE Landscape ------------------------------
(***************************************************************************)
(* The landscape (sgame/sland.c) and the shape of the tanks that stand on  *)
(* it: what is solid, what can be passed through, where a tank slides and  *)
(* how dirt falls.                                                         *)
(*                                                                         *)
(* Everything is an operator of a world, a record with at least            *)
(*   walls   how the field ends: "open", "wrap" or "box",                  *)
(*   land    the cells <<x, y>> that are ground,                           *)
(*   tank    for each player a record with x, y, life and dead.            *)
(* Row 0 is the bottom.  Sky, smoke and the colours of either are one      *)
(* thing here: not ground.                                                 *)
(***************************************************************************)
EXTENDS Integers, Sequences, FiniteSets, SequencesExt, FiniteSetsExt, Functions

CONSTANTS
    Width,      \* columns of the field
    Height,     \* rows of the field
    Radius,     \* radius of a tank profile
    ShelfSize,  \* SC_TANK_MIN_SHELF_SIZE: how much of an edge must be supported
    MaxAmount,  \* SC_LAND_MAX_AMOUNT: rows that one call drops
    MaxDrop     \* how far one call drops them

ASSUME LandscapeAssumption ==
    /\ Width \in Nat \ {0} /\ Height \in Nat \ {0}
    /\ Radius \in Nat /\ ShelfSize \in Nat
    /\ MaxAmount \in Nat /\ MaxDrop \in Nat \ {0}

Columns == 0 .. Width - 1
Rows == 0 .. Height - 1

\* sc_land_flags: every wall that is not open or wrapping has a ceiling.
LandFlags(walls) ==
    CASE walls = "none" -> "open" [] walls = "wrap" -> "wrap" [] OTHER -> "box"

\* step taken n times.
Repeat(step(_), start, n) ==
    LET f[i \in 0 .. n] == IF i = 0 THEN start ELSE step(f[i - 1])
    IN  f[n]

\* step taken for each element of a sequence, in its order.
InTurn(step(_, _), start, seq) ==
    LET f[i \in 0 .. Len(seq)] == IF i = 0 THEN start ELSE step(f[i - 1], seq[i])
    IN  f[Len(seq)]

\* The numbers from a to b.
FromTo(a, b) == [i \in 1 .. b - a + 1 |-> a + i - 1]

Distance(a, b) == IF a > b THEN a - b ELSE b - a
Magnitude(a) == Distance(a, 0)

-----------------------------------------------------------------------------
(* Coordinates.  A coordinate may be in any unit: u of them make a pixel.  *)

\* _sc_land_translate_x and its double: the place, and whether it is one.
TranslateX(w, x, u) ==
    LET inside == x >= 0 /\ x < Width * u
    IN  CASE w.walls = "wrap" -> [ok |-> TRUE, at |-> x % (Width * u)]
          [] w.walls = "box" /\ ~inside ->
                [ok |-> FALSE, at |-> IF x < 0 THEN 0 ELSE (Width - 1) * u]
          [] OTHER -> [ok |-> inside, at |-> x]

\* _sc_land_translate_y: there is always a floor, and in a box a ceiling.
TranslateY(w, y, u) ==
    CASE y < 0 -> [ok |-> FALSE, at |-> 0]
      [] y >= Height * u ->
            [ok |-> FALSE, at |-> IF w.walls = "box" THEN (Height - 1) * u ELSE y]
      [] OTHER -> [ok |-> TRUE, at |-> y]

\* sc_land_translate_xy
OnField(w, x, y) == TranslateX(w, x, 1).ok /\ TranslateY(w, y, 1).ok

\* sc_land_calculate_deltas: the way from one point to another.  Of the two
\* ways around a wrapping field only the one to the right is looked at.
ShortWay(w, straight, around) ==
    IF w.walls = "wrap" /\ Magnitude(around) < Magnitude(straight) THEN around ELSE straight

Between(w, x1, x2, u) == TranslateX(w, x2, u).at - TranslateX(w, x1, u).at

Deltas(w, x1, y1, x2, y2, u) ==
    [x |-> ShortWay(w, Between(w, x1, x2, u), Between(w, x1, x2, u) + Width * u),
     y |-> TranslateY(w, y2, u).at - TranslateY(w, y1, u).at]

-----------------------------------------------------------------------------
(* Ground and sky. *)

Ground(w, x, y) == <<TranslateX(w, x, 1).at, y>> \in w.land

\* The rows of a column that are ground.
Column(w, x) == {y \in Rows : <<x, y>> \in w.land}

\* A point where there is nothing but sky.
Sky(w, x, y) == OnField(w, x, y) /\ ~Ground(w, x, y)

\* sc_land_height: one above the highest ground from row y0 down.  The
\* lowest row is not looked at.
LandHeight(w, x, y0) ==
    LET top == IF y0 >= Height THEN Height - 1 ELSE y0
    IN  IF TranslateX(w, x, 1).ok
          THEN Max({0} \cup {y + 1 : y \in {r \in 1 .. top : Ground(w, x, r)}})
          ELSE 0

\* sc_land_height_around
HeightAround(w, x, y0, around) ==
    Max({LandHeight(w, cx, y0) : cx \in x - around .. x + around})

\* sc_land_avg_height_around
AvgHeightAround(w, x, y0, around) ==
    LET add(acc, cx) ==
            IF TranslateX(w, cx, 1).ok
              THEN [sum |-> acc.sum + LandHeight(w, cx, y0), count |-> acc.count + 1]
              ELSE acc
        total == InTurn(add, [sum |-> 0, count |-> 0], FromTo(x - around, x + around))
    IN  IF total.count = 0 THEN 0 ELSE total.sum \div total.count

\* _sc_land_level for each of a set of columns.
Level(w, columns, ht) ==
    [w EXCEPT !.land = (@ \ (columns \X Rows)) \cup (columns \X (0 .. ht - 1))]

\* sc_land_level_around.  The loop tests the column it has just levelled, and
\* so levels one more than the interval to the right.
LevelAround(w, x, around, ht) ==
    Level(w, {TranslateX(w, cx, 1).at : cx \in {k \in x - around .. x + around + 1 : TranslateX(w, k, 1).ok}}, ht)

\* The cells of those points that are on the field.
Cells(w, points) ==
    {<<TranslateX(w, p[1], 1).at, p[2]>> : p \in {q \in points : OnField(w, q[1], q[2])}}

\* sc_land_create_dirt at a set of points, and points turned to sky.
CreateDirt(w, points) == [w EXCEPT !.land = @ \cup Cells(w, points)]
ClearPoints(w, points) == [w EXCEPT !.land = @ \ Cells(w, points)]

-----------------------------------------------------------------------------
(* Tanks. *)

Players(w) == DOMAIN w.tank
Alive(t) == ~t.dead /\ t.life > 0

\* The profile: a half disc over the middle of the base.
Opaque(d, o) == o >= 0 /\ d * d + o * o <= Radius * Radius
Profile == {p \in (-Radius .. Radius) \X (0 .. Radius) : Opaque(p[1], p[2])}
ProfileAt(x, y) == {<<x + p[1], y + p[2]>> : p \in Profile}

\* sc_land_clear_profile
ClearProfile(w, p) == ClearPoints(w, ProfileAt(w.tank[p].x, w.tank[p].y))

\* _sc_land_passable_opponent: the profile is looked up with the distance from
\* the point up to the tank, so it blocks below the base and not above it.
PassableOpponent(w, t, x, y) ==
    LET d == Deltas(w, x, y, t.x, t.y, 1)
    IN  ~Opaque(d.x, d.y)

\* _sc_land_passable_point, for everyone but "except".
PassablePoint(w, except, x, y) ==
    /\ \A p \in Players(w) \ {except} : Alive(w.tank[p]) => PassableOpponent(w, w.tank[p], x, y)
    /\ Sky(w, x, y)

Nobody == -1

\* sc_player_passable: the player's profile fits at (x, y).
Passable(w, p, x, y) ==
    \A point \in ProfileAt(x, y) : PassablePoint(w, p, point[1], point[2])

\* sc_player_would_impact
WouldImpact(w, p, x, y) ==
    LET d == Deltas(w, w.tank[p].x, w.tank[p].y, x, y, 1)
    IN  Opaque(d.x, d.y)

\* _sc_land_support_shift_right and _left: "side" is 1 or -1, "y" the row
\* below the tank.  The edge is one past the last solid column of the shelf.
Free(w, x, y, side, k) ==
    PassablePoint(w, Nobody, x + side * (k - Radius), TranslateY(w, y, 1).at)

ShelfEdge(w, x, y, side) == Max({0} \cup {k + 1 : k \in {i \in 0 .. ShelfSize - 2 : ~Free(w, x, y, side, i)}})

ShiftTo(w, x, y, side, edge) ==
    IF TranslateY(w, y, 1).ok /\ \A k \in edge .. edge + 2 * Radius + 1 : Free(w, x, y, side, k)
      THEN side * edge ELSE 0

SupportShift(w, x, y, side) == ShiftTo(w, x, y, side, ShelfEdge(w, x, y, side))

\* sc_land_support: how far a tank at (x, y) slides to find its balance, to the
\* right if it can.
OneOf(right, left) == IF right # 0 THEN right ELSE left

Support(w, x, y) ==
    IF y <= 0 THEN 0 ELSE OneOf(SupportShift(w, x, y - 1, 1), SupportShift(w, x, y - 1, -1))

-----------------------------------------------------------------------------
(* Falling dirt. *)

\* Slips: dirt falls all the way at once whatever lies below it, and the call
\* is repeated for ever.
DropColumnDeep(rows) ==
    LET lo     == Min((0 .. Height) \ rows)
        above  == {y \in rows : y > lo}
        moving == {y \in rows : y >= Min(above) /\ y <= Min(above) + MaxAmount}
    IN  IF above = {} THEN [rows |-> rows, more |-> FALSE]
        ELSE [rows |-> (rows \ moving) \cup {Max({0, y - MaxDrop}) : y \in moving}, more |-> FALSE]

DropColumnAgain(rows) ==
    LET lo    == Min((0 .. Height) \ rows)
        above == {y \in rows : y > lo}
    IN  [rows |-> IF above = {} THEN rows ELSE (rows \ above) \cup {y - 1 : y \in above}, more |-> TRUE]

\* _sc_land_drop_column: the lowest dirt with sky below it comes down, and
\* with it the next rows above; "more" when the call must be repeated.
DropColumn(rows) ==
    LET lo     == Min((0 .. Height) \ rows)
        above  == {y \in rows : y > lo}
        up     == Min(above)
        fall   == IF up - lo < MaxDrop THEN up - lo ELSE MaxDrop
        moving == {y \in rows : y >= up /\ y <= up + MaxAmount}
    IN  IF above = {} THEN [rows |-> rows, more |-> FALSE]
        ELSE [rows |-> (rows \ moving) \cup {y - fall : y \in moving},
              more |-> up - lo >= MaxDrop \/ up + MaxAmount + 1 < Height]

\* sc_land_drop_zone: the columns from x1 to x2, each place once.
DropZone(w, x1, x2) ==
    LET drop(acc, x) ==
            LET at  == TranslateX(w, x, 1)
                col == DropColumn(Column(acc.w, at.at))
                fallen == (acc.w.land \ ({at.at} \X Rows)) \cup ({at.at} \X col.rows)
            IN  IF at.ok THEN [w |-> [acc.w EXCEPT !.land = fallen], more |-> col.more \/ acc.more]
                ELSE acc
    IN  InTurn(drop, [w |-> w, more |-> FALSE], FromTo(x1, x2))

\* sc_land_drop
Drop(w, x, around) == DropZone(w, x - around, x + around)

\* The number of calls after which every column has come to rest.
MostDrops == Height * Height

\* "while(sc_land_drop_zone(...)) /* Just loop */;"
DropZoneAll(w, x1, x2) ==
    LET again(acc) == IF acc.more THEN DropZone(acc.w, x1, x2) ELSE acc
    IN  Repeat(again, [w |-> w, more |-> TRUE], MostDrops).w
=============================================================================
