----------------------------- MODULE Trajectory -----------------------------
(***************************************************************************)
(* The flight of a weapon (sgame/sphysics.c): its control equation, the    *)
(* points between two vertices, the walls, shields, tanks and ground it    *)
(* meets there, and rollers and diggers, which follow the ground instead.  *)
(*                                                                         *)
(* Reals are integers with Unit parts to a pixel.  Time counts substeps,   *)
(* SubSteps to a time step; an acceleration is even, so that half of it is *)
(* an integer.  A pass over a stretch of a trajectory is a record s of     *)
(*   w    the world: a weapon that tunnels removes dirt as it goes,        *)
(*   tr   the trajectory,                                                  *)
(*   dx, dy   the step between two points (sc_trajectory_data),            *)
(*   res  the result so far, "continue" until something happened.          *)
(*                                                                         *)
(* Prediction of trajectories for the computer players is left out.        *)
(***************************************************************************)
EXTENDS Tanks

CONSTANTS
    Unit,          \* parts of a pixel
    SubSteps,      \* SC_TRAJ_TIME_SUBSTEP
    Timeout,       \* SC_TRAJ_TIMEOUT, in substeps
    Gravity,       \* acceleration downward
    BordersExtend, \* how far off an open field a weapon is followed
    TunnelMin,     \* SC_TRAJ_TUNNEL_MIN_VEL
    RollerGain,    \* SC_TRAJ_ROLLER_GAIN
    RollerFall,    \* SC_TRAJ_ROLLER_FALL
    MagDist,       \* SC_SHIELD_MAG_MAX_DIST, in pixels
    MagForce,      \* the strength of a magnetic shield
    MagCost        \* and what a push costs it

ASSUME TrajectoryAssumption ==
    /\ {Unit, SubSteps, Timeout} \subseteq Nat \ {0}
    /\ Gravity \in Nat /\ Gravity % 2 = 0
    /\ {BordersExtend, TunnelMin, RollerGain, RollerFall, MagDist, MagForce, MagCost} \subseteq Nat

\* SGN: a velocity of 0 counts as going right.
Sgn(a) == IF a < 0 THEN -1 ELSE 1
Lower(a, b) == IF a < b THEN a ELSE b

\* rint of a coordinate, and its truncation where C takes it for an int.
Pixel(a) == Rint(a, Unit)
Truncated(a) == Sgn(a) * (Magnitude(a) \div Unit)

Physics == {"none", "wrap", "concrete", "padded", "rubber", "spring"}
ElasticWalls == {"padded", "rubber", "spring"}

\* Twice the elasticity of a wall.
Elasticity(physics) == CASE physics = "padded" -> 1 [] physics = "spring" -> 3 [] OTHER -> 2

Impacts == {"tank", "land", "wall", "ground", "shield"}
IsImpact(res) == res \in Impacts

-----------------------------------------------------------------------------
(* The control equation. *)

VelocityX(tr) == tr.velx + tr.accx * tr.timestep
VelocityY(tr) == tr.vely - tr.accy * tr.timestep

CurrentX(tr) == tr.ctrx + tr.timestep * tr.velx + (tr.timestep * tr.timestep * tr.accx) \div 2
CurrentY(tr) == tr.ctry + tr.timestep * tr.vely - (tr.timestep * tr.timestep * tr.accy) \div 2

\* sc_traj_new_control_equation: the same time, a new place and velocity.
NewControl(tr, x, y, vx, vy) ==
    LET velx == vx - tr.timestep * tr.accx
        vely == vy + tr.timestep * tr.accy
    IN  [tr EXCEPT !.velx = velx, !.vely = vely,
                   !.ctrx = x - tr.timestep * velx - (tr.timestep * tr.timestep * tr.accx) \div 2,
                   !.ctry = y - tr.timestep * vely + (tr.timestep * tr.timestep * tr.accy) \div 2]

\* sc_traj_revise_velocity, only of a weapon that flies.
ReviseVelocity(tr, vx, vy) ==
    IF tr.type = "flight" THEN NewControl(tr, CurrentX(tr), CurrentY(tr), vx, vy) ELSE tr

\* sc_traj_revise_acceleration
ReviseAcceleration(tr, ax, ay) ==
    NewControl([tr EXCEPT !.accx = ax, !.accy = ay],
               CurrentX(tr), CurrentY(tr), VelocityX(tr), VelocityY(tr))

\* _sc_traj_reset.  A slip of the pen sets lastx twice and lasty never.
TrajReset(tr) ==
    [tr EXCEPT !.victim = -1, !.timestep = 0, !.curx = tr.ctrx, !.cury = tr.ctry,
               !.lastx = tr.ctry, !.dir = 0]

\* sc_traj_new_velocities, "junk" being what the memory held for lasty.
TrajNew(player, x, y, vx, vy, wind, junk) ==
    TrajReset([type |-> "flight", player |-> player, ctrx |-> x, ctry |-> y, velx |-> vx, vely |-> vy,
               accx |-> wind, accy |-> Gravity, oaccx |-> wind, oaccy |-> Gravity,
               curx |-> x, cury |-> y, lastx |-> x, lasty |-> junk,
               timestep |-> 0, finalstep |-> 0, stopstep |-> Timeout,
               landfall_x1 |-> Width, landfall_x2 |-> 0, victim |-> -1, dir |-> 0])

\* _sc_traj_landfall of strack.c, and sc_traj_landfall.
Landfall(tr, x) ==
    [tr EXCEPT !.landfall_x1 = Lower(@, x), !.landfall_x2 = IF @ < x THEN x ELSE @]

TrajLandfall(w, tr) ==
    IF tr.landfall_x1 <= tr.landfall_x2
      THEN SettlePlayers(DropZoneAll(w, tr.landfall_x1, tr.landfall_x2))
      ELSE w

-----------------------------------------------------------------------------
(* Boundaries. *)

\* _sc_traj_pass_wall_elastic: the weapon is put back at the wall, its control
\* equation begins there, and both steps take the elasticity of the wall.
Rebound(s, x, y, wayx, wayy) ==
    LET tr == s.tr
        elastic(v) == Rint(v * Elasticity(s.w.physics), 2)
        velocity(way, v) == IF way = 0 THEN v ELSE -elastic(v)
        step(way, d) == IF way = 0 THEN elastic(d) ELSE way * elastic(Magnitude(d))
    IN  [s EXCEPT !.tr = [tr EXCEPT !.curx = x, !.cury = y, !.ctrx = x, !.ctry = y,
                                    !.velx = velocity(wayx, VelocityX(tr)),
                                    !.vely = velocity(wayy, VelocityY(tr)),
                                    !.stopstep = @ - tr.timestep, !.timestep = 0, !.finalstep = 0],
                  !.dx = step(wayx, @), !.dy = step(wayy, @)]

ReboundSides(s) ==
    CASE Pixel(s.tr.curx) < 0      -> Rebound(s, 0, s.tr.cury, 1, 0)
      [] Pixel(s.tr.curx) >= Width -> Rebound(s, (Width - 1) * Unit, s.tr.cury, -1, 0)
      [] OTHER -> s

ReboundFloor(s) ==
    IF Pixel(s.tr.cury) < 0 /\ s.tr.type = "roller" THEN [s EXCEPT !.res = "ground"]
    ELSE IF Pixel(s.tr.cury) < 0 THEN Rebound(s, s.tr.curx, 0, 0, 1)
    ELSE IF Pixel(s.tr.cury) >= Height THEN Rebound(s, s.tr.curx, (Height - 1) * Unit, 0, -1)
    ELSE s

\* _sc_traj_pass_wall_wrap
WrapAround(tr) ==
    LET shift == (Pixel(tr.curx) \div Width) * Width * Unit
    IN  [tr EXCEPT !.curx = @ - shift, !.ctrx = @ - shift]

\* _sc_traj_pass_wall
PassWall(s) ==
    LET x == Pixel(s.tr.curx)
        y == Pixel(s.tr.cury)
        end(res) == [s EXCEPT !.res = res]
        off == s.tr.curx < -BordersExtend * Unit \/ s.tr.curx > (Width + BordersExtend) * Unit
    IN  IF s.w.physics \in ElasticWalls THEN ReboundFloor(ReboundSides(s))
        ELSE IF s.w.physics = "concrete" /\ (x < 0 \/ x >= Width \/ y >= Height) THEN end("wall")
        ELSE IF y < 0 THEN end("ground")
        ELSE IF s.w.physics = "none" /\ off THEN end("sizzle")
        ELSE IF s.w.physics = "wrap" THEN [s EXCEPT !.tr = WrapAround(@)]
        ELSE s

\* sc_shield_would_impact: from outside the shield to its inside.
CrossesShield(w, tr, p, flags) ==
    LET t == w.tank[p]
        outside(d) == Square(d.x) + Square(d.y) >= Square((Radius + 1) * Unit)
        from(x, y) == Deltas(w, t.x * Unit, t.y * Unit, x, y, Unit)
    IN  /\ t.shield.kind # "none" /\ p # tr.player
        /\ t.shield.kind = "magnetic" => "hit_shields" \in flags
        /\ outside(from(tr.lastx, tr.lasty)) /\ ~outside(from(tr.curx, tr.cury))

\* _sc_traj_pass_shield: the last of the players whose shield is in the way.
Struck(s, players, res) ==
    IF players = {} \/ s.res # "continue" THEN s
    ELSE [s EXCEPT !.tr.victim = Max(players), !.res = res]

PassShield(s, flags) ==
    Struck(s, {p \in Players(s.w) : Alive(s.w.tank[p]) /\ CrossesShield(s.w, s.tr, p, flags)}, "shield")

\* _sc_traj_pass
Pass(s, flags) == PassShield(PassWall(s), flags)

-----------------------------------------------------------------------------
(* Impacts. *)

\* Four fifths of a velocity: SC_TRAJ_TUNNEL_DAMPING.
Damped(v) == Rint(4 * v, 5)

\* _sc_traj_hit_land: dirt stops a weapon, or only slows it where it tunnels.
HitLand(s, flags) ==
    LET tr == s.tr
        vx == Damped(VelocityX(tr))
        vy == Damped(VelocityY(tr))
        x  == Pixel(tr.curx)
        y  == Pixel(tr.cury)
        digs == /\ "tunneling" \in flags /\ tr.type = "flight"
                /\ Square(vx) + Square(vy) >= Square(TunnelMin)
        solid == OnField(s.w, x, y) /\ Ground(s.w, x, y)
    IN  CASE solid /\ digs -> [s EXCEPT !.tr = ReviseAcceleration(ReviseVelocity(tr, vx, vy), 0, 0)]
          [] solid /\ ~digs -> [s EXCEPT !.res = "land"]
          [] ~solid /\ tr.type = "flight" -> [s EXCEPT !.tr = ReviseAcceleration(tr, tr.oaccx, tr.oaccy)]
          [] OTHER -> s

\* _sc_traj_hit: a tank first, also one that has no life left.
HitTank(s) ==
    Struck(s, {p \in Players(s.w) : ~s.w.tank[p].dead
                  /\ WouldImpact(s.w, p, Pixel(s.tr.curx), Pixel(s.tr.cury))}, "tank")

Hit(s, flags) ==
    LET unless_tank(t) == IF t.res = "continue" THEN HitLand(t, flags) ELSE t
    IN  unless_tank(HitTank(s))

\* _sc_traj_pass_or_hit
PassOrHit(s, flags) == Hit(Pass(s, flags), flags)

\* _sc_weapon_track_point, the action at every point passed.
TrackPoint(s) ==
    LET x == Pixel(s.tr.curx)
        y == Pixel(s.tr.cury)
    IN  IF OnField(s.w, x, y) /\ Ground(s.w, x, y)
          THEN [s EXCEPT !.w = ClearPoints(@, {<<x, y>>}),
                         !.tr = Landfall(@, TranslateX(s.w, x, 1).at)]
          ELSE s

-----------------------------------------------------------------------------
(* Flight between two vertices. *)

SamePixel(tr) == Pixel(tr.lastx) = Pixel(tr.curx) /\ Pixel(tr.lasty) = Pixel(tr.cury)

\* On to the next point of the path.
Advance(tr, dx, dy) ==
    [tr EXCEPT !.lastx = tr.curx, !.lasty = tr.cury, !.curx = @ + dx, !.cury = @ + dy]

\* One point of _sc_traj_traverse_path: the ground is looked at where the
\* weapon has come to another pixel.
HitThere(s, flags) == IF SamePixel(s.tr) THEN s ELSE Hit(s, flags)

OnwardFrom(s) ==
    LET point(t) == [t EXCEPT !.tr = Advance(@, t.dx, t.dy)]
    IN  IF s.res = "continue" THEN point(TrackPoint(s)) ELSE s

TraversePoint(s, flags) ==
    IF s.res = "continue" THEN OnwardFrom(HitThere(Pass(s, flags), flags)) ELSE s

\* ceil of the length of a step, in pixels.
Ceiling(d) == (Magnitude(d) + Unit - 1) \div Unit

\* _sc_traj_traverse_path from where the weapon is to (x, y).
TraversePath(w, tr, x, y, flags) ==
    LET dx == x - tr.curx
        dy == y - tr.cury
        steps == IF Ceiling(dx) > Ceiling(dy) THEN Ceiling(dx) ELSE Ceiling(dy)
        start == [w |-> w, tr |-> tr, dx |-> Rint(dx, steps), dy |-> Rint(dy, steps), res |-> "continue"]
    IN  IF steps = 0 THEN [w |-> w, tr |-> tr, dx |-> 0, dy |-> 0, res |-> "continue"]
        ELSE Repeat(LAMBDA s : TraversePoint(s, flags), start, steps)

\* sc_shield_get_reflection off the force shield of p, d being the way to the
\* weapon: the radial velocity is reversed.  The new place is scaled by the
\* square of the radius.  (A weapon at the very middle, where the code divides
\* by zero, stays there: it is stopped at the rim, more than a step away.)
ReflectAt(s, p, d) ==
    LET t  == s.w.tank[p]
        d2 == Max({1, Square(d.x) + Square(d.y)})
        radial == d.x * VelocityX(s.tr) + d.y * VelocityY(s.tr)
        out(k) == Rint(k * Square((Radius + 1) * Unit), d2)
        reflected(x, y) ==
            [NewControl(s.tr, x, y, VelocityX(s.tr) - Rint(2 * radial * d.x, d2),
                                    VelocityY(s.tr) - Rint(2 * radial * d.y, d2))
               EXCEPT !.curx = x, !.cury = y, !.victim = -1]
    IN  [s EXCEPT !.w = AbsorbShot(@, p, FALSE), !.res = "continue",
                  !.tr = reflected(t.x * Unit + out(d.x), t.y * Unit + out(d.y))]

FromTank(s, p, x, y) == Deltas(s.w, s.w.tank[p].x * Unit, s.w.tank[p].y * Unit, x, y, Unit)

Reflect(s, flags) ==
    IF /\ s.res = "shield" /\ "hit_shields" \notin flags
       /\ s.w.tank[s.tr.victim].shield.kind = "force"
      THEN ReflectAt(s, s.tr.victim, FromTank(s, s.tr.victim, s.tr.curx, s.tr.cury))
      ELSE s

\* sc_shield_get_deflection by the magnetic shield of p, which it drains.
PushAway(s, p, d) ==
    LET d2 == Square(d.x) + Square(d.y)
        push(k) == Rint(MagForce * Unit * k, d2)
        near == d2 < Square(MagDist * Unit) /\ d2 > Square(Radius * Unit)
    IN  IF p # s.tr.player /\ s.w.tank[p].shield.kind = "magnetic" /\ near
          THEN [s EXCEPT !.tr = ReviseVelocity(@, VelocityX(@) + push(d.x), VelocityY(@) + push(d.y)),
                         !.w.tank[p].shield = ShieldWith(@, @.life - MagCost)]
          ELSE s

DeflectBy(s, p) == PushAway(s, p, FromTank(s, p, CurrentX(s.tr), CurrentY(s.tr)))

Deflect(s) == InTurn(DeflectBy, s, FromFirst(s.w))

\* The step of time at the end of a vertex, unless something happened.
NextVertex(s) == IF s.res = "continue" THEN [s EXCEPT !.tr.timestep = @ + 1] ELSE s

\* One vertex of _sc_traj_step_flight.
FlightVertex(s, flags) ==
    LET deflected(t) == IF t.res = "continue" THEN Deflect(t) ELSE t
    IN  deflected(NextVertex(Reflect(TraversePath(s.w, s.tr, CurrentX(s.tr), CurrentY(s.tr), flags), flags)))

-----------------------------------------------------------------------------
(* Rollers. *)

\* _sc_traj_roller_setup and the look at what is there.
Probe(s, dx, dy, flags) ==
    PassOrHit([s EXCEPT !.tr.curx = @ + dx, !.tr.cury = @ + dy, !.dx = dx, !.dy = dy], flags)

\* _sc_traj_roller_restore
Restored(s, at) == [s EXCEPT !.tr.curx = at.curx, !.tr.cury = at.cury, !.res = "continue"]

\* _sc_traj_roller_fallthrough: down, else on, else back.
Way(velx, way) ==
    CASE way = "down" -> [x |-> 0, y |-> -Unit]
      [] way = "on"   -> [x |-> Sgn(velx) * Unit, y |-> 0]
      [] way = "back" -> [x |-> -Sgn(velx) * Unit, y |-> 0]

TryWay(acc, way, flags) ==
    LET at == acc.s.tr
        d  == Way(at.velx, way)
        tried(probe) ==
            [free |-> ~IsImpact(probe.res),
             s |-> [Restored(probe, at) EXCEPT
                      !.tr.velx = IF way = "back" /\ ~IsImpact(probe.res) THEN -@ ELSE @]]
    IN  IF acc.free THEN acc ELSE tried(Probe(acc.s, d.x, d.y, flags))

Fallthrough(s, flags) ==
    InTurn(LAMBDA acc, way : TryWay(acc, way, flags), [s |-> s, free |-> FALSE], <<"down", "on", "back">>).s

\* The roller has moved from "at": that was its last place.
Moved(s, at) == [s EXCEPT !.tr.lastx = at.curx, !.tr.lasty = at.cury]

\* A roller with nothing in its way falls, or rolls on.
RollOn(s, at, step, flags) ==
    LET turned == [s EXCEPT !.tr.velx = IF Sgn(s.dx) # Sgn(@) THEN -@ ELSE @]
        after(below) ==
            IF IsImpact(below.res)
              THEN [Restored(below, at) EXCEPT !.tr.curx = @ + Sgn(below.tr.velx) * step]
              ELSE Fallthrough([below EXCEPT !.res = "continue", !.tr.velx = @ + RollerFall * Sgn(@)], flags)
    IN  after(Probe(Restored(Moved(TrackPoint(turned), at), at), 0, -step, flags))

\* A roller in the dirt climbs one or two rows if it is fast enough.
TryClimb(s, at, rows, flags) ==
    LET climbed(probe) ==
            IF IsImpact(probe.res) THEN [Restored(probe, at) EXCEPT !.res = "land"]
            ELSE [Moved(probe, at) EXCEPT !.res = "continue", !.tr.velx = @ - rows * RollerGain * Sgn(@)]
    IN  IF s.res = "continue" \/ Magnitude(s.tr.velx) <= rows * RollerGain THEN s
        ELSE climbed(Probe([Restored(s, at) EXCEPT !.res = "continue"], 0, rows * Unit, flags))

RollUp(s, at, flags) ==
    InTurn(LAMBDA acc, rows : TryClimb(acc, at, rows, flags),
             [Restored(s, at) EXCEPT !.res = "land"], <<1, 2>>)

\* One step of _sc_traj_traverse_roller.
RollerPoint(s, step, flags) ==
    LET after(met) == CASE met.res = "continue" -> RollOn(met, s.tr, step, flags)
                        [] met.res = "land"     -> RollUp(met, s.tr, flags)
                        [] OTHER -> met
    IN  IF s.res # "continue" THEN s
        ELSE after(PassOrHit([s EXCEPT !.dx = step * Sgn(s.tr.velx), !.dy = 0], flags))

\* One vertex of _sc_traj_step_roller: as many steps as it has velocity.
RollerVertex(s, flags) ==
    LET speed == Magnitude(s.tr.velx)
        step(i) == Lower(Unit, speed - (i - 1) * Unit)
    IN  NextVertex(InTurn(LAMBDA acc, i : RollerPoint(acc, step(i), flags), s,
                            FromTo(1, Ceiling(speed))))

\* The conversion of a weapon in flight to a roller (sc_trajectory_convert).
ConvertRoller(w, tr, flags) ==
    LET x == Truncated(tr.lastx - Unit)
        slope == LandHeight(w, x, Truncated(tr.lasty + Unit))
                 - LandHeight(w, Truncated(tr.lastx + Unit), Truncated(tr.lasty + Unit))
        velx == IF slope * tr.velx > 0 THEN -tr.velx ELSE tr.velx
        reset == TrajReset([tr EXCEPT !.type = "roller", !.ctrx = tr.lastx, !.ctry = tr.lasty,
                                      !.velx = velx, !.vely = 0])
    IN  Fallthrough([w |-> w, tr |-> reset, dx |-> 0, dy |-> 0, res |-> "continue"], flags).tr

-----------------------------------------------------------------------------
(* Diggers. *)

\* The remainder of C, which has the sign of what is divided.
Remainder(a, b) == Sgn(a) * (Magnitude(a) % b)

\* _sc_traj_digger_get_direction: down, left, up, and right for all others.
DiggerStep(s, turn) ==
    LET way == Remainder(s.tr.dir + (IF turn < 0 THEN turn + 4 ELSE turn), 4)
        dx  == CASE way \in {0, 2} -> 0 [] way = 1 -> -Unit [] OTHER -> Unit
        dy  == CASE way = 0 -> -Unit [] way = 2 -> Unit [] OTHER -> 0
    IN  [s EXCEPT !.dx = dx, !.dy = dy, !.tr.curx = @ + dx, !.tr.cury = @ + dy]

\* _sc_traj_digger_direction_clear: dirt there, or one pixel behind a gap.  The
\* weapon is not put back.
OverGap(s, flags) ==
    IF s.res = "continue" THEN Hit([s EXCEPT !.tr.curx = @ + s.dx, !.tr.cury = @ + s.dy], flags) ELSE s

DirectionClear(s, turn, flags) ==
    LET seen(met) == [good |-> met.res = "land",
                      s |-> [met EXCEPT !.res = "continue",
                               !.tr.dir = IF met.res = "land" THEN Remainder(@ + turn, 4) ELSE @]]
    IN  seen(OverGap(Hit(DiggerStep(s, turn), flags), flags))

\* _sc_traj_digger_reselect_dir
ReselectDir(s, turn, flags) ==
    LET try(acc, t) == IF acc.good THEN acc ELSE DirectionClear(acc.s, t, flags)
    IN  InTurn(try, [s |-> s, good |-> FALSE], <<turn, -turn, 2, 0>>).s

\* One step of _sc_traj_traverse_digger, draw.turn being 0 when it goes on.
DiggerPoint(s, draw, flags) ==
    LET dug(t) == IF draw.turn = 0 THEN t ELSE ReselectDir(t, draw.turn, flags)
        after(met) == CASE met.res = "land" -> dug(TrackPoint([met EXCEPT !.res = "continue"]))
                        [] met.res = "tank" -> met
                        [] OTHER -> [met EXCEPT !.res = "sizzle"]
    IN  IF s.res # "continue" THEN s ELSE after(Hit(DiggerStep(s, 0), flags))

\* One vertex of _sc_traj_step_digger.
DiggerVertex(s, draw, flags) ==
    NextVertex(Repeat(LAMBDA acc : DiggerPoint(acc, draw, flags), s,
                      Ceiling(s.tr.timestep * Magnitude(s.tr.velx))))

\* The conversion of a weapon in flight to a digger.
ConvertDigger(w, tr, flags, draw) ==
    LET ground == LandHeight(w, Truncated(tr.curx), Height) * Unit
        reset == TrajReset([tr EXCEPT !.type = "digger", !.ctrx = tr.curx,
                                      !.ctry = IF ground > tr.cury THEN ground ELSE tr.cury, !.vely = 0])
        s == [w |-> w, tr |-> reset, dx |-> 0, dy |-> 0, res |-> "continue"]
    IN  ReselectDir(s, draw.dir, flags).tr

-----------------------------------------------------------------------------
(* A step of a trajectory. *)

Vertex(s, draw, flags) ==
    CASE s.tr.type = "flight" -> FlightVertex(s, flags)
      [] s.tr.type = "roller" -> RollerVertex(s, flags)
      [] s.tr.type = "digger" -> DiggerVertex(s, draw, flags)

\* sc_traj_step: vertices until the final step, which a rebound moves.
TrajStep(w, tr, draw, flags) ==
    LET start == [w |-> w, tr |-> [tr EXCEPT !.finalstep = Lower(tr.timestep + SubSteps, tr.stopstep)],
                  dx |-> 0, dy |-> 0, res |-> "continue"]
        next(s) == IF s.res = "continue" /\ s.tr.timestep <= s.tr.finalstep
                        THEN Vertex(s, draw, flags) ELSE s
    IN  IF tr.timestep >= tr.stopstep THEN [start EXCEPT !.res = "sizzle"]
        ELSE Repeat(next, start, SubSteps + 1)
=============================================================================
