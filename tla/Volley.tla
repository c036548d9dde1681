------------------------------- MODULE Volley -------------------------------
(***************************************************************************)
(* A turn on the battlefield, from the orders to the end of the last       *)
(* explosion: the weapons of all players are launched and tracked          *)
(* (sgame/sweapon.c, sgame/strack.c), they split, convert and go off       *)
(* (sgame/sphoenix.c), explosions change the land and hurt tanks, tanks    *)
(* fall and die, which are more explosions (the run states of              *)
(* sgame/sstate.c, explosions one at a time).                              *)
(*                                                                         *)
(* The world is that of Landscape with                                     *)
(*   physics   the walls of the field,                                     *)
(*   fast      whether graphics are fast,                                  *)
(*   expl      the explosions that wait, shots the weapons of each player. *)
(* The queues of explosions are in ExplosionQueues, the rest of the state  *)
(* machine in GameState, inventories and money in Equipment.               *)
(***************************************************************************)
EXTENDS Trajectory

CONSTANTS
    NumPlayers,     \* number of players
    Rounds,         \* the rounds there may be: records with the walls (physics),
                    \* fast, the landscape, the places and the outfits of players
    Info,           \* the weapons, by name
    Orders,         \* what each player may order in each turn
    Draws,          \* the random draws of a step, with the wind and with what
                    \* uninitialised memory holds
    Tunneling,      \* whether weapons tunnel
    SpiderArc,      \* SC_PHOENIX_SPIDER_ARC
    FrogMin, FrogMax, \* bounds of the velocity of a frog
    Fuel,           \* steps a player can drive
    Turns           \* bound: turns of a round

VARIABLES
    world,   \* the field
    phase,   \* the run state
    stage,   \* how far the first explosion is
    sub,     \* g->substate
    orders,  \* the orders of the players that are armed
    fuel,    \* steps left to each player
    turn,    \* turns begun
    balanced, \* whether nobody hung in the air when the orders were carried out,
             \* or everybody has come down since
    idle     \* calls of the timer that changed nothing since the last that did, modulo 2

-----------------------------------------------------------------------------
(* What is given. *)

Player == 0 .. NumPlayers - 1

\* A round: its walls, its landscape, and where and how players begin.
Outfit == [shield : {"none"} \cup ShieldKinds, spare : Nat, recharger : BOOLEAN]
Round == [physics : Physics, fast : BOOLEAN, land : SUBSET (Columns \X Rows),
          places : [Player -> Player], outfits : [Player -> Outfit]]

\* A weapon: its explosion, and what it becomes where.
WeaponInfo == [radius : Nat, force : Nat, type : ExplosionTypes, liquid : Nat,
               roller : BOOLEAN, digger : BOOLEAN, sapper : BOOLEAN,
               at : SUBSET {"land", "apex", "rand", "tank"},
               how : SUBSET {"detonate", "convert", "chain", "spider", "scatter"},
               child : {"none"} \cup DOMAIN Info, count : Nat, scatter : Int]

\* A shot, with its place at the turret and its velocity.
Order == [weapon : DOMAIN Info, x : Int, y : Int, vx : Int, vy : Int,
          triggered : BOOLEAN, triple : BOOLEAN]

\* What is drawn in a step.
Draw == [dir : {-1, 1}, stages : 0 .. 3, turn : -1 .. 1, fire : BOOLEAN, legs : Seq(Int),
         wind : Int, junk : Int]

ASSUME VolleyAssumption ==
    /\ {NumPlayers, Turns} \subseteq Nat \ {0}
    /\ Width > NumPlayers
    /\ {SpiderArc, FrogMin, FrogMax, Fuel} \subseteq Nat
    /\ Rounds # {} /\ Draws # {}
    /\ Rounds \subseteq Round /\ Draws \subseteq Draw
    /\ \A name \in DOMAIN Info : Info[name] \in WeaponInfo
    /\ \A n \in 1 .. Turns, p \in Player : Orders[n][p] \subseteq Order

turnvars == <<world, phase, stage, sub, orders, fuel, turn, balanced>>
vars == <<turnvars, idle>>

NoOrder == [weapon |-> "none"]

-----------------------------------------------------------------------------
(* Weapons. *)

\* SC_WEAPON_TRAJ_FLAGS
TrajFlags(wp) ==
    (IF Tunneling /\ ~wp.triggered THEN {"tunneling"} ELSE {})
    \cup (IF wp.info.sapper THEN {"hit_shields"} ELSE {})

\* sc_weapon_new
WeaponNew(info, p, x, y, vx, vy, triggered, draw) ==
    [info |-> info, playerid |-> p, triggered |-> triggered, defer |-> FALSE,
     children |-> 0, exp |-> 100, tr |-> TrajNew(p, x, y, vx, vy, draw.wind, draw.junk)]

\* The radius of an explosion of a weapon, reduced by exp_res per cent.
RealRadius(wp, radius) == (wp.exp * radius) \div 100

\* sc_weapon_get_explosion, its spill left to AddBlast.
GetExplosion(wp) ==
    ExplNew(Truncated(wp.tr.curx), Truncated(wp.tr.cury), RealRadius(wp, wp.info.radius),
            wp.info.force, wp.playerid, wp.info.type)

GoesOff(wp) == RealRadius(wp, wp.info.radius) > 0
GoOff(w, wp, draw) == AddBlast(w, GetExplosion(wp), wp.info.liquid, draw.dir)

-----------------------------------------------------------------------------
(* Phoenixes: weapons that become others.  Each gives the world, the result *)
(* and the weapons that take their place behind the old one.                *)

Outcome(w, res, wp, new) == [w |-> w, res |-> res, wp |-> wp, new |-> new]

\* _sc_phoenix_detonate
PhoenixDetonate(w, wp, draw) ==
    Outcome(GoOff(w, wp, draw), IF GoesOff(wp) THEN "detonate" ELSE "failure", wp, <<>>)

\* _sc_phoenix_convert: rollers and diggers come down to the ground.
PhoenixConvert(w, wp, draw) ==
    LET converted(tr) == Outcome(w, "reset", [wp EXCEPT !.tr = tr], <<>>)
    IN  CASE wp.tr.type # "flight" -> Outcome(w, "none", wp, <<>>)
          [] wp.tr.type = "flight" /\ wp.info.roller /\ wp.tr.victim >= 0 -> PhoenixDetonate(w, wp, draw)
          [] wp.tr.type = "flight" /\ wp.info.roller /\ wp.tr.victim < 0 ->
                converted(ConvertRoller(w, wp.tr, TrajFlags(wp)))
          [] OTHER -> converted(ConvertDigger(w, wp.tr, TrajFlags(wp), draw))

\* The speed of a frog, within its bounds.
FrogSpeed(v, exp) ==
    LET speed == (Magnitude(v) * exp) \div 100
    IN  IF speed < FrogMin THEN FrogMin ELSE IF speed > FrogMax THEN FrogMax ELSE speed

\* _sc_phoenix_chain: a smaller copy leaps on, the old one goes off.
PhoenixChain(w, wp, draw) ==
    LET y     == TranslateY(w, wp.tr.cury, Unit).at
        high  == IF y <= 0 THEN Unit ELSE y
        here  == [wp EXCEPT !.tr.cury = high]
        exp   == (wp.exp * 85) \div 100
        vx    == VelocityX(wp.tr)
        speed == FrogSpeed(vx, exp)
        frog  == [WeaponNew(wp.info, wp.playerid, wp.tr.curx, high,
                            IF vx < 0 THEN -speed ELSE speed, FrogSpeed(VelocityY(wp.tr), exp),
                            wp.triggered, draw)
                    EXCEPT !.defer = TRUE, !.exp = exp, !.children = wp.children + 1]
        child == Info[wp.info.child]
        blast == [GetExplosion(here) EXCEPT !.radius = RealRadius(wp, child.radius), !.force = child.force]
    IN  IF wp.children >= wp.info.count THEN Outcome(w, "none", wp, <<>>)
        ELSE IF GoesOff(wp) THEN Outcome(AddBlast(w, blast, wp.info.liquid, draw.dir), "detonate", here, <<frog>>)
        ELSE Outcome(w, "failure", here, <<frog>>)

\* _sc_phoenix_spider: the weapon goes off, and so do its legs, on the ground
\* not too far up.
PhoenixSpider(w, wp, draw) ==
    LET child == Info[wp.info.child]
        x(d)  == Truncated(wp.tr.curx) + d
        y(d)  == LandHeight(w, x(d), Height)
        leg(d) == ExplNew(x(d), y(d), RealRadius(wp, child.radius), child.force, wp.playerid, "spider")
        low(d) == y(d) * Unit <= wp.tr.cury + SpiderArc * Unit
        add(acc, d) == IF low(d) THEN [acc EXCEPT !.expl = ExplAdd(@, leg(d))] ELSE acc
    IN  IF GoesOff(wp) THEN Outcome(InTurn(add, GoOff(w, wp, draw), draw.legs), "detonate", wp, <<>>)
        ELSE Outcome(w, "failure", wp, <<>>)

Isqrt(n) == Max({k \in 0 .. n : k * k <= n})

\* _sc_phoenix_scatter: children with velocities spread along the old one's.
PhoenixScatter(w, wp, draw) ==
    LET vx == VelocityX(wp.tr)
        vy == VelocityY(wp.tr)
        v  == Isqrt(Square(vx) + Square(vy))
        n  == wp.info.count
        spread == IF n > 1 THEN wp.info.scatter ELSE 0
        sx == IF v = 0 THEN spread ELSE Rint(spread * vx, v)
        sy == IF v = 0 THEN 0 ELSE Rint(spread * vy, v)
        child(k) == WeaponNew(Info[wp.info.child], wp.playerid, wp.tr.curx, wp.tr.cury,
                              vx + Rint(sx * (2 * k - n), 2 * n), vy + Rint(sy * (2 * k - n), 2 * n),
                              wp.triggered, draw)
    IN  Outcome(w, "sizzle", wp, [k \in 1 .. n |-> child(k)])

\* sc_phoenix: what the weapon is flagged for, in this order.  All but a mere
\* detonation take children.
Phoenix(w, wp, draw) ==
    LET how == wp.info.how
        needy == wp.info.child # "none" /\ wp.info.count > 0
    IN  CASE "detonate" \in how -> PhoenixDetonate(w, wp, draw)
          [] "detonate" \notin how /\ needy /\ "convert" \in how -> PhoenixConvert(w, wp, draw)
          [] "detonate" \notin how /\ needy /\ "chain" \in how   -> PhoenixChain(w, wp, draw)
          [] "detonate" \notin how /\ needy /\ "spider" \in how  -> PhoenixSpider(w, wp, draw)
          [] "detonate" \notin how /\ needy /\ "scatter" \in how -> PhoenixScatter(w, wp, draw)
          [] OTHER -> Outcome(w, "none", wp, <<>>)

-----------------------------------------------------------------------------
(* Tracking. *)

\* The weapon ends: its landfall, and its children in its place.
Ended(o, res) ==
    [w |-> TrajLandfall(o.w, o.wp.tr), res |-> res, chain |-> o.new]

StillThere(o) == [w |-> o.w, res |-> "recurse", chain |-> <<o.wp>> \o o.new]

\* A weapon that passes an apex or a moment of chance and is flagged for it.
SplitInFlight(o) == IF o.res \in {"detonate", "sizzle"} THEN Ended(o, o.res) ELSE StillThere(o)

\* A weapon that hit something goes off, unless it became something else: one
\* explosion is added at a time, and the others wait.
ImpactLand(o, draw) ==
    CASE o.res \in {"detonate", "sizzle"} -> Ended(o, o.res)
      [] o.res = "reset" -> StillThere(o)
      [] o.res \notin {"detonate", "sizzle", "reset"} /\ o.w.expl = <<>> ->
            Ended([o EXCEPT !.w = GoOff(@, o.wp, draw)], "detonate")
      [] OTHER -> StillThere(o)

\* What a step has led to.
Arrived(step, wp, draw) ==
    LET moved    == [wp EXCEPT !.tr = step.tr]
        goingup  == VelocityY(wp.tr) >= 0 \/ wp.tr.timestep = 0
        apex     == goingup /\ VelocityY(step.tr) <= 0 /\ "apex" \in wp.info.at
        absorbed == step.res = "shield" /\ wp.info.type \notin Liquids
        still    == Outcome(step.w, "none", moved, <<>>)
    IN  IF absorbed THEN Ended([still EXCEPT !.w = AbsorbShot(@, step.tr.victim, wp.info.sapper)], "sizzle")
        ELSE IF step.res = "sizzle" THEN Ended(still, "sizzle")
        ELSE IF IsImpact(step.res)
          THEN ImpactLand(IF "land" \in wp.info.at THEN Phoenix(step.w, moved, draw) ELSE still, draw)
        ELSE IF apex \/ ("rand" \in wp.info.at /\ draw.fire) THEN SplitInFlight(Phoenix(step.w, moved, draw))
        ELSE StillThere(still)

\* _sc_weapon_track
Track(w, wp, draw) ==
    IF wp.defer THEN StillThere(Outcome(w, "none", [wp EXCEPT !.defer = FALSE], <<>>))
    ELSE Arrived(TrajStep(w, wp.tr, draw, TrajFlags(wp)), wp, draw)

\* _sc_weapon_track_chain.  A weapon that has ended gives way to the next, its
\* children first, in the same pass.
Relink(s, t) ==
    LET ended == t.res # "recurse"
    IN  [w    |-> t.w,
         todo |-> IF ended THEN t.chain \o Tail(s.todo) ELSE Tail(t.chain) \o Tail(s.todo),
         done |-> IF ended THEN s.done ELSE Append(s.done, Head(t.chain)),
         res  |-> IF t.res = "detonate" THEN "detonate"
                  ELSE IF t.res = "recurse" /\ s.res = "none" THEN "recurse" ELSE s.res]

TrackNext(s, draw) ==
    IF s.todo = <<>> THEN s ELSE Relink(s, Track(s.w, Head(s.todo), draw))

\* Bound: the most weapons one pass over a chain meets.  What there is beyond
\* them waits for the next pass.
MostWeapons == 12

TrackChain(s, p, draw) ==
    LET start == [w |-> s.w, todo |-> s.w.shots[p], done |-> <<>>, res |-> s.res]
        waiting(end) == end.res = "none" /\ end.todo # <<>>
        stored(end) == [w |-> [end.w EXCEPT !.shots[p] = end.done \o end.todo],
                        res |-> IF waiting(end) THEN "recurse" ELSE end.res]
    IN  stored(Repeat(LAMBDA acc : TrackNext(acc, draw), start, MostWeapons))

\* sc_weapon_track_all
TrackAll(w, draw) ==
    InTurn(LAMBDA s, p : TrackChain(s, p, draw), [w |-> w, res |-> "none"], FromFirst(w))

-----------------------------------------------------------------------------
(* Launch. *)

\* A weapon fired from a triple turret splits at once into three of its kind.
Tripled(order) ==
    LET info == Info[order.weapon]
    IN  IF order.triple
          THEN [info EXCEPT !.at = @ \cup {"tank"}, !.how = @ \cup {"scatter"},
                            !.child = order.weapon, !.count = 3, !.scatter = Unit]
          ELSE info

\* _sc_weapon_fire_new
Fired(s, p, o, plain) ==
    LET chained(w, chain) == [w EXCEPT !.shots[p] = chain]
    IN  CASE o.res \in {"none", "reset"} ->
                [s EXCEPT !.w = chained(s.w, <<[o.wp EXCEPT !.info = plain]>>)]
          [] o.res = "failure" -> [s EXCEPT !.w = chained(o.w, <<>>)]
          [] OTHER -> [w |-> chained(TrajLandfall(o.w, o.wp.tr), o.new),
                       explosions |-> s.explosions \/ o.res = "detonate"]

FireNew(s, p, order, draw) ==
    LET t  == s.w.tank[p]
        wp == WeaponNew(Tripled(order), p, t.x * Unit + order.x, t.y * Unit + order.y,
                        order.vx, order.vy, order.triggered, draw)
    IN  Fired(s, p, IF "tank" \in wp.info.at THEN Phoenix(s.w, wp, draw) ELSE Outcome(s.w, "none", wp, <<>>),
              Info[order.weapon])

\* sc_weapon_create_all
CreateAll(w, draw) ==
    LET fire(s, p) == IF orders[p] = NoOrder \/ w.tank[p].dead THEN s ELSE FireNew(s, p, orders[p], draw)
    IN  InTurn(fire, [w |-> w, explosions |-> FALSE], FromLast(w))
-----------------------------------------------------------------------------
(* The run states. *)

\* sc_player_init_round: players share the field evenly, each on a shelf.
StandAt(index) == Rint((index + 1) * Width, NumPlayers + 1)

PlayerInitRound(w, p, index) ==
    LET x == StandAt(index)
        y == AvgHeightAround(w, x, Height, Radius)
    IN  LevelAround([w EXCEPT !.tank[p].x = x, !.tank[p].y = y], x, Radius, y)

Tank(outfit) ==
    [x |-> 0, y |-> 0, life |-> FullLife, dead |-> FALSE, killedby |-> -1, kills |-> 0, suicides |-> 0,
     shield |-> IF outfit.shield = "none" THEN NoShield ELSE NewShield(outfit.shield),
     spare |-> outfit.spare, recharger |-> outfit.recharger]

\* Everybody has come to rest.
Settled(w) == ~PlayerDropAll(w).moved

\* sc_config_init_turn
InitTurn(w) ==
    LET init(acc, p) == IF Alive(acc.tank[p]) THEN PlayerInitTurn(acc, p) ELSE acc
    IN  InTurn(init, w, FromLast(w))

\* sc_config_init_round
InitRound(r) ==
    LET field == [walls |-> LandFlags(r.physics), physics |-> r.physics, fast |-> r.fast,
                  land |-> r.land, expl |-> <<>>, shots |-> [p \in Player |-> <<>>],
                  tank |-> [p \in Player |-> Tank(r.outfits[p])]]
    IN  InTurn(LAMBDA w, p : PlayerInitRound(w, p, r.places[p]), field, FromTo(0, NumPlayers - 1))

Init ==
    /\ \E r \in Rounds : world = InitTurn(InitRound(r))
    /\ phase = "aim" /\ stage = "init" /\ sub = 0 /\ turn = 1 /\ idle = 0
    /\ balanced = FALSE
    /\ orders = [p \in Player |-> NoOrder]
    /\ fuel = [p \in Player |-> Fuel]

\* The player ends its turn: it is armed.
Aim(p) ==
    /\ phase = "aim" /\ Alive(world.tank[p]) /\ orders[p] = NoOrder
    /\ \E order \in Orders[turn][p] : orders' = [orders EXCEPT ![p] = order]
    /\ UNCHANGED <<world, phase, stage, sub, fuel, turn, balanced>>

\* sc_player_move
Drive(p) ==
    /\ phase = "aim" /\ Alive(world.tank[p]) /\ orders[p] = NoOrder /\ fuel[p] > 0
    /\ \E delta \in {-1, 1} :
          /\ CanMove(world, p, delta)
          /\ world' = PlayerMove(world, p, delta)
    /\ fuel' = [fuel EXCEPT ![p] = @ - 1]
    /\ UNCHANGED <<phase, stage, sub, orders, turn, balanced>>

\* _sc_state_run_creation, once everybody is armed.
RunCreation ==
    /\ phase = "aim"
    /\ \A p \in Player : Alive(world.tank[p]) => orders[p] # NoOrder
    /\ \E draw \in Draws :
          \E s \in {CreateAll(world, draw)} :
              /\ world' = s.w
              /\ phase' = IF s.explosions THEN "explosion" ELSE "weapons"
    /\ orders' = [p \in Player |-> NoOrder]
    /\ balanced' = Settled(world)
    /\ UNCHANGED <<stage, sub, fuel, turn>>

\* _sc_state_run_weapons
RunWeapons ==
    /\ phase = "weapons"
    /\ \E draw \in Draws :
          \E s \in {TrackAll(world, draw)} :
              /\ world' = s.w
              /\ phase' = CASE s.res = "none" -> "end"
                            [] s.res = "detonate" -> "explosion"
                            [] OTHER -> IF s.w.expl # <<>> THEN "explosion" ELSE "weapons"
    /\ UNCHANGED <<stage, sub, orders, fuel, turn, balanced>>

\* _sc_state_run_draw_expl and its continuation.
DrawExpl ==
    /\ phase = "explosion" /\ stage = "init" /\ world.expl # <<>>
    /\ world' = Annihilate(world, Head(world.expl))
    /\ stage' = "clear"
    /\ UNCHANGED <<phase, sub, orders, fuel, turn, balanced>>

\* _sc_state_run_clear_expl and its continuation.
ClearExpl ==
    /\ phase = "explosion" /\ stage = "clear"
    /\ LET e == Head(world.expl)
       IN  world' = AnnihilateDone(DamageAll(world, e), e)
    /\ stage' = "done"
    /\ UNCHANGED <<phase, sub, orders, fuel, turn, balanced>>

\* _sc_state_run_land_fall
LandFall ==
    /\ phase = "explosion" /\ stage = "done"
    /\ \E drop \in {Drop(world, Head(world.expl).x, Head(world.expl).radius)} :
           IF drop.more
             THEN world' = drop.w /\ UNCHANGED stage
             ELSE world' = [drop.w EXCEPT !.expl = Tail(@)] /\ stage' = "init"
    /\ UNCHANGED <<phase, sub, orders, fuel, turn, balanced>>

\* A slip: the dead are counted before the tanks have fallen.
ExplosionsOverNoDrop ==
    /\ phase = "explosion" /\ world.expl = <<>>
    /\ phase' = "death" /\ sub' = 0
    /\ UNCHANGED <<world, stage, orders, fuel, turn, balanced>>

\* _sc_state_run_explosion with nothing left to do.
ExplosionsOver ==
    /\ phase = "explosion" /\ world.expl = <<>>
    /\ phase' = "drop"
    /\ UNCHANGED <<world, stage, sub, orders, fuel, turn, balanced>>

\* _sc_state_run_player_drop
RunPlayerDrop ==
    /\ phase = "drop"
    /\ \E s \in {PlayerDropAll(world)} :
           /\ world' = s.w
           /\ phase' = IF s.moved THEN "drop" ELSE "death"
           /\ sub' = IF s.moved THEN sub ELSE 0
           /\ balanced' = (balanced \/ ~s.moved)
    /\ UNCHANGED <<stage, orders, fuel, turn>>

\* _sc_state_run_player_death
Dies(p) == ~world.tank[p].dead /\ world.tank[p].life <= 0

RunPlayerDeath ==
    /\ phase = "death"
    /\ IF sub >= NumPlayers
         THEN phase' = "weapons" /\ UNCHANGED <<world, sub>>
       ELSE IF Dies(sub)
         THEN /\ \E draw \in Draws : world' = PlayerDied(PlayerDeath(world, sub, draw), sub)
              /\ phase' = "explosion" /\ sub' = sub + 1
         ELSE sub' = sub + 1 /\ UNCHANGED <<world, phase>>
    /\ UNCHANGED <<stage, orders, fuel, turn, balanced>>

\* The next turn of the round, sc_config_init_turn.
NextTurn ==
    /\ phase = "end" /\ turn < Turns
    /\ phase' = "aim"
    /\ turn' = turn + 1
    /\ world' = InitTurn(world)
    /\ UNCHANGED <<stage, sub, orders, fuel, balanced>>

\* The bound on turns.
RoundOver == phase = "end" /\ turn = Turns /\ UNCHANGED turnvars

Run == \/ RunCreation \/ RunWeapons
       \/ DrawExpl \/ ClearExpl \/ LandFall \/ ExplosionsOver
       \/ RunPlayerDrop \/ RunPlayerDeath

\* A call of the timer.  One that changes nothing is not a stutter.
Timer == Run /\ idle' = IF turnvars' = turnvars THEN 1 - idle ELSE 0

Other == NextTurn \/ RoundOver \/ (\E p \in Player : Aim(p) \/ Drive(p))

Next == Timer \/ (Other /\ UNCHANGED idle)

\* The timer runs the machine as long as it has something to do.  While that is
\* so only Timer has steps, it always has one (or TLC would report a deadlock),
\* and none of them is a stutter: this is weak fairness of Timer.
Pending == phase \notin {"aim", "end"}
TimerRuns == <>[]Pending => []<><<Pending>>_vars

Spec == Init /\ [][Next]_vars /\ TimerRuns

-----------------------------------------------------------------------------
(* Properties. *)

\* The field, the tanks and the phases of a turn are what they should be.
FieldTypeOK ==
    /\ world.land \subseteq Columns \X Rows
    /\ phase \in {"aim", "weapons", "explosion", "drop", "death", "end"}
    /\ stage \in {"init", "clear", "done"}
    /\ sub \in 0 .. NumPlayers /\ turn \in 1 .. Turns /\ idle \in {0, 1}
    /\ fuel \in [Player -> 0 .. Fuel]
    /\ \A p \in Player :
          LET t == world.tank[p]
          IN  /\ TranslateX(world, t.x, 1).ok /\ t.y \in 0 .. Height
              /\ t.life \in 0 .. FullLife /\ t.shield.life \in 0 .. ShieldLife
              /\ (t.shield.kind = "none") <=> (t.shield.life = 0)
              /\ t.dead => t.life = 0

\* When a turn has ended nothing flies or waits to go off, whoever lost his
\* life has been buried, and no tank hangs in the air that did not when the
\* shooting began: whatever dug, blew or slid the ground away below it, it came
\* down before the next orders.  (One may have hung there before: when another
\* tank drove away below it, or dirt was cleared off that tank.)
\* (Stated with the types: no shield outlasts its life, no dead tank has any.)
SettledAtEnd ==
    FieldTypeOK /\ (phase = "end" =>
        /\ world.expl = <<>> /\ \A p \in Player : world.shots[p] = <<>>
        /\ \A p \in Player : ~Dies(p)
        /\ balanced => Settled(world))

\* Every tank that lost its life did so once: it is one credit of the owner of
\* the explosion that killed it, or a suicide, through all the explosions of
\* dying tanks that hit it again (_sc_player_damage).
DeathsScored ==
    LET lifeless == {p \in Player : world.tank[p].life = 0}
        victims(p) == {q \in lifeless : world.tank[q].killedby = p}
    IN  \A p \in Player :
            /\ world.tank[p].kills = Cardinality(victims(p) \ {p})
            /\ world.tank[p].suicides = Cardinality(victims(p) \cap {p})
            /\ world.tank[p].killedby \in (IF p \in lifeless THEN Player ELSE {Nobody})

\* What an explosion does to the land: every cell within its radius becomes
\* sky, or dirt, and no cell changes that is not within it or beside one that
\* is, however the columns of the circle are computed and wherever the field
\* ends (_sc_expl_annihilate_circular).
InReach(e, x, y) == Square(x - e.x) + Square(y - e.y) <= Square(e.radius)
Beside(e, x, y) == \E dx, dy \in -1 .. 1 : InReach(e, x + dx, y + dy)

Whichever(e, x, y, close(_, _, _)) ==
    \E cx \in e.x - e.radius .. e.x + e.radius :
        TranslateX(world, cx, 1) = [ok |-> TRUE, at |-> x] /\ close(e, cx, y)

BlastShape ==
    [][phase = "explosion" /\ stage # "done" /\ world.expl # <<>> =>
        LET e == Head(world.expl)
        IN  e.type \in (IF stage = "init" THEN {"dirt", "riot"} ELSE {"normal", "plasma", "spider"}) =>
            \A x \in Columns, y \in Rows :
                /\ Whichever(e, x, y, InReach) => (<<x, y>> \in world'.land <=> e.type = "dirt")
                /\ (<<x, y>> \in world.land) # (<<x, y>> \in world'.land) => Whichever(e, x, y, Beside)]_vars

\* Falling dirt is neither lost nor made, stays in its column, and none of it
\* rises (_sc_land_drop_column).
DirtKept ==
    [][stage = "done" /\ world.land # world'.land =>
        \A x \in Columns :
            LET before == Column(world, x)
                after  == Column(world', x)
                upto(rows, y) == {k \in rows : k <= y}
            IN  /\ Cardinality(before) = Cardinality(after)
                /\ \A y \in Rows : Cardinality(upto(before, y)) <= Cardinality(upto(after, y))]_vars

\* Every volley comes to an end: weapons time out however often they rebound,
\* split or leap, dirt and tanks come to rest, and a chain of dying tanks is
\* over when all are dead.
VolleyEnds == phase = "weapons" ~> phase = "end"
=============================================================================
