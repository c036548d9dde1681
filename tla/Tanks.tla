------------------------------- MODULE Tanks --------------------------------
(***************************************************************************)
(* What happens to tanks on the field (sgame/splayer.c, sgame/sshield.c):  *)
(* they are hit, their shields take what they can, they lose their footing *)
(* and fall or slide, they drive, and they die.                            *)
(*                                                                         *)
(* A tank is a record with x, y, life, dead, killedby, kills, suicides,    *)
(* shield and spare, the shields its auto defense still has in stock.      *)
(* Money is in Equipment, fuel in Inventory.                               *)
(***************************************************************************)
EXTENDS Blast

CONSTANTS
    FullLife,     \* the life of a tank at the beginning of a round
    ShieldLife,   \* the life of a new shield
    Recharge,     \* SC_SHIELD_RECHARGE_RATE
    AbsorbHit,    \* SC_SHIELD_ABSORB_HIT
    SapperRate,   \* SC_SHIELD_SAPPER_RATE
    TankDrop,     \* SC_TANK_MAX_DROP_PER_CYCLE
    Climb         \* SC_TANK_CLIMB_HEIGHT

ASSUME TanksAssumption ==
    /\ {FullLife, ShieldLife, TankDrop} \subseteq Nat \ {0}
    /\ {Recharge, AbsorbHit, SapperRate, Climb} \subseteq Nat

\* The kinds of shields there are.
ShieldKinds == {"standard", "force", "magnetic"}
NoShield == [kind |-> "none", life |-> 0]
NewShield(kind) == [kind |-> kind, life |-> ShieldLife]

\* Players from the last to the first, as most loops go.
FromLast(w) == [i \in 1 .. Cardinality(Players(w)) |-> Cardinality(Players(w)) - i]
FromFirst(w) == FromTo(0, Cardinality(Players(w)) - 1)

-----------------------------------------------------------------------------
(* Shields. *)

\* A shield that has no life left is freed.
ShieldWith(shield, life) == IF life <= 0 THEN NoShield ELSE [shield EXCEPT !.life = life]

\* sc_shield_absorb_hit
AbsorbShot(w, p, sapper) ==
    LET loss == IF sapper THEN AbsorbHit * SapperRate ELSE AbsorbHit
    IN  [w EXCEPT !.tank[p].shield = IF @.kind = "none" THEN @ ELSE ShieldWith(@, @.life - loss)]

\* sc_shield_absorb_explosion: what is left of the damage.
Unabsorbed(t, e, damage) ==
    IF t.shield.kind = "none" THEN damage
    ELSE IF t.shield.life <= damage /\ e.type # "napalm" THEN damage - t.shield.life
    ELSE 0

\* sc_player_activate_auto_shield
AutoShield(t) ==
    IF t.spare > 0 THEN [t EXCEPT !.shield = NewShield("standard"), !.spare = @ - 1] ELSE t

\* sc_shield_init_turn
ShieldInitTurn(t) ==
    IF t.shield.kind = "none" \/ ~t.recharger THEN t
    ELSE [t EXCEPT !.shield.life = Min({ShieldLife, @ + Recharge})]

-----------------------------------------------------------------------------
(* Damage. *)

\* The credit for a tank that has just lost its life.
Credit(w, p, killer) ==
    IF killer = p THEN [w EXCEPT !.tank[p].suicides = @ + 1]
    ELSE [w EXCEPT !.tank[killer].kills = @ + 1]

\* A slip: a tank that has lost its life can lose it again.
WoundAnew(w, p, e, force) ==
    LET t    == w.tank[p]
        loss == Unabsorbed(t, e, force)
    IN  IF t.dead \/ loss <= 0 THEN w
        ELSE IF t.life > loss THEN [w EXCEPT !.tank[p].life = @ - loss]
        ELSE Credit([w EXCEPT !.tank[p].life = 0, !.tank[p].killedby = e.playerid], p, e.playerid)

\* _sc_player_damage, with the force of the explosion where the tank is.
Wound(w, p, e, force) ==
    LET t    == w.tank[p]
        loss == Unabsorbed(t, e, force)
        left == t.life - loss
        hit  == [t EXCEPT !.shield = IF @.kind = "none" THEN @ ELSE ShieldWith(@, @.life - force)]
    IN  IF ~Alive(t) \/ force <= 0 THEN w
        ELSE IF loss <= 0 THEN [w EXCEPT !.tank[p] = hit]
        ELSE IF left > 0 THEN [w EXCEPT !.tank[p] = AutoShield([hit EXCEPT !.life = left])]
        ELSE Credit([w EXCEPT !.tank[p] = [hit EXCEPT !.life = 0, !.killedby = e.playerid]], p, e.playerid)

DamageTank(w, p, e) == Wound(w, p, e, DamageAtPoint(w, e, w.tank[p].x, w.tank[p].y))

\* sc_player_damage_all
DamageAll(w, e) == InTurn(LAMBDA acc, p : DamageTank(acc, p, e), w, FromLast(w))

\* sc_player_died
PlayerDied(w, p) == [w EXCEPT !.tank[p].dead = TRUE]

-----------------------------------------------------------------------------
(* Falling and driving. *)

\* How far the tank falls straight down.
FallDepth(w, p, most) ==
    LET t == w.tank[p]
        clear(k) == Passable(w, p, t.x, t.y - k)
    IN  Max({k \in 0 .. most : \A j \in 1 .. k : clear(j)})

\* One pass of _sc_player_drop over a tank that may still fall s.left rows: it
\* falls as deep as it can, or slides one row down.
Descend(s, p, depth, slide) ==
    IF s.left <= 0 \/ s.w.tank[p].dead THEN s
    ELSE IF depth > 0
      THEN [w |-> [s.w EXCEPT !.tank[p].y = @ - depth], left |-> s.left - depth, moved |-> TRUE]
    ELSE IF slide # 0 /\ Passable(s.w, p, s.w.tank[p].x + slide, s.w.tank[p].y - 1)
      THEN [w |-> [s.w EXCEPT !.tank[p].x = @ + slide, !.tank[p].y = @ - 1],
            left |-> s.left - 4 * Magnitude(slide), moved |-> TRUE]
    ELSE s

DropStep(s, p) == Descend(s, p, FallDepth(s.w, p, s.left), Support(s.w, s.w.tank[p].x, s.w.tank[p].y))

\* _sc_player_drop: it has moved, or it has settled.
PlayerDrop(s, p) ==
    LET start == [w |-> s.w, left |-> TankDrop, moved |-> FALSE]
        dropped(end) == [w |-> end.w, moved |-> s.moved \/ end.moved]
    IN  dropped(Repeat(LAMBDA acc : DropStep(acc, p), start, TankDrop))

\* sc_player_drop_all
PlayerDropAll(w) == InTurn(PlayerDrop, [w |-> w, moved |-> FALSE], FromLast(w))

\* "while(sc_player_drop_all(c)) /* Just loop */;"
SettlePlayers(w) ==
    LET again(s) == IF s.moved THEN PlayerDropAll(s.w) ELSE s
    IN  Repeat(again, [w |-> w, moved |-> TRUE], Height * Cardinality(Players(w)) + 1).w

\* sc_player_move, with sc_player_set_position, of a player that has fuel.
CanMove(w, p, delta) ==
    LET t == w.tank[p]
        y == HeightAround(w, t.x + delta, Height, Radius)
    IN  y <= t.y + Climb /\ Passable(w, p, t.x + delta, y)

PlayerMove(w, p, delta) ==
    [w EXCEPT !.tank[p].x = @ + delta,
              !.tank[p].y = HeightAround(w, w.tank[p].x + delta, Height, Radius)]

\* sc_player_init_turn
PlayerInitTurn(w, p) ==
    LET clear == ClearProfile(w, p)
    IN  [clear EXCEPT !.tank[p] = ShieldInitTurn(@)]

\* The three warnings of sc_player_init_turn.
Locked(w, p) == ~Passable(w, p, w.tank[p].x, w.tank[p].y)
Levitating(w, p) == Passable(w, p, w.tank[p].x, w.tank[p].y - 1)
Unstable(w, p) == Support(w, w.tank[p].x, w.tank[p].y) # 0
=============================================================================
