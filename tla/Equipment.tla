------------------------------ MODULE Equipment ------------------------------
(***************************************************************************)
(* The tanks of a game as their owners see them: shopping between the      *)
(* rounds, the auto defense and the lottery before a round, the orders of  *)
(* a turn, and what firing, explosions, deflections and deaths do to       *)
(* stock, shields, life, money and credit (sgame/splayer.c,                *)
(* sgame/sshield.c, sgame/spreround.c, sgame/seconomy.c, parts of          *)
(* sgame/sconfig.c and sgame/sweapon.c, sai/saiturn.c, and the windows     *)
(* sgtk/sinventory-gtk.c and sgtk/sautodef-gtk.c).                         *)
(*                                                                         *)
(* The order of the phases is that of module GameState; where shots go is  *)
(* left open.                                                              *)
(***************************************************************************)
EXTENDS AiShopping, FiniteSets

CONSTANTS
    N,               \* numplayers
    Kinds,           \* the choices of p->aitype, each an AiType or "HUMAN"
    InitialCash,     \* economics.initialcash
    DynamicInterest, \* economics.dynamicinterest
    MaxInterest,     \* SC_ECONOMY_MAX_INTEREST, in per cent
    Scoring,         \* the scoring chosen: bonuses and losses
    Lottery,         \* economics.lottery
    PlayerOrder,     \* options.order
    Hardness,        \* p->tank->hardness
    NormalHardness,  \* SC_TANK_NORMAL_HARDNESS
    Efficiency,      \* p->tank->efficiency
    NormalEfficiency, \* SC_TANK_NORMAL_EFFICIENCY
    MaxLife,         \* SC_PLAYER_MAX_LIFE
    BatteryPercent,  \* SC_BATTERY_RECHARGE_PERCT
    AbsorbHit,       \* SC_SHIELD_ABSORB_HIT
    SapperRate,      \* SC_SHIELD_SAPPER_RATE
    RechargeRate,    \* SC_SHIELD_RECHARGE_RATE
    Damage,          \* bound: what an explosion may do to a tank
    Sap,             \* bound: what a deflection may cost a shield
    MaxEvents        \* bound: keys, explosions and hits on shields in a game

None == "none"
Player == 0 .. N - 1
FullLife(p) == MaxLife * Hardness[p]

ASSUME EquipmentAssumption ==
    /\ N \in Nat /\ N >= 2
    /\ Kinds \subseteq [Player -> AiType \cup {"HUMAN"}]
    /\ None \notin Item
    /\ Scoring \in [{"damagebonus", "damageloss", "deathloss", "killbonus", "suicideloss",
                     "survivalbonus"} -> Nat]
    /\ {DynamicInterest, Lottery} \subseteq BOOLEAN
    /\ PlayerOrder \in {"random", "round_robin", "winners", "losers"}
    /\ {Hardness, Efficiency} \subseteq [Player -> Nat \ {0}]
    /\ {InitialCash, MaxInterest, NormalHardness, NormalEfficiency, MaxLife, BatteryPercent,
        AbsorbHit, SapperRate, RechargeRate, MaxEvents} \subseteq Nat
    /\ {Damage, Sap} \subseteq SUBSET Nat

\* The catalogue that comes with the game: a shield has some strength, and
\* where the limit of the inventory may split a bundle across the border of
\* another one, a single item costs as many dollars as the bundle has items.
ASSUME ShieldsAssumption == \A a \in Accessory : Is(a, "SHIELD") => Info[a].shield > 0
ASSUME PricesAssumption ==
    \A item \in Item :
        ~Infinite(item) => \/ (MaxItems + 1) % Info[item].bundle = 0
                          \/ Info[item].bundle <= UnitPrice(item)

VARIABLES
    phase,     \* where the game is
    curplayer, \* g->curplayer: whose turn it is to shop, to defend, to order
    plorder,   \* c->plorder
    round,     \* c->curround
    interest,  \* economics.currentinterest, in per cent
    pl,        \* c->players
    aitype,    \* p->aitype
    realaitype, \* p->ai->realaitype
    prize,     \* c->lottery: winner and stake
    events     \* bound: keys, explosions and hits so far

clock == <<phase, curplayer, plorder, round, interest>>
types == <<aitype, realaitype>>
vars == <<clock, pl, types, prize, events>>

Phase == {"SHOP", "ROUND_BEGIN", "AUTO_DEFENSE", "TURN_BEGIN", "ORDERS", "CREATION", "FLIGHT",
          "DEATHS", "ROUND_END", "GAME_END"}
NoShield == [info |-> None, life |-> 0]
NoPrize == [winner |-> -1, stake |-> None]
Within(low, high, i) == IF i < low THEN low ELSE IF i > high THEN high ELSE i

Human == {p \in Player : aitype[p] = "HUMAN"}
Alive(tank) == ~tank.dead /\ tank.life > 0
Survivors == {p \in Player : Alive(pl[p])}
Stocked(tank, item) == tank.inventory[item] > 0
ShieldItems == {a \in Accessory : Is(a, "SHIELD")}

-----------------------------------------------------------------------------
(* Start of a game and of a round.                                         *)

\* sc_ai_init_game draws among the numbers below SC_AI_RANDOM, so that
\* "network" is one of the types of a random computer player.
RealTypes(kind) ==
    {t \in [Player -> AiType \cup {"HUMAN"}] :
        \A p \in Player : IF kind[p] = "RANDOM" THEN t[p] \in AiType \ {"RANDOM"}
                         ELSE t[p] = kind[p]}

\* sc_player_init_game, with the inventories cleared.  The tank itself is
\* that of sc_player_init_round.
NewTank(p) ==
    [money |-> InitialCash, inventory |-> Cleared, ac_state |-> {}, life |-> FullLife(p),
     dead |-> FALSE, armed |-> FALSE, killedby |-> -1, fuel |-> 0, contacttriggers |-> FALSE,
     selweapon |-> DefaultWeapon, selshield |-> DefaultAccessory, shield |-> NoShield,
     kills |-> 0, suicides |-> 0, numwins |-> 0]

\* sc_player_init_round
ForRound(p, tank) ==
    [tank EXCEPT !.life = FullLife(p), !.dead = FALSE, !.armed = FALSE, !.killedby = -1,
                 !.fuel = 0, !.contacttriggers = FALSE, !.selweapon = DefaultWeapon,
                 !.selshield = DefaultAccessory, !.shield = NoShield]

Init ==
    /\ phase = "SHOP"
    /\ curplayer = 0
    /\ plorder = [k \in 1 .. N |-> k - 1]
    /\ round = -1
    /\ interest = InterestRate
    /\ pl = [p \in Player |-> NewTank(p)]
    /\ aitype \in Kinds /\ realaitype \in RealTypes(aitype)
    /\ prize = NoPrize
    /\ events = 0

-----------------------------------------------------------------------------
(* Shopping: INVENTORY_PL_BEGIN, _PL_IDLE and _PL_DONE.                    *)

Happens == events < MaxEvents /\ events' = events + 1

NextCustomer ==
    IF curplayer + 1 >= N THEN /\ curplayer' = 0 /\ phase' = "ROUND_BEGIN"
    ELSE /\ curplayer' = curplayer + 1 /\ UNCHANGED phase

ComputerShops ==
    /\ phase = "SHOP" /\ curplayer \notin Human
    /\ pl' = [pl EXCEPT ![curplayer] = AiShops(realaitype[curplayer], @, round, interest)]
    /\ NextCustomer
    /\ UNCHANGED <<plorder, round, interest, types, prize, events>>

\* The keys and the mouse buttons of the two panes.
HumanBuys ==
    /\ phase = "SHOP" /\ curplayer \in Human
    /\ \E item \in Item :
           /\ CanBuy(pl[curplayer], item, Unlimited)
           /\ pl' = [pl EXCEPT ![curplayer] = Buy(@, item)]
    /\ Happens
    /\ UNCHANGED <<clock, types, prize>>

HumanSells ==
    /\ phase = "SHOP" /\ curplayer \in Human
    /\ \E item \in Item :
           /\ CanSell(pl[curplayer], item)
           /\ pl' = [pl EXCEPT ![curplayer] = Sell(@, item)]
    /\ Happens
    /\ UNCHANGED <<clock, types, prize>>

HumanLeavesShop ==
    /\ phase = "SHOP" /\ curplayer \in Human
    /\ NextCustomer
    /\ UNCHANGED <<plorder, round, interest, pl, types, prize, events>>

-----------------------------------------------------------------------------
(* ROUND_BEGIN: sc_config_init_round.                                      *)

Permutation == {s \in [1 .. N -> Player] : ElementsOf(s) = Player}
Rotated == [k \in 1 .. N |-> plorder[IF k = N THEN 1 ELSE k + 1]]
Score(p) == pl[p].kills - pl[p].suicides

\* sc_player_random_order, _sc_config_rotate_players, sc_player_winner_order
\* and sc_player_loser_order.
OrdersFor(newround) ==
    IF newround = 0 \/ PlayerOrder = "random" THEN Permutation
    ELSE CASE PlayerOrder = "round_robin" -> {Rotated}
           [] PlayerOrder = "winners" ->
                  {ExchangeSort(s, [p \in Player |-> -Score(p)]) : s \in Permutation}
           [] PlayerOrder = "losers" ->
                  {ExchangeSort(s, [p \in Player |-> Score(p)]) : s \in Permutation}

\* The draw: it walks on from the first weapon once more than the number
\* drawn, then to the first weapon that is worth something.
Drawn(number) ==
    LET start == Further(Weapons, Weapons[1], number + 1)
        Worthwhile(w) == ~Infinite(w) /\ ~Info[w].useless
        offers == {k \in 0 .. Len(Weapons) - 1 : Worthwhile(Further(Weapons, start, k))}
    IN  IF offers = {} THEN None ELSE Further(Weapons, start, Least(offers))

\* sc_lottery_run, on the tanks of the new round.
Raffle(tanks) ==
    IF ~Lottery THEN pl' = tanks /\ UNCHANGED prize
    ELSE \E winner \in Player, number \in 0 .. Len(Weapons) - 1 :
            LET stake == Drawn(number)
            IN  IF stake = None THEN pl' = tanks /\ UNCHANGED prize
                ELSE /\ pl' = [tanks EXCEPT ![winner] = Award(@, stake)]
                     /\ prize' = IF Quantity(tanks[winner].inventory[stake],
                                             Info[stake].bundle) > 0
                                 THEN [winner |-> winner, stake |-> stake] ELSE NoPrize

RoundBegins ==
    /\ phase = "ROUND_BEGIN"
    /\ phase' = "AUTO_DEFENSE"
    /\ round' = round + 1
    /\ plorder' \in OrdersFor(round + 1)
    /\ Raffle([p \in Player |-> ForRound(p, pl[p])])
    /\ UNCHANGED <<curplayer, interest, types, events>>

-----------------------------------------------------------------------------
(* Selections and shields of one tank.                                     *)

\* sc_player_set_weapon and sc_player_set_shield; the latter takes NULL.
SetWeapon(tank, item) ==
    IF Stocked(tank, item) THEN [tank EXCEPT !.selweapon = item] ELSE tank
SetShield(tank, item) ==
    IF item # None /\ Stocked(tank, item) /\ Is(item, "SHIELD")
    THEN [tank EXCEPT !.selshield = item] ELSE tank

\* sc_shield_find_best looks backwards; a later shield of equal strength
\* wins by its kind.
BetterShield(a, best) ==
    \/ Info[a].shield > Info[best].shield
    \/ /\ Info[a].shield = Info[best].shield
       /\ \/ Is(a, "FORCE")
          \/ Is(a, "STANDARD") /\ Is(best, "MAGNETIC")
          \/ /\ Is(a, "MAGNETIC") /\ Is(best, "MAGNETIC")
             /\ Info[a].repulsion > Info[best].repulsion

Better(best, a, tank) ==
    IF Is(a, "SHIELD") /\ Stocked(tank, a) /\ (best = None \/ BetterShield(a, best))
    THEN a ELSE best

BestShield(tank) ==
    LET n == Len(Accessories)
        run[k \in 0 .. n] ==
            IF k = 0 THEN None ELSE Better(run[k - 1], Accessories[n + 1 - k], tank)
    IN  run[n]

\* sc_player_advance_shield: the next shield in stock around the catalogue,
\* from the given one on.  With none left it asks for the default, which is
\* no shield: the selection stays.
AdvanceFrom(tank, first) ==
    LET places == {k \in 0 .. Len(Accessories) - 1 :
                      LET a == Further(Accessories, first, k)
                      IN  Is(a, "SHIELD") /\ Stocked(tank, a)}
    IN  IF places = {} THEN SetShield(tank, DefaultAccessory)
        ELSE SetShield(tank, Further(Accessories, first, Least(places)))

AdvanceShield(tank) ==
    IF Is(tank.selshield, "SHIELD")
    THEN AdvanceFrom(tank, Further(Accessories, tank.selshield, 1))
    ELSE IF BestShield(tank) = None THEN tank ELSE AdvanceFrom(tank, BestShield(tank))

\* sc_player_activate_shield; CanActivate is what it returns.
CanActivate(tank) == Is(tank.selshield, "SHIELD") /\ Stocked(tank, tank.selshield)
ActivateShield(tank) ==
    IF ~CanActivate(tank) THEN tank
    ELSE LET raised == [tank EXCEPT !.shield = [info |-> tank.selshield,
                                                life |-> Info[tank.selshield].shield],
                                    !.inventory[tank.selshield] = @ - 1]
         IN  AdvanceFrom(raised, raised.selshield)

\* sc_player_activate_best_shield
ActivateBestShield(tank) ==
    IF BestShield(tank) = None THEN tank ELSE ActivateShield(SetShield(tank, BestShield(tank)))

\* Fault: auto defense does not look for another shield.
SelectedAutoShield(tank) ==
    IF "AUTO_DEF" \notin tank.ac_state THEN tank ELSE ActivateShield(tank)

\* sc_player_activate_auto_shield
ActivateAutoShield(tank) ==
    IF "AUTO_DEF" \notin tank.ac_state THEN tank
    ELSE IF CanActivate(tank) THEN ActivateShield(tank)
    ELSE ActivateBestShield(tank)

\* sc_player_set_contact_triggers
SetContactTriggers(tank, flag) ==
    [tank EXCEPT !.contacttriggers = flag /\ "TRIGGER" \in tank.ac_state]

\* sc_player_activate_battery
BatteriesIn(tank) == {a \in Having("BATTERY") : Stocked(tank, a)}
CanRecharge(p, tank) == tank.life < FullLife(p) /\ BatteriesIn(tank) # {}
Recharged(p, tank) ==
    LET life == tank.life + (BatteryPercent * FullLife(p)) \div 100
    IN  [tank EXCEPT !.inventory[FirstOf(Accessories, BatteriesIn(tank))] = @ - 1,
                     !.life = IF life > FullLife(p) THEN FullLife(p) ELSE life]

-----------------------------------------------------------------------------
(* AUTO_DEFENSE_LOOP.  sc_autodef_ai_activate goes by the type that was     *)
(* configured, and does nothing for a random one.                          *)

\* sc_autodef_activate
Defended(tank, shield, triggers) ==
    SetContactTriggers(ActivateShield(SetShield(tank, shield)), triggers)

NextDefender ==
    IF curplayer + 1 >= N THEN /\ curplayer' = 0 /\ phase' = "TURN_BEGIN"
    ELSE /\ curplayer' = curplayer + 1 /\ UNCHANGED phase

HasAutoDefense == phase = "AUTO_DEFENSE" /\ "AUTO_DEF" \in pl[curplayer].ac_state

ComputerDefends ==
    /\ HasAutoDefense /\ curplayer \notin Human
    /\ pl' = [pl EXCEPT ![curplayer] =
                 IF aitype[curplayer] \in {"NETWORK", "RANDOM"} THEN @
                 ELSE Defended(@, BestShield(@), TRUE)]
    /\ NextDefender
    /\ UNCHANGED <<plorder, round, interest, types, prize, events>>

\* The window offers the shields in stock and (none), and the toggle if it
\* is sensitive.
HumanDefends ==
    /\ HasAutoDefense /\ curplayer \in Human
    /\ \E shield \in {None} \cup {a \in ShieldItems : Stocked(pl[curplayer], a)},
          flag \in {pl[curplayer].contacttriggers} \cup
                   {"TRIGGER" \in pl[curplayer].ac_state} :
           pl' = [pl EXCEPT ![curplayer] = Defended(@, shield, flag)]
    /\ NextDefender
    /\ UNCHANGED <<plorder, round, interest, types, prize, events>>

\* Escape, or no auto defense.
NoDefense ==
    /\ phase = "AUTO_DEFENSE"
    /\ curplayer \in Human \/ ~HasAutoDefense
    /\ NextDefender
    /\ UNCHANGED <<plorder, round, interest, pl, types, prize, events>>

-----------------------------------------------------------------------------
(* TURN_BEGIN: sc_config_init_turn with sc_shield_init_turn, and the end of *)
(* the round if no more than one is left.                                  *)

ForTurn(tank) ==
    IF ~Alive(tank) \/ tank.shield = NoShield \/ "RECHARGE" \notin tank.ac_state THEN tank
    ELSE LET strength == Info[tank.shield.info].shield
         IN  [tank EXCEPT !.shield.life = Within(0, strength, @ + RechargeRate)]

\* sc_game_victor
Victory == Cardinality(Survivors) <= 1

Turn(k) == plorder[k + 1]

TurnBegins ==
    /\ phase = "TURN_BEGIN"
    /\ pl' = [p \in Player |-> ForTurn(pl[p])]
    /\ curplayer' = 0
    /\ phase' = IF Victory THEN "ROUND_END" ELSE "ORDERS"
    /\ UNCHANGED <<plorder, round, interest, types, prize, events>>

-----------------------------------------------------------------------------
(* The orders of a player: the keys of sgtk/swindow-gtk.c and the tank     *)
(* window, or sc_ai_player_turn.                                           *)

Orders(p) == phase = "ORDERS" /\ curplayer < N /\ p = Turn(curplayer) /\ Alive(pl[p])

Order(p, tank) ==
    /\ Orders(p) /\ p \in Human
    /\ tank # pl[p]
    /\ pl' = [pl EXCEPT ![p] = tank]
    /\ Happens
    /\ UNCHANGED <<clock, types, prize>>

\* sc_player_advance_weapon: the next weapon in stock, either way around.
AdvanceWeapon(p) ==
    \E way \in {1, -1} :
        LET At(k) == Further(Weapons, pl[p].selweapon, (way * k) % Len(Weapons))
            k == CHOOSE j \in 1 .. Len(Weapons) :
                    Stocked(pl[p], At(j)) /\ \A i \in 1 .. j - 1 : ~Stocked(pl[p], At(i))
        IN  Order(p, SetWeapon(pl[p], At(k)))

SelectShield(p) == Order(p, AdvanceShield(pl[p]))
RaiseShield(p) == Order(p, ActivateShield(pl[p]))
ToggleTriggers(p) == Order(p, SetContactTriggers(pl[p], ~pl[p].contacttriggers))
UseBattery(p) == CanRecharge(p, pl[p]) /\ Order(p, Recharged(p, pl[p]))

\* _sc_player_consume_fuel: opens cans until a step can be paid.
Opened(p, tank, can) ==
    LET wanted == {n \in 0 .. tank.inventory[can] :
                      tank.fuel + n * Info[can].fuel * Efficiency[p] >= NormalEfficiency}
        n == IF wanted = {} THEN tank.inventory[can] ELSE Least(wanted)
    IN  IF ~Is(can, "FUEL") THEN tank
        ELSE [tank EXCEPT !.fuel = @ + n * Info[can].fuel * Efficiency[p],
                          !.inventory[can] = @ - n]

Refuelled(p, tank) ==
    LET run[k \in 0 .. Len(Accessories)] ==
            IF k = 0 THEN tank ELSE Opened(p, run[k - 1], Accessories[k])
    IN  run[Len(Accessories)]

\* sc_player_move, where the land lets the tank pass.
Move(p) ==
    LET tank == Refuelled(p, pl[p])
    IN  Order(p, IF tank.fuel < NormalEfficiency THEN tank
                 ELSE [tank EXCEPT !.fuel = @ - NormalEfficiency])

HumanOrders ==
    \E p \in Human : \/ AdvanceWeapon(p) \/ SelectShield(p) \/ RaiseShield(p)
                    \/ ToggleTriggers(p) \/ UseBattery(p) \/ Move(p)

\* _sc_ai_select_last_weapon looks at the last weapon only.
LastWeapon(tank) == {SetWeapon(tank, Weapons[Len(Weapons)])}

\* _sc_ai_select_weapon_by_score: the best, or with some luck the second.
Rated(s, w, tank) ==
    LET score == Yield[w].yield
    IN  IF ~Stocked(tank, w) THEN s
        ELSE IF score > s.max
             THEN [first |-> w, second |-> s.first, max |-> score, next |-> s.max]
        ELSE IF score > s.next THEN [s EXCEPT !.second = w, !.next = score]
        ELSE s

ByScore(tank) ==
    LET n == Len(Weapons)
        start == [first |-> None, second |-> None, max |-> 0, next |-> -1]
        run[k \in 0 .. n] == IF k = 0 THEN start ELSE Rated(run[k - 1], Weapons[n + 1 - k], tank)
        seen == run[n]
        choices == {seen.first} \cup (IF seen.next > 0 THEN {seen.second} ELSE {})
    IN  {IF w = None THEN tank ELSE SetWeapon(tank, w) : w \in choices}

\* What every type does first: _sc_ai_raise_shields, _set_contact_triggers
\* and _recharge_tank, which goes on for as long as a battery helps (there
\* is one kind of them, so no more than MaxItems).
RechargedOnce(p, tank) == IF CanRecharge(p, tank) THEN Recharged(p, tank) ELSE tank

Prepared(p, tank) ==
    LET shielded == IF tank.shield = NoShield THEN ActivateBestShield(tank) ELSE tank
        run[k \in 0 .. MaxItems] ==
            IF k = 0 THEN SetContactTriggers(shielded, TRUE) ELSE RechargedOnce(p, run[k - 1])
    IN  run[MaxItems]

\* TURN_PL_DONE arms the tank.  Sequentially the volley is fired at once.
Armed(p, tank) ==
    /\ pl' = [pl EXCEPT ![p] = [tank EXCEPT !.armed = TRUE]]
    /\ curplayer' = curplayer + 1
    /\ phase' = IF Synchronous THEN phase ELSE "CREATION"
    /\ UNCHANGED <<plorder, round, interest, types, prize, events>>

HumanFires == \E p \in Human : Orders(p) /\ Armed(p, pl[p])

ComputerFires ==
    \E p \in Player \ Human :
        /\ Orders(p)
        /\ \E tank \in CASE realaitype[p] \in {"RANDOM", "NETWORK"} -> {pl[p]}
                         [] realaitype[p] = "MORON" -> LastWeapon(Prepared(p, pl[p]))
                         [] OTHER -> ByScore(Prepared(p, pl[p])) :
               Armed(p, tank)

\* TURN_PL_NEXT: a dead player has no turn; after the last the volleys fly
\* or the turn is over.
PassDead ==
    /\ phase = "ORDERS" /\ curplayer < N /\ ~Alive(pl[Turn(curplayer)])
    /\ curplayer' = curplayer + 1
    /\ UNCHANGED <<phase, plorder, round, interest, pl, types, prize, events>>

TurnEnds ==
    /\ phase = "ORDERS" /\ curplayer = N
    /\ phase' = IF Synchronous THEN "CREATION" ELSE "TURN_BEGIN"
    /\ UNCHANGED <<curplayer, plorder, round, interest, pl, types, prize, events>>

-----------------------------------------------------------------------------
(* RUN_CREATION: sc_weapon_create_all.                                     *)

\* sc_player_use_contact_trigger.  The search leaves "info" at the first
\* accessory, and that is whose stock is looked at when a trigger is used.
UseContactTrigger(tank) ==
    LET triggers == {a \in Having("TRIGGER") : Stocked(tank, a)}
        permanent == triggers \cap Having("PERMANENT")
        consumable == triggers \cap Having("CONSUMABLE")
        used == [tank EXCEPT !.inventory[LastOf(Accessories, consumable)] = @ - 1]
    IN  IF ~tank.contacttriggers \/ permanent # {} \/ consumable = {} THEN tank
        ELSE IF Cardinality(triggers) <= 1 /\ ~Stocked(used, Accessories[1])
             THEN SetContactTriggers([used EXCEPT !.ac_state = @ \ {"TRIGGER"}], FALSE)
        ELSE used

\* Fault: the weapon stays selected when the last one is fired.
FiredSelected(tank) ==
    LET weapon == tank.selweapon
        ready == UseContactTrigger(tank)
    IN  IF Infinite(weapon) THEN ready ELSE [ready EXCEPT !.inventory[weapon] = @ - 1]

\* _sc_weapon_fire_new
Fired(tank) ==
    LET weapon == tank.selweapon
        ready == UseContactTrigger(tank)
        spent == IF Infinite(weapon) THEN ready ELSE [ready EXCEPT !.inventory[weapon] = @ - 1]
    IN  IF Stocked(spent, weapon) THEN spent ELSE [spent EXCEPT !.selweapon = DefaultWeapon]

Creation ==
    /\ phase = "CREATION"
    /\ pl' = [p \in Player |-> IF pl[p].armed /\ ~pl[p].dead
                              THEN [Fired(pl[p]) EXCEPT !.armed = FALSE] ELSE pl[p]]
    /\ phase' = "FLIGHT"
    /\ UNCHANGED <<curplayer, plorder, round, interest, types, prize, events>>

-----------------------------------------------------------------------------
(* The volleys: deflection, hits on shields, explosions.                   *)

\* sc_shield_absorb_hit, and the same for what a deflection or a
\* reflection takes out of a shield.
Drained(tank, drain) ==
    IF tank.shield.life > drain THEN [tank EXCEPT !.shield.life = @ - drain]
    ELSE [tank EXCEPT !.shield = NoShield]

Deflects(a) == Is(a, "MAGNETIC")

ShieldHit ==
    /\ phase = "FLIGHT" /\ Happens
    /\ \E p \in Player :
           /\ pl[p].shield # NoShield
           /\ \E drain \in IF Deflects(pl[p].shield.info) THEN Sap \cup {AbsorbHit * SapperRate}
                           ELSE {AbsorbHit, AbsorbHit * SapperRate} :
                  pl' = [pl EXCEPT ![p] = Drained(@, drain)]
    /\ UNCHANGED <<clock, types, prize>>

\* sc_shield_absorb_explosion: what is left of the damage.
Undealt(tank, damage, napalm) ==
    IF tank.shield = NoShield THEN damage
    ELSE IF tank.shield.life > damage \/ napalm THEN 0 ELSE damage - tank.shield.life

Charged(tank, loss) == [tank EXCEPT !.money = @ - loss]
Paid(tank, bonus) == [tank EXCEPT !.money = @ + bonus]

\* _sc_player_damage for a tank that is within the explosion of "owner".
Fallen(tank, owner) == [tank EXCEPT !.life = 0, !.killedby = owner]
Blamed(tank, loss) == [Charged(tank, loss) EXCEPT !.suicides = @ + 1]
Credited(tank, bonus) == [Paid(tank, bonus) EXCEPT !.kills = @ + 1]

Destroyed(tanks, p, owner) ==
    LET struck == [tanks EXCEPT ![p] = Fallen(@, owner)]
    IN  IF owner = p THEN [struck EXCEPT ![p] = Blamed(@, Scoring.suicideloss)]
        ELSE [struck EXCEPT ![owner] = Credited(@, Scoring.killbonus)]

HullHit(tanks, p, owner, rest) ==
    LET hit == [tanks[p] EXCEPT !.life = @ - rest * NormalHardness]
        hurt == IF hit.life > 0 THEN ActivateAutoShield(hit) ELSE hit
        charged == [tanks EXCEPT ![p] = Charged(hurt, Scoring.damageloss)]
        scored == IF hit.life > 0 THEN charged ELSE Destroyed(charged, p, owner)
    IN  IF owner = p THEN scored
        ELSE [scored EXCEPT ![owner] = Paid(@, Scoring.damagebonus)]

AfterShield(tanks, p, damage) ==
    IF tanks[p].shield = NoShield THEN tanks ELSE [tanks EXCEPT ![p] = Drained(@, damage)]

\* Fault: a tank that is down already is damaged like any other.
DamagedAgain(tanks, p, owner, damage, napalm) ==
    LET rest == Undealt(tanks[p], damage, napalm)
    IN  IF damage = 0 THEN tanks
        ELSE IF rest = 0 THEN AfterShield(tanks, p, damage)
        ELSE HullHit(AfterShield(tanks, p, damage), p, owner, rest)

Damaged(tanks, p, owner, damage, napalm) ==
    LET rest == Undealt(tanks[p], damage, napalm)
    IN  IF ~Alive(tanks[p]) \/ damage = 0 THEN tanks
        ELSE IF rest = 0 THEN AfterShield(tanks, p, damage)
        ELSE HullHit(AfterShield(tanks, p, damage), p, owner, rest)

\* sc_player_damage_all: from the last player to the first.
DamageAll(owner, damage, napalm) ==
    LET run[k \in 0 .. N] ==
            IF k = 0 THEN pl ELSE Damaged(run[k - 1], N - k, owner, damage[N - k], napalm)
    IN  run[N]

Explosion ==
    /\ phase = "FLIGHT" /\ Happens
    /\ \E owner \in Player, damage \in [Player -> Damage \cup {0}], napalm \in BOOLEAN :
           /\ \E p \in Player : damage[p] # 0
           /\ pl' = DamageAll(owner, damage, napalm)
    /\ UNCHANGED <<clock, types, prize>>

\* RUN_PLAYER_DEATH; the explosions of the dying are explosions like others.
Dying == {p \in Player : ~pl[p].dead /\ pl[p].life <= 0}

Deaths ==
    /\ phase = "FLIGHT" /\ Dying # {}
    /\ \E p \in Dying : pl' = [pl EXCEPT ![p] = Charged([@ EXCEPT !.dead = TRUE],
                                                        Scoring.deathloss)]
    /\ UNCHANGED <<clock, types, prize, events>>

\* RUN_END
FlightEnds ==
    /\ phase = "FLIGHT" /\ Dying = {}
    /\ phase' = IF Synchronous THEN "TURN_BEGIN" ELSE "ORDERS"
    /\ UNCHANGED <<curplayer, plorder, round, interest, pl, types, prize, events>>

-----------------------------------------------------------------------------
(* ROUND_END and the end of the game.                                      *)

Interest(tank) == [tank EXCEPT !.money = Quotient(@ * (100 + interest), 100)]
Won(tank) == IF Alive(tank) THEN Paid([tank EXCEPT !.numwins = @ + 1], Scoring.survivalbonus)
             ELSE tank

\* sc_game_set_victor, sc_economy_interest
RoundEnds ==
    /\ phase = "ROUND_END"
    /\ pl' = [p \in Player |-> Interest(Won(pl[p]))]
    /\ IF DynamicInterest
       THEN \E change \in -3 .. 3 : interest' = Within(0, MaxInterest, interest + change)
       ELSE UNCHANGED interest
    /\ phase' = IF round + 1 >= NumRounds THEN "GAME_END" ELSE "SHOP"
    /\ curplayer' = 0
    /\ UNCHANGED <<plorder, round, types, prize, events>>

Next ==
    \/ ComputerShops \/ HumanBuys \/ HumanSells \/ HumanLeavesShop
    \/ RoundBegins
    \/ ComputerDefends \/ HumanDefends \/ NoDefense
    \/ TurnBegins \/ HumanOrders \/ HumanFires \/ ComputerFires \/ PassDead \/ TurnEnds
    \/ Creation \/ ShieldHit \/ Explosion \/ Deaths \/ FlightEnds
    \/ RoundEnds

Spec == Init /\ [][Next]_vars

-----------------------------------------------------------------------------
(* Properties.                                                             *)

\* Every number stays in its range: no stock is negative or above the
\* limit of the inventory, no tank has more life than its hardness gives,
\* and a shield that is up has life, never more than its strength.
EqTypeOK ==
    /\ phase \in Phase /\ curplayer \in 0 .. N /\ round \in -1 .. NumRounds - 1
    /\ plorder \in Permutation
    /\ interest \in Nat /\ (interest = InterestRate \/ interest <= MaxInterest)
    /\ realaitype \in [Player -> AiType \cup {"HUMAN"}]
    /\ \A p \in Player :
           /\ pl[p].money \in Int /\ pl[p].fuel \in Nat
           /\ pl[p].life \in 0 .. FullLife(p)
           /\ pl[p].inventory \in [Item -> 0 .. MaxItems]
           /\ pl[p].ac_state \subseteq StateBit
           /\ pl[p].selweapon \in Weapon /\ pl[p].selshield \in Accessory
           /\ \/ pl[p].shield = NoShield
              \/ /\ pl[p].shield.info \in ShieldItems
                 /\ pl[p].shield.life \in 1 .. Info[pl[p].shield.info].shield

\* A tank never goes into a turn with a weapon selected that it has run out
\* of: sc_weapon_create fires whatever is selected and counts it down
\* without a look at the stock.  Stock is lost by firing and by selling, and
\* computer players select by their own rules.  (Stated with the types: no
\* stock is ever negative.)
SelectionInStock ==
    /\ EqTypeOK
    /\ phase \in {"AUTO_DEFENSE", "TURN_BEGIN", "ORDERS", "CREATION"} =>
           \A p \in Player : Stocked(pl[p], pl[p].selweapon)

\* A tank with auto defense that survives a hit on its hull and still has
\* some shield in stock is not left without one, whatever was selected.
AutoDefenseHolds ==
    [][\A p \in Player :
           /\ phase = "FLIGHT" /\ 0 < pl'[p].life /\ pl'[p].life < pl[p].life
           /\ "AUTO_DEF" \in pl[p].ac_state
           /\ \E a \in ShieldItems : Stocked(pl[p], a)
           => pl'[p].shield # NoShield]_vars

\* What the player would have after selling everything.
Resale(items, inventory) ==
    LET sum[k \in 0 .. Len(items)] ==
            IF k = 0 THEN 0 ELSE sum[k - 1] + ResaleOf(items[k], inventory[items[k]])
    IN  sum[Len(items)]

Worth(tank) ==
    tank.money + Resale(Weapons, tank.inventory) + Resale(Accessories, tank.inventory)

\* No sequence of purchases and sales makes money, split bundles included.
ShoppingMakesNoMoney ==
    [][phase = "SHOP" => \A p \in Player : Worth(pl'[p]) <= Worth(pl[p])]_vars

Credits(tanks) ==
    LET sum[k \in 0 .. N] ==
            IF k = 0 THEN 0 ELSE sum[k - 1] + tanks[k - 1].kills + tanks[k - 1].suicides
    IN  sum[N]

\* Somebody is credited with every death, once: the kills and suicides of
\* all players grow by the number of tanks that lose their life, though one
\* explosion may kill several, the one who fired it among them, and later
\* explosions of the turn hit the lifeless tanks again.
OneCreditPerDeath ==
    [][Credits(pl') - Credits(pl)
          = Cardinality({p \in Player : phase = "FLIGHT" /\ pl[p].life > 0 /\ pl'[p].life = 0})]_vars
=============================================================================
