------------------------------ MODULE GameState ------------------------------
(***************************************************************************)
(* The state machine that drives a game of xscorch on one machine without  *)
(* network: sgame/sstate.c with the functions of sgame/sgame.c and         *)
(* sgame/sconfig.c it calls, and the menu and window callbacks of sgtk/    *)
(* that touch the game state.                                              *)
(*                                                                         *)
(* The program is single threaded.  A timer calls sc_state_run, which runs *)
(* the handler of the current state.  A handler either leaves the next     *)
(* state for a later timer call (Later) or calls sc_state_run itself       *)
(* (Now).  While such calls are nested no window callback can run.         *)
(***************************************************************************)
EXTENDS Integers, FiniteSets, FiniteSetsExt, ExplosionQueues

CONSTANTS
    N,          \* numplayers
    Human,      \* players whose aitype is SC_AI_HUMAN; the others are AIs
    Sequential, \* options.mode is SC_CONFIG_MODE_SEQUENTIAL
    Interleave, \* options.interleave
    CompFast,   \* graphics.gfxcompfast
    NumRounds,  \* numrounds
    MaxLife,    \* bound: hit points of a tank (scaled down)
    MaxFlight,  \* bound: rounds of tracking until a volley is down
    MaxFalls,   \* bound: drop cycles until the tanks have settled
    Menu        \* the menu entries the user makes use of

Player == 0 .. N - 1

\* sc_config_okay_to_begin lets no game start without these.
ASSUME PlayerAssumption == N \in Nat /\ N >= 2 /\ Human \subseteq Player /\ Human # {}
ASSUME OptionAssumption ==
    {Sequential, Interleave, CompFast} \subseteq BOOLEAN
ASSUME RoundAssumption == NumRounds \in Nat \ {0}
ASSUME BoundAssumption ==
    /\ MaxLife \in Nat \ {0}
    /\ MaxFlight \in Nat
    /\ MaxFalls \in Nat
ASSUME MenuAssumption ==
    Menu \subseteq {"pause", "resign", "masskill", "graphics"}

VARIABLES
    state,     \* g->state without its pause bit
    paused,    \* SC_STATE_PAUSE_FLAG of g->state
    nested,    \* a handler has called sc_state_run: it runs next
    pending,   \* "++g->substate" waiting on the C stack for nested calls
    substate,  \* g->substate
    curplayer, \* g->curplayer
    curround,  \* c->curround
    plorder,   \* c->plorder
    activity,  \* g->activity
    gfxfast,   \* graphics.gfxfast
    componly,  \* c->componly
    dead,      \* players with p->dead
    life,      \* p->life
    armed,     \* players with p->armed
    wins,      \* p->numwins
    flight,    \* rounds of tracking p->weapons still has ahead; 0 if empty
    falls,     \* drop cycles the tanks may still need; 0 once settled
    expl,      \* the explosion queues
    scan,      \* position of _sc_state_run_explosion in its loop
    acted,     \* its local variable "result"
    fired      \* history: players who have fired since the turn began

control == <<state, paused, nested, pending, substate>>
turn    == <<curplayer, curround, plorder>>
gfx     == <<gfxfast, componly>>
tanks   == <<dead, life, armed, wins>>
blasts  == <<expl, scan, acted>>
sim     == <<activity, flight, falls, blasts, fired>>
vars    == <<control, turn, gfx, tanks, sim>>

State ==
    {"PRELUDE_BEGIN", "PRELUDE_IDLE", "GAME_BEGIN", "GAME_END",
     "GAME_END_DONE", "INVENTORY_BEGIN", "INVENTORY_PL_BEGIN",
     "INVENTORY_PL_IDLE", "INVENTORY_PL_DONE", "ROUND_BEGIN",
     "AUTO_DEFENSE", "AUTO_DEFENSE_LOOP", "LOTTERY_DISPLAY",
     "LOTTERY_DISPLAY_WAIT", "ROUND_END", "ROUND_END_DONE"} \cup
    {"TURN_BEGIN", "TURN_PL_BEGIN", "TURN_PL_IDLE", "TURN_PL_DONE",
     "TURN_PL_NEXT", "TURN_END", "RUN_TALK", "RUN_CREATION", "RUN_WEAPONS",
     "RUN_EXPLOSION", "RUN_PLAYER_DROP", "RUN_PLAYER_DEATH", "RUN_END"}

\* SC_STATE_IS_ROUND
IsRound ==
    state \in {"TURN_BEGIN", "TURN_PL_BEGIN", "TURN_PL_IDLE", "TURN_PL_DONE",
               "TURN_PL_NEXT", "TURN_END", "RUN_TALK", "RUN_CREATION",
               "RUN_WEAPONS", "RUN_EXPLOSION", "RUN_PLAYER_DROP",
               "RUN_PLAYER_DEATH", "RUN_END"}

Fast     == gfxfast \/ (CompFast /\ componly)
Alive(p) == p \notin dead /\ life[p] > 0

\* Fault: the round ends while two tanks are left.
VictorTwoLeft == Cardinality({p \in Player : Alive(p)}) <= 2

\* sc_game_victor
Victor == Cardinality({p \in Player : Alive(p)}) <= 1

Orders == {f \in [Player -> Player] : \A p, q \in Player : f[p] = f[q] => p = q}

-----------------------------------------------------------------------------
(* How a handler ends. *)

At(S) == state \in S /\ ~paused

\* sc_game_set_state_now
Now(s) == state' = s /\ nested' = TRUE /\ UNCHANGED <<paused, pending>>

\* The handler returns, and so does every call it is nested in.
Unwind == nested' = FALSE /\ pending' = 0 /\ substate' = substate + pending

\* sc_game_set_state, sc_game_set_state_asap
Later(s) == state' = s /\ Unwind /\ UNCHANGED paused

\* sc_game_set_state to one of the *_IDLE states, *_DONE with the pause bit
LaterPaused(s) == state' = s /\ Unwind /\ paused' = TRUE

\* sc_game_set_state_allow_now
AllowNow(s) ==
    IF Fast THEN Now(s) /\ UNCHANGED substate ELSE Later(s)

-----------------------------------------------------------------------------
(* Main menu, inventory and preparation of a round. *)

PreludeBegin ==
    /\ At({"PRELUDE_BEGIN", "GAME_END_DONE"})
    /\ Later("PRELUDE_IDLE")
    /\ UNCHANGED <<turn, gfx, tanks, sim>>

\* sc_player_init_game resets the score.
NewScores == [p \in Player |-> 0]

\* sc_config_init_game: the players' scores, sc_game_init, curround.
InitGame ==
    /\ wins' = NewScores
    /\ curplayer' = 0
    /\ substate' = 0
    /\ curround' = -1
    /\ expl' = [s \in Slot |-> NoExpl]
    /\ UNCHANGED <<plorder, gfx, dead, life, armed, activity, flight, falls,
                   scan, acted, fired>>

GameBegin ==
    /\ At({"GAME_BEGIN"})
    /\ InitGame
    /\ state' = "INVENTORY_BEGIN"
    /\ nested' = FALSE
    /\ UNCHANGED <<paused, pending>>

InventoryBegin ==
    /\ At({"INVENTORY_BEGIN", "ROUND_END_DONE"})
    /\ curplayer' = 0
    /\ Now("INVENTORY_PL_BEGIN")
    /\ UNCHANGED <<substate, curround, plorder, gfx, tanks, sim>>

InventoryPlBegin ==
    /\ At({"INVENTORY_PL_BEGIN"})
    /\ IF curplayer \in Human THEN Later("INVENTORY_PL_IDLE")
       ELSE Now("INVENTORY_PL_DONE") /\ UNCHANGED substate
    /\ UNCHANGED <<turn, gfx, tanks, sim>>

\* Fault: the counter is compared before it is advanced.
InventoryPlDoneLate ==
    /\ At({"INVENTORY_PL_DONE"})
    /\ IF curplayer >= N
       THEN curplayer' = 0 /\ Now("ROUND_BEGIN")
       ELSE curplayer' = curplayer + 1 /\ Now("INVENTORY_PL_BEGIN")
    /\ UNCHANGED <<substate, curround, plorder, gfx, tanks, sim>>

InventoryPlDone ==
    /\ At({"INVENTORY_PL_DONE"})
    /\ IF curplayer + 1 >= N
       THEN curplayer' = 0 /\ Now("ROUND_BEGIN")
       ELSE curplayer' = curplayer + 1 /\ Now("INVENTORY_PL_BEGIN")
    /\ UNCHANGED <<substate, curround, plorder, gfx, tanks, sim>>

\* sc_config_init_round: sc_player_init_round gives every tank a life, a
\* resting place and an empty weapon chain; the playing order is shuffled,
\* rotated or sorted by score.
RoundBegin ==
    /\ At({"ROUND_BEGIN"})
    /\ dead' = {}
    /\ armed' = {}
    /\ life' = [p \in Player |-> MaxLife]
    /\ flight' = [p \in Player |-> 0]
    /\ falls' = 0
    /\ curround' = curround + 1
    /\ plorder' \in Orders
    /\ componly' = FALSE
    /\ Later("AUTO_DEFENSE_LOOP")
    /\ UNCHANGED <<curplayer, gfxfast, wins, activity, blasts, fired>>

AutoDefenseLoop ==
    /\ At({"AUTO_DEFENSE_LOOP"})
    /\ IF curplayer >= N
       THEN /\ curplayer' = 0
            /\ Now("LOTTERY_DISPLAY")
            /\ UNCHANGED substate
       ELSE /\ curplayer' = curplayer + 1
            /\ \/ curplayer \in Human /\ Later("AUTO_DEFENSE")
               \/ Now("AUTO_DEFENSE_LOOP") /\ UNCHANGED substate
    /\ UNCHANGED <<curround, plorder, gfx, tanks, sim>>

LotteryDisplay ==
    /\ At({"LOTTERY_DISPLAY"})
    /\ \/ Later("LOTTERY_DISPLAY_WAIT")
       \/ Now("TURN_BEGIN") /\ UNCHANGED substate
    /\ UNCHANGED <<turn, gfx, tanks, sim>>

RoundEnd ==
    /\ At({"ROUND_END"})
    /\ wins' = [p \in Player |-> IF Alive(p) THEN wins[p] + 1 ELSE wins[p]]
    /\ IF curround + 1 >= NumRounds
       THEN Now("GAME_END") /\ UNCHANGED substate
       ELSE LaterPaused("ROUND_END_DONE")
    /\ UNCHANGED <<turn, gfx, dead, life, armed, sim>>

GameEnd ==
    /\ At({"GAME_END"})
    /\ LaterPaused("GAME_END_DONE")
    /\ UNCHANGED <<turn, gfx, tanks, sim>>

-----------------------------------------------------------------------------
(* Turns: every player gives orders. *)

\* TURN_BEGIN and TURN_END share their handler.  sc_config_init_turn finds
\* out whether any human is left to watch.
TurnBegin ==
    /\ At({"TURN_BEGIN", "TURN_END"})
    /\ componly' = (\A p \in Human : ~Alive(p))
    /\ fired' = {}
    /\ IF Victor
       THEN Now("ROUND_END") /\ UNCHANGED curplayer
       ELSE Now("TURN_PL_BEGIN") /\ curplayer' = 0
    /\ UNCHANGED <<substate, curround, plorder, gfxfast, tanks, activity,
                   flight, falls, blasts>>

TurnPlBegin ==
    /\ At({"TURN_PL_BEGIN"})
    /\ LET p == plorder[curplayer] IN
       IF p \in dead \/ p \notin Human
       THEN Later("TURN_PL_DONE") ELSE Later("TURN_PL_IDLE")
    /\ UNCHANGED <<turn, gfx, tanks, sim>>

TurnPlDone ==
    /\ At({"TURN_PL_DONE"})
    /\ armed' = armed \cup ({plorder[curplayer]} \ dead)
    /\ IF Sequential THEN Later("RUN_TALK")
       ELSE Now("TURN_PL_NEXT") /\ UNCHANGED substate
    /\ UNCHANGED <<turn, gfx, dead, life, wins, sim>>

\* Fault: the last player in order is not asked.
MorePlayersShort == curplayer + 2 < N

\* ++g->curplayer < c->numplayers
MorePlayers == curplayer + 1 < N

TurnPlNext ==
    /\ At({"TURN_PL_NEXT"})
    /\ IF MorePlayers
       THEN /\ curplayer' = curplayer + 1
            /\ Now("TURN_PL_BEGIN") /\ UNCHANGED substate
       ELSE IF Sequential
       THEN /\ curplayer' = curplayer + 1
            /\ Now("TURN_END") /\ UNCHANGED substate
       ELSE /\ curplayer' = 0
            /\ Later("RUN_TALK")
    /\ UNCHANGED <<curround, plorder, gfx, tanks, sim>>

-----------------------------------------------------------------------------
(* Running the orders: talk, fire, fly, explode, drop, die. *)

RunTalk ==
    /\ At({"RUN_TALK"})
    /\ LET p    == plorder[curplayer]
           last == Sequential \/ curplayer + 1 >= N
           next == IF last THEN "RUN_CREATION" ELSE "RUN_TALK"
       IN /\ curplayer' = IF last THEN curplayer ELSE curplayer + 1
          /\ \/ p \in armed \ dead /\ ~Fast /\ Later(next)
             \/ Now(next) /\ UNCHANGED substate
    /\ UNCHANGED <<curround, plorder, gfx, tanks, sim>>

\* sc_player's armed flag is cleared as the weapon is created.
Disarm(shooters) == armed \ shooters

\* sc_weapon_create_all: each armed player fires; a weapon that bursts at
\* the tank leaves explosions at once.
RunCreation ==
    /\ At({"RUN_CREATION"})
    /\ LET shooters == armed \ dead IN
       /\ armed' = Disarm(shooters)
       /\ fired' = fired \cup shooters
       /\ \E volley \in [shooters -> 0 .. MaxFlight] :
            flight' = [p \in Player |-> IF p \in shooters THEN volley[p]
                                                          ELSE flight[p]]
       /\ \E new \in SUBSET Free(expl) :
            /\ shooters = {} => new = {}
            /\ expl' = Append1(expl, new)
            /\ Now(IF new # {} THEN "RUN_EXPLOSION" ELSE "RUN_WEAPONS")
    /\ activity' = FALSE
    /\ UNCHANGED <<substate, turn, gfx, dead, life, wins, falls, scan, acted>>

\* sc_weapon_track_all: every volley in the air is tracked one round on.  A
\* weapon that lands while an explosion waits in init stays where it is.
\* The landfall of a trajectory lets all tanks drop until they settle.
Track(new) ==
    /\ expl' = Append1(expl, new)
    /\ flight' \in [Player -> 0 .. MaxFlight]
    /\ \A p \in Player :
         flight'[p] \in {flight[p], flight[p] - 1} \cap 0 .. MaxFlight
    /\ \A p \in Player :
         flight'[p] = flight[p] /\ flight[p] > 0
            => In(expl, "init") # {} \/ new # {}
    /\ new # {} => flight' # flight
    /\ falls' \in IF flight' = flight THEN {falls} ELSE {0, falls}

RunWeapons ==
    /\ At({"RUN_WEAPONS"})
    /\ \E new \in SUBSET Free(expl) :
         /\ Track(new)
         /\ CASE new # {} -> \* SC_WEAPON_TRACK_DETONATE
                   /\ Now("RUN_EXPLOSION")
                   /\ UNCHANGED <<substate, activity>>
              [] new = {} /\ \E p \in Player : flight'[p] > 0 ->
                   \* SC_WEAPON_TRACK_NEED_RECURSE
                   /\ IF AnyExpl(expl)
                      THEN Now("RUN_EXPLOSION") /\ UNCHANGED substate
                      ELSE Later("RUN_WEAPONS")
                   /\ UNCHANGED activity
              [] OTHER -> \* SC_WEAPON_TRACK_NO_ACTION
                   /\ IF Interleave /\ activity
                      THEN activity' = FALSE /\ Now("RUN_EXPLOSION")
                      ELSE UNCHANGED activity /\ Now("RUN_END")
                   /\ UNCHANGED substate
    /\ UNCHANGED <<turn, gfx, tanks, scan, acted, fired>>

\* sc_player_damage_all, for each explosion about to be cleared: a living
\* tank in reach may lose life.
Damage(S) ==
    IF \A s \in S : expl[s].q # "clear_init" THEN UNCHANGED life
    ELSE /\ life' \in [Player -> 0 .. MaxLife]
         /\ \A p \in Player : /\ life'[p] <= life[p]
                              /\ ~Alive(p) => life'[p] = life[p]

\* Whatever an explosion does to the land, tanks may lose their footing.
RunExplosions(S, more) ==
    /\ expl' = RunAll(expl, S, more, Fast)
    /\ Damage(S)
    /\ falls' = IF S = {} THEN falls ELSE MaxFalls

\* sc_game_expl_queue_do_runnable, on the queue the scan has reached
ScanQueue ==
    /\ At({"RUN_EXPLOSION"}) /\ Interleave /\ scan <= 5
    /\ LET q == ScanOrder[scan]
           S == Runnable(expl, q)
       IN \E more \in SUBSET CanContinue(expl, S) :
            /\ RunExplosions(S, more)
            /\ acted' = (acted \/ (IF q = "done" THEN more ELSE S) # {})
    /\ scan' = scan + 1
    /\ UNCHANGED <<control, turn, gfx, dead, armed, wins, activity, flight, fired>>

\* The loop goes round again as long as any procedure returned true.
ScanAgain ==
    /\ At({"RUN_EXPLOSION"}) /\ scan = 6 /\ acted
    /\ scan' = 1
    /\ acted' = FALSE
    /\ UNCHANGED <<control, turn, gfx, tanks, activity, flight, falls, expl, fired>>

\* sc_game_expl_queue_run_first, on the only queue that may run; the loop
\* ends when it returns false.
RunFirst ==
    /\ At({"RUN_EXPLOSION"}) /\ ~Interleave /\ scan = 1
    /\ \E s \in Runnable(expl, FirstBusy(expl)) :
       \E more \in SUBSET CanContinue(expl, {s}) :
            /\ RunExplosions({s}, more)
            /\ scan' = IF expl[s].q = "done" /\ more = {} THEN 6 ELSE 1
    /\ UNCHANGED <<control, turn, gfx, dead, armed, wins, acted, activity,
                   flight, fired>>

\* Where _sc_state_run_explosion goes next, and the new g->activity
KeepExploding == ~Interleave /\ AnyExpl(expl)
StillBusy     == activity \/ AnyExpl(expl)

\* Rest of _sc_state_run_explosion, after its loop
FinishExplosion ==
    /\ At({"RUN_EXPLOSION"})
    /\ \/ scan = 6 /\ ~acted
       \/ ~Interleave /\ scan = 1 /\ Runnable(expl, FirstBusy(expl)) = {}
    /\ scan' = 1
    /\ expl' = Tick(expl)
    /\ activity' = StillBusy
    /\ IF KeepExploding
       THEN AllowNow("RUN_EXPLOSION")
       ELSE Now("RUN_PLAYER_DROP") /\ UNCHANGED substate
    /\ UNCHANGED <<acted, turn, gfx, tanks, flight, falls, fired>>

\* Fault: the scan for casualties goes on where the last one ended.
RestartScanNot == substate

\* The scan for casualties starts with the first player.
RestartScan == 0

\* sc_player_drop_all returns true while some tank still moves.
RunPlayerDrop ==
    /\ At({"RUN_PLAYER_DROP"})
    /\ \/ /\ falls > 0
          /\ falls' = falls - 1
          /\ activity' = TRUE
          /\ IF Interleave THEN Later("RUN_WEAPONS")
                           ELSE AllowNow("RUN_PLAYER_DROP")
       \/ /\ falls' = 0
          /\ substate' = RestartScan
          /\ Now("RUN_PLAYER_DEATH")
          /\ UNCHANGED activity
    /\ UNCHANGED <<turn, gfx, tanks, flight, blasts, fired>>

\* A tank that has just died goes up in explosions of its own.
RunPlayerDeath ==
    /\ At({"RUN_PLAYER_DEATH"})
    /\ IF substate >= N
       THEN Later("RUN_WEAPONS") /\ UNCHANGED <<activity, dead, expl>>
       ELSE IF substate \in dead \/ life[substate] > 0
       THEN /\ substate' = substate + 1
            /\ Now("RUN_PLAYER_DEATH")
            /\ UNCHANGED <<activity, dead, expl>>
       ELSE /\ activity' = TRUE
            /\ dead' = dead \cup {substate}
            /\ \E new \in SUBSET Free(expl) :
                 /\ Free(expl) # {} => new # {}
                 /\ expl' = Append1(expl, new)
            /\ IF Interleave
               THEN substate' = substate + 1 /\ Now("RUN_PLAYER_DEATH")
               ELSE /\ state' = "RUN_EXPLOSION"
                    /\ nested' = TRUE
                    /\ pending' = pending + 1
                    /\ UNCHANGED <<paused, substate>>
    /\ UNCHANGED <<turn, gfx, life, armed, wins, flight, falls, scan, acted, fired>>

\* Fault: the other players' orders of a sequential turn are skipped.
RunEndTurn ==
    /\ At({"RUN_END"})
    /\ Now("TURN_END")
    /\ UNCHANGED <<substate, turn, gfx, tanks, sim>>

RunEnd ==
    /\ At({"RUN_END"})
    /\ Now(IF Sequential THEN "TURN_PL_NEXT" ELSE "TURN_END")
    /\ UNCHANGED <<substate, turn, gfx, tanks, sim>>

-----------------------------------------------------------------------------
(* The user.  Callbacks run only between two timer calls. *)

\* "Begin Game" in the main menu
StartGame ==
    /\ ~nested /\ At({"PRELUDE_IDLE"})
    /\ Now("GAME_BEGIN")
    /\ UNCHANGED <<substate, turn, gfx, tanks, sim>>

CloseInventory ==
    /\ ~nested /\ At({"INVENTORY_PL_IDLE"})
    /\ Later("INVENTORY_PL_DONE")
    /\ UNCHANGED <<turn, gfx, tanks, sim>>

CloseAutoDefense ==
    /\ ~nested /\ At({"AUTO_DEFENSE"})
    /\ Now("AUTO_DEFENSE_LOOP")
    /\ UNCHANGED <<substate, turn, gfx, tanks, sim>>

CloseLottery ==
    /\ ~nested /\ At({"LOTTERY_DISPLAY_WAIT"})
    /\ Now("TURN_BEGIN")
    /\ UNCHANGED <<substate, turn, gfx, tanks, sim>>

\* The Enter key, when the current player is a human giving orders
EnterKey ==
    /\ ~nested /\ At({"TURN_PL_IDLE"})
    /\ plorder[curplayer] \in Human
    /\ Later("TURN_PL_DONE")
    /\ UNCHANGED <<turn, gfx, tanks, sim>>

\* sc_game_pause, by the menu or by opening a tank window
Pause ==
    /\ ~nested /\ ~paused /\ "pause" \in Menu
    /\ paused' = TRUE
    /\ UNCHANGED <<state, nested, pending, substate, turn, gfx, tanks, sim>>

\* sc_game_unpause, by closing the window; it also ends the *_IDLE states
\* whose code holds the pause bit.
Unpause ==
    /\ ~nested /\ paused
    /\ paused' = FALSE
    /\ UNCHANGED <<state, nested, pending, substate, turn, gfx, tanks, sim>>

\* A modal dialog pauses any other state, and then no menu can be used.
MenuOpen ==
    ~nested /\ (paused => state \in {"TURN_PL_IDLE", "ROUND_END_DONE",
                                     "GAME_END_DONE"})

\* Fault: the game that is given up is not taken down.
ResignKeepsField ==
    /\ MenuOpen /\ "resign" \in Menu
    /\ state' = "PRELUDE_BEGIN"
    /\ paused' = FALSE
    /\ UNCHANGED <<nested, pending, substate, turn, gfx, tanks, sim>>

Resign ==
    /\ MenuOpen /\ "resign" \in Menu
    /\ InitGame
    /\ state' = "PRELUDE_BEGIN"
    /\ paused' = FALSE
    /\ UNCHANGED <<nested, pending>>

\* sc_game_mass_kill
MassKill ==
    /\ MenuOpen /\ "masskill" \in Menu /\ IsRound
    /\ dead' = Player
    /\ state' = "ROUND_END"
    /\ paused' = FALSE
    /\ UNCHANGED <<nested, pending, substate, turn, gfx, life, armed, wins, sim>>

\* The system menu's "Graphics Are Fast" check box
SetGraphics ==
    /\ MenuOpen /\ "graphics" \in Menu
    /\ gfxfast' = ~gfxfast
    /\ UNCHANGED <<control, turn, componly, tanks, sim>>

-----------------------------------------------------------------------------
\* sc_game_new and the configuration a fresh program starts with
Init ==
    /\ state = "PRELUDE_BEGIN"
    /\ paused = FALSE
    /\ nested = FALSE
    /\ pending = 0
    /\ substate = 0
    /\ curplayer = 0
    /\ curround = -1
    /\ plorder = [i \in Player |-> i]
    /\ activity = FALSE
    /\ gfxfast \in BOOLEAN
    /\ componly = FALSE
    /\ dead = {}
    /\ life = [p \in Player |-> 0]
    /\ armed = {}
    /\ wins = [p \in Player |-> 0]
    /\ flight = [p \in Player |-> 0]
    /\ falls = 0
    /\ expl = [s \in Slot |-> NoExpl]
    /\ scan = 1
    /\ acted = FALSE
    /\ fired = {}

\* sc_state_run
Prepare == \/ PreludeBegin \/ GameBegin \/ InventoryBegin \/ InventoryPlBegin
           \/ InventoryPlDone \/ RoundBegin \/ AutoDefenseLoop
           \/ LotteryDisplay \/ RoundEnd \/ GameEnd
Turn    == TurnBegin \/ TurnPlBegin \/ TurnPlDone \/ TurnPlNext
Run     == \/ RunTalk \/ RunCreation \/ RunWeapons \/ ScanQueue \/ ScanAgain
           \/ RunFirst \/ FinishExplosion \/ RunPlayerDrop \/ RunPlayerDeath
           \/ RunEnd
Machine == Prepare \/ Turn \/ Run

Window == \/ StartGame \/ CloseInventory \/ CloseAutoDefense \/ CloseLottery
          \/ EnterKey \/ Unpause
Choose == Pause \/ Resign \/ MassKill \/ SetGraphics

Next == Machine \/ Window \/ Choose

Spec == Init /\ [][Next]_vars

\* The timer never stops, and the user closes every window some day and
\* ends every turn; nothing makes him use a menu.
Fairness == WF_vars(Machine) /\ WF_vars(Window)
FairSpec == Spec /\ Fairness

-----------------------------------------------------------------------------
(* Properties. *)

FlagType ==
    /\ paused \in BOOLEAN
    /\ nested \in BOOLEAN
    /\ activity \in BOOLEAN
    /\ gfxfast \in BOOLEAN
    /\ componly \in BOOLEAN
    /\ acted \in BOOLEAN

ControlType == state \in State /\ pending \in Nat /\ substate \in Nat

TurnType ==
    /\ curplayer \in 0 .. N
    /\ curround \in Int
    /\ plorder \in Orders

TankType ==
    /\ dead \subseteq Player
    /\ life \in [Player -> 0 .. MaxLife]
    /\ armed \subseteq Player
    /\ wins \in [Player -> Nat]

SimType ==
    /\ flight \in [Player -> 0 .. MaxFlight]
    /\ falls \in 0 .. MaxFalls
    /\ expl \in [Slot -> Explosion]
    /\ scan \in 1 .. 6
    /\ fired \subseteq Player

\* Every variable holds a value the code may store in it; curplayer in
\* particular never passes numplayers, where plorder ends.
TypeOK == FlagType /\ ControlType /\ TurnType /\ TankType /\ SimType

\* Nothing moves on the field: no explosion is in a queue and, in a round,
\* no weapon is in the air, no tank hangs in the air and no tank without
\* life still stands.
Settled ==
    /\ ~AnyExpl(expl)
    /\ IsRound => /\ \A p \in Player : flight[p] = 0
                  /\ falls = 0
                  /\ \A p \in Player : life[p] > 0 \/ p \in dead

\* Only the four simulation states work on a moving field.  When the machine
\* leaves them, by whatever chain of volleys, explosions, falls and deaths,
\* it has run them all down: no order is given, no round ended and no shop
\* opened while something still moves.
SettledOutsideRun ==
    state \notin {"RUN_WEAPONS", "RUN_EXPLOSION", "RUN_PLAYER_DROP",
                  "RUN_PLAYER_DEATH"} => Settled

\* Without interleaving one explosion is drawn, cleared and its land dropped
\* before the next one leaves the init queue.
OneBlastAtATime ==
    ~Interleave => \A s, t \in Slot :
        expl[s].q \notin {"none", "init"} /\ expl[t].q \notin {"none", "init"}
            => s = t

\* The scan for casualties has missed no one it has passed, although an
\* "++substate" may still wait on the stack for a nested call.
NoCasualtyMissed ==
    state = "RUN_PLAYER_DEATH" =>
        \A p \in Player : p < substate => life[p] > 0 \/ p \in dead

\* "must be a valid player": curplayer, which may be numplayers in between,
\* indexes a player in every state whose handler or key press uses it.
\* (Stated with the types: it never passes numplayers.)
CurplayerValid ==
    /\ TypeOK
    /\ state \in {"INVENTORY_PL_BEGIN", "INVENTORY_PL_DONE", "TURN_PL_BEGIN",
                  "TURN_PL_IDLE", "TURN_PL_DONE", "RUN_TALK"}
         => curplayer < N

\* A round is won by at most one player.
OneWinner ==
    [][\A p, q \in Player : wins'[p] > wins[p] /\ wins'[q] > wins[q] => p = q]_vars

\* "Since we are about to deallocate everything anyway": a new round starts
\* on a field without explosions.
RoundStartsClean == state = "AUTO_DEFENSE_LOOP" => ~AnyExpl(expl)

\* Every turn comes to its end: all volleys and all the explosions and
\* deaths they cause are run down, or mass kill ends the round.
TurnCompletes == state = "TURN_PL_BEGIN" ~> state \in {"TURN_END", "ROUND_END"}
=============================================================================
