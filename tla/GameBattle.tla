----------------------------- MODULE GameBattle -----------------------------
(* The state machine of GameState implements the specification Battle. *)
EXTENDS GameState

\* The states of sgame/sstate.h, by the phase of the battle they belong to.
PhaseOf(s) ==
    CASE s \in {"PRELUDE_BEGIN", "PRELUDE_IDLE", "GAME_BEGIN", "GAME_END",
                "GAME_END_DONE"}                              -> "menu"
      [] s \in {"INVENTORY_BEGIN", "INVENTORY_PL_BEGIN", "INVENTORY_PL_IDLE",
                "INVENTORY_PL_DONE", "ROUND_BEGIN"}           -> "shop"
      [] s \in {"AUTO_DEFENSE", "AUTO_DEFENSE_LOOP", "LOTTERY_DISPLAY",
                "LOTTERY_DISPLAY_WAIT", "TURN_BEGIN"}         -> "field"
      [] s \in {"TURN_PL_BEGIN", "TURN_PL_IDLE", "TURN_PL_DONE",
                "TURN_PL_NEXT", "RUN_TALK", "RUN_CREATION"}   -> "orders"
      [] s \in {"RUN_WEAPONS", "RUN_EXPLOSION", "RUN_PLAYER_DROP",
                "RUN_PLAYER_DEATH", "RUN_END"}                -> "volley"
      [] s = "TURN_END"                                       -> "turn over"
      [] s = "ROUND_END"                                      -> "decided"
      [] s = "ROUND_END_DONE"                                 -> "scores"

Living == {p \in Player : Alive(p)}

B == INSTANCE Battle WITH
        Tanks <- Player, phase <- PhaseOf(state), standing <- Living,
        shot <- fired, score <- wins

\* Every behaviour of the state machine is one the players were promised.
ImplementsBattle == B!BattleSpec
=============================================================================
