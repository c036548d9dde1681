--------------------------- MODULE GameStateProofs ---------------------------
(***************************************************************************)
(* What the state machine of GameState guarantees for any number of        *)
(* players, rounds and explosions, in both modes, proved with TLAPS.  The  *)
(* cursor comes first; the other properties each rest on an invariant      *)
(* that says, state by state, what the machine has finished there.  Last   *)
(* comes the refinement of Battle.                                         *)
(***************************************************************************)
EXTENDS GameBattle, TLAPS, FiniteSetTheorems

(***************************************************************************)
(* curplayer is the cursor of four loops and may rest on numplayers        *)
(* between them.  From the moment the first player is asked for orders     *)
(* until the last volley has run down it is a player, and so it is while   *)
(* the players do their shopping.                                          *)
(***************************************************************************)
CursorStates ==
    {"INVENTORY_PL_BEGIN", "INVENTORY_PL_IDLE", "INVENTORY_PL_DONE",
     "TURN_PL_BEGIN", "TURN_PL_IDLE", "TURN_PL_DONE", "TURN_PL_NEXT",
     "RUN_TALK", "RUN_CREATION", "RUN_WEAPONS", "RUN_EXPLOSION",
     "RUN_PLAYER_DROP", "RUN_PLAYER_DEATH", "RUN_END"}

CursorInBounds == state \in CursorStates => curplayer < N

TypeInv == TypeOK /\ CursorInBounds

-----------------------------------------------------------------------------
(* The explosion queues. *)

\* A procedure run on an explosion leaves a well-formed explosion, as it asks
\* for another frame only while there are some left.
LEMMA RunProcType ==
    ASSUME NEW r \in Explosion, r.q # "none", NEW more \in BOOLEAN,
           NEW fast \in BOOLEAN, more => r.frames > 0
    PROVE  RunProc(r, more, fast) \in Explosion
<1>1. Postpone(fast, ExplSteps) \in Nat /\ Postpone(fast, NextIterSteps) \in Nat
  BY FramesAssumption DEF Postpone
<1>2. Frames(r, more) \in 0 .. MaxFrames
  BY FramesAssumption DEF Frames, Explosion
<1>3. CASE r.q \in {"init", "draw"}
  BY <1>1, <1>2, <1>3 DEF RunProc, RunDraw, Explosion, Queue
<1>4. CASE r.q \in {"clear_init", "clear"}
  BY <1>1, <1>2, <1>4 DEF RunProc, RunClear, Explosion, Queue
<1>5. CASE r.q = "done"
  <2>1. RunProc(r, more, fast) = RunLandFall(r, more, fast)
    BY <1>5 DEF RunProc
  <2>2. NoExpl \in Explosion
    BY FramesAssumption DEF NoExpl, Explosion
  <2>3. [r EXCEPT !.wait = Postpone(fast, NextIterSteps),
                  !.frames = Frames(r, more)] \in Explosion
    BY <1>1, <1>2 DEF Explosion
  <2> QED
    BY <2>1, <2>2, <2>3 DEF RunLandFall
<1> QED
  BY <1>3, <1>4, <1>5 DEF Explosion, Queue

\* So does a pass of the procedures over a set of queued explosions ...
LEMMA RunAllType ==
    ASSUME NEW ex \in [Slot -> Explosion], NEW S \in SUBSET Slot,
           \A s \in S : ex[s].q # "none",
           NEW more \in SUBSET CanContinue(ex, S), NEW fast \in BOOLEAN
    PROVE  RunAll(ex, S, more, fast) \in [Slot -> Explosion]
<1> SUFFICES ASSUME NEW s \in S
             PROVE  RunProc(ex[s], s \in more, fast) \in Explosion
  BY DEF RunAll
<1>1. ex[s] \in Explosion /\ ex[s].q # "none"
  OBVIOUS
<1>2. s \in more => ex[s].frames > 0
  BY DEF CanContinue
<1>3. (s \in more) \in BOOLEAN
  OBVIOUS
<1> QED
  BY <1>1, <1>2, <1>3, RunProcType, Zenon

\* ... the countdown of the waiting explosions ...
LEMMA TickType ==
    ASSUME NEW ex \in [Slot -> Explosion]
    PROVE  Tick(ex) \in [Slot -> Explosion]
BY DEF Tick, Explosion

\* ... and the arrival of new ones.
LEMMA Append1Type ==
    ASSUME NEW ex \in [Slot -> Explosion], NEW new
    PROVE  Append1(ex, new) \in [Slot -> Explosion]
BY FramesAssumption DEF Append1, NewExpl, Explosion, Queue

\* sc_game_init leaves all queues empty.
LEMMA EmptyQueuesType == [s \in Slot |-> NoExpl] \in [Slot -> Explosion]
BY FramesAssumption DEF NoExpl, Explosion

-----------------------------------------------------------------------------
(* Type correctness. *)

LEMMA InitTypeInv == Init => TypeInv
<1> SUFFICES ASSUME Init PROVE TypeInv
  OBVIOUS
<1>1. FlagType
  BY DEF Init, FlagType
<1>2. ControlType /\ CursorInBounds
  BY DEF Init, ControlType, State, CursorInBounds, CursorStates
<1>3. TurnType
  BY PlayerAssumption DEF Init, TurnType, Orders
<1>4. TankType
  BY BoundAssumption DEF Init, TankType
<1>5. SimType
  BY FramesAssumption, BoundAssumption DEF Init, SimType, NoExpl, Explosion
<1> QED
  BY <1>1, <1>2, <1>3, <1>4, <1>5 DEF TypeInv, TypeOK

\* Explosions run on by one frame stay well formed, and the damage they do
\* leaves every tank between no life and full life.
LEMMA RunExplosionsType ==
    ASSUME SimType, TankType, NEW S \in SUBSET Slot,
           \A s \in S : expl[s].q # "none",
           NEW more \in SUBSET CanContinue(expl, S), RunExplosions(S, more)
    PROVE  /\ expl' \in [Slot -> Explosion]
           /\ life' \in [Player -> 0 .. MaxLife]
           /\ falls' \in 0 .. MaxFalls
<1>1. Fast \in BOOLEAN
  BY DEF Fast
<1>2. expl' \in [Slot -> Explosion]
  BY <1>1, RunAllType DEF RunExplosions, SimType
<1>3. life' \in [Player -> 0 .. MaxLife]
  BY DEF RunExplosions, Damage, TankType
<1>4. falls' \in 0 .. MaxFalls
  BY BoundAssumption DEF RunExplosions, SimType
<1> QED
  BY <1>2, <1>3, <1>4

\* Menus, shops and the preparation of a round.
LEMMA PrepareStepType == ASSUME TypeInv, Prepare PROVE TypeInv'
<1> USE DEF At, Now, Later, LaterPaused, AllowNow, Unwind,
            control, turn, gfx, tanks, blasts, sim
<1>0. /\ FlagType /\ ControlType /\ TurnType
      /\ TankType /\ SimType /\ CursorInBounds
  BY DEF TypeInv, TypeOK
<1>1. CASE PreludeBegin
  <2>1. FlagType'
    BY <1>0, <1>1, Zenon DEF PreludeBegin, FlagType
  <2>2. ControlType' /\ TurnType' /\ TankType' /\ SimType' /\ CursorInBounds'
    BY <1>0, <1>1, PlayerAssumption, BoundAssumption, SMT
    DEF PreludeBegin, ControlType, State, TurnType, TankType,
        SimType, CursorInBounds, CursorStates
  <2> QED
    BY <2>1, <2>2 DEF TypeInv, TypeOK
<1>2. CASE GameBegin
  <2>1. FlagType'
    BY <1>0, <1>2, Zenon DEF GameBegin, InitGame, FlagType
  <2>2. SimType'
    BY <1>0, <1>2, EmptyQueuesType DEF GameBegin, InitGame, SimType
  <2>3. ControlType' /\ TurnType' /\ TankType' /\ CursorInBounds'
    BY <1>0, <1>2, PlayerAssumption, BoundAssumption, SMT
    DEF GameBegin, InitGame, NewScores, ControlType, State, TurnType,
        TankType, CursorInBounds, CursorStates
  <2> QED
    BY <2>1, <2>2, <2>3 DEF TypeInv, TypeOK
<1>3. CASE InventoryBegin
  <2>1. FlagType'
    BY <1>0, <1>3, Zenon DEF InventoryBegin, FlagType
  <2>2. ControlType' /\ TurnType' /\ TankType' /\ SimType' /\ CursorInBounds'
    BY <1>0, <1>3, PlayerAssumption, BoundAssumption, SMT
    DEF InventoryBegin, ControlType, State, TurnType, TankType,
        SimType, CursorInBounds, CursorStates
  <2> QED
    BY <2>1, <2>2 DEF TypeInv, TypeOK
<1>4. CASE InventoryPlBegin
  <2>1. FlagType'
    BY <1>0, <1>4, Zenon DEF InventoryPlBegin, FlagType
  <2>2. ControlType' /\ TurnType' /\ TankType' /\ SimType' /\ CursorInBounds'
    BY <1>0, <1>4, PlayerAssumption, BoundAssumption, SMT
    DEF InventoryPlBegin, ControlType, State, TurnType, TankType,
        SimType, CursorInBounds, CursorStates
  <2> QED
    BY <2>1, <2>2 DEF TypeInv, TypeOK
<1>5. CASE InventoryPlDone
  <2>1. FlagType'
    BY <1>0, <1>5, Zenon DEF InventoryPlDone, FlagType
  <2>2. ControlType' /\ TurnType' /\ TankType' /\ SimType' /\ CursorInBounds'
    BY <1>0, <1>5, PlayerAssumption, BoundAssumption, SMT
    DEF InventoryPlDone, ControlType, State, TurnType, TankType,
        SimType, CursorInBounds, CursorStates
  <2> QED
    BY <2>1, <2>2 DEF TypeInv, TypeOK
<1>6. CASE RoundBegin
  <2>1. FlagType'
    BY <1>0, <1>6, Zenon DEF RoundBegin, FlagType
  <2>2. ControlType' /\ TurnType' /\ TankType' /\ SimType' /\ CursorInBounds'
    BY <1>0, <1>6, PlayerAssumption, BoundAssumption, SMT
    DEF RoundBegin, ControlType, State, TurnType, TankType,
        SimType, CursorInBounds, CursorStates
  <2> QED
    BY <2>1, <2>2 DEF TypeInv, TypeOK
<1>7. CASE AutoDefenseLoop
  <2>1. FlagType'
    BY <1>0, <1>7, Zenon DEF AutoDefenseLoop, FlagType
  <2>2. ControlType' /\ TurnType' /\ TankType' /\ SimType' /\ CursorInBounds'
    BY <1>0, <1>7, PlayerAssumption, BoundAssumption, SMT
    DEF AutoDefenseLoop, ControlType, State, TurnType, TankType,
        SimType, CursorInBounds, CursorStates
  <2> QED
    BY <2>1, <2>2 DEF TypeInv, TypeOK
<1>8. CASE LotteryDisplay
  <2>1. FlagType'
    BY <1>0, <1>8, Zenon DEF LotteryDisplay, FlagType
  <2>2. ControlType' /\ TurnType' /\ TankType' /\ SimType' /\ CursorInBounds'
    BY <1>0, <1>8, PlayerAssumption, BoundAssumption, SMT
    DEF LotteryDisplay, ControlType, State, TurnType, TankType,
        SimType, CursorInBounds, CursorStates
  <2> QED
    BY <2>1, <2>2 DEF TypeInv, TypeOK
<1>9. CASE RoundEnd
  <2>1. FlagType'
    BY <1>0, <1>9, Zenon DEF RoundEnd, FlagType
  <2>2. ControlType' /\ TurnType' /\ TankType' /\ SimType' /\ CursorInBounds'
    BY <1>0, <1>9, PlayerAssumption, BoundAssumption, SMT
    DEF RoundEnd, ControlType, State, TurnType, TankType,
        SimType, CursorInBounds, CursorStates
  <2> QED
    BY <2>1, <2>2 DEF TypeInv, TypeOK
<1>10. CASE GameEnd
  <2>1. FlagType'
    BY <1>0, <1>10, Zenon DEF GameEnd, FlagType
  <2>2. ControlType' /\ TurnType' /\ TankType' /\ SimType' /\ CursorInBounds'
    BY <1>0, <1>10, PlayerAssumption, BoundAssumption, SMT
    DEF GameEnd, ControlType, State, TurnType, TankType,
        SimType, CursorInBounds, CursorStates
  <2> QED
    BY <2>1, <2>2 DEF TypeInv, TypeOK
<1> QED
  BY <1>1, <1>2, <1>3, <1>4, <1>5, <1>6, <1>7, <1>8, <1>9, <1>10 DEF Prepare

\* The turns.
LEMMA TurnStepType == ASSUME TypeInv, Turn PROVE TypeInv'
<1> USE DEF At, Now, Later, LaterPaused, AllowNow, Unwind,
            control, turn, gfx, tanks, blasts, sim
<1>0. /\ FlagType /\ ControlType /\ TurnType
      /\ TankType /\ SimType /\ CursorInBounds
  BY DEF TypeInv, TypeOK
<1>1. CASE TurnBegin
  <2>1. FlagType'
    BY <1>0, <1>1, Zenon DEF TurnBegin, FlagType
  <2>2. ControlType' /\ TurnType' /\ TankType' /\ SimType' /\ CursorInBounds'
    BY <1>0, <1>1, PlayerAssumption, BoundAssumption, SMT
    DEF TurnBegin, ControlType, State, TurnType, TankType,
        SimType, CursorInBounds, CursorStates
  <2> QED
    BY <2>1, <2>2 DEF TypeInv, TypeOK
<1>2. CASE TurnPlBegin
  <2>1. FlagType'
    BY <1>0, <1>2, Zenon DEF TurnPlBegin, FlagType
  <2>2. ControlType' /\ TurnType' /\ TankType' /\ SimType' /\ CursorInBounds'
    BY <1>0, <1>2, PlayerAssumption, BoundAssumption, SMT
    DEF TurnPlBegin, ControlType, State, TurnType, TankType,
        SimType, CursorInBounds, CursorStates
  <2> QED
    BY <2>1, <2>2 DEF TypeInv, TypeOK
<1>3. CASE TurnPlDone
  <2>1. FlagType'
    BY <1>0, <1>3, Zenon DEF TurnPlDone, FlagType
  <2>2. plorder[curplayer] \in Player
    <3>1. curplayer \in Player
      BY <1>0, <1>3, PlayerAssumption
      DEF TurnPlDone, TurnType, CursorInBounds, CursorStates, Player
    <3> QED
      BY <1>0, <3>1 DEF TurnType, Orders
  <2>3. TankType'
    BY <1>0, <1>3, <2>2 DEF TurnPlDone, TankType
  <2>4. ControlType' /\ TurnType' /\ SimType' /\ CursorInBounds'
    BY <1>0, <1>3, PlayerAssumption, SMT
    DEF TurnPlDone, ControlType, State, TurnType, SimType,
        CursorInBounds, CursorStates
  <2> QED
    BY <2>1, <2>3, <2>4 DEF TypeInv, TypeOK
<1>4. CASE TurnPlNext
  <2>1. FlagType'
    BY <1>0, <1>4, Zenon DEF TurnPlNext, MorePlayers, FlagType
  <2>2. ControlType' /\ TurnType' /\ TankType' /\ SimType' /\ CursorInBounds'
    BY <1>0, <1>4, PlayerAssumption, BoundAssumption, SMT
    DEF TurnPlNext, MorePlayers, ControlType, State, TurnType, TankType,
        SimType, CursorInBounds, CursorStates
  <2> QED
    BY <2>1, <2>2 DEF TypeInv, TypeOK
<1> QED
  BY <1>1, <1>2, <1>3, <1>4 DEF Turn

\* Simulation.
LEMMA RunStepType == ASSUME TypeInv, Run PROVE TypeInv'
<1> USE DEF At, Now, Later, LaterPaused, AllowNow, Unwind,
            control, turn, gfx, tanks, blasts, sim
<1>0. /\ FlagType /\ ControlType /\ TurnType
      /\ TankType /\ SimType /\ CursorInBounds
  BY DEF TypeInv, TypeOK
<1>1. CASE RunTalk
  <2>1. FlagType'
    BY <1>0, <1>1, Zenon DEF RunTalk, FlagType
  <2>2. ControlType' /\ TurnType' /\ TankType' /\ SimType' /\ CursorInBounds'
    BY <1>0, <1>1, PlayerAssumption, BoundAssumption, SMT
    DEF RunTalk, ControlType, State, TurnType, TankType,
        SimType, CursorInBounds, CursorStates
  <2> QED
    BY <2>1, <2>2 DEF TypeInv, TypeOK
<1>2. CASE RunCreation
  <2>1. FlagType'
    BY <1>0, <1>2, Zenon DEF RunCreation, FlagType
  <2>2. PICK new \in SUBSET Free(expl) :
            /\ expl' = Append1(expl, new)
            /\ Now(IF new # {} THEN "RUN_EXPLOSION" ELSE "RUN_WEAPONS")
    BY <1>2 DEF RunCreation
  <2>3. expl' \in [Slot -> Explosion]
    BY <1>0, <2>2, Append1Type DEF SimType
  <2>4. flight' \in [Player -> 0 .. MaxFlight]
    BY <1>0, <1>2 DEF RunCreation, SimType
  <2>5. falls' \in 0 .. MaxFalls /\ scan' \in 1 .. 6 /\ fired' \subseteq Player
    BY <1>0, <1>2 DEF RunCreation, SimType, TankType
  <2>6. SimType'
    BY <2>3, <2>4, <2>5 DEF SimType
  <2>7. ControlType' /\ TurnType' /\ TankType' /\ CursorInBounds'
    BY <1>0, <1>2, <2>2, PlayerAssumption, BoundAssumption, SMT
    DEF RunCreation, Disarm, ControlType, State, TurnType, TankType,
        CursorInBounds, CursorStates
  <2> QED
    BY <2>1, <2>6, <2>7 DEF TypeInv, TypeOK
<1>3. CASE RunWeapons
  <2>1. FlagType'
    BY <1>0, <1>3, Zenon DEF RunWeapons, Track, FlagType
  <2>2. PICK new \in SUBSET Free(expl) : Track(new)
    BY <1>3 DEF RunWeapons
  <2>3. SimType'
    <3>1. expl' \in [Slot -> Explosion]
      BY <1>0, <2>2, Append1Type DEF SimType, Track
    <3>2. /\ flight' \in [Player -> 0 .. MaxFlight]
          /\ falls' \in 0 .. MaxFalls
      BY <1>0, <2>2, BoundAssumption DEF SimType, Track
    <3> QED
      BY <1>0, <1>3, <3>1, <3>2 DEF RunWeapons, SimType
  <2>4. ControlType' /\ TurnType' /\ TankType' /\ CursorInBounds'
    BY <1>0, <1>3, PlayerAssumption, BoundAssumption, SMT
    DEF RunWeapons, ControlType, State, TurnType, TankType,
        CursorInBounds, CursorStates
  <2> QED
    BY <2>1, <2>3, <2>4 DEF TypeInv, TypeOK
<1>4. CASE ScanQueue
  <2>1. FlagType'
    BY <1>0, <1>4, Zenon DEF ScanQueue, RunExplosions, Damage, FlagType
  <2>2. /\ expl' \in [Slot -> Explosion]
        /\ life' \in [Player -> 0 .. MaxLife]
        /\ falls' \in 0 .. MaxFalls
    <3> DEFINE q == ScanOrder[scan]
               S == Runnable(expl, q)
    <3>1. PICK more \in SUBSET CanContinue(expl, S) : RunExplosions(S, more)
      BY <1>4 DEF ScanQueue
    <3>2. S \in SUBSET Slot /\ \A s \in S : expl[s].q # "none"
      BY <1>0, <1>4 DEF ScanQueue, SimType, ScanOrder, Runnable, In
    <3> QED
      BY <1>0, <3>1, <3>2, RunExplosionsType
  <2>3. ControlType' /\ TurnType' /\ TankType' /\ SimType' /\ CursorInBounds'
    BY <1>0, <1>4, <2>2, SMT
    DEF ScanQueue, ControlType, TurnType, TankType, SimType, CursorInBounds
  <2> QED
    BY <2>1, <2>3 DEF TypeInv, TypeOK
<1>5. CASE ScanAgain
  <2>1. FlagType'
    BY <1>0, <1>5, Zenon DEF ScanAgain, FlagType
  <2>2. ControlType' /\ TurnType' /\ TankType' /\ SimType' /\ CursorInBounds'
    BY <1>0, <1>5, PlayerAssumption, BoundAssumption, SMT
    DEF ScanAgain, ControlType, State, TurnType, TankType,
        SimType, CursorInBounds, CursorStates
  <2> QED
    BY <2>1, <2>2 DEF TypeInv, TypeOK
<1>6. CASE RunFirst
  <2>1. FlagType'
    BY <1>0, <1>6, Zenon DEF RunFirst, RunExplosions, Damage, FlagType
  <2>2. PICK s \in Runnable(expl, FirstBusy(expl)) :
        \E more \in SUBSET CanContinue(expl, {s}) :
            /\ RunExplosions({s}, more)
            /\ scan' = IF expl[s].q = "done" /\ more = {} THEN 6 ELSE 1
    BY <1>6 DEF RunFirst
  <2>3. s \in Slot /\ expl[s].q # "none"
    BY <2>2 DEF FirstBusy, Runnable, In
  <2>4. /\ expl' \in [Slot -> Explosion]
        /\ life' \in [Player -> 0 .. MaxLife]
        /\ falls' \in 0 .. MaxFalls
    BY <1>0, <2>2, <2>3, RunExplosionsType
  <2>5. scan' \in 1 .. 6
    BY <2>2
  <2>6. ControlType' /\ TurnType' /\ TankType' /\ SimType' /\ CursorInBounds'
    BY <1>0, <1>6, <2>4, <2>5, SMT
    DEF RunFirst, ControlType, TurnType, TankType, SimType, CursorInBounds
  <2> QED
    BY <2>1, <2>6 DEF TypeInv, TypeOK
<1>7. CASE FinishExplosion
  <2>1. FlagType'
    <3>1. StillBusy \in BOOLEAN
      BY <1>0 DEF StillBusy, AnyExpl, FlagType
    <3>2. /\ nested' \in BOOLEAN
          /\ paused' = paused /\ activity' = StillBusy
          /\ acted' = acted /\ gfxfast' = gfxfast /\ componly' = componly
      BY <1>7, Zenon DEF FinishExplosion
    <3> QED
      BY <1>0, <3>1, <3>2, Zenon DEF FlagType
  <2>2. SimType'
    BY <1>0, <1>7, TickType DEF FinishExplosion, SimType
  <2>3. ControlType' /\ TurnType' /\ TankType' /\ CursorInBounds'
    BY <1>0, <1>7, SMT
    DEF FinishExplosion, ControlType, State, TurnType, TankType,
        CursorInBounds, CursorStates
  <2> QED
    BY <2>1, <2>2, <2>3 DEF TypeInv, TypeOK
<1>8. CASE RunPlayerDrop
  <2>1. FlagType'
    BY <1>0, <1>8, Zenon DEF RunPlayerDrop, RestartScan, FlagType
  <2>2. ControlType' /\ TurnType' /\ TankType' /\ SimType' /\ CursorInBounds'
    BY <1>0, <1>8, PlayerAssumption, BoundAssumption, SMT
    DEF RunPlayerDrop, RestartScan, ControlType, State, TurnType, TankType,
        SimType, CursorInBounds, CursorStates
  <2> QED
    BY <2>1, <2>2 DEF TypeInv, TypeOK
<1>9. CASE RunPlayerDeath
  <2>1. FlagType'
    BY <1>0, <1>9, Zenon DEF RunPlayerDeath, FlagType
  <2>2. expl' \in [Slot -> Explosion]
    BY <1>0, <1>9, Append1Type DEF RunPlayerDeath, SimType
  <2>3. dead' \subseteq Player
    <3>1. substate < N => substate \in Player
      BY <1>0, PlayerAssumption DEF ControlType, Player
    <3>2. dead' = dead \/ (substate < N /\ dead' = dead \cup {substate})
      BY <1>0, <1>9, PlayerAssumption DEF RunPlayerDeath, ControlType
    <3> QED
      BY <1>0, <3>1, <3>2 DEF TankType
  <2>4. TankType' /\ SimType'
    BY <1>0, <1>9, <2>2, <2>3 DEF RunPlayerDeath, TankType, SimType
  <2>5. ControlType' /\ TurnType' /\ CursorInBounds'
    BY <1>0, <1>9, SMT
    DEF RunPlayerDeath, ControlType, State, TurnType, CursorInBounds, CursorStates
  <2> QED
    BY <2>1, <2>4, <2>5 DEF TypeInv, TypeOK
<1>10. CASE RunEnd
  <2>1. FlagType'
    BY <1>0, <1>10, Zenon DEF RunEnd, FlagType
  <2>2. ControlType' /\ TurnType' /\ TankType' /\ SimType' /\ CursorInBounds'
    BY <1>0, <1>10, PlayerAssumption, BoundAssumption, SMT
    DEF RunEnd, ControlType, State, TurnType, TankType,
        SimType, CursorInBounds, CursorStates
  <2> QED
    BY <2>1, <2>2 DEF TypeInv, TypeOK
<1> QED
  BY <1>1, <1>2, <1>3, <1>4, <1>5, <1>6, <1>7, <1>8, <1>9, <1>10 DEF Run

\* The user.
LEMMA UserStepType == ASSUME TypeInv, Window \/ Choose PROVE TypeInv'
<1> USE DEF At, Now, Later, LaterPaused, AllowNow, Unwind,
            control, turn, gfx, tanks, blasts, sim
<1>0. /\ FlagType /\ ControlType /\ TurnType
      /\ TankType /\ SimType /\ CursorInBounds
  BY DEF TypeInv, TypeOK
<1>1. CASE StartGame
  <2>1. FlagType'
    BY <1>0, <1>1, Zenon DEF StartGame, FlagType
  <2>2. ControlType' /\ TurnType' /\ TankType' /\ SimType' /\ CursorInBounds'
    BY <1>0, <1>1, PlayerAssumption, BoundAssumption, SMT
    DEF StartGame, ControlType, State, TurnType, TankType,
        SimType, CursorInBounds, CursorStates
  <2> QED
    BY <2>1, <2>2 DEF TypeInv, TypeOK
<1>2. CASE CloseInventory
  <2>1. FlagType'
    BY <1>0, <1>2, Zenon DEF CloseInventory, FlagType
  <2>2. ControlType' /\ TurnType' /\ TankType' /\ SimType' /\ CursorInBounds'
    BY <1>0, <1>2, PlayerAssumption, BoundAssumption, SMT
    DEF CloseInventory, ControlType, State, TurnType, TankType,
        SimType, CursorInBounds, CursorStates
  <2> QED
    BY <2>1, <2>2 DEF TypeInv, TypeOK
<1>3. CASE CloseAutoDefense
  <2>1. FlagType'
    BY <1>0, <1>3, Zenon DEF CloseAutoDefense, FlagType
  <2>2. ControlType' /\ TurnType' /\ TankType' /\ SimType' /\ CursorInBounds'
    BY <1>0, <1>3, PlayerAssumption, BoundAssumption, SMT
    DEF CloseAutoDefense, ControlType, State, TurnType, TankType,
        SimType, CursorInBounds, CursorStates
  <2> QED
    BY <2>1, <2>2 DEF TypeInv, TypeOK
<1>4. CASE CloseLottery
  <2>1. FlagType'
    BY <1>0, <1>4, Zenon DEF CloseLottery, FlagType
  <2>2. ControlType' /\ TurnType' /\ TankType' /\ SimType' /\ CursorInBounds'
    BY <1>0, <1>4, PlayerAssumption, BoundAssumption, SMT
    DEF CloseLottery, ControlType, State, TurnType, TankType,
        SimType, CursorInBounds, CursorStates
  <2> QED
    BY <2>1, <2>2 DEF TypeInv, TypeOK
<1>5. CASE EnterKey
  <2>1. FlagType'
    BY <1>0, <1>5, Zenon DEF EnterKey, FlagType
  <2>2. ControlType' /\ TurnType' /\ TankType' /\ SimType' /\ CursorInBounds'
    BY <1>0, <1>5, PlayerAssumption, BoundAssumption, SMT
    DEF EnterKey, ControlType, State, TurnType, TankType,
        SimType, CursorInBounds, CursorStates
  <2> QED
    BY <2>1, <2>2 DEF TypeInv, TypeOK
<1>6. CASE Unpause
  <2>1. FlagType'
    BY <1>0, <1>6, Zenon DEF Unpause, FlagType
  <2>2. ControlType' /\ TurnType' /\ TankType' /\ SimType' /\ CursorInBounds'
    BY <1>0, <1>6, PlayerAssumption, BoundAssumption, SMT
    DEF Unpause, ControlType, State, TurnType, TankType,
        SimType, CursorInBounds, CursorStates
  <2> QED
    BY <2>1, <2>2 DEF TypeInv, TypeOK
<1>7. CASE Pause
  <2>1. FlagType'
    BY <1>0, <1>7, Zenon DEF Pause, FlagType
  <2>2. ControlType' /\ TurnType' /\ TankType' /\ SimType' /\ CursorInBounds'
    BY <1>0, <1>7, PlayerAssumption, BoundAssumption, SMT
    DEF Pause, ControlType, State, TurnType, TankType,
        SimType, CursorInBounds, CursorStates
  <2> QED
    BY <2>1, <2>2 DEF TypeInv, TypeOK
<1>8. CASE Resign
  <2>1. FlagType'
    BY <1>0, <1>8, Zenon DEF Resign, InitGame, FlagType
  <2>2. SimType'
    BY <1>0, <1>8, EmptyQueuesType DEF Resign, InitGame, SimType
  <2>3. ControlType' /\ TurnType' /\ TankType' /\ CursorInBounds'
    BY <1>0, <1>8, PlayerAssumption, BoundAssumption, SMT
    DEF Resign, InitGame, NewScores, ControlType, State, TurnType,
        TankType, CursorInBounds, CursorStates
  <2> QED
    BY <2>1, <2>2, <2>3 DEF TypeInv, TypeOK
<1>9. CASE MassKill
  <2>1. FlagType'
    BY <1>0, <1>9, Zenon DEF MassKill, FlagType
  <2>2. ControlType' /\ TurnType' /\ TankType' /\ SimType' /\ CursorInBounds'
    BY <1>0, <1>9, PlayerAssumption, BoundAssumption, SMT
    DEF MassKill, ControlType, State, TurnType, TankType,
        SimType, CursorInBounds, CursorStates
  <2> QED
    BY <2>1, <2>2 DEF TypeInv, TypeOK
<1>10. CASE SetGraphics
  <2>1. FlagType'
    BY <1>0, <1>10, Zenon DEF SetGraphics, FlagType
  <2>2. ControlType' /\ TurnType' /\ TankType' /\ SimType' /\ CursorInBounds'
    BY <1>0, <1>10, PlayerAssumption, BoundAssumption, SMT
    DEF SetGraphics, ControlType, State, TurnType, TankType,
        SimType, CursorInBounds, CursorStates
  <2> QED
    BY <2>1, <2>2 DEF TypeInv, TypeOK
<1> QED
  BY <1>1, <1>2, <1>3, <1>4, <1>5, <1>6, <1>7, <1>8, <1>9, <1>10 DEF Window, Choose

\* The invariant is inductive.
LEMMA NextTypeInv == ASSUME TypeInv, [Next]_vars PROVE TypeInv'
<1>1. CASE Next
  BY <1>1, PrepareStepType, TurnStepType, RunStepType, UserStepType
  DEF Next, Machine
<1>2. CASE UNCHANGED vars
  BY <1>2 DEF vars, control, turn, gfx, tanks, blasts, sim, TypeInv, TypeOK,
              FlagType, ControlType, TurnType, TankType, SimType, CursorInBounds
<1> QED
  BY <1>1, <1>2

\* The type invariant, with the cursor kept inside the order of play.
THEOREM TypeCorrect == Spec => []TypeInv
<1>1. TypeInv /\ [Next]_vars => TypeInv'
  BY NextTypeInv
<1> QED
  BY <1>1, InitTypeInv, PTL DEF Spec

\* Every variable keeps its type, whatever the user and the simulation do,
\* and curplayer is a player in every state that uses it as one.
THEOREM CurplayerIsValid == Spec => []CurplayerValid
<1>1. TypeInv => CurplayerValid
  BY DEF TypeInv, CursorInBounds, CursorStates, CurplayerValid
<1> QED
  BY <1>1, TypeCorrect, PTL

-----------------------------------------------------------------------------
(* Coming to rest. *)

\* The machine may leave the loop of simulation states through RUN_WEAPONS:
\* always when it does not interleave, and otherwise in a pass without
\* activity.
MayEnd == ~Interleave \/ ~activity

NoCasualty == \A p \in Player : life[p] > 0 \/ p \in dead
AllDown    == (\A p \in Player : flight[p] = 0) /\ falls = 0

\* What each state of the loop has already seen to.
DropInv    == state = "RUN_PLAYER_DROP" /\ MayEnd => ~AnyExpl(expl)
DeathInv   == state = "RUN_PLAYER_DEATH" =>
                 falls = 0 /\ (MayEnd => ~AnyExpl(expl))
WeaponsInv == state = "RUN_WEAPONS" /\ MayEnd =>
                 ~AnyExpl(expl) /\ falls = 0 /\ NoCasualty

\* The tanks are in place before the first turn of a round begins.
PlacedInv  == state \in {"AUTO_DEFENSE_LOOP", "AUTO_DEFENSE",
                         "LOTTERY_DISPLAY", "LOTTERY_DISPLAY_WAIT"} =>
                 AllDown /\ NoCasualty

RestInv == /\ DropInv /\ DeathInv /\ WeaponsInv /\ PlacedInv
           /\ NoCasualtyMissed
           /\ SettledOutsideRun

\* The queues: empty ones hold no explosion, a pass of the clock neither adds
\* nor removes any, and nothing changes when nothing arrives.
LEMMA EmptyQueues == ~AnyExpl([s \in Slot |-> NoExpl])
BY DEF AnyExpl, NoExpl

\* A tick of the clock brings no explosion.
LEMMA TickKeeps ==
    ASSUME NEW ex \in [Slot -> Explosion], AnyExpl(Tick(ex)) PROVE AnyExpl(ex)
BY DEF AnyExpl, Tick, Explosion

\* Nothing put behind a list leaves the list as it is.
LEMMA AppendNothing ==
    ASSUME NEW ex \in [Slot -> Explosion] PROVE Append1(ex, {}) = ex
BY DEF Append1

\* Between two rounds nothing is set in motion; a new round places the tanks.
LEMMA PrepareKeepsRest ==
    ASSUME TypeInv, RestInv, Prepare PROVE RestInv'
<1> USE DEF At, Now, Later, LaterPaused, AllowNow, Unwind,
            control, turn, gfx, tanks, blasts, sim
<1>0. FlagType /\ ControlType /\ TurnType /\ TankType /\ SimType
  BY DEF TypeInv, TypeOK
<1>1. CASE PreludeBegin
  BY <1>0, <1>1, SMT
  DEF PreludeBegin, RestInv, DropInv, DeathInv, WeaponsInv,
      PlacedInv, NoCasualty, AllDown, MayEnd,
      NoCasualtyMissed, SettledOutsideRun, Settled, IsRound
<1>2. CASE GameBegin
  <2>1. ~AnyExpl(expl')
    BY <1>2, EmptyQueues DEF GameBegin, InitGame
  <2> QED
    BY <1>2, <2>1 DEF GameBegin, RestInv, DropInv, DeathInv, WeaponsInv,
       PlacedInv, NoCasualtyMissed, SettledOutsideRun, Settled, IsRound
<1>3. CASE InventoryBegin
  BY <1>0, <1>3, SMT
  DEF InventoryBegin, RestInv, DropInv, DeathInv, WeaponsInv,
      PlacedInv, NoCasualty, AllDown, MayEnd,
      NoCasualtyMissed, SettledOutsideRun, Settled, IsRound
<1>4. CASE InventoryPlBegin
  BY <1>0, <1>4, SMT
  DEF InventoryPlBegin, RestInv, DropInv, DeathInv, WeaponsInv,
      PlacedInv, NoCasualty, AllDown, MayEnd,
      NoCasualtyMissed, SettledOutsideRun, Settled, IsRound
<1>5. CASE InventoryPlDone
  BY <1>0, <1>5, SMT
  DEF InventoryPlDone, RestInv, DropInv, DeathInv, WeaponsInv,
      PlacedInv, NoCasualty, AllDown, MayEnd,
      NoCasualtyMissed, SettledOutsideRun, Settled, IsRound
<1>6. CASE RoundBegin
  BY <1>0, <1>6, PlayerAssumption, BoundAssumption, SMT
  DEF RoundBegin, RestInv, DropInv, DeathInv, WeaponsInv,
      PlacedInv, NoCasualty, AllDown, MayEnd,
      NoCasualtyMissed, SettledOutsideRun, Settled, IsRound
<1>7. CASE AutoDefenseLoop
  BY <1>0, <1>7, SMT
  DEF AutoDefenseLoop, RestInv, DropInv, DeathInv, WeaponsInv,
      PlacedInv, NoCasualty, AllDown, MayEnd,
      NoCasualtyMissed, SettledOutsideRun, Settled, IsRound
<1>8. CASE LotteryDisplay
  BY <1>0, <1>8, SMT
  DEF LotteryDisplay, RestInv, DropInv, DeathInv, WeaponsInv,
      PlacedInv, NoCasualty, AllDown, MayEnd,
      NoCasualtyMissed, SettledOutsideRun, Settled, IsRound
<1>9. CASE RoundEnd
  BY <1>0, <1>9, SMT
  DEF RoundEnd, RestInv, DropInv, DeathInv, WeaponsInv,
      PlacedInv, NoCasualty, AllDown, MayEnd,
      NoCasualtyMissed, SettledOutsideRun, Settled, IsRound
<1>10. CASE GameEnd
  BY <1>0, <1>10, SMT
  DEF GameEnd, RestInv, DropInv, DeathInv, WeaponsInv,
      PlacedInv, NoCasualty, AllDown, MayEnd,
      NoCasualtyMissed, SettledOutsideRun, Settled, IsRound
<1> QED
  BY <1>1, <1>2, <1>3, <1>4, <1>5, <1>6, <1>7, <1>8, <1>9, <1>10 DEF Prepare

\* Taking orders moves nothing.
LEMMA TurnKeepsRest ==
    ASSUME TypeInv, RestInv, Turn PROVE RestInv'
<1> USE DEF At, Now, Later, LaterPaused, AllowNow, Unwind,
            control, turn, gfx, tanks, blasts, sim
<1>0. FlagType /\ ControlType /\ TurnType /\ TankType /\ SimType
  BY DEF TypeInv, TypeOK
<1>1. CASE TurnBegin
  BY <1>0, <1>1, SMT
  DEF TurnBegin, RestInv, DropInv, DeathInv, WeaponsInv,
      PlacedInv, NoCasualty, AllDown, MayEnd,
      NoCasualtyMissed, SettledOutsideRun, Settled, IsRound
<1>2. CASE TurnPlBegin
  BY <1>0, <1>2, SMT
  DEF TurnPlBegin, RestInv, DropInv, DeathInv, WeaponsInv,
      PlacedInv, NoCasualty, AllDown, MayEnd,
      NoCasualtyMissed, SettledOutsideRun, Settled, IsRound
<1>3. CASE TurnPlDone
  BY <1>0, <1>3, SMT
  DEF TurnPlDone, RestInv, DropInv, DeathInv, WeaponsInv,
      PlacedInv, NoCasualty, AllDown, MayEnd,
      NoCasualtyMissed, SettledOutsideRun, Settled, IsRound
<1>4. CASE TurnPlNext
  BY <1>0, <1>4, SMT
  DEF TurnPlNext, MorePlayers, RestInv, DropInv, DeathInv, WeaponsInv,
      PlacedInv, NoCasualty, AllDown, MayEnd,
      NoCasualtyMissed, SettledOutsideRun, Settled, IsRound
<1> QED
  BY <1>1, <1>2, <1>3, <1>4 DEF Turn

\* The loop of the simulation itself: each state finishes one kind of motion
\* and keeps what the states before it have finished.
LEMMA RunKeepsRest ==
    ASSUME TypeInv, RestInv, Run PROVE RestInv'
<1> USE DEF At, Now, Later, LaterPaused, AllowNow, Unwind,
            control, turn, gfx, tanks, blasts, sim
<1>0. FlagType /\ ControlType /\ TurnType /\ TankType /\ SimType
  BY DEF TypeInv, TypeOK
<1>1. CASE RunTalk
  BY <1>0, <1>1, SMT
  DEF RunTalk, RestInv, DropInv, DeathInv, WeaponsInv,
      PlacedInv, NoCasualty, AllDown, MayEnd,
      NoCasualtyMissed, SettledOutsideRun, Settled, IsRound
<1>2. CASE RunCreation
  <2>1. PICK new \in SUBSET Free(expl) :
            /\ expl' = Append1(expl, new)
            /\ Now(IF new # {} THEN "RUN_EXPLOSION" ELSE "RUN_WEAPONS")
    BY <1>2 DEF RunCreation
  <2>2. CASE new = {}
    <3>1. expl' = expl
      BY <1>0, <2>1, <2>2, AppendNothing DEF SimType
    <3>2. ~AnyExpl(expl) /\ falls = 0 /\ NoCasualty
      BY <1>2 DEF RunCreation, RestInv, SettledOutsideRun, Settled, IsRound,
                  NoCasualty
    <3>3. state' = "RUN_WEAPONS" /\ falls' = falls /\ life' = life /\ dead' = dead
      BY <1>2, <2>1, <2>2 DEF RunCreation
    <3> QED
      BY <3>1, <3>2, <3>3 DEF RestInv, DropInv, DeathInv, WeaponsInv,
         PlacedInv, NoCasualty, NoCasualtyMissed, SettledOutsideRun
  <2>3. CASE new # {}
    <3>1. state' = "RUN_EXPLOSION"
      BY <2>1, <2>3
    <3> QED
      BY <3>1 DEF RestInv, DropInv, DeathInv, WeaponsInv, PlacedInv,
         NoCasualtyMissed, SettledOutsideRun
  <2> QED
    BY <2>2, <2>3
<1>3. CASE RunWeapons
  <2>1. PICK new \in SUBSET Free(expl) :
            /\ Track(new)
            /\ \/ state' = "RUN_EXPLOSION"
               \/ /\ new = {} /\ state' = "RUN_WEAPONS"
                  /\ UNCHANGED activity
               \/ /\ new = {} /\ ~(\E p \in Player : flight'[p] > 0)
                  /\ ~(Interleave /\ activity)
                  /\ state' = "RUN_END"
    BY <1>3, Zenon DEF RunWeapons
  <2>2. life' = life /\ dead' = dead
    BY <1>3 DEF RunWeapons
  <2>3. CASE state' = "RUN_EXPLOSION"
    BY <2>3 DEF RestInv, DropInv, DeathInv, WeaponsInv, PlacedInv,
       NoCasualtyMissed, SettledOutsideRun
  <2>4. CASE new = {} /\ state' = "RUN_WEAPONS" /\ UNCHANGED activity
    <3>1. expl' = expl
      BY <1>0, <2>1, <2>4, AppendNothing DEF SimType, Track
    <3>2. falls = 0 => falls' = 0
      BY <2>1 DEF Track
    <3>3. WeaponsInv
      BY DEF RestInv
    <3>4. MayEnd' => MayEnd
      BY <2>4 DEF MayEnd
    <3>5. WeaponsInv'
      BY <1>3, <2>2, <3>1, <3>2, <3>3, <3>4
      DEF RunWeapons, WeaponsInv, NoCasualty
    <3> QED
      BY <2>4, <3>5 DEF RestInv, DropInv, DeathInv, PlacedInv,
         NoCasualtyMissed, SettledOutsideRun
  <2>5. CASE /\ new = {} /\ ~(\E p \in Player : flight'[p] > 0)
             /\ ~(Interleave /\ activity)
             /\ state' = "RUN_END"
    <3>1. expl' = expl
      BY <1>0, <2>1, <2>5, AppendNothing DEF SimType, Track
    <3>2. MayEnd
      BY <2>5 DEF MayEnd
    <3>3. ~AnyExpl(expl) /\ falls = 0 /\ NoCasualty
      BY <1>3, <3>2 DEF RunWeapons, RestInv, WeaponsInv
    <3>4. falls' = 0
      BY <2>1, <3>3 DEF Track
    <3>5. \A p \in Player : flight'[p] = 0
      BY <2>1, <2>5, BoundAssumption DEF Track
    <3>6. Settled'
      BY <2>2, <3>1, <3>3, <3>4, <3>5 DEF Settled, NoCasualty
    <3> QED
      BY <2>5, <3>6 DEF RestInv, DropInv, DeathInv, WeaponsInv, PlacedInv,
         NoCasualtyMissed, SettledOutsideRun
  <2> QED
    BY <2>1, <2>3, <2>4, <2>5
<1>4. CASE ScanQueue
  BY <1>0, <1>4, PlayerAssumption, BoundAssumption, SMT
  DEF ScanQueue, RunExplosions, Damage, RestInv, DropInv, DeathInv, WeaponsInv,
      PlacedInv, NoCasualty, AllDown, MayEnd,
      NoCasualtyMissed, SettledOutsideRun, Settled, IsRound
<1>5. CASE ScanAgain
  BY <1>0, <1>5, SMT
  DEF ScanAgain, RestInv, DropInv, DeathInv, WeaponsInv,
      PlacedInv, NoCasualty, AllDown, MayEnd,
      NoCasualtyMissed, SettledOutsideRun, Settled, IsRound
<1>6. CASE RunFirst
  BY <1>0, <1>6, PlayerAssumption, BoundAssumption, SMT
  DEF RunFirst, RunExplosions, Damage, RestInv, DropInv, DeathInv, WeaponsInv,
      PlacedInv, NoCasualty, AllDown, MayEnd,
      NoCasualtyMissed, SettledOutsideRun, Settled, IsRound
<1>7. CASE FinishExplosion
  <2>1. CASE state' = "RUN_EXPLOSION"
    BY <2>1 DEF RestInv, DropInv, DeathInv, WeaponsInv, PlacedInv,
       NoCasualtyMissed, SettledOutsideRun
  <2>2. CASE state' = "RUN_PLAYER_DROP" /\ ~KeepExploding
    <3>1. MayEnd' => ~AnyExpl(expl)
      BY <1>7, <2>2, Zenon
      DEF FinishExplosion, MayEnd, StillBusy, KeepExploding
    <3>2. AnyExpl(expl') => AnyExpl(expl)
      BY <1>0, <1>7, TickKeeps DEF FinishExplosion, SimType
    <3>3. DropInv'
      BY <3>1, <3>2 DEF DropInv
    <3> QED
      BY <2>2, <3>3 DEF RestInv, DeathInv, WeaponsInv, PlacedInv,
         NoCasualtyMissed, SettledOutsideRun
  <2>3. \/ state' = "RUN_EXPLOSION"
        \/ state' = "RUN_PLAYER_DROP" /\ ~KeepExploding
    BY <1>7 DEF FinishExplosion
  <2> QED
    BY <2>1, <2>2, <2>3
<1>8. CASE RunPlayerDrop
  <2>1. CASE falls > 0 /\ activity' = TRUE /\ expl' = expl
             /\ (IF Interleave THEN state' = "RUN_WEAPONS"
                               ELSE state' = "RUN_PLAYER_DROP")
    <3>1. MayEnd' => MayEnd /\ ~Interleave
      BY <2>1, Zenon DEF MayEnd
    <3>2. DropInv' /\ WeaponsInv'
      BY <1>8, <2>1, <3>1 DEF RunPlayerDrop, RestInv, DropInv, WeaponsInv
    <3> QED
      BY <2>1, <3>2 DEF RestInv, DeathInv, PlacedInv, NoCasualtyMissed,
                        SettledOutsideRun
  <2>2. CASE /\ falls' = 0 /\ substate' = 0 /\ UNCHANGED activity
             /\ state' = "RUN_PLAYER_DEATH" /\ expl' = expl
    <3>1. MayEnd' => MayEnd
      BY <2>2 DEF MayEnd
    <3>2. DeathInv'
      BY <1>8, <2>2, <3>1 DEF RunPlayerDrop, RestInv, DropInv, DeathInv
    <3>3. NoCasualtyMissed'
      BY <2>2, PlayerAssumption DEF NoCasualtyMissed, Player
    <3> QED
      BY <2>2, <3>2, <3>3 DEF RestInv, DropInv, WeaponsInv, PlacedInv,
                              SettledOutsideRun
  <2> QED
    BY <1>8, <2>1, <2>2 DEF RunPlayerDrop, RestartScan
<1>9. CASE RunPlayerDeath
  <2>1. life' = life /\ falls' = falls /\ state = "RUN_PLAYER_DEATH"
    BY <1>9 DEF RunPlayerDeath
  <2>2. falls = 0 /\ (MayEnd => ~AnyExpl(expl)) /\ NoCasualtyMissed
    BY <2>1 DEF RestInv, DeathInv
  <2>3. CASE /\ substate >= N /\ state' = "RUN_WEAPONS"
             /\ UNCHANGED <<activity, dead, expl>>
    <3>1. NoCasualty
      BY <1>0, <2>1, <2>2, <2>3, PlayerAssumption
      DEF NoCasualtyMissed, NoCasualty, Player, ControlType
    <3>2. WeaponsInv'
      BY <2>1, <2>2, <2>3, <3>1 DEF WeaponsInv, NoCasualty, MayEnd
    <3> QED
      BY <2>3, <3>2 DEF RestInv, DropInv, DeathInv, PlacedInv,
                        NoCasualtyMissed, SettledOutsideRun
  <2>4. CASE /\ substate < N /\ (substate \in dead \/ life[substate] > 0)
             /\ substate' = substate + 1 /\ state' = "RUN_PLAYER_DEATH"
             /\ UNCHANGED <<activity, dead, expl>>
    <3>1. DeathInv'
      BY <2>1, <2>2, <2>4 DEF DeathInv, MayEnd
    <3>2. NoCasualtyMissed'
      BY <1>0, <2>1, <2>2, <2>4, PlayerAssumption
      DEF NoCasualtyMissed, Player, ControlType
    <3> QED
      BY <2>4, <3>1, <3>2 DEF RestInv, DropInv, WeaponsInv, PlacedInv,
                              SettledOutsideRun
  <2>5. CASE /\ activity' = TRUE /\ dead' = dead \cup {substate}
             /\ Interleave
             /\ substate' = substate + 1 /\ state' = "RUN_PLAYER_DEATH"
    <3>1. ~MayEnd'
      BY <2>5, Zenon DEF MayEnd
    <3>2. DeathInv'
      BY <2>1, <2>2, <3>1 DEF DeathInv
    <3>3. NoCasualtyMissed'
      BY <1>0, <2>1, <2>2, <2>5, PlayerAssumption
      DEF NoCasualtyMissed, Player, ControlType
    <3> QED
      BY <2>5, <3>2, <3>3 DEF RestInv, DropInv, WeaponsInv, PlacedInv,
                              SettledOutsideRun
  <2>6. CASE state' = "RUN_EXPLOSION"
    BY <2>6 DEF RestInv, DropInv, DeathInv, WeaponsInv, PlacedInv,
       NoCasualtyMissed, SettledOutsideRun
  <2>7. CASE substate >= N
    BY <1>9, <2>3, <2>7 DEF RunPlayerDeath
  <2>8. CASE substate < N /\ (substate \in dead \/ life[substate] > 0)
    BY <1>0, <1>9, <2>4, <2>8, PlayerAssumption DEF RunPlayerDeath, ControlType
  <2>9. CASE substate < N /\ ~(substate \in dead \/ life[substate] > 0)
    <3>1. ~(substate >= N)
      BY <1>0, <2>9, PlayerAssumption DEF ControlType
    <3>2. /\ activity' = TRUE
          /\ dead' = dead \cup {substate}
          /\ \/ Interleave /\ substate' = substate + 1 /\ state' = "RUN_PLAYER_DEATH"
             \/ state' = "RUN_EXPLOSION"
      BY <1>9, <2>9, <3>1, Zenon DEF RunPlayerDeath
    <3> QED
      BY <2>5, <2>6, <3>2
  <2> QED
    BY <1>0, <2>7, <2>8, <2>9, PlayerAssumption DEF ControlType
<1>10. CASE RunEnd
  BY <1>0, <1>10, SMT
  DEF RunEnd, RestInv, DropInv, DeathInv, WeaponsInv,
      PlacedInv, NoCasualty, AllDown, MayEnd,
      NoCasualtyMissed, SettledOutsideRun, Settled, IsRound
<1> QED
  BY <1>1, <1>2, <1>3, <1>4, <1>5, <1>6, <1>7, <1>8, <1>9, <1>10 DEF Run

\* A user who resigns takes the whole field down; only a mass kill would leave
\* a field in motion behind.
LEMMA UserKeepsRest ==
    ASSUME TypeInv, RestInv, "masskill" \notin Menu, Window \/ Choose PROVE RestInv'
<1> USE DEF At, Now, Later, LaterPaused, AllowNow, Unwind,
            control, turn, gfx, tanks, blasts, sim
<1>0. FlagType /\ ControlType /\ TurnType /\ TankType /\ SimType
  BY DEF TypeInv, TypeOK
<1>1. CASE StartGame
  BY <1>0, <1>1, SMT
  DEF StartGame, RestInv, DropInv, DeathInv, WeaponsInv,
      PlacedInv, NoCasualty, AllDown, MayEnd,
      NoCasualtyMissed, SettledOutsideRun, Settled, IsRound
<1>2. CASE CloseInventory
  BY <1>0, <1>2, SMT
  DEF CloseInventory, RestInv, DropInv, DeathInv, WeaponsInv,
      PlacedInv, NoCasualty, AllDown, MayEnd,
      NoCasualtyMissed, SettledOutsideRun, Settled, IsRound
<1>3. CASE CloseAutoDefense
  BY <1>0, <1>3, SMT
  DEF CloseAutoDefense, RestInv, DropInv, DeathInv, WeaponsInv,
      PlacedInv, NoCasualty, AllDown, MayEnd,
      NoCasualtyMissed, SettledOutsideRun, Settled, IsRound
<1>4. CASE CloseLottery
  BY <1>0, <1>4, SMT
  DEF CloseLottery, RestInv, DropInv, DeathInv, WeaponsInv,
      PlacedInv, NoCasualty, AllDown, MayEnd,
      NoCasualtyMissed, SettledOutsideRun, Settled, IsRound
<1>5. CASE EnterKey
  BY <1>0, <1>5, SMT
  DEF EnterKey, RestInv, DropInv, DeathInv, WeaponsInv,
      PlacedInv, NoCasualty, AllDown, MayEnd,
      NoCasualtyMissed, SettledOutsideRun, Settled, IsRound
<1>6. CASE Unpause
  BY <1>0, <1>6, SMT
  DEF Unpause, RestInv, DropInv, DeathInv, WeaponsInv,
      PlacedInv, NoCasualty, AllDown, MayEnd,
      NoCasualtyMissed, SettledOutsideRun, Settled, IsRound
<1>7. CASE Pause
  BY <1>0, <1>7, SMT
  DEF Pause, RestInv, DropInv, DeathInv, WeaponsInv,
      PlacedInv, NoCasualty, AllDown, MayEnd,
      NoCasualtyMissed, SettledOutsideRun, Settled, IsRound
<1>8. CASE Resign
  <2>1. ~AnyExpl(expl')
    BY <1>8, EmptyQueues DEF Resign, InitGame
  <2> QED
    BY <1>8, <2>1 DEF Resign, RestInv, DropInv, DeathInv, WeaponsInv,
       PlacedInv, NoCasualtyMissed, SettledOutsideRun, Settled, IsRound
<1>9. CASE MassKill
  BY <1>0, <1>9, SMT
  DEF MassKill, RestInv, DropInv, DeathInv, WeaponsInv,
      PlacedInv, NoCasualty, AllDown, MayEnd,
      NoCasualtyMissed, SettledOutsideRun, Settled, IsRound
<1>10. CASE SetGraphics
  BY <1>0, <1>10, SMT
  DEF SetGraphics, RestInv, DropInv, DeathInv, WeaponsInv,
      PlacedInv, NoCasualty, AllDown, MayEnd,
      NoCasualtyMissed, SettledOutsideRun, Settled, IsRound
<1> QED
  BY <1>1, <1>2, <1>3, <1>4, <1>5, <1>6, <1>7, <1>8, <1>9, <1>10 DEF Window, Choose

\* Every step keeps what each state of the loop has finished.
LEMMA NextRestInv ==
    ASSUME "masskill" \notin Menu, TypeInv, RestInv, [Next]_vars PROVE RestInv'
<1>1. CASE Next
  BY <1>1, PrepareKeepsRest, TurnKeepsRest, RunKeepsRest, UserKeepsRest
  DEF Next, Machine
<1>2. CASE UNCHANGED vars
  BY <1>2 DEF vars, control, turn, gfx, tanks, sim, blasts, RestInv, DropInv,
              DeathInv, WeaponsInv, PlacedInv, NoCasualty, AllDown, MayEnd,
              NoCasualtyMissed, SettledOutsideRun, Settled, IsRound
<1> QED
  BY <1>1, <1>2

\* At the start nothing is flying or falling.
LEMMA InitRestInv == Init => RestInv
BY EmptyQueues DEF Init, RestInv, DropInv, DeathInv, WeaponsInv, PlacedInv,
   NoCasualtyMissed, SettledOutsideRun, Settled, IsRound

\* Without mass kill, no order is given, no round ended and no shop opened
\* while anything on the field still moves: the four simulation states are
\* left only when every chain of volleys, explosions, falls and deaths is over.
THEOREM ComesToRest ==
    ASSUME "masskill" \notin Menu PROVE Spec => []SettledOutsideRun
<1>1. RestInv /\ TypeInv /\ [Next]_vars => RestInv'
  BY NextRestInv
<1>2. RestInv => SettledOutsideRun
  BY DEF RestInv
<1> QED
  BY <1>1, <1>2, InitRestInv, TypeCorrect, PTL DEF Spec

-----------------------------------------------------------------------------
(* Casualties. *)

\* Outside the run no step leads into the scan for casualties, and the steps
\* of the user leave a scan as it is, or kill everybody.
LEMMA OutsideScan ==
    ASSUME NoCasualtyMissed, Prepare \/ Turn \/ Window \/ Choose
    PROVE  NoCasualtyMissed'
<1> USE DEF At, Now, Later, LaterPaused, AllowNow, Unwind,
            control, turn, gfx, tanks, blasts, sim
<1>1. CASE Prepare \/ Turn
  BY <1>1, SMT
  DEF Prepare, Turn,
      PreludeBegin, GameBegin, InitGame, InventoryBegin, InventoryPlBegin,
      InventoryPlDone, RoundBegin, AutoDefenseLoop, LotteryDisplay,
      RoundEnd, GameEnd, TurnBegin, TurnPlBegin, TurnPlDone, TurnPlNext,
      MorePlayers, NoCasualtyMissed
<1>2. CASE Window \/ Choose
  BY <1>2, SMT
  DEF Window, Choose,
      StartGame, CloseInventory, CloseAutoDefense, CloseLottery, EnterKey,
      Unpause, Pause, Resign, InitGame, MassKill, SetGraphics, IsRound,
      NoCasualtyMissed
<1> QED
  BY <1>1, <1>2

\* Every step keeps the scan from passing an unburied casualty.
LEMMA NextNoCasualtyMissed ==
    ASSUME TypeInv, NoCasualtyMissed, [Next]_vars PROVE NoCasualtyMissed'
<1> USE DEF At, Now, Later, LaterPaused, AllowNow, Unwind,
            control, turn, gfx, tanks, blasts, sim
<1>0. ControlType /\ TankType
  BY DEF TypeInv, TypeOK
<1>1. CASE RunPlayerDrop
  BY <1>1, PlayerAssumption DEF RunPlayerDrop, RestartScan, NoCasualtyMissed, Player
<1>2. CASE RunPlayerDeath
  <2>1. CASE substate >= N
    BY <1>2, <2>1 DEF RunPlayerDeath, NoCasualtyMissed
  <2>2. CASE state' = "RUN_EXPLOSION"
    BY <2>2 DEF NoCasualtyMissed
  <2>3. CASE /\ ~(substate >= N) /\ state' # "RUN_EXPLOSION"
    <3>1. /\ substate' = substate + 1
          /\ \/ dead' = dead /\ (substate \in dead \/ life[substate] > 0)
             \/ dead' = dead \cup {substate}
      BY <1>2, <2>3, Zenon DEF RunPlayerDeath
    <3>2. state = "RUN_PLAYER_DEATH" /\ life' = life
      BY <1>2 DEF RunPlayerDeath
    <3> QED
      BY <1>0, <3>1, <3>2, PlayerAssumption
      DEF NoCasualtyMissed, Player, ControlType
  <2> QED
    BY <2>1, <2>2, <2>3
<1>3. CASE RunTalk \/ RunCreation \/ RunWeapons \/ ScanQueue
           \/ ScanAgain \/ RunFirst \/ FinishExplosion
           \/ RunEnd
  BY <1>3, SMT
  DEF NoCasualtyMissed,
      RunTalk, RunCreation, RunWeapons, Track, ScanQueue, RunExplosions,
      Damage, ScanAgain, RunFirst, FinishExplosion, RunEnd
<1>4. CASE UNCHANGED vars
  BY <1>4 DEF vars, NoCasualtyMissed
<1> QED
  BY <1>1, <1>2, <1>3, <1>4, OutsideScan DEF Next, Machine, Run

\* The scan for casualties misses nobody it has passed, with mass kill or
\* without, although it is interrupted by nested runs of the simulation.
THEOREM MissesNoCasualty == Spec => []NoCasualtyMissed
<1>1. Init => NoCasualtyMissed
  BY DEF Init, NoCasualtyMissed
<1>2. NoCasualtyMissed /\ TypeInv /\ [Next]_vars => NoCasualtyMissed'
  BY NextNoCasualtyMissed
<1> QED
  BY <1>1, <1>2, TypeCorrect, PTL DEF Spec

-----------------------------------------------------------------------------
(* Winners. *)

AtMostOneAlive == \A p, q \in Player : Alive(p) /\ Alive(q) => p = q

\* sc_game_victor counts; what it finds is that no two tanks are alive.
LEMMA VictorMeansOne == Victor => AtMostOneAlive
<1> SUFFICES ASSUME Victor, NEW p \in Player, NEW q \in Player,
                    Alive(p), Alive(q), p # q
             PROVE  FALSE
  BY DEF AtMostOneAlive
<1> DEFINE living == {r \in Player : Alive(r)}
<1>1. IsFiniteSet(living) /\ Cardinality(living) \in Nat
  <2>1. IsFiniteSet(Player)
    BY PlayerAssumption, FS_Interval DEF Player
  <2> QED
    BY <2>1, FS_Subset, FS_CardinalityType
<1>2. Cardinality({p, q}) = 2
  <2>1. IsFiniteSet({p}) /\ Cardinality({p}) = 1
    BY FS_Singleton
  <2>2. {p} \cup {q} = {p, q}
    OBVIOUS
  <2> QED
    BY <2>1, <2>2, FS_AddElement
<1>3. Cardinality({p, q}) <= Cardinality(living)
  <2>1. {p, q} \in SUBSET living
    OBVIOUS
  <2> QED
    BY <1>1, <2>1, FS_Subset
<1> QED
  BY <1>1, <1>2, <1>3 DEF Victor

\* A round is over only when at most one tank is left.
DecidedInv == state = "ROUND_END" => AtMostOneAlive

\* Every step keeps the round decided once it has been credited.
LEMMA NextDecidedInv == ASSUME DecidedInv, [Next]_vars PROVE DecidedInv'
<1> USE DEF At, Now, Later, LaterPaused, AllowNow, Unwind,
            control, turn, gfx, tanks, blasts, sim
<1>1. CASE TurnBegin
  <2>1. state' = "ROUND_END" => AtMostOneAlive
    BY <1>1, VictorMeansOne DEF TurnBegin
  <2> QED
    BY <1>1, <2>1 DEF TurnBegin, DecidedInv, AtMostOneAlive, Alive
<1>2. CASE MassKill
  BY <1>2 DEF MassKill, DecidedInv, AtMostOneAlive, Alive
<1>3. CASE Prepare
  BY <1>3, SMT
  DEF Prepare, DecidedInv, AtMostOneAlive, Alive,
      PreludeBegin, GameBegin, InitGame, InventoryBegin, InventoryPlBegin,
      InventoryPlDone, RoundBegin, AutoDefenseLoop, LotteryDisplay,
      RoundEnd, GameEnd
<1>4. CASE TurnPlBegin \/ TurnPlDone \/ TurnPlNext \/ Run
  BY <1>4, SMT
  DEF Run, DecidedInv, AtMostOneAlive, Alive,
      TurnPlBegin, TurnPlDone, TurnPlNext, MorePlayers, RunTalk,
      RunCreation, RunWeapons, Track, ScanQueue, RunExplosions, Damage,
      ScanAgain, RunFirst, FinishExplosion, RunPlayerDrop, RestartScan,
      RunPlayerDeath, RunEnd
<1>5. CASE Window \/ Pause \/ Resign \/ SetGraphics
  BY <1>5, SMT
  DEF Window, DecidedInv, AtMostOneAlive, Alive,
      StartGame, CloseInventory, CloseAutoDefense, CloseLottery, EnterKey,
      Unpause, Pause, Resign, InitGame, SetGraphics
<1>6. CASE UNCHANGED vars
  BY <1>6 DEF vars, DecidedInv, AtMostOneAlive, Alive
<1> QED
  BY <1>1, <1>2, <1>3, <1>4, <1>5, <1>6 DEF Next, Machine, Turn, Choose

\* Only the end of a round changes a score, but for a new game, which takes
\* all scores back to zero.
LEMMA OnlyTheLivingWin ==
    ASSUME TypeInv, [Next]_vars, NEW p \in Player, wins'[p] > wins[p]
    PROVE  state = "ROUND_END" /\ Alive(p)
<1> USE DEF At, Now, Later, LaterPaused, AllowNow, Unwind,
            control, turn, gfx, tanks, blasts, sim
<1>0. TankType
  BY DEF TypeInv, TypeOK
<1>1. CASE RoundEnd
  BY <1>0, <1>1 DEF RoundEnd, TankType
<1>2. CASE GameBegin \/ Resign
  BY <1>0, <1>2 DEF GameBegin, Resign, InitGame, NewScores, TankType
<1>3. CASE UNCHANGED wins
  BY <1>0, <1>3 DEF TankType
<1>4. UNCHANGED vars \/ Turn \/ Run => UNCHANGED wins
  BY DEF vars, Turn, Run,
         TurnBegin, TurnPlBegin, TurnPlDone, TurnPlNext, RunTalk,
         RunCreation, RunWeapons, ScanQueue, ScanAgain, RunFirst,
         FinishExplosion, RunPlayerDrop, RunPlayerDeath, RunEnd
<1>5. Prepare => UNCHANGED wins \/ GameBegin \/ RoundEnd
  BY DEF Prepare,
         PreludeBegin, InventoryBegin, InventoryPlBegin, InventoryPlDone,
         RoundBegin, AutoDefenseLoop, LotteryDisplay, GameEnd
<1>6. Window \/ Choose => UNCHANGED wins \/ Resign
  BY DEF Window, Choose,
         StartGame, CloseInventory, CloseAutoDefense, CloseLottery,
         EnterKey, Unpause, Pause, MassKill, SetGraphics
<1> QED
  BY <1>1, <1>2, <1>3, <1>4, <1>5, <1>6 DEF Next, Machine

\* No round has two winners.
THEOREM AtMostOneWinner == Spec => OneWinner
<1>1. Init => DecidedInv
  BY DEF Init, DecidedInv
<1>2. DecidedInv /\ [Next]_vars => DecidedInv'
  BY NextDecidedInv
<1>3. TypeInv /\ DecidedInv /\ [Next]_vars
        => [\A p, q \in Player : wins'[p] > wins[p] /\ wins'[q] > wins[q]
                                   => p = q]_vars
  BY OnlyTheLivingWin DEF DecidedInv, AtMostOneAlive
<1> QED
  BY <1>1, <1>2, <1>3, TypeCorrect, PTL DEF Spec, OneWinner

-----------------------------------------------------------------------------
(* One explosion after the other. *)

Started(ex) == {s \in Slot : ex[s].q \notin {"none", "init"}}

\* New explosions wait, and the clock moves none.
LEMMA AppendStartsNone ==
    ASSUME NEW ex \in [Slot -> Explosion], NEW new
    PROVE  Started(Append1(ex, new)) \subseteq Started(ex)
BY DEF Started, Append1, NewExpl

\* A tick of the clock starts no explosion.
LEMMA TickStartsNone ==
    ASSUME NEW ex \in [Slot -> Explosion]
    PROVE  Started(Tick(ex)) \subseteq Started(ex)
BY DEF Started, Tick, Explosion

\* The queue that may run is the one that holds the started explosion; only
\* if there is none, the first explosion of init is started.
LEMMA FirstBusyStarted ==
    ASSUME NEW ex \in [Slot -> Explosion], NEW s \in Runnable(ex, FirstBusy(ex)),
           \A t, u \in Started(ex) : t = u
    PROVE  Started(ex) \subseteq {s}
<1>1. s \in Slot /\ ex[s].q = FirstBusy(ex)
  BY DEF Runnable, In
<1>2. CASE FirstBusy(ex) # "init"
  <2>1. s \in Started(ex)
    BY <1>1, <1>2 DEF Started, FirstBusy
  <2> QED
    BY <2>1
<1>3. CASE FirstBusy(ex) = "init"
  <2>1. /\ In(ex, "done") = {} /\ In(ex, "clear") = {}
        /\ In(ex, "clear_init") = {} /\ In(ex, "draw") = {}
    BY <1>3 DEF FirstBusy
  <2> QED
    BY <2>1 DEF Started, In, Explosion, Queue
<1> QED
  BY <1>2, <1>3

OneStarted == ~Interleave => \A s, t \in Started(expl) : s = t

\* Every step keeps at most one explosion out of the init queue.
LEMMA NextOneStarted == ASSUME TypeInv, OneStarted, [Next]_vars PROVE OneStarted'
<1>0. expl \in [Slot -> Explosion]
  BY DEF TypeInv, TypeOK, SimType
<1>1. CASE UNCHANGED expl
  BY <1>1 DEF OneStarted, Started
<1>2. CASE GameBegin \/ Resign
  <2>1. Started(expl') = {}
    BY <1>2 DEF GameBegin, Resign, InitGame, NoExpl, Started
  <2> QED
    BY <2>1 DEF OneStarted
<1>3. CASE \E new : expl' = Append1(expl, new)
  <2>1. Started(expl') \subseteq Started(expl)
    BY <1>0, <1>3, AppendStartsNone
  <2> QED
    BY <2>1 DEF OneStarted
<1>4. CASE FinishExplosion
  <2>1. Started(expl') \subseteq Started(expl)
    BY <1>0, <1>4, TickStartsNone DEF FinishExplosion
  <2> QED
    BY <2>1 DEF OneStarted
<1>5. CASE RunFirst
  <2>1. PICK s \in Runnable(expl, FirstBusy(expl)) :
             \E more \in SUBSET CanContinue(expl, {s}) : RunExplosions({s}, more)
    BY <1>5 DEF RunFirst
  <2>2. ~Interleave /\ Started(expl) \subseteq {s}
    <3>1. ~Interleave
      BY <1>5 DEF RunFirst
    <3> QED
      BY <1>0, <3>1, FirstBusyStarted DEF OneStarted
  <2>3. \A t \in Slot \ {s} : expl'[t] = expl[t]
    BY <2>1 DEF RunExplosions, RunAll
  <2> QED
    BY <2>2, <2>3 DEF OneStarted, Started
<1>6. CASE ScanQueue
  BY <1>6 DEF ScanQueue, OneStarted
<1>7. Prepare \/ Turn => UNCHANGED expl \/ GameBegin
  BY DEF Prepare, Turn, sim, blasts,
         PreludeBegin, InventoryBegin, InventoryPlBegin, InventoryPlDone,
         RoundBegin, AutoDefenseLoop, LotteryDisplay, RoundEnd, GameEnd,
         TurnBegin, TurnPlBegin, TurnPlDone, TurnPlNext
<1>8. Window \/ Choose \/ UNCHANGED vars => UNCHANGED expl \/ Resign
  BY DEF Window, Choose, vars, sim, blasts,
         StartGame, CloseInventory, CloseAutoDefense, CloseLottery,
         EnterKey, Unpause, Pause, MassKill, SetGraphics
<1>9. RunCreation \/ RunWeapons => \E new : expl' = Append1(expl, new)
  BY DEF RunCreation, RunWeapons, Track
<1>10. RunPlayerDeath => UNCHANGED expl \/ \E new : expl' = Append1(expl, new)
  BY DEF RunPlayerDeath
<1>11. RunTalk \/ ScanAgain \/ RunPlayerDrop \/ RunEnd => UNCHANGED expl
  BY DEF RunTalk, ScanAgain, RunPlayerDrop, RunEnd, sim, blasts
<1> QED
  BY <1>1, <1>2, <1>3, <1>4, <1>5, <1>6, <1>7, <1>8, <1>9, <1>10, <1>11
  DEF Next, Machine, Run

\* Without interleaving a blast is over before the next one begins.
THEOREM BlastsOneAtATime == Spec => []OneBlastAtATime
<1>1. Init => OneStarted
  BY DEF Init, NoExpl, OneStarted, Started
<1>2. OneStarted /\ TypeInv /\ [Next]_vars => OneStarted'
  BY NextOneStarted
<1>3. OneStarted => OneBlastAtATime
  BY DEF OneStarted, Started, OneBlastAtATime
<1> QED
  BY <1>1, <1>2, <1>3, TypeCorrect, PTL DEF Spec

-----------------------------------------------------------------------------
(***************************************************************************)
(* The machine implements the specification Battle: every surviving tank   *)
(* fires exactly one volley a turn, tanks are lost to volleys only unless  *)
(* the user kills them all, and a round is awarded once.  The invariant    *)
(* follows the orders from the player who gives them to the volley they    *)
(* become; a second one sees to it that whoever fires is alive.            *)
(***************************************************************************)

(* Orders. *)

Simulating == {"RUN_WEAPONS", "RUN_EXPLOSION", "RUN_PLAYER_DROP",
           "RUN_PLAYER_DEATH", "RUN_END"}
Asking == {"TURN_PL_BEGIN", "TURN_PL_IDLE", "TURN_PL_DONE"}
Firing == {"RUN_TALK", "RUN_CREATION"}

\* Nobody carries orders over from an earlier turn or an earlier volley.
NoOrders ==
    state \in {"AUTO_DEFENSE_LOOP", "AUTO_DEFENSE", "LOTTERY_DISPLAY",
               "LOTTERY_DISPLAY_WAIT", "TURN_BEGIN", "TURN_END"} \cup Simulating
        => armed = {}

\* Those who have orders are the first k players in order who are not dead.
ArmedBefore(k) ==
    \A i \in Player :
        plorder[i] \in armed <=> i < k /\ plorder[i] \notin dead

\* Of those who live exactly the first k players in order have fired.
FiredBefore(k) ==
    \A i \in Player :
        /\ plorder[i] \in fired => i < k
        /\ i < k /\ Alive(plorder[i]) => plorder[i] \in fired

\* One player after the other: each order becomes a volley at once.
OneByOne ==
    Sequential =>
        /\ state \in Asking \cup Firing => FiredBefore(curplayer)
        /\ state \in Simulating \cup {"TURN_PL_NEXT"} => FiredBefore(curplayer + 1)
        /\ state \in Asking \cup {"TURN_PL_NEXT"} => armed = {}
        /\ state \in Firing => armed = {plorder[curplayer]} \ dead

\* All together: the orders of all become one volley.
AllTogether ==
    ~Sequential =>
        /\ state \in Asking => fired = {} /\ ArmedBefore(curplayer)
        /\ state = "TURN_PL_NEXT" => fired = {} /\ ArmedBefore(curplayer + 1)
        /\ state \in Firing => fired = {} /\ armed = Player \ dead
        /\ state \in Simulating => Living \subseteq fired

AllHaveFired == state = "TURN_END" => Living \subseteq fired

OrderInv == NoOrders /\ OneByOne /\ AllTogether /\ AllHaveFired

\* The playing order names every player: it is a permutation.
LEMMA EveryoneInOrder ==
    ASSUME NEW f \in Orders, NEW p \in Player PROVE \E i \in Player : f[i] = p
<1>1. IsFiniteSet(Player)
  BY PlayerAssumption, FS_Interval DEF Player
<1>2. f \in Injection(Player, Player)
  BY DEF Orders, Injection, IsInjective
<1>3. f \in Surjection(Player, Player)
  BY <1>1, <1>2, FS_Injection
<1> QED
  BY <1>3 DEF Surjection

\* A tank is never brought back within a round, so whoever has fired while he
\* lived has fired.
LEMMA FewerAlive ==
    ASSUME TypeInv, UNCHANGED <<plorder, fired>>,
           \A p \in Player : Alive(p)' => Alive(p), NEW k, FiredBefore(k)
    PROVE  FiredBefore(k)'
BY DEF FiredBefore, TypeInv, TypeOK, TurnType, Orders
-----------------------------------------------------------------------------
(* The invariant of the orders. *)

\* At the start nobody has orders.
LEMMA InitOrderInv == Init => OrderInv
BY DEF Init, OrderInv, NoOrders, OneByOne, AllTogether, AllHaveFired,
       Simulating, Asking, Firing

\* A round begins without orders.
LEMMA PrepareKeepsOrders == ASSUME TypeInv, OrderInv, Prepare PROVE OrderInv'
<1> USE DEF At, Now, Later, LaterPaused, Unwind, control, turn, gfx, tanks, sim
<1>1. NoOrders'
  BY SMT
  DEF Prepare, OrderInv, NoOrders, Simulating,
      PreludeBegin, GameBegin, InitGame, InventoryBegin, InventoryPlBegin,
      InventoryPlDone, RoundBegin, AutoDefenseLoop, LotteryDisplay,
      RoundEnd, GameEnd
<1>2. state' \notin Asking \cup Firing \cup Simulating
                      \cup {"TURN_PL_NEXT", "TURN_END"}
  BY SMT
  DEF Prepare, Asking, Firing, Simulating,
      PreludeBegin, GameBegin, InitGame, InventoryBegin, InventoryPlBegin,
      InventoryPlDone, RoundBegin, AutoDefenseLoop, LotteryDisplay,
      RoundEnd, GameEnd
<1> QED
  BY <1>1, <1>2 DEF OrderInv, OneByOne, AllTogether, AllHaveFired

\* The players are asked one by one, in their order.
LEMMA TurnKeepsOrders == ASSUME TypeInv, OrderInv, Turn PROVE OrderInv'
<1> USE DEF At, Now, Later, Unwind, control, turn, gfx, tanks, sim
<1>0. /\ curplayer \in Nat /\ plorder \in Orders
      /\ state \in Asking \cup {"TURN_PL_NEXT"} => curplayer \in Player
  BY PlayerAssumption
  DEF TypeInv, TypeOK, TurnType, CursorInBounds, CursorStates, Asking, Player
<1>1. CASE TurnBegin
  <2>1. /\ armed' = {} /\ fired' = {} /\ plorder' = plorder
        /\ state' = "ROUND_END" \/ (state' = "TURN_PL_BEGIN" /\ curplayer' = 0)
    BY <1>1 DEF TurnBegin, OrderInv, NoOrders
  <2>2. curplayer' = 0 => ArmedBefore(curplayer)' /\ FiredBefore(curplayer)'
    BY <2>1, PlayerAssumption DEF ArmedBefore, FiredBefore, Player
  <2> QED
    BY <2>1, <2>2
    DEF OrderInv, NoOrders, OneByOne, AllTogether, AllHaveFired, Asking,
        Firing, Simulating
<1>2. CASE TurnPlBegin
  <2>1. /\ UNCHANGED <<armed, fired, plorder, curplayer, dead, life>>
        /\ state \in Asking /\ state' \in Asking
    BY <1>2 DEF TurnPlBegin, Asking
  <2>2. /\ FiredBefore(curplayer) => FiredBefore(curplayer)'
        /\ ArmedBefore(curplayer) => ArmedBefore(curplayer)'
    BY <2>1 DEF FiredBefore, ArmedBefore, Alive
  <2> QED
    BY <2>1, <2>2
    DEF OrderInv, NoOrders, OneByOne, AllTogether, AllHaveFired, Asking,
        Firing, Simulating
<1>3. CASE TurnPlDone
  <2>1. /\ UNCHANGED <<fired, plorder, curplayer, dead, life>>
        /\ armed' = armed \cup ({plorder[curplayer]} \ dead)
        /\ state \in Asking
        /\ state' = IF Sequential THEN "RUN_TALK" ELSE "TURN_PL_NEXT"
    BY <1>3 DEF TurnPlDone, Asking
  <2>2. CASE Sequential
    <3>1. FiredBefore(curplayer)'
      BY <2>1, <2>2 DEF OrderInv, OneByOne, FiredBefore, Alive
    <3>2. armed' = {plorder[curplayer]} \ dead
      BY <2>1, <2>2 DEF OrderInv, OneByOne
    <3> QED
      BY <2>1, <2>2, <3>1, <3>2
      DEF OrderInv, NoOrders, OneByOne, AllTogether, AllHaveFired, Asking,
          Firing, Simulating
  <2>3. CASE ~Sequential
    <3>1. fired = {} /\ ArmedBefore(curplayer)
      BY <2>1, <2>3 DEF OrderInv, AllTogether
    <3>2. ArmedBefore(curplayer + 1)'
      <4> SUFFICES ASSUME NEW i \in Player
                   PROVE  plorder[i] \in armed' <=>
                            i < curplayer + 1 /\ plorder[i] \notin dead
        BY <2>1 DEF ArmedBefore
      <4>1. plorder[i] \in armed <=> i < curplayer /\ plorder[i] \notin dead
        BY <3>1 DEF ArmedBefore
      <4>2. plorder[i] = plorder[curplayer] => i = curplayer
        BY <1>0, <2>1 DEF Orders
      <4>3. i < curplayer + 1 <=> i < curplayer \/ i = curplayer
        BY <1>0, PlayerAssumption DEF Player
      <4> QED
        BY <2>1, <4>1, <4>2, <4>3
    <3> QED
      BY <2>1, <2>3, <3>1, <3>2
      DEF OrderInv, NoOrders, OneByOne, AllTogether, AllHaveFired, Asking,
          Firing, Simulating
  <2> QED
    BY <2>2, <2>3
<1>4. CASE TurnPlNext
  <2>1. /\ UNCHANGED <<armed, fired, plorder, dead, life>>
        /\ state = "TURN_PL_NEXT"
        /\ \/ curplayer' = curplayer + 1 /\ state' = "TURN_PL_BEGIN"
           \/ Sequential /\ ~MorePlayers /\ state' = "TURN_END"
           \/ ~Sequential /\ ~MorePlayers /\ state' = "RUN_TALK"
    BY <1>4 DEF TurnPlNext
  <2>2. CASE curplayer' = curplayer + 1 /\ state' = "TURN_PL_BEGIN"
    <3>1. /\ FiredBefore(curplayer + 1) => FiredBefore(curplayer)'
          /\ ArmedBefore(curplayer + 1) => ArmedBefore(curplayer)'
      BY <2>1, <2>2 DEF FiredBefore, ArmedBefore, Alive
    <3> QED
      BY <2>1, <2>2, <3>1
      DEF OrderInv, NoOrders, OneByOne, AllTogether, AllHaveFired, Asking,
          Firing, Simulating
  <2>3. ~MorePlayers => \A i \in Player : i < curplayer + 1
    BY <1>0, PlayerAssumption DEF MorePlayers, Player
  <2>4. CASE Sequential /\ ~MorePlayers /\ state' = "TURN_END"
    <3>1. FiredBefore(curplayer + 1) /\ armed = {}
      BY <2>1, <2>4 DEF OrderInv, OneByOne
    <3>2. \A p \in Player : Alive(p) => p \in fired
      BY <1>0, <2>3, <2>4, <3>1, EveryoneInOrder DEF FiredBefore
    <3>3. (Living \subseteq fired)'
      BY <2>1, <3>2 DEF Living, Alive
    <3> QED
      BY <2>1, <2>4, <3>1, <3>3
      DEF OrderInv, NoOrders, OneByOne, AllTogether, AllHaveFired, Asking,
          Firing, Simulating
  <2>5. CASE ~Sequential /\ ~MorePlayers /\ state' = "RUN_TALK"
    <3>1. fired = {} /\ ArmedBefore(curplayer + 1)
      BY <2>1, <2>5 DEF OrderInv, AllTogether
    <3>2. \A p \in Player : p \in armed <=> p \notin dead
      BY <1>0, <2>3, <2>5, <3>1, EveryoneInOrder DEF ArmedBefore
    <3>3. armed = Player \ dead
      BY <3>2 DEF TypeInv, TypeOK, TankType
    <3> QED
      BY <2>1, <2>5, <3>1, <3>3
      DEF OrderInv, NoOrders, OneByOne, AllTogether, AllHaveFired, Asking,
          Firing, Simulating
  <2> QED
    BY <2>1, <2>2, <2>4, <2>5
<1> QED
  BY <1>1, <1>2, <1>3, <1>4 DEF Turn
\* While the volley runs down, tanks only lose life.
LEMMA SimulationOnlyKills ==
    ASSUME TypeInv,
           RunWeapons \/ ScanQueue \/ ScanAgain \/ RunFirst
             \/ FinishExplosion \/ RunPlayerDrop \/ RunPlayerDeath
    PROVE  /\ state \in Simulating \ {"RUN_END"} /\ state' \in Simulating
           /\ UNCHANGED <<armed, fired, plorder, curplayer, wins>>
           /\ \A p \in Player : Alive(p)' => Alive(p)
<1> USE DEF At, Now, Later, AllowNow, Unwind, control, turn, gfx, tanks, blasts
<1>0. TankType
  BY DEF TypeInv, TypeOK
<1>1. CASE ScanQueue \/ RunFirst
  <2>1. PICK S \in SUBSET Slot : Damage(S)
    BY <1>1
    DEF ScanQueue, RunFirst, RunExplosions, Runnable, In
  <2>2. \A p \in Player : life'[p] <= life[p]
    BY <1>0, <2>1, BoundAssumption DEF Damage, TankType
  <2>3. life' \in [Player -> 0 .. MaxLife]
    BY <1>0, <2>1 DEF Damage, TankType
  <2>4. UNCHANGED <<state, armed, fired, plorder, curplayer, wins, dead>>
    BY <1>1 DEF ScanQueue, RunFirst
  <2>5. state = "RUN_EXPLOSION"
    BY <1>1 DEF ScanQueue, RunFirst
  <2>6. \A p \in Player : Alive(p)' => Alive(p)
    BY <1>0, <2>2, <2>3, <2>4, BoundAssumption DEF Alive, TankType
  <2> QED
    BY <2>4, <2>5, <2>6 DEF Simulating
<1>2. CASE RunPlayerDeath
  BY <1>2 DEF RunPlayerDeath, Simulating, Alive
<1>3. CASE RunWeapons \/ ScanAgain \/ FinishExplosion \/ RunPlayerDrop
  BY <1>3, SMT
  DEF RunWeapons, ScanAgain, FinishExplosion, RunPlayerDrop, RestartScan,
      Simulating, Alive
<1> QED
  BY <1>1, <1>2, <1>3

\* Who has fired stays so, and no one who still lives is forgotten.
LEMMA SimulationKeepsOrders ==
    ASSUME TypeInv, OrderInv,
           RunWeapons \/ ScanQueue \/ ScanAgain \/ RunFirst
             \/ FinishExplosion \/ RunPlayerDrop \/ RunPlayerDeath
    PROVE  OrderInv'
<1>1. /\ state \in Simulating /\ state' \in Simulating
      /\ UNCHANGED <<armed, fired, plorder, curplayer>>
      /\ \A p \in Player : Alive(p)' => Alive(p)
  BY SimulationOnlyKills
<1>2. FiredBefore(curplayer + 1) => FiredBefore(curplayer + 1)'
  BY <1>1 DEF FiredBefore, TypeInv, TypeOK, TurnType, Orders
<1>3. Living \subseteq fired => (Living \subseteq fired)'
  BY <1>1 DEF Living
<1>4. NoOrders' /\ AllHaveFired'
  BY <1>1 DEF OrderInv, NoOrders, AllHaveFired, Simulating
<1>5. OneByOne'
  BY <1>1, <1>2 DEF OrderInv, OneByOne, Simulating, Asking, Firing
<1>6. AllTogether'
  BY <1>1, <1>3 DEF OrderInv, AllTogether, Simulating, Asking, Firing
<1> QED
  BY <1>4, <1>5, <1>6 DEF OrderInv

\* Orders become volleys.
LEMMA RunKeepsOrders == ASSUME TypeInv, OrderInv, Run PROVE OrderInv'
<1> USE DEF At, Now, Later, Unwind, control, turn, gfx, tanks, sim
<1>0. /\ curplayer \in Nat /\ plorder \in Orders
      /\ state \in Firing \cup Simulating => curplayer \in Player
  BY PlayerAssumption
  DEF TypeInv, TypeOK, TurnType, CursorInBounds, CursorStates, Firing,
      Simulating, Player
<1>1. CASE RunTalk
  <2>1. /\ UNCHANGED <<armed, fired, plorder, dead, life>>
        /\ Sequential => curplayer' = curplayer
        /\ state \in Firing /\ state' \in Firing
    BY <1>1 DEF RunTalk, Firing
  <2>2. Sequential => (FiredBefore(curplayer) => FiredBefore(curplayer)')
    BY <2>1 DEF FiredBefore, Alive
  <2> QED
    BY <2>1, <2>2
    DEF OrderInv, NoOrders, OneByOne, AllTogether, AllHaveFired, Asking,
        Firing, Simulating
<1>2. CASE RunCreation
  <2>1. /\ UNCHANGED <<plorder, curplayer, dead, life>>
        /\ armed' = armed \ (armed \ dead)
        /\ fired' = fired \cup (armed \ dead)
        /\ state = "RUN_CREATION"
        /\ state' \in {"RUN_EXPLOSION", "RUN_WEAPONS"}
    BY <1>2 DEF RunCreation, Disarm
  <2>2. CASE Sequential
    <3>1. FiredBefore(curplayer) /\ armed = {plorder[curplayer]} \ dead
      BY <2>1, <2>2 DEF OrderInv, OneByOne, Firing
    <3>2. fired' = fired \cup ({plorder[curplayer]} \ dead) /\ armed' = {}
      BY <2>1, <3>1
    <3>3. FiredBefore(curplayer + 1)'
      <4> SUFFICES ASSUME NEW i \in Player
                   PROVE  /\ plorder[i] \in fired' => i < curplayer + 1
                          /\ i < curplayer + 1 /\ Alive(plorder[i])
                               => plorder[i] \in fired'
        BY <2>1 DEF FiredBefore, Alive
      <4>1. /\ plorder[i] \in fired => i < curplayer
            /\ i < curplayer /\ Alive(plorder[i]) => plorder[i] \in fired
        BY <3>1 DEF FiredBefore
      <4>2. plorder[i] = plorder[curplayer] => i = curplayer
        BY <1>0, <2>1 DEF Orders, Firing
      <4>3. i < curplayer + 1 <=> i < curplayer \/ i = curplayer
        BY <1>0, PlayerAssumption DEF Player
      <4> QED
        BY <3>2, <4>1, <4>2, <4>3 DEF Alive
    <3> QED
      BY <2>1, <2>2, <3>2, <3>3
      DEF OrderInv, NoOrders, OneByOne, AllTogether, AllHaveFired, Asking,
          Firing, Simulating
  <2>3. CASE ~Sequential
    <3>1. armed = Player \ dead
      BY <2>1, <2>3 DEF OrderInv, AllTogether, Firing
    <3>2. armed' = {} /\ (Living \subseteq fired)'
      BY <2>1, <3>1 DEF Living, Alive
    <3> QED
      BY <2>1, <2>3, <3>2
      DEF OrderInv, NoOrders, OneByOne, AllTogether, AllHaveFired, Asking,
          Firing, Simulating
  <2> QED
    BY <2>2, <2>3
<1>3. CASE RunEnd
  <2>1. /\ UNCHANGED <<armed, fired, plorder, curplayer, dead, life>>
        /\ state = "RUN_END"
        /\ state' = IF Sequential THEN "TURN_PL_NEXT" ELSE "TURN_END"
    BY <1>3 DEF RunEnd
  <2>2. FiredBefore(curplayer + 1) => FiredBefore(curplayer + 1)'
    BY <2>1 DEF FiredBefore, Alive
  <2>3. Living \subseteq fired => (Living \subseteq fired)'
    BY <2>1 DEF Living, Alive
  <2> QED
    BY <2>1, <2>2, <2>3
    DEF OrderInv, NoOrders, OneByOne, AllTogether, AllHaveFired, Asking,
        Firing, Simulating
<1> QED
  BY <1>1, <1>2, <1>3, SimulationKeepsOrders DEF Run

\* The user ends the wait for orders; giving up the game forgets them.
LEMMA UserKeepsOrders ==
    ASSUME TypeInv, OrderInv, Window \/ Choose PROVE OrderInv'
<1> USE DEF At, Now, Later, Unwind, control, turn, gfx, tanks, sim
<1>1. CASE UNCHANGED <<armed, fired, plorder, curplayer, dead, life>>
  <2>1. \/ UNCHANGED state
        \/ state' = "PRELUDE_BEGIN"
        \/ state = "TURN_PL_IDLE" /\ state' = "TURN_PL_DONE"
        \/ /\ state \in {"AUTO_DEFENSE", "LOTTERY_DISPLAY_WAIT"}
           /\ state' \in {"AUTO_DEFENSE_LOOP", "TURN_BEGIN"}
        \/ state' \in {"GAME_BEGIN", "INVENTORY_PL_DONE", "ROUND_END"}
    BY DEF Window, Choose, StartGame, CloseInventory, CloseAutoDefense,
           CloseLottery, EnterKey, Unpause, Pause, Resign, MassKill,
           SetGraphics
  <2>2. /\ FiredBefore(curplayer) => FiredBefore(curplayer)'
        /\ FiredBefore(curplayer + 1) => FiredBefore(curplayer + 1)'
        /\ ArmedBefore(curplayer) => ArmedBefore(curplayer)'
        /\ ArmedBefore(curplayer + 1) => ArmedBefore(curplayer + 1)'
        /\ Living \subseteq fired => (Living \subseteq fired)'
    BY <1>1 DEF FiredBefore, ArmedBefore, Living, Alive
  <2> QED
    BY <1>1, <2>1, <2>2
    DEF OrderInv, NoOrders, OneByOne, AllTogether, AllHaveFired, Asking,
        Firing, Simulating
<1>2. CASE Resign \/ MassKill
  <2>1. state' \in {"PRELUDE_BEGIN", "ROUND_END"}
    BY <1>2 DEF Resign, MassKill
  <2> QED
    BY <2>1
    DEF OrderInv, NoOrders, OneByOne, AllTogether, AllHaveFired, Asking,
        Firing, Simulating
<1> QED
  BY <1>1, <1>2
  DEF Window, Choose, StartGame, CloseInventory, CloseAutoDefense,
      CloseLottery, EnterKey, Unpause, Pause, SetGraphics

\* The invariant is inductive.
LEMMA NextOrderInv ==
    ASSUME TypeInv, OrderInv, [Next]_vars PROVE OrderInv'
<1>1. CASE Next
  BY <1>1, PrepareKeepsOrders, TurnKeepsOrders, RunKeepsOrders,
     UserKeepsOrders DEF Next, Machine
<1>2. CASE UNCHANGED vars
  BY <1>2
  DEF vars, control, turn, tanks, sim, OrderInv, NoOrders, OneByOne,
      AllTogether, AllHaveFired, FiredBefore, ArmedBefore, Living, Alive
<1> QED
  BY <1>1, <1>2
-----------------------------------------------------------------------------
(* Casualties. *)

\* Before a volley is fired and after it has run down, whoever has no life
\* left is dead.  The volley has run down when RUN_WEAPONS may end it.
CasualtyInv ==
    /\ state \in Asking \cup Firing \cup
          {"AUTO_DEFENSE_LOOP", "AUTO_DEFENSE", "LOTTERY_DISPLAY",
           "LOTTERY_DISPLAY_WAIT", "TURN_BEGIN", "TURN_PL_NEXT", "RUN_END",
           "TURN_END"}
         => NoCasualty
    /\ state = "RUN_WEAPONS" /\ MayEnd => NoCasualty

\* At the start no round is on.
LEMMA InitCasualtyInv == Init => CasualtyInv
BY DEF Init, CasualtyInv, Asking, Firing

\* No step brings somebody without life to a state where all should live:
\* mass kill leaves nobody alive, and a new round gives life to everybody.
LEMMA NextCasualtyInv ==
    ASSUME TypeInv, NoCasualtyMissed, CasualtyInv, [Next]_vars
    PROVE  CasualtyInv'
<1> USE DEF At, Now, Later, LaterPaused, AllowNow, Unwind,
            control, turn, gfx, tanks, blasts, sim
<1>0. ControlType
  BY DEF TypeInv, TypeOK
<1>1. CASE Prepare
  BY <1>1, BoundAssumption, SMT
  DEF Prepare, CasualtyInv, NoCasualty, Asking, Firing,
      PreludeBegin, GameBegin, InitGame, InventoryBegin, InventoryPlBegin,
      InventoryPlDone, RoundBegin, AutoDefenseLoop, LotteryDisplay,
      RoundEnd, GameEnd
<1>2. CASE Turn \/ RunTalk \/ RunEnd
  <2>1. UNCHANGED <<life, dead>>
    BY <1>2 DEF Turn, TurnBegin, TurnPlBegin, TurnPlDone, TurnPlNext, RunTalk,
                RunEnd
  <2>2. state \in Asking \cup Firing
                    \cup {"TURN_BEGIN", "TURN_PL_NEXT", "RUN_END", "TURN_END"}
    BY <1>2 DEF Turn, TurnBegin, TurnPlBegin, TurnPlDone, TurnPlNext, RunTalk,
                RunEnd, Asking, Firing
  <2>3. state' # "RUN_WEAPONS"
    BY <1>2 DEF Turn, TurnBegin, TurnPlBegin, TurnPlDone, TurnPlNext, RunTalk,
                RunEnd
  <2> QED
    BY <2>1, <2>2, <2>3 DEF CasualtyInv, NoCasualty
<1>3. CASE RunCreation
  <2>1. UNCHANGED <<life, dead>> /\ state = "RUN_CREATION"
    BY <1>3 DEF RunCreation
  <2> QED
    BY <2>1 DEF CasualtyInv, NoCasualty, Firing
<1>4. CASE RunWeapons
  <2>1. /\ UNCHANGED <<life, dead>>
        /\ \/ state' = "RUN_EXPLOSION"
           \/ state' = "RUN_WEAPONS" /\ UNCHANGED activity
           \/ state' = "RUN_END" /\ ~(Interleave /\ activity)
    BY <1>4, Zenon DEF RunWeapons
  <2>2. state = "RUN_WEAPONS"
    BY <1>4 DEF RunWeapons
  <2>3. state' = "RUN_END" => MayEnd
    BY <2>1 DEF MayEnd
  <2>4. state' = "RUN_WEAPONS" /\ MayEnd' => MayEnd
    BY <2>1 DEF MayEnd
  <2> QED
    BY <2>1, <2>2, <2>3, <2>4 DEF CasualtyInv, NoCasualty, Asking, Firing
<1>5. CASE ScanQueue \/ ScanAgain \/ RunFirst \/ FinishExplosion
  <2>1. state' \in {"RUN_EXPLOSION", "RUN_PLAYER_DROP"}
    BY <1>5 DEF ScanQueue, ScanAgain, RunFirst, FinishExplosion
  <2> QED
    BY <2>1 DEF CasualtyInv, Asking, Firing
<1>6. CASE RunPlayerDrop
  <2>1. \/ state' \in {"RUN_PLAYER_DROP", "RUN_PLAYER_DEATH"}
        \/ state' = "RUN_WEAPONS" /\ Interleave /\ activity' = TRUE
    BY <1>6 DEF RunPlayerDrop
  <2>2. state' = "RUN_WEAPONS" => ~MayEnd'
    BY <2>1, Zenon DEF MayEnd
  <2> QED
    BY <2>1, <2>2 DEF CasualtyInv, Asking, Firing
<1>7. CASE RunPlayerDeath
  <2>1. \/ state' \in {"RUN_EXPLOSION", "RUN_PLAYER_DEATH"}
        \/ state' = "RUN_WEAPONS" /\ substate >= N /\ dead' = dead
    BY <1>7 DEF RunPlayerDeath
  <2>2. life' = life /\ state = "RUN_PLAYER_DEATH"
    BY <1>7 DEF RunPlayerDeath
  <2>3. state' = "RUN_WEAPONS" => NoCasualty'
    BY <1>0, <2>1, <2>2, PlayerAssumption
    DEF NoCasualtyMissed, NoCasualty, Player, ControlType
  <2> QED
    BY <2>1, <2>3 DEF CasualtyInv, Asking, Firing
<1>8. CASE Window \/ Choose
  BY <1>8, SMT
  DEF Window, Choose, CasualtyInv, NoCasualty, MayEnd, Asking, Firing,
      StartGame, CloseInventory, CloseAutoDefense, CloseLottery, EnterKey,
      Unpause, Pause, Resign, InitGame, MassKill, SetGraphics
<1>9. CASE UNCHANGED vars
  BY <1>9 DEF vars, CasualtyInv, NoCasualty, MayEnd
<1> QED
  BY <1>1, <1>2, <1>3, <1>4, <1>5, <1>6, <1>7, <1>8, <1>9
  DEF Next, Machine, Run

\* When the shots are fired, everyone who carries orders still lives.
LEMMA ShootersLive ==
    ASSUME CasualtyInv, TypeInv, state = "RUN_CREATION"
    PROVE  \A p \in armed \ dead : p \in Player /\ Alive(p)
BY DEF CasualtyInv, NoCasualty, Firing, Alive, TypeInv, TypeOK, TankType

-----------------------------------------------------------------------------
(* Every step is one the players were promised, or they do not notice it. *)

\* The phase of each state.
LEMMA Phases ==
    /\ \A s \in {"PRELUDE_BEGIN", "PRELUDE_IDLE", "GAME_BEGIN", "GAME_END",
                 "GAME_END_DONE"} : PhaseOf(s) = "menu"
    /\ \A s \in {"INVENTORY_BEGIN", "INVENTORY_PL_BEGIN", "INVENTORY_PL_IDLE",
                 "INVENTORY_PL_DONE", "ROUND_BEGIN"} : PhaseOf(s) = "shop"
    /\ \A s \in {"AUTO_DEFENSE", "AUTO_DEFENSE_LOOP", "LOTTERY_DISPLAY",
                 "LOTTERY_DISPLAY_WAIT", "TURN_BEGIN"} : PhaseOf(s) = "field"
    /\ \A s \in Asking \cup Firing \cup {"TURN_PL_NEXT"} : PhaseOf(s) = "orders"
    /\ \A s \in Simulating : PhaseOf(s) = "volley"
    /\ PhaseOf("TURN_END") = "turn over"
    /\ PhaseOf("ROUND_END") = "decided"
    /\ PhaseOf("ROUND_END_DONE") = "scores"
BY DEF PhaseOf, Asking, Firing, Simulating

\* What the players see of a state.
View == <<PhaseOf(state), Living, fired, wins>>

\* Within a phase nothing happens to the tanks.
LEMMA SamePhase ==
    ASSUME PhaseOf(state') = PhaseOf(state),
           UNCHANGED <<dead, life, fired, wins>>
    PROVE  UNCHANGED View
BY DEF View, Living, Alive

\* Between two rounds: a new game, the next round, tanks put on the field, or
\* a round credited.
LEMMA PrepareIsPromised ==
    ASSUME TypeInv, Prepare PROVE [B!BattleNext]_View
<1> USE DEF At, Now, Later, LaterPaused, Unwind, turn, gfx, tanks, sim
<1>1. CASE PreludeBegin \/ InventoryPlBegin \/ InventoryPlDone
             \/ AutoDefenseLoop \/ LotteryDisplay \/ GameEnd
  <2>1. UNCHANGED <<dead, life, fired, wins>>
    BY <1>1
    DEF PreludeBegin, InventoryPlBegin, InventoryPlDone, AutoDefenseLoop,
        LotteryDisplay, GameEnd
  <2>2. PhaseOf(state') = PhaseOf(state)
    BY <1>1, Phases, ZenonT(30)
    DEF PreludeBegin, InventoryPlBegin, InventoryPlDone, AutoDefenseLoop,
        LotteryDisplay, GameEnd
  <2> QED
    BY <2>1, <2>2, SamePhase
<1>2. CASE GameBegin
  <2>1. PhaseOf(state) = "menu" /\ PhaseOf(state') = "shop"
    BY <1>2, Phases DEF GameBegin
  <2>2. wins' = [p \in Player |-> 0] /\ UNCHANGED <<Living, fired>>
    BY <1>2 DEF GameBegin, InitGame, NewScores, Living, Alive
  <2> QED
    BY <2>1, <2>2 DEF B!BattleNext, B!NewGame
<1>3. CASE InventoryBegin
  <2>1. UNCHANGED <<dead, life, fired, wins>>
    BY <1>3 DEF InventoryBegin
  <2>2. UNCHANGED <<Living, fired, wins>>
    BY <2>1 DEF Living, Alive
  <2>3. PhaseOf(state) \in {"shop", "scores"} /\ PhaseOf(state') = "shop"
    BY <1>3, Phases DEF InventoryBegin
  <2> QED
    BY <2>2, <2>3 DEF View, B!BattleNext, B!NextRound
<1>4. CASE RoundBegin
  <2>1. Living' = Player
    BY <1>4, BoundAssumption DEF RoundBegin, Living, Alive
  <2>2. PhaseOf(state) = "shop" /\ PhaseOf(state') = "field"
    BY <1>4, Phases DEF RoundBegin
  <2>3. UNCHANGED <<fired, wins>>
    BY <1>4 DEF RoundBegin
  <2> QED
    BY <2>1, <2>2, <2>3 DEF B!BattleNext, B!Deploy
<1>5. CASE RoundEnd
  <2>1. PhaseOf(state) = "decided" /\ PhaseOf(state') \in {"scores", "menu"}
    BY <1>5, Phases DEF RoundEnd
  <2>2. UNCHANGED <<Living, fired>>
    BY <1>5 DEF RoundEnd, Living, Alive
  <2>3. wins' = [p \in Player |-> IF p \in Living THEN wins[p] + 1
                                                  ELSE wins[p]]
    BY <1>5 DEF RoundEnd, Living
  <2> QED
    BY <2>1, <2>2, <2>3 DEF B!BattleNext, B!Award
<1> QED
  BY <1>1, <1>2, <1>3, <1>4, <1>5 DEF Prepare

\* A turn begins with nobody's shot fired and ends, in sequential mode, with
\* everybody's.
LEMMA TurnIsPromised ==
    ASSUME TypeInv, OrderInv, OrderInv', Turn PROVE [B!BattleNext]_View
<1> USE DEF At, Now, Later, Unwind, turn, gfx, tanks, sim
<1>1. CASE TurnBegin
  <2>1. UNCHANGED <<Living, wins>> /\ fired' = {}
    BY <1>1 DEF TurnBegin, Living, Alive
  <2>2. PhaseOf(state) \in {"field", "turn over"}
    BY <1>1, Phases DEF TurnBegin
  <2>3. PhaseOf(state') = IF Cardinality(Living) > 1 THEN "orders"
                                                     ELSE "decided"
    <3>1. Cardinality(Living) \in Nat
      <4>1. IsFiniteSet(Player)
        BY PlayerAssumption, FS_Interval DEF Player
      <4>2. Living \in SUBSET Player
        BY DEF Living
      <4> QED
        BY <4>1, <4>2, FS_Subset, FS_CardinalityType
    <3>2. Victor <=> ~(Cardinality(Living) > 1)
      BY <3>1 DEF Victor, Living
    <3>3. state' = IF Victor THEN "ROUND_END" ELSE "TURN_PL_BEGIN"
      BY <1>1 DEF TurnBegin
    <3> QED
      BY <3>2, <3>3, Phases DEF Asking
  <2>4. B!StartTurn
    <3>1. B!Cardinality(Living) = Cardinality(Living)
      BY DEF B!Cardinality, Cardinality
    <3> QED
      BY <2>1, <2>2, <2>3, <3>1, Zenon DEF B!StartTurn
  <2> QED
    BY <2>4 DEF B!BattleNext
<1>2. CASE TurnPlBegin \/ TurnPlDone \/ TurnPlNext
  <2>1. UNCHANGED <<dead, life, fired, wins>>
    BY <1>2 DEF TurnPlBegin, TurnPlDone, TurnPlNext
  <2>2. /\ state \in Asking \cup {"TURN_PL_NEXT"}
        /\ state' \in Asking \cup Firing \cup {"TURN_PL_NEXT", "TURN_END"}
    BY <1>2 DEF TurnPlBegin, TurnPlDone, TurnPlNext, Asking, Firing
  <2>3. CASE state' # "TURN_END"
    BY <2>1, <2>2, <2>3, Phases, SamePhase
  <2>4. CASE state' = "TURN_END"
    <3>1. UNCHANGED <<Living, fired, wins>>
      BY <2>1 DEF Living, Alive
    <3>2. Living \subseteq fired
      BY <2>4, <3>1 DEF OrderInv, AllHaveFired
    <3> QED
      BY <2>2, <2>4, <3>1, <3>2, Phases DEF B!BattleNext, B!TurnOver
  <2> QED
    BY <2>3, <2>4
<1> QED
  BY <1>1, <1>2 DEF Turn

\* A volley is fired by the living who have not fired yet; what follows costs
\* lives and nothing else.
LEMMA RunIsPromised ==
    ASSUME TypeInv, CasualtyInv, OrderInv, OrderInv', Run
    PROVE  [B!BattleNext]_View
<1> USE DEF At, Now, Later, Unwind, turn, gfx, tanks, sim
<1>0. /\ TankType /\ plorder \in Orders
      /\ state = "RUN_CREATION" => curplayer \in Player
  BY PlayerAssumption
  DEF TypeInv, TypeOK, TurnType, CursorInBounds, CursorStates, Player
<1>1. CASE RunTalk
  <2>1. UNCHANGED <<dead, life, fired, wins>>
    BY <1>1 DEF RunTalk
  <2>2. state \in Firing /\ state' \in Firing
    BY <1>1 DEF RunTalk, Firing
  <2> QED
    BY <2>1, <2>2, Phases, SamePhase
<1>2. CASE RunCreation
  <2>1. /\ state = "RUN_CREATION" /\ state' \in Simulating
        /\ fired' = fired \cup (armed \ dead)
        /\ UNCHANGED <<dead, life, wins>>
    BY <1>2 DEF RunCreation, Simulating
  <2>2. armed \ dead \subseteq Living
    BY <2>1, ShootersLive DEF Living
  <2>3. \A p \in armed \ dead : p \notin fired
    <3>1. CASE Sequential
      <4>1. FiredBefore(curplayer) /\ armed = {plorder[curplayer]} \ dead
        BY <2>1, <3>1 DEF OrderInv, OneByOne, Firing
      <4>2. plorder[curplayer] \notin fired
        BY <1>0, <2>1, <4>1, PlayerAssumption DEF FiredBefore, Player
      <4> QED
        BY <4>1, <4>2
    <3>2. CASE ~Sequential
      BY <2>1, <3>2 DEF OrderInv, AllTogether, Firing
    <3> QED
      BY <3>1, <3>2
  <2>4. armed \ dead \in SUBSET (Living \ fired)
    BY <2>2, <2>3
  <2>5. UNCHANGED <<Living, wins>>
    BY <2>1 DEF Living, Alive
  <2>6. PhaseOf(state) = "orders" /\ PhaseOf(state') = "volley"
    BY <2>1, Phases DEF Firing
  <2> QED
    BY <2>1, <2>4, <2>5, <2>6 DEF B!BattleNext, B!FireVolley
<1>3. CASE RunWeapons \/ ScanQueue \/ ScanAgain \/ RunFirst
             \/ FinishExplosion \/ RunPlayerDrop \/ RunPlayerDeath
  <2>1. /\ state \in Simulating /\ state' \in Simulating
        /\ UNCHANGED <<fired, wins>>
        /\ \A p \in Player : Alive(p)' => Alive(p)
    BY <1>3, SimulationOnlyKills
  <2>2. Living' \in SUBSET Living
    BY <2>1 DEF Living
  <2> QED
    BY <2>1, <2>2, Phases DEF B!BattleNext, B!Casualties
<1>4. CASE RunEnd
  <2>1. UNCHANGED <<dead, life, fired, wins>>
    BY <1>4 DEF RunEnd
  <2>2. UNCHANGED <<Living, fired, wins>>
    BY <2>1 DEF Living, Alive
  <2>3. PhaseOf(state) = "volley"
    BY <1>4, Phases DEF RunEnd, Simulating
  <2>4. CASE state' = "TURN_PL_NEXT"
    BY <2>2, <2>3, <2>4, Phases DEF B!BattleNext, B!NextOrders
  <2>5. CASE state' = "TURN_END"
    <3>1. Living \subseteq fired
      BY <2>2, <2>5 DEF OrderInv, AllHaveFired
    <3> QED
      BY <2>2, <2>3, <2>5, <3>1, Phases DEF B!BattleNext, B!TurnOver
  <2> QED
    BY <1>4, <2>4, <2>5 DEF RunEnd
<1> QED
  BY <1>1, <1>2, <1>3, <1>4 DEF Run

\* The user gives the game up, kills everybody, or lets the game go on.
LEMMA UserIsPromised == ASSUME Window \/ Choose PROVE [B!BattleNext]_View
<1> USE DEF At, Now, Later, Unwind, turn, gfx, tanks, sim, control
<1>1. CASE Resign
  <2>1. wins' = [p \in Player |-> 0] /\ UNCHANGED <<Living, fired>>
    BY <1>1 DEF Resign, InitGame, NewScores, Living, Alive
  <2>2. PhaseOf(state') = "menu"
    BY <1>1, Phases DEF Resign
  <2> QED
    BY <2>1, <2>2 DEF B!BattleNext, B!NewGame
<1>2. CASE Window \/ Pause \/ SetGraphics
  <2>1. UNCHANGED <<dead, life, fired, wins>>
    BY <1>2
    DEF Window, StartGame, CloseInventory, CloseAutoDefense, CloseLottery,
        EnterKey, Unpause, Pause, SetGraphics
  <2>2. PhaseOf(state') = PhaseOf(state)
    BY <1>2, Phases, ZenonT(30)
    DEF Window, StartGame, CloseInventory, CloseAutoDefense, CloseLottery,
        EnterKey, Unpause, Pause, SetGraphics, Asking
  <2> QED
    BY <2>1, <2>2, SamePhase
<1>3. CASE MassKill
  <2>1. Living' = {} /\ UNCHANGED <<fired, wins>>
    BY <1>3 DEF MassKill, Living, Alive
  <2>2. /\ PhaseOf(state) \in {"field", "orders", "volley", "turn over"}
        /\ PhaseOf(state') = "decided"
    BY <1>3, Phases DEF MassKill, IsRound, Asking, Firing, Simulating
  <2> QED
    BY <2>1, <2>2 DEF B!BattleNext, B!MassKill
<1> QED
  BY <1>1, <1>2, <1>3 DEF Choose

\* Every behaviour of the state machine, in both modes and whatever the user
\* chooses from the menus, is one that Battle promises the players.
THEOREM BattleHolds == Spec => ImplementsBattle
<1>1. Init => B!BattleInit
  <2> SUFFICES ASSUME Init PROVE B!BattleInit
    OBVIOUS
  <2>1. PhaseOf(state) = "menu"
    BY Phases DEF Init
  <2>2. Living = {}
    BY DEF Init, Living, Alive
  <2> QED
    BY <2>1, <2>2 DEF Init, B!BattleInit
<1>2. TypeInv /\ OrderInv /\ [Next]_vars => OrderInv'
  BY NextOrderInv
<1>3. TypeInv /\ NoCasualtyMissed /\ CasualtyInv /\ [Next]_vars
        => CasualtyInv'
  BY NextCasualtyInv
<1>4. TypeInv /\ CasualtyInv /\ OrderInv /\ OrderInv' /\ [Next]_vars
        => [B!BattleNext]_(B!battleVars)
  <2> SUFFICES ASSUME TypeInv, CasualtyInv, OrderInv, OrderInv', [Next]_vars
               PROVE  [B!BattleNext]_View
    BY DEF View, B!battleVars
  <2>1. CASE Next
    BY <2>1, PrepareIsPromised, TurnIsPromised, RunIsPromised, UserIsPromised
    DEF Next, Machine
  <2>2. CASE UNCHANGED vars
    BY <2>2 DEF vars, control, tanks, sim, View, Living, Alive
  <2> QED
    BY <2>1, <2>2
<1> QED
  BY <1>1, <1>2, <1>3, <1>4, TypeCorrect, MissesNoCasualty, InitCasualtyInv,
     InitOrderInv, PTL
  DEF Spec, ImplementsBattle, B!BattleSpec
=============================================================================
