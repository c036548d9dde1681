--------------------------- MODULE ExplosionQueues ---------------------------
(***************************************************************************)
(* The five explosion queues of sgame/sgame.c and the procedures that      *)
(* sgame/sstate.c runs over them.  An explosion waits in init, is drawn    *)
(* (draw), waits to be cleared (clear_init), is cleared (clear), and stays *)
(* in done while the land above it falls; then it is freed.                *)
(*                                                                         *)
(* An explosion is a record: the queue it is in, the sc_explosion counter  *)
(* (rounds of the state machine it still has to sit out), and the number   *)
(* of animation frames it can still ask for.  The real frame counts come   *)
(* from the radius, the liquid and the height of the land; the model keeps *)
(* that they are finite.  Queues are sets here: the order of explosions    *)
(* inside one queue is left out, every order is explored.                  *)
(***************************************************************************)
EXTENDS Integers

CONSTANTS
    Slot,         \* identities of explosions that may exist at one time
    MaxFrames,    \* bound: animation frames one explosion may ask for
    ExplSteps,    \* SC_STATE_EXPLOSION_STEPS
    NextIterSteps \* SC_STATE_NEXTITER_STEPS

ASSUME SlotFree == "none" \notin Slot
ASSUME FramesAssumption ==
    MaxFrames \in Nat /\ ExplSteps \in Nat /\ NextIterSteps \in Nat

Queue == {"init", "draw", "clear_init", "clear", "done"}

Explosion == [q: Queue \cup {"none"}, wait: Nat, frames: 0 .. MaxFrames]

\* sc_expl_new / sc_expl_free: outside every queue, and just created.
NoExpl  == [q |-> "none", wait |-> 0, frames |-> 0]
NewExpl == [q |-> "init", wait |-> 0, frames |-> MaxFrames]

In(expl, q)   == {s \in Slot : expl[s].q = q}
Free(expl)    == In(expl, "none")
AnyExpl(expl) == \E s \in Slot : expl[s].q # "none"
Runnable(expl, q) == {s \in In(expl, q) : expl[s].wait = 0}

\* The batches of explosions one call may append to the init queue.
Append1(expl, new) ==
    [s \in Slot |-> IF s \in new THEN NewExpl ELSE expl[s]]

(***************************************************************************)
(* The procedures run on one explosion.  "more" is what the annihilate or  *)
(* land-drop routine returns: TRUE if it wants to be called again.         *)
(* "fast" is SC_CONFIG_GFX_FAST: every postponement becomes 0.             *)
(***************************************************************************)
Postpone(fast, steps) == IF fast THEN 0 ELSE steps

Frames(r, more) == IF more THEN r.frames - 1 ELSE r.frames

\* _sc_state_run_draw_expl and _sc_state_run_draw_expl_cont
RunDraw(r, more, fast) ==
    IF more
    THEN [q |-> "draw", wait |-> Postpone(fast, NextIterSteps),
          frames |-> Frames(r, more)]
    ELSE [q |-> "clear_init", wait |-> Postpone(fast, ExplSteps),
          frames |-> r.frames]

\* _sc_state_run_clear_expl and _sc_state_run_clear_expl_cont
RunClear(r, more, fast) ==
    [q |-> IF more THEN "clear" ELSE "done",
     wait |-> Postpone(fast, NextIterSteps), frames |-> Frames(r, more)]

\* Fault: an explosion is not freed when its land has come to rest.
RunLandFallKeeps(r, more, fast) ==
    [r EXCEPT !.wait = Postpone(fast, NextIterSteps), !.frames = Frames(r, more)]

\* _sc_state_run_land_fall
RunLandFall(r, more, fast) ==
    IF more
    THEN [r EXCEPT !.wait = Postpone(fast, NextIterSteps),
                   !.frames = Frames(r, more)]
    ELSE NoExpl

RunProc(r, more, fast) ==
    CASE r.q \in {"init", "draw"}        -> RunDraw(r, more, fast)
      [] r.q \in {"clear_init", "clear"} -> RunClear(r, more, fast)
      [] r.q = "done"                    -> RunLandFall(r, more, fast)

\* The runnable explosions of a set that may ask for another frame.
CanContinue(expl, S) == {s \in S : expl[s].frames > 0}

\* Run the procedure of its queue on each explosion of S; those in more
\* are the ones that want to be called again.
RunAll(expl, S, more, fast) ==
    [s \in Slot |-> IF s \in S THEN RunProc(expl[s], s \in more, fast)
                               ELSE expl[s]]

\* sc_game_expl_queue_update, on all five queues
Tick(expl) ==
    [s \in Slot |-> IF expl[s].wait > 0
                    THEN [expl[s] EXCEPT !.wait = @ - 1] ELSE expl[s]]

(***************************************************************************)
(* Interleaved mode scans the queues in the order in which explosions pass *)
(* through them; otherwise the first non-empty queue, in reverse order,    *)
(* is the only one that may run.                                           *)
(***************************************************************************)
ScanOrder == <<"init", "draw", "clear_init", "clear", "done">>

\* Fault: the queues are looked at in the order explosions pass them.
FirstBusyForward(expl) ==
    CASE In(expl, "init") # {}       -> "init"
      [] In(expl, "draw") # {}       -> "draw"
      [] In(expl, "clear_init") # {} -> "clear_init"
      [] In(expl, "clear") # {}      -> "clear"
      [] OTHER                       -> "done"

FirstBusy(expl) ==
    CASE In(expl, "done") # {}       -> "done"
      [] In(expl, "clear") # {}      -> "clear"
      [] In(expl, "clear_init") # {} -> "clear_init"
      [] In(expl, "draw") # {}       -> "draw"
      [] OTHER                       -> "init"
=============================================================================
