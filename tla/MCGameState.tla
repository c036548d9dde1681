----------------------------- MODULE MCGameState -----------------------------
(* Instances of GameState for TLC. *)
EXTENDS GameBattle, TLC

\* Explosions are interchangeable.
SlotSymmetry == Permutations(Slot)
=============================================================================
