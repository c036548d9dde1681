----------------------------- MODULE MCSNetSync ------------------------------
(* Instances of SNetSync for TLC. *)
EXTENDS SNetSync

\* Shopping, a round of two turns, and the shopping of the next.
RoundAndTurns == <<"INV", "ROUND", "TURN", "TURN", "INV">>
=============================================================================
