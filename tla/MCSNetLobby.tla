----------------------------- MODULE MCSNetLobby -----------------------------
(* Instances of SNetLobby for TLC. *)
EXTENDS SNetLobby

\* Something may happen until the third machine has connected.
BeforeThird == [n \in 0 .. 3 |-> IF n < 3 THEN 1 ELSE 0]
Twice == [n \in 0 .. 2 |-> 2]
=============================================================================
