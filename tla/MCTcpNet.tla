------------------------------ MODULE MCTcpNet -------------------------------
(* Instances of TcpNet for TLC. *)
EXTENDS TcpNet

ThreeAndOne == [e \in End |-> IF e = "cli" THEN 3 ELSE 1]
TwoAndOne == [e \in End |-> IF e = "cli" THEN 2 ELSE 1]
=============================================================================
