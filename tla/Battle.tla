-------------------------------- MODULE Battle --------------------------------
(***************************************************************************)
(* What a game of xscorch promises its players, whatever the options: in   *)
(* each turn every surviving tank fires exactly one volley, tanks are lost *)
(* only to volleys or all at once to mass kill, and a round is awarded     *)
(* once, when at most one tank is left.  GameState implements this         *)
(* specification.                                                          *)
(***************************************************************************)
EXTENDS Naturals, FiniteSets

CONSTANT Tanks

VARIABLES
    phase,    \* what the game is about just now
    standing, \* tanks still alive
    shot,     \* tanks that have fired since the turn began
    score     \* rounds won by each player

battleVars == <<phase, standing, shot, score>>

BattleTypeOK ==
    /\ phase \in {"menu", "shop", "field", "orders", "volley", "turn over",
                  "decided", "scores"}
    /\ standing \subseteq Tanks
    /\ shot \subseteq Tanks
    /\ score \in [Tanks -> Nat]

BattleInit ==
    /\ phase = "menu"
    /\ standing = {}
    /\ shot = {}
    /\ score = [p \in Tanks |-> 0]

\* A new game starts, or a running game is given up for the main menu.
NewGame ==
    /\ \/ phase = "menu" /\ phase' = "shop"
       \/ phase' = "menu"
    /\ score' = [p \in Tanks |-> 0]
    /\ UNCHANGED <<standing, shot>>

NextRound ==
    /\ phase = "scores"
    /\ phase' = "shop"
    /\ UNCHANGED <<standing, shot, score>>

Deploy ==
    /\ phase = "shop"
    /\ phase' = "field"
    /\ standing' = Tanks
    /\ UNCHANGED <<shot, score>>

\* A turn begins while there is a fight left; otherwise the round is decided.
StartTurn ==
    /\ phase \in {"field", "turn over"}
    /\ phase' = IF Cardinality(standing) > 1 THEN "orders" ELSE "decided"
    /\ shot' = {}
    /\ UNCHANGED <<standing, score>>

FireVolley ==
    /\ phase = "orders"
    /\ phase' = "volley"
    /\ \E S \in SUBSET (standing \ shot) : shot' = shot \cup S
    /\ UNCHANGED <<standing, score>>

Casualties ==
    /\ phase = "volley"
    /\ standing' \in SUBSET standing
    /\ UNCHANGED <<phase, shot, score>>

NextOrders ==
    /\ phase = "volley"
    /\ phase' = "orders"
    /\ UNCHANGED <<standing, shot, score>>

TurnOver ==
    /\ phase \in {"orders", "volley"}
    /\ standing \subseteq shot
    /\ phase' = "turn over"
    /\ UNCHANGED <<standing, shot, score>>

Award ==
    /\ phase = "decided"
    /\ phase' \in {"scores", "menu"}
    /\ score' = [p \in Tanks |-> IF p \in standing THEN score[p] + 1
                                                   ELSE score[p]]
    /\ UNCHANGED <<standing, shot>>

\* The user may have a round end here and now, with nobody left.
MassKill ==
    /\ phase \in {"field", "orders", "volley", "turn over"}
    /\ phase' = "decided"
    /\ standing' = {}
    /\ UNCHANGED <<shot, score>>

BattleNext ==
    \/ NewGame \/ NextRound \/ Deploy \/ StartTurn \/ FireVolley
    \/ Casualties \/ NextOrders \/ TurnOver \/ Award \/ MassKill

BattleSpec == BattleInit /\ [][BattleNext]_battleVars
=============================================================================
