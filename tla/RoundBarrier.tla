---------------------------- MODULE RoundBarrier -----------------------------
(***************************************************************************)
(* What the synchronisation of a network game promises: the clients go     *)
(* through the same sequence of events, and none goes past an event that   *)
(* another has not yet reached.                                            *)
(***************************************************************************)
EXTENDS Integers

CONSTANTS
    Client   \* the clients of a game

VARIABLES
    reached,  \* number of events each client has reached
    passed    \* number of events each client has gone past

Init ==
    /\ reached = [i \in Client |-> 0]
    /\ passed = [i \in Client |-> 0]

Reach(i) ==
    /\ reached[i] = passed[i]
    /\ reached' = [reached EXCEPT ![i] = @ + 1]
    /\ UNCHANGED passed

Pass(i) ==
    /\ passed[i] < reached[i]
    /\ \A j \in Client : passed[i] < reached[j]
    /\ passed' = [passed EXCEPT ![i] = @ + 1]
    /\ UNCHANGED reached

Next == \E i \in Client : Reach(i) \/ Pass(i)

Spec == Init /\ [][Next]_<<reached, passed>>
=============================================================================
