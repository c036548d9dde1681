---------------------------- MODULE PacketChannel ----------------------------
(***************************************************************************)
(* What snet/tcpnet promises its callers: between the two ends of a        *)
(* connection, packets arrive whole, once, and in the order they were      *)
(* written.  A connection may stop delivering at any moment.               *)
(***************************************************************************)
EXTENDS Integers, Sequences

CONSTANTS
    Payload   \* the payloads a program writes

End == {"cli", "svr"}
Peer(e) == IF e = "cli" THEN "svr" ELSE "cli"

VARIABLES
    written,   \* payloads each end has written
    delivered  \* payloads each end has been handed

Init ==
    /\ written = [e \in End |-> <<>>]
    /\ delivered = [e \in End |-> <<>>]

Write(e) ==
    /\ \E p \in Payload : written' = [written EXCEPT ![e] = Append(@, p)]
    /\ UNCHANGED delivered

Deliver(e) ==
    /\ Len(delivered[e]) < Len(written[Peer(e)])
    /\ LET next == written[Peer(e)][Len(delivered[e]) + 1]
       IN  delivered' = [delivered EXCEPT ![e] = Append(@, next)]
    /\ UNCHANGED written

Next == \E e \in End : Write(e) \/ Deliver(e)

Spec == Init /\ [][Next]_<<written, delivered>>
=============================================================================
