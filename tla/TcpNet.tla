------------------------------- MODULE TcpNet --------------------------------
(***************************************************************************)
(* The packet transport of a network game: snet/tcpnet and its callers in  *)
(* snet/snetcomm.c, at the two ends of one connection.                     *)
(*                                                                         *)
(* A packet travels as three header words (cookie, size, id) and its       *)
(* payload.  The socket takes and gives any number of words at a time; a   *)
(* word stands for the byte the code counts in.  Each end is one thread,   *)
(* so an end inside tn_send_buffer does nothing else.                      *)
(***************************************************************************)
EXTENDS Integers, Sequences, SequencesExt, FiniteSets

CONSTANTS
    Magic,       \* TN_ALIGN_MAGIC
    RetainOld,   \* TN_LEN_RETAIN_OLD
    BufferSize,  \* TN_BUFFER_SIZE, what a packet's first allocation holds
    Sizes,       \* payload sizes in use
    Capacity,    \* words a socket takes before the other end reads
    MaxPackets,  \* bound: packets each end writes
    MaxFaults,   \* bound: failures of the operating system
    Faults,      \* failures that occur: "ENOMEM", "ESEND" of send,
                 \* "ENOTCONN", "ERECV" of recv, "select", "malloc"
    Leavers      \* ends that may close the connection

End == {"cli", "svr"}
Peer(e) == IF e = "cli" THEN "svr" ELSE "cli"

HeaderSize == 3

\* Word i of the payload of the packet numbered id.
Word(id, i) == 10 * id + i
Body(id, size) == [i \in 1 .. size |-> Word(id, i)]
LastId == MaxPackets["cli"] + MaxPackets["svr"] + 1
Payload == {Body(id, size) : id \in 1 .. LastId, size \in Sizes}

ASSUME SizeAssumption == Sizes # {} /\ Sizes \subseteq Nat \ {0}
ASSUME BoundAssumption ==
    /\ {RetainOld, BufferSize, MaxFaults} \subseteq Nat
    /\ Capacity \in Nat \ {0}
    /\ MaxPackets \in [End -> Nat]
    /\ Leavers \subseteq End
\* The payload never looks like the start of a packet, nor does a header
\* number.
ASSUME MagicAssumption ==
    Magic \in Nat /\ \A id \in 1 .. LastId, size \in Sizes : Word(id, size) < Magic

Flag == {"CONNLOST", "MALLOC", "MISALIGN", "MISORDER", "SELECT", "UNKNOWN"}

VARIABLES
    tstate,     \* error bits of tnc->state
    socket,     \* the socket is open
    incId,      \* tnc->inc_id
    outId,      \* tnc->out_id
    incoming,   \* tnc->incoming
    outgoing,   \* tnc->outgoing
    flags,      \* deadly bits of the sc_connection
    pc,         \* where the thread of an end is
    left,       \* what tn_write_flush has still to send of a packet
    leaving,    \* sc_net_client_free or sc_net_server_free has begun
    wire,       \* words an end has sent and the other has not yet read
    reset,      \* the connection was reset by the other end
    faults,     \* number of failures so far
    written,    \* payloads tn_write has accepted
    delivered   \* payloads handed to the packet handler

vars == <<tstate, socket, incId, outId, incoming, outgoing, flags, pc, left,
          leaving, wire, reset, faults, written, delivered>>

tnc == <<tstate, incId, outId, incoming, outgoing>>
history == <<written, delivered>>

-----------------------------------------------------------------------------
(* Packet lists. *)

\* A packet being received: what of header and payload has arrived.
FreshPacket == [header |-> <<>>, body |-> <<>>, complete |-> FALSE, null |-> FALSE]

OutPacket(id, size) == [id |-> id, body |-> Body(id, size), complete |-> FALSE]

\* The words of a packet in the order tn_write_flush sends them.
Words(p) == <<Magic, Len(p.body), p.id>> \o p.body

\* The packets still to be sent, and the first of them.
Unsent(list) == {i \in DOMAIN list : ~list[i].complete}
FirstUnsent(list) == CHOOSE i \in Unsent(list) : \A k \in Unsent(list) : i <= k

\* The expired packets tn_write drops, given the list before the new packet.
Expired(list) ==
    LET counter == Cardinality({i \in DOMAIN list : list[i].complete})
    IN  IF counter > RetainOld THEN counter - RetainOld ELSE 0

\* The list once its first unsent packet has been sent.
FirstSent(list) == [list EXCEPT ![FirstUnsent(list)].complete = TRUE]

IsUp(e) == socket[e] /\ "CONNLOST" \notin tstate[e]

\* The operating system fails a call in the given way.
Fail(kind) ==
    /\ kind \in Faults
    /\ faults < MaxFaults
    /\ faults' = faults + 1

AddFlag(e, flag) == tstate' = [tstate EXCEPT ![e] = @ \union {flag}]
Goto(e, place) == pc' = [pc EXCEPT ![e] = place]

-----------------------------------------------------------------------------
(* Writing: tn_write, then tn_write_flush. *)

CanWrite(e) ==
    /\ pc[e] \in {"idle", "queued"}
    /\ socket[e]
    /\ ~leaving[e]
    /\ e = "svr" \/ flags[e] = {}
    /\ outId[e] < MaxPackets[e]

\* tn_write of one packet.  The connection need not be up for this.
Append1(e, size) ==
    LET p    == OutPacket(outId[e] + 1, size)
        list == Append(outgoing[e], p)
        drop == Expired(outgoing[e])
    IN  /\ outId' = [outId EXCEPT ![e] = @ + 1]
        /\ outgoing' = [outgoing EXCEPT ![e] = SubSeq(list, drop + 1, Len(list))]
        /\ written' = [written EXCEPT ![e] = Append(@, p.body)]

Write(e) ==
    /\ CanWrite(e)
    /\ \E size \in Sizes : Append1(e, size)
    /\ Goto(e, "queued")
    /\ UNCHANGED <<tstate, socket, incId, incoming, flags, left, leaving,
                   wire, reset, faults, delivered>>

\* The list item cannot be allocated: nothing is queued and nothing flushed.
WriteFails(e) ==
    /\ CanWrite(e)
    /\ Fail("malloc")
    /\ AddFlag(e, "MALLOC")
    /\ UNCHANGED <<socket, incId, outId, incoming, outgoing, flags, pc, left,
                   leaving, wire, reset, history>>

\* Where an end is once tn_write_flush has returned.
AfterFlush(e) == IF leaving[e] THEN "close" ELSE "idle"

\* tn_write_flush up to its first send.
Flush(e) ==
    /\ pc[e] = "queued"
    /\ IF IsUp(e) /\ Unsent(outgoing[e]) # {}
         THEN /\ Goto(e, "flush")
              /\ left' = [left EXCEPT ![e] = Words(outgoing[e][FirstUnsent(outgoing[e])])]
         ELSE Goto(e, AfterFlush(e)) /\ UNCHANGED left
    /\ UNCHANGED <<tnc, socket, flags, leaving, wire, reset, faults, history>>

FlushSelectFails(e) ==
    /\ pc[e] = "queued"
    /\ IsUp(e)
    /\ Fail("select")
    /\ AddFlag(e, "SELECT")
    /\ Goto(e, AfterFlush(e))
    /\ UNCHANGED <<socket, incId, outId, incoming, outgoing, flags, left,
                   leaving, wire, reset, history>>

\* Fault: a socket that takes less than the rest ends the flush.
SendOnce(e) ==
    /\ pc[e] = "flush"
    /\ \E n \in 1 .. Len(left[e]) :
         /\ Len(wire[e]) + n <= Capacity
         /\ wire' = [wire EXCEPT ![e] = @ \o SubSeq(left[e], 1, n)]
    /\ outgoing' = [outgoing EXCEPT ![e] = FirstSent(@)]
    /\ left' = [left EXCEPT ![e] = <<>>]
    /\ Goto(e, AfterFlush(e))
    /\ UNCHANGED <<tstate, socket, incId, outId, incoming, flags, leaving,
                   reset, faults, history>>

\* The socket takes n words.  With a full socket tn_send_buffer tries again.
Send(e) ==
    /\ pc[e] = "flush"
    /\ \E n \in 1 .. Len(left[e]) :
         /\ Len(wire[e]) + n <= Capacity
         /\ wire' = [wire EXCEPT ![e] = @ \o SubSeq(left[e], 1, n)]
         /\ IF n < Len(left[e])
              THEN /\ left' = [left EXCEPT ![e] = SubSeq(@, n + 1, Len(@))]
                   /\ UNCHANGED <<outgoing, pc>>
              ELSE LET list == FirstSent(outgoing[e])
                   IN  /\ outgoing' = [outgoing EXCEPT ![e] = list]
                       /\ IF Unsent(list) = {}
                            THEN /\ Goto(e, AfterFlush(e))
                                 /\ left' = [left EXCEPT ![e] = <<>>]
                            ELSE /\ left' = [left EXCEPT ![e] = Words(list[FirstUnsent(list)])]
                                 /\ UNCHANGED pc
    /\ UNCHANGED <<tstate, socket, incId, outId, incoming, flags, leaving,
                   reset, faults, history>>

\* Fault: the error is not recorded.
GiveUpQuietly(e, flag) ==
    /\ pc[e] = "flush"
    /\ Goto(e, AfterFlush(e))
    /\ left' = [left EXCEPT ![e] = <<>>]
    /\ UNCHANGED <<tnc, socket, flags, leaving, wire, reset, history>>

\* tn_send_buffer gives up; what it has sent of the packet is forgotten.
GiveUp(e, flag) ==
    /\ pc[e] = "flush"
    /\ AddFlag(e, flag)
    /\ Goto(e, AfterFlush(e))
    /\ left' = [left EXCEPT ![e] = <<>>]
    /\ UNCHANGED <<socket, incId, outId, incoming, outgoing, flags, leaving,
                   wire, reset, history>>

SendFails(e) ==
    \/ Fail("ENOMEM") /\ GiveUp(e, "MALLOC")
    \/ Fail("ESEND") /\ GiveUp(e, "UNKNOWN")

\* EPIPE: the other end has closed.
SendPipe(e) ==
    /\ ~socket[Peer(e)]
    /\ GiveUp(e, "CONNLOST")
    /\ UNCHANGED faults

-----------------------------------------------------------------------------
(* Reading: tn_scan_read, then tn_read, as sc_net_recv_packet calls them. *)

\* Something to read, or something to find out.
Readable(e) ==
    \/ wire[Peer(e)] # <<>> \/ reset[e]
    \/ incoming[e] # <<>> /\ Head(incoming[e]).complete
    \/ tstate[e] # {}

\* tn_scan_read up to its first recv.
Scan(e) ==
    /\ pc[e] = "idle"
    /\ socket[e]
    /\ flags[e] = {}
    /\ Readable(e)
    /\ IF IsUp(e) /\ (wire[Peer(e)] # <<>> \/ reset[e])
         THEN /\ Goto(e, "scan")
              /\ incoming' = [incoming EXCEPT ![e] =
                                IF @ = <<>> THEN <<FreshPacket>> ELSE @]
         ELSE Goto(e, "read") /\ UNCHANGED incoming
    /\ UNCHANGED <<tstate, socket, incId, outId, outgoing, flags, left,
                   leaving, wire, reset, faults, history>>

\* The select or the first allocation of tn_scan_read fails.
ScanFails(e) ==
    /\ pc[e] = "idle"
    /\ socket[e]
    /\ flags[e] = {}
    /\ IsUp(e)
    /\ \/ Fail("select") /\ AddFlag(e, "SELECT")
       \/ /\ Fail("malloc") /\ AddFlag(e, "MALLOC")
          /\ incoming[e] = <<>>
          /\ wire[Peer(e)] # <<>> \/ reset[e]
    /\ Goto(e, "read")
    /\ UNCHANGED <<socket, incId, outId, incoming, outgoing, flags, left,
                   leaving, wire, reset, history>>

\* Fault: a gap in the ids is not looked for.
MisorderedNever(p, id) == FALSE
\* Fault: the id is compared with that of the last packet.
MisorderedLast(p, id) == p.header[3] # id

\* Why a packet with a whole header is refused.
Misaligned(p) == p.header[1] # Magic
Misordered(p, id) == p.header[3] # id + 1

\* Packet p with the next word: of its header, or of its payload.
PutHeader(p, word) == [p EXCEPT !.header = Append(@, word)]
PutBody(p, word) ==
    LET q == [p EXCEPT !.body = Append(@, word)]
    IN  [q EXCEPT !.complete = Len(q.body) = q.header[2]]

\* The last packet of the list, a new one if that one is complete.
Latest(list) == IF Last(list).complete THEN FreshPacket ELSE Last(list)
SetLatest(list, p) ==
    IF Last(list).complete THEN Append(list, p) ELSE [list EXCEPT ![Len(list)] = p]

\* tn_scan_read returns in the middle of a buffer: the rest of it is lost.
DropBuffer(e) ==
    \E n \in 1 .. Len(wire[Peer(e)]) :
        wire' = [wire EXCEPT ![Peer(e)] = SubSeq(@, n + 1, Len(@))]

\* One word out of the buffer goes into the packet at the end of the list.
ReadWord(e) ==
    /\ pc[e] = "scan"
    /\ wire[Peer(e)] # <<>>
    /\ LET word   == Head(wire[Peer(e)])
           p      == Latest(incoming[e])
           inHead == Len(p.header) < HeaderSize
           q      == IF inHead THEN PutHeader(p, word) ELSE p
           whole  == Len(q.header) = HeaderSize
           take(r) ==
               /\ incoming' = [incoming EXCEPT ![e] = SetLatest(@, r)]
               /\ incId' = [incId EXCEPT ![e] = IF r.complete THEN @ + 1 ELSE @]
               /\ wire' = [wire EXCEPT ![Peer(e)] = Tail(@)]
               /\ UNCHANGED <<tstate, pc, socket, faults>>
           refuse(r, flag) ==
               /\ AddFlag(e, flag)
               /\ incoming' = [incoming EXCEPT ![e] = SetLatest(@, r)]
               /\ DropBuffer(e)
               /\ Goto(e, "read")
               /\ UNCHANGED <<incId, socket, faults>>
       IN  \/ whole /\ Misaligned(q) /\ refuse(q, "MISALIGN")
           \/ whole /\ ~Misaligned(q) /\ Misordered(q, incId[e]) /\ refuse(q, "MISORDER")
           \/ inHead /\ ~(whole /\ (Misaligned(q) \/ Misordered(q, incId[e]))) /\ take(q)
           \/ /\ ~inHead /\ ~Misaligned(q) /\ ~Misordered(q, incId[e])
              /\ ~q.null
              /\ take(PutBody(q, word))
    /\ UNCHANGED <<outId, outgoing, flags, left, leaving, reset, history>>

\* No memory for a new packet, or for a payload beyond the first allocation.
ReadWordNoMemory(e) ==
    /\ pc[e] = "scan"
    /\ wire[Peer(e)] # <<>>
    /\ LET p == Latest(incoming[e])
           q == PutHeader(p, Head(wire[Peer(e)]))
       IN  \/ /\ Last(incoming[e]).complete
              /\ UNCHANGED incoming
           \/ /\ Len(p.header) = HeaderSize - 1
              /\ q.header[2] > BufferSize
              /\ incoming' = [incoming EXCEPT ![e] = SetLatest(@, [q EXCEPT !.null = TRUE])]
    /\ Fail("malloc")
    /\ AddFlag(e, "MALLOC")
    /\ DropBuffer(e)
    /\ Goto(e, "read")
    /\ UNCHANGED <<socket, incId, outId, outgoing, flags, left, leaving, reset,
                   history>>

\* The payload of a packet whose buffer was lost is copied to address zero.
ReadWordCrashes(e) ==
    /\ pc[e] = "scan"
    /\ wire[Peer(e)] # <<>>
    /\ LET p == Latest(incoming[e])
       IN  p.null /\ ~Misaligned(p) /\ ~Misordered(p, incId[e])
    /\ Goto(e, "crashed")
    /\ socket' = [socket EXCEPT ![e] = FALSE]
    /\ reset' = [reset EXCEPT ![Peer(e)] = TRUE]
    /\ UNCHANGED <<tnc, flags, left, leaving, wire, faults, history>>

\* Fault: a connection reset by its other end passes for the end of data.
RecvFailsQuietly(e) ==
    /\ pc[e] = "scan"
    /\ reset[e] /\ wire[Peer(e)] = <<>>
    /\ reset' = [reset EXCEPT ![e] = FALSE]
    /\ Goto(e, "read")
    /\ UNCHANGED <<tnc, socket, flags, left, leaving, wire, faults, history>>

\* recv fails for good.
RecvFails(e) ==
    /\ pc[e] = "scan"
    /\ \/ Fail("ENOTCONN") /\ AddFlag(e, "CONNLOST") /\ UNCHANGED reset
       \/ Fail("ERECV") /\ AddFlag(e, "UNKNOWN") /\ UNCHANGED reset
       \/ /\ reset[e] /\ wire[Peer(e)] = <<>>
          /\ AddFlag(e, "UNKNOWN")
          /\ reset' = [reset EXCEPT ![e] = FALSE]
          /\ UNCHANGED faults
    /\ Goto(e, "read")
    /\ UNCHANGED <<socket, incId, outId, incoming, outgoing, flags, left,
                   leaving, wire, history>>

\* recv has nothing more (EAGAIN, EINTR, or the end of the stream): tn_read
\* takes the first packet, or sc_net_recv_packet looks at the errors.
Read(e) ==
    /\ \/ pc[e] = "read"
       \/ pc[e] = "scan" /\ ~(reset[e] /\ wire[Peer(e)] = <<>>)
    /\ IF incoming[e] # <<>> /\ Head(incoming[e]).complete
         THEN /\ delivered' = [delivered EXCEPT ![e] = Append(@, Head(incoming[e]).body)]
              /\ incoming' = [incoming EXCEPT ![e] = Tail(@)]
              /\ UNCHANGED flags
         ELSE /\ flags' = IF tstate[e] = {} THEN flags
                          ELSE [flags EXCEPT ![e] = @ \union
                                  {IF IsUp(e) THEN "TCPNET_ERROR" ELSE "LOCAL_ERROR"}]
              /\ UNCHANGED <<delivered, incoming>>
    /\ Goto(e, "idle")
    /\ UNCHANGED <<tstate, socket, incId, outId, outgoing, left, leaving,
                   wire, reset, faults, written>>

-----------------------------------------------------------------------------
(* Leaving: a last message, then the socket is closed. *)

Depart(e) ==
    /\ pc[e] = "idle"
    /\ socket[e]
    /\ ~leaving[e]
    /\ leaving' = [leaving EXCEPT ![e] = TRUE]
    /\ \E size \in Sizes : Append1(e, size)
    /\ Goto(e, "queued")
    /\ UNCHANGED <<tstate, socket, incId, incoming, flags, left, wire, reset,
                   faults, delivered>>

\* The user disconnects.
Leave(e) == e \in Leavers /\ Depart(e)

\* sc_net_client_death.
ClientDeath(e) == e = "cli" /\ flags[e] # {} /\ Depart(e)

\* The socket is closed with what the other end sent and this one has not
\* read; tn_terminate, on the server only, reads some of it first.  Unread
\* data resets the connection, and then the other end may not get all of
\* what was sent.
Close(e) ==
    /\ pc[e] = "close"
    /\ \E n \in 0 .. Len(wire[Peer(e)]) :
       \E m \in 0 .. Len(wire[e]) :
         /\ n > 0 => e = "svr" /\ tstate[e] = {}
         /\ m < Len(wire[e]) => n < Len(wire[Peer(e)])
         /\ reset' = [reset EXCEPT ![Peer(e)] = n < Len(wire[Peer(e)])]
         /\ wire' = [wire EXCEPT ![e] = SubSeq(@, 1, m), ![Peer(e)] = <<>>]
    /\ socket' = [socket EXCEPT ![e] = FALSE]
    /\ Goto(e, "closed")
    /\ UNCHANGED <<tnc, flags, left, leaving, faults, history>>

-----------------------------------------------------------------------------
Init ==
    /\ tstate = [e \in End |-> {}]
    /\ socket = [e \in End |-> TRUE]
    /\ incId = [e \in End |-> 0]
    /\ outId = [e \in End |-> 0]
    /\ incoming = [e \in End |-> <<>>]
    /\ outgoing = [e \in End |-> <<>>]
    /\ flags = [e \in End |-> {}]
    /\ pc = [e \in End |-> "idle"]
    /\ left = [e \in End |-> <<>>]
    /\ leaving = [e \in End |-> FALSE]
    /\ wire = [e \in End |-> <<>>]
    /\ reset = [e \in End |-> FALSE]
    /\ faults = 0
    /\ written = [e \in End |-> <<>>]
    /\ delivered = [e \in End |-> <<>>]

Step(e) ==
    \/ Write(e) \/ WriteFails(e)
    \/ Flush(e) \/ FlushSelectFails(e)
    \/ Send(e) \/ SendFails(e) \/ SendPipe(e)
    \/ Scan(e) \/ ScanFails(e)
    \/ ReadWord(e) \/ ReadWordNoMemory(e) \/ ReadWordCrashes(e) \/ RecvFails(e)
    \/ Read(e)
    \/ Leave(e) \/ ClientDeath(e) \/ Close(e)

Next == \E e \in End : Step(e)

Spec == Init /\ [][Next]_vars

\* The program polls its connections on a timer, tn_write is always followed
\* by a flush.  The network moves data: polled again and again, recv does not
\* find the socket empty for ever.  Nobody has to write or to leave, and no
\* call has to fail.
Fairness ==
    \A e \in End :
        /\ WF_vars(Flush(e))
        /\ WF_vars(Send(e) \/ SendPipe(e))
        /\ WF_vars(Scan(e))
        /\ SF_vars(UNCHANGED faults /\ (ReadWord(e) \/ ReadWordCrashes(e) \/ RecvFails(e)))
        /\ WF_vars(Read(e))
        /\ WF_vars(ClientDeath(e))
        /\ WF_vars(Close(e))

FairSpec == Spec /\ Fairness

-----------------------------------------------------------------------------
(* Properties. *)

TypeOK ==
    /\ tstate \in [End -> SUBSET Flag]
    /\ socket \in [End -> BOOLEAN]
    /\ incId \in [End -> Nat] /\ outId \in [End -> Nat]
    /\ flags \in [End -> SUBSET {"TCPNET_ERROR", "LOCAL_ERROR"}]
    /\ pc \in [End -> {"idle", "queued", "flush", "scan", "read", "close",
                       "closed", "crashed"}]
    /\ leaving \in [End -> BOOLEAN] /\ reset \in [End -> BOOLEAN]
    /\ \A e \in End :
         /\ Len(wire[e]) <= Capacity
         /\ (left[e] # <<>>) <=> (pc[e] = "flush")
         /\ \A i \in 1 .. Len(incoming[e]) - 1 : incoming[e][i].complete
         /\ written[e] \in Seq(Payload)

\* Framing, the two lists and the polling loop together carry packets whole,
\* once and in order, however the socket cuts the stream, and whatever the
\* reading end loses to a lack of memory or a failed call.
Channel == INSTANCE PacketChannel
ImplementsChannel == Channel!Spec

\* The handler is never given anything but the packets the other end wrote;
\* sc_net_recv_packet says of a damaged packet that it "shouldn't happen".
NoDamagedPacket ==
    \A e \in End : IsPrefix(delivered[e], written[Peer(e)])

\* As long as no call fails and nobody closes, no end finds an error: no
\* cut of the stream looks like a misaligned or misordered packet.  (Stated
\* with the types, of which only the last packet is ever incomplete.)
NoFalseAlarm ==
    /\ TypeOK
    /\ faults = 0 /\ (\A e \in End : socket[e]) => \A e \in End : tstate[e] = {}

\* Both ends are inside tn_send_buffer with a full socket: neither reads until
\* it has sent, so each waits for the other.
WaitForOneAnother == \A e \in End : pc[e] = "flush" /\ Len(wire[e]) = Capacity

\* Every packet written is handed over whole and in its place in the end, even
\* if the socket takes less than a packet at a time.  Only a failed call that is
\* found out, an end that leaves, or two full sockets can keep it back.
PacketsArrive ==
    \A e \in End : \A k \in 1 .. MaxPackets[e] :
        Len(written[e]) >= k ~>
            \/ Len(delivered[Peer(e)]) >= k /\ delivered[Peer(e)][k] = written[e][k]
            \/ faults > 0 /\ \E f \in End : flags[f] # {}
            \/ \E f \in Leavers : leaving[f]
            \/ WaitForOneAnother

\* Whenever the handler has been given something the other end did not write,
\* tn_send_buffer of that end has given up in the middle of a packet, and the
\* error is on record there: no other failure, and no wait for room in the
\* socket, ever puts the reader out of step.
DamageOnRecord ==
    \A e \in End :
        IsPrefix(delivered[e], written[Peer(e)])
            \/ tstate[Peer(e)] \intersect {"MALLOC", "UNKNOWN"} # {}

\* An end that closes is noticed: the other end has all it wrote, the
\* farewell included, or drops the connection, or has itself gone, unless a
\* call of the first end has failed.  (The end of the stream alone is not
\* noticed, so the last message must get out.)
CloseIsNoticed ==
    \A e \in End :
        pc[e] = "closed" ~> \/ delivered[Peer(e)] = written[e]
                            \/ tstate[e] \intersect {"UNKNOWN", "MALLOC"} # {}
                            \/ flags[Peer(e)] # {}
                            \/ ~socket[Peer(e)]
=============================================================================
