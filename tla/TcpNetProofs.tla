---------------------------- MODULE TcpNetProofs -----------------------------
(***************************************************************************)
(* The packet transport implements a channel, and no end raises a false    *)
(* alarm: proved for every socket capacity, every number of packets and    *)
(* every way to cut the stream.                                            *)
(***************************************************************************)
EXTENDS TcpNet, SequenceTheorems, FiniteSetTheorems, TLAPS

-----------------------------------------------------------------------------
(* Types, and what an end does at the moment. *)

InPacket == [header : Seq(Nat), body : Seq(Nat), complete : BOOLEAN, null : BOOLEAN]
Queued == [id : Nat, body : Seq(Nat), complete : BOOLEAN]

TypeInv ==
    /\ tstate \in [End -> SUBSET Flag]
    /\ socket \in [End -> BOOLEAN]
    /\ incId \in [End -> Nat]
    /\ outId \in [End -> Nat]
    /\ incoming \in [End -> Seq(InPacket)]
    /\ outgoing \in [End -> Seq(Queued)]
    /\ flags \in [End -> SUBSET {"TCPNET_ERROR", "LOCAL_ERROR"}]
    /\ pc \in [End -> {"idle", "queued", "flush", "scan", "read", "close", "closed", "crashed"}]
    /\ left \in [End -> Seq(Nat)]
    /\ leaving \in [End -> BOOLEAN]
    /\ wire \in [End -> Seq(Nat)]
    /\ reset \in [End -> BOOLEAN]
    /\ faults \in Nat
    /\ written \in [End -> Seq(Payload)]
    /\ delivered \in [End -> Seq(Seq(Nat))]

EndOf(e) ==
    /\ socket[e] <=> pc[e] \notin {"closed", "crashed"}
    /\ pc[e] = "flush" => IsUp(e)
    /\ left[e] # <<>> <=> pc[e] = "flush"
    /\ pc[e] = "scan" => incoming[e] # <<>>
    /\ reset[e] => ~socket[Peer(e)]
    /\ Len(wire[e]) <= Capacity
    /\ outId[e] <= MaxPackets[e] + (IF leaving[e] THEN 1 ELSE 0)
    /\ \A i \in 1 .. Len(incoming[e]) - 1 : incoming[e][i].complete
EndInv == \A e \in End : EndOf(e)

-----------------------------------------------------------------------------
(* The sending end.  Packet k is the k-th written; the first m are sent. *)

Total(e, k) == HeaderSize + Len(written[e][k])

\* Word j of packet k.
WordOf(e, k, j) ==
    IF j = 1 THEN Magic
    ELSE IF j = 2 THEN Len(written[e][k])
    ELSE IF j = 3 THEN k
    ELSE written[e][k][j - HeaderSize]

\* The queue holds the packets last written.
Base(e) == outId[e] - Len(outgoing[e])
Queue(e, m) ==
    /\ m \in 0 .. outId[e] /\ Len(written[e]) = outId[e]
    /\ Base(e) \in 0 .. m
    /\ \A i \in 1 .. Len(outgoing[e]) :
         /\ outgoing[e][i].id = Base(e) + i
         /\ outgoing[e][i].body = written[e][Base(e) + i]
         /\ outgoing[e][i].complete <=> Base(e) + i <= m

\* What is left of the packet being sent.
Rest(e, m) == Total(e, m + 1) - Len(left[e])
Partly(e, m) ==
    pc[e] = "flush" =>
        /\ m < outId[e] /\ Rest(e, m) \in Nat
        /\ \A i \in 1 .. Len(left[e]) : left[e][i] = WordOf(e, m + 1, Rest(e, m) + i)

(* The stream: place i of the wire holds word J[i] of packet K[i]. *)

Follows(e, k, j, k2, j2) ==
    IF j < Total(e, k) THEN k2 = k /\ j2 = j + 1 ELSE k2 = k + 1 /\ j2 = 1

Course == [Nat -> Nat]
Before(k, j, k2, j2) == k < k2 \/ (k = k2 /\ j < j2)

Stream(e, K, J) ==
    /\ \A i \in 1 .. Len(wire[e]) :
         /\ K[i] \in 1 .. Len(written[e]) /\ J[i] \in 1 .. Total(e, K[i])
         /\ wire[e][i] = WordOf(e, K[i], J[i])
         /\ Follows(e, K[i], J[i], K[i + 1], J[i + 1])
    /\ \A a, b \in 1 .. Len(wire[e]) + 1 : a < b => Before(K[a], J[a], K[b], J[b])

\* The sending end goes on behind the stream.
Sends(e, m, k, j) == k = m + 1 /\ j = IF pc[e] = "flush" THEN Rest(e, m) + 1 ELSE 1

-----------------------------------------------------------------------------
(* The receiving end r of what e sends. *)

\* The packets received are the first written, handed over or in the list.
Received(r, e) ==
    LET d == Len(delivered[r])
        n == incId[r]
    IN  /\ d <= n /\ n <= Len(written[e])
        /\ \A i \in 1 .. d : delivered[r][i] = written[e][i]
        /\ Len(incoming[r]) \in {n - d, n - d + 1}
        /\ \A i \in 1 .. n - d : incoming[r][i].complete /\ incoming[r][i].body = written[e][d + i]
        /\ Len(incoming[r]) = n - d + 1 => ~incoming[r][n - d + 1].complete

Current(r) == IF incoming[r] = <<>> THEN FreshPacket ELSE Latest(incoming[r])

\* It reads word j of packet k next, and that is the one it is to read.
InStep(r, e, p, k, j) ==
    /\ ~p.null /\ k = incId[r] + 1 /\ j = Len(p.header) + Len(p.body) + 1
    /\ Len(p.header) <= HeaderSize /\ (Len(p.header) < HeaderSize => p.body = <<>>)
    /\ j > 1 => k <= Len(written[e]) /\ j <= Total(e, k)
    /\ \A i \in 1 .. Len(p.header) : p.header[i] = WordOf(e, k, i)
    /\ \A i \in 1 .. Len(p.body) : p.body[i] = written[e][k][i]

\* It has lost words, and will never again see a packet it accepts.
OutOfStep(r, p, k, j) ==
    /\ faults > 0 /\ j >= 1
    /\ \/ Len(p.header) = HeaderSize /\ (p.null \/ Misaligned(p) \/ Misordered(p, incId[r]))
       \/ p.header = <<>> /\ (k > incId[r] + 1 \/ (k = incId[r] + 1 /\ j > 1))
       \/ Len(p.header) \in {1, 2} /\ (p.header[1] # Magic \/ (k > incId[r] + 1 /\ j = Len(p.header) + 1))

Reads(r, e, k, j) == InStep(r, e, Current(r), k, j) \/ OutOfStep(r, Current(r), k, j)

Linked(e, m, r) ==
    socket[r] =>
        \E K, J \in Course :
            /\ Stream(e, K, J)
            /\ Reads(r, e, K[1], J[1])
            /\ IsUp(e) => Sends(e, m, K[Len(wire[e]) + 1], J[Len(wire[e]) + 1])

\* send has not failed in the middle of a packet of end e: nothing has failed,
\* or nothing of that kind can, or the error is not on record.
Clean(e) ==
    \/ faults = 0
    \/ Faults \intersect {"ENOMEM", "ESEND"} = {}
    \/ tstate[e] \intersect {"MALLOC", "UNKNOWN"} = {}

ConnOf(e) ==
    \E m \in Nat :
        /\ Queue(e, m) /\ Partly(e, m)
        /\ Clean(e) => Received(Peer(e), e) /\ Linked(e, m, Peer(e))
ConnInv == \A e \in End : ConnOf(e)
-----------------------------------------------------------------------------
\* A connection has two ends, each the peer of the other.
LEMMA TwoEnds ==
    ASSUME NEW e \in End
    PROVE  Peer(e) \in End /\ Peer(e) # e /\ Peer(Peer(e)) = e /\ \A f \in End : f = e \/ f = Peer(e)
BY DEF End, Peer

\* The bounds of what an end writes and of the numbers of its packets.
LEMMA Numbers ==
    LastId \in Nat \ {0} /\ \A e \in End : MaxPackets[e] \in Nat /\ MaxPackets[e] \in 0 .. LastId - 1
BY BoundAssumption DEF LastId, End

\* The cookie is larger than any other number in a stream.
LEMMA MagicNat == Magic \in Nat /\ HeaderSize = 3 /\ Magic > LastId /\ Magic > 10
<1>1. PICK size \in Sizes : size \in Nat \ {0}
  BY SizeAssumption
<1>2. 10 * LastId + size < Magic
  BY Numbers, MagicAssumption DEF Word
<1> QED
  BY <1>1, <1>2, Numbers, MagicAssumption DEF HeaderSize

\* A payload is not empty, and none of its words looks like the start of a
\* packet.
LEMMA PayloadWords ==
    ASSUME NEW b \in Payload
    PROVE  /\ b \in Seq(Nat) /\ Len(b) \in 1 .. Magic - 1
           /\ \A i \in 1 .. Len(b) : b[i] \in Nat /\ b[i] < Magic
<1>1. PICK id \in 1 .. LastId, size \in Sizes : b = Body(id, size)
  BY DEF Payload
<1>2. size \in 1 .. Magic - 1 /\ 10 * id + size < Magic
  <2>1. size \in Nat \ {0} /\ 10 * id + size < Magic
    BY SizeAssumption, MagicAssumption DEF Word
  <2> QED
    BY <2>1, MagicAssumption, Numbers
<1>3. b = [i \in 1 .. size |-> 10 * id + i]
  BY <1>1 DEF Body, Word
<1>4. Len(b) = size /\ \A i \in 1 .. size : b[i] = 10 * id + i
  BY <1>2, <1>3
<1>5. \A i \in 1 .. size : 10 * id + i \in Nat /\ 10 * id + i < Magic
  BY <1>2, Numbers, MagicNat
<1>6. b \in Seq(Nat)
  BY <1>2, <1>3, <1>5
<1> QED
  BY <1>2, <1>4, <1>5, <1>6, MagicNat

\* A packet of which nothing has arrived.
LEMMA FreshType == FreshPacket \in InPacket /\ FreshPacket.header = <<>> /\ FreshPacket.body = <<>>
                   /\ ~FreshPacket.null /\ ~FreshPacket.complete
BY DEF FreshPacket, InPacket

\* The parts of a packet being received.
LEMMA PacketParts ==
    ASSUME NEW p \in InPacket
    PROVE  /\ p.header \in Seq(Nat) /\ Len(p.header) \in Nat /\ p.body \in Seq(Nat) /\ Len(p.body) \in Nat
           /\ p.complete \in BOOLEAN /\ p.null \in BOOLEAN
           /\ (p.header = <<>> <=> Len(p.header) = 0) /\ (p.body = <<>> <=> Len(p.body) = 0)
<1>1. p.header \in Seq(Nat) /\ p.body \in Seq(Nat) /\ p.complete \in BOOLEAN /\ p.null \in BOOLEAN
  BY DEF InPacket
<1> QED
  BY <1>1

\* The words of a packet.
LEMMA WordsOf ==
    ASSUME NEW p \in Queued
    PROVE  /\ Words(p) \in Seq(Nat) /\ Len(Words(p)) = HeaderSize + Len(p.body)
           /\ Words(p)[1] = Magic /\ Words(p)[2] = Len(p.body) /\ Words(p)[3] = p.id
           /\ \A i \in 1 .. Len(p.body) : Words(p)[i + 3] = p.body[i]
<1>1. p.body \in Seq(Nat) /\ p.id \in Nat /\ Len(p.body) \in Nat
  BY DEF Queued
<1>2. <<Magic, Len(p.body), p.id>> \in Seq(Nat)
  BY <1>1, MagicNat
<1> QED
  BY <1>1, <1>2, MagicNat DEF Words

\* Parts of a sequence.
LEMMA Part ==
    ASSUME NEW S, NEW s \in Seq(S), NEW n \in 0 .. Len(s)
    PROVE  /\ SubSeq(s, n + 1, Len(s)) \in Seq(S)
           /\ Len(SubSeq(s, n + 1, Len(s))) = Len(s) - n
           /\ \A i \in 1 .. Len(s) - n : SubSeq(s, n + 1, Len(s))[i] = s[n + i]
           /\ SubSeq(s, 1, n) \in Seq(S)
           /\ Len(SubSeq(s, 1, n)) = n
           /\ \A i \in 1 .. n : SubSeq(s, 1, n)[i] = s[i]
<1>1. Len(s) \in Nat /\ n \in Nat
  OBVIOUS
<1>2. /\ SubSeq(s, n + 1, Len(s)) \in Seq(S)
      /\ Len(SubSeq(s, n + 1, Len(s))) = Len(s) - n
      /\ \A i \in 1 .. Len(s) - n : SubSeq(s, n + 1, Len(s))[i] = s[n + i]
  BY <1>1
<1> QED
  BY <1>1, <1>2

\* Sequences put one behind the other.
LEMMA Joined ==
    ASSUME NEW S, NEW s \in Seq(S), NEW t \in Seq(S)
    PROVE  /\ s \o t \in Seq(S) /\ Len(s \o t) = Len(s) + Len(t)
           /\ \A i \in 1 .. Len(s) : (s \o t)[i] = s[i]
           /\ \A i \in 1 .. Len(t) : (s \o t)[Len(s) + i] = t[i]
OBVIOUS

\* The first unsent packet of a list whose first c packets are sent.
LEMMA FirstOfUnsent ==
    ASSUME NEW s \in Seq(Queued), NEW c \in 0 .. Len(s), \A i \in 1 .. Len(s) : s[i].complete <=> i <= c
    PROVE  /\ Unsent(s) = {} <=> c = Len(s)
           /\ c < Len(s) => FirstUnsent(s) = c + 1
           /\ {i \in DOMAIN s : s[i].complete} = 1 .. c
<1>1. Len(s) \in Nat /\ DOMAIN s = 1 .. Len(s) /\ c \in Nat /\ c <= Len(s)
  OBVIOUS
<1>2. /\ \A i : i \in Unsent(s) <=> i \in 1 .. Len(s) /\ i > c
      /\ {i \in DOMAIN s : s[i].complete} = 1 .. c
  <2>1. \A i \in 1 .. Len(s) : (i <= c) \in BOOLEAN /\ (s[i].complete <=> i <= c)
    OBVIOUS
  <2>2. \A i : i \in Unsent(s) <=> i \in 1 .. Len(s) /\ ~s[i].complete
    BY <1>1 DEF Unsent
  <2>3. \A i : i \in 1 .. c <=> i \in 1 .. Len(s) /\ i <= c
    BY <1>1
  <2>4. \A i \in 1 .. Len(s) : ~(i <= c) <=> i > c
    BY <1>1
  <2>5. \A i : i \in {x \in DOMAIN s : s[x].complete} <=> i \in 1 .. Len(s) /\ i <= c
    BY <1>1, <2>1
  <2> QED
    BY <2>1, <2>2, <2>3, <2>4, <2>5
<1>3. ASSUME c < Len(s) PROVE FirstUnsent(s) = c + 1 /\ Unsent(s) # {}
  <2>1. c + 1 \in Unsent(s)
    BY <1>1, <1>2, <1>3
  <2>2. \A i \in Unsent(s) : c + 1 <= i /\ i \in Nat
    BY <1>1, <1>2
  <2>3. \A i \in Unsent(s) : (\A k \in Unsent(s) : i <= k) => i = c + 1
    BY <1>1, <2>1, <2>2
  <2> QED
    BY <2>1, <2>2, <2>3 DEF FirstUnsent
<1>4. ASSUME c = Len(s) PROVE Unsent(s) = {}
  BY <1>1, <1>2, <1>4
<1> QED
  <2>0. \A a, b \in Nat : (a <= b => a < b \/ a = b) /\ ~(a < b /\ a = b)
    OBVIOUS
  <2>1. c < Len(s) \/ c = Len(s)
    BY <1>1, <2>0
  <2>2. ~(c < Len(s) /\ c = Len(s))
    BY <1>1, <2>0
  <2> QED
    BY <1>2, <1>3, <1>4, <2>1, <2>2

\* The packets to be sent.
LEMMA UnsentFirst ==
    ASSUME NEW e \in End, NEW m \in Nat, Queue(e, m), outgoing[e] \in Seq(Queued), outId[e] \in Nat
    PROVE  /\ Unsent(outgoing[e]) = {} <=> m = outId[e]
           /\ {i \in DOMAIN outgoing[e] : outgoing[e][i].complete} = 1 .. m - Base(e)
           /\ Base(e) \in Nat /\ m - Base(e) \in 0 .. Len(outgoing[e]) /\ outId[e] = Base(e) + Len(outgoing[e])
           /\ m < outId[e] => /\ FirstUnsent(outgoing[e]) = m + 1 - Base(e)
                              /\ m + 1 - Base(e) \in 1 .. Len(outgoing[e])
<1> DEFINE s == outgoing[e]
           c == m - Base(e)
<1>1. Len(s) \in Nat /\ Base(e) \in 0 .. m /\ m <= outId[e] /\ outId[e] = Base(e) + Len(s)
  BY DEF Queue, Base
<1>2. c \in 0 .. Len(s) /\ (c = Len(s) <=> m = outId[e]) /\ (c < Len(s) <=> m < outId[e])
      /\ c + 1 = m + 1 - Base(e) /\ (m < outId[e] => m + 1 - Base(e) \in 1 .. Len(outgoing[e]))
  BY <1>1
<1>3. \A i \in 1 .. Len(s) : s[i].complete <=> i <= c
  <2>1. \A i \in 1 .. Len(s) : s[i].complete <=> Base(e) + i <= m
    BY DEF Queue
  <2>2. \A i \in 1 .. Len(s) : (Base(e) + i <= m) <=> (i <= c)
    BY <1>1
  <2> QED
    BY <2>1, <2>2
<1> HIDE DEF c
<1>4. /\ Unsent(s) = {} <=> c = Len(s)
      /\ c < Len(s) => FirstUnsent(s) = c + 1
      /\ {i \in DOMAIN s : s[i].complete} = 1 .. c
  BY <1>2, <1>3, FirstOfUnsent
<1> QED
  BY <1>1, <1>2, <1>4 DEF c

\* The list once the packet after the m-th is sent.
LEMMA SentList ==
    ASSUME NEW e \in End, NEW m \in Nat, Queue(e, m), outgoing[e] \in Seq(Queued), outId[e] \in Nat,
           m < outId[e]
    PROVE  LET s == outgoing[e]  r == FirstSent(s)  f == m + 1 - Base(e)
           IN  /\ r \in Seq(Queued) /\ Len(r) = Len(s)
               /\ f \in 1 .. Len(s)
               /\ \A i \in 1 .. Len(s) : r[i].id = s[i].id /\ r[i].body = s[i].body
                                         /\ r[i].complete = (s[i].complete \/ i = f)
<1> DEFINE s == outgoing[e]
           f == m + 1 - Base(e)
<1>1. FirstSent(s) = [s EXCEPT ![f].complete = TRUE] /\ f \in 1 .. Len(s)
  BY UnsentFirst DEF FirstSent
<1> HIDE DEF s, f
<1>2. s \in Seq(Queued)
  BY DEF s
<1>3. s[f] \in Queued
  BY <1>1, <1>2
<1>4. [s[f] EXCEPT !.complete = TRUE] \in Queued
  BY <1>3 DEF Queued
<1>5. FirstSent(s) = [s EXCEPT ![f] = [s[f] EXCEPT !.complete = TRUE]]
  BY <1>1
<1>6. FirstSent(s) \in Seq(Queued) /\ Len(FirstSent(s)) = Len(s)
      /\ \A i \in 1 .. Len(s) : FirstSent(s)[i] = IF i = f THEN [s[f] EXCEPT !.complete = TRUE] ELSE s[i]
  BY <1>1, <1>2, <1>4, <1>5
<1>7. \A i \in 1 .. Len(s) : s[i] \in Queued
  BY <1>2
<1>8. \A q \in Queued : LET z == [q EXCEPT !.complete = TRUE] IN z.id = q.id /\ z.body = q.body /\ z.complete
  BY DEF Queued
<1>9. \A i \in 1 .. Len(s) :
        /\ FirstSent(s)[i].id = s[i].id /\ FirstSent(s)[i].body = s[i].body
        /\ FirstSent(s)[i].complete = (s[i].complete \/ i = f)
  <2> TAKE i \in 1 .. Len(s)
  <2>1. CASE i = f
    BY <1>3, <1>6, <1>8, <2>1
  <2>2. CASE i # f
    <3>1. FirstSent(s)[i] = s[i] /\ s[i].complete \in BOOLEAN
      BY <1>6, <1>7, <2>2 DEF Queued
    <3> QED
      BY <2>2, <3>1
  <2> QED
    BY <2>1, <2>2
<1> QED
  BY <1>1, <1>6, <1>9 DEF s, f
\* The packet at the end of a list of packets received.
Closed(s) == IF s[Len(s)].complete THEN Len(s) ELSE Len(s) - 1

\* What tn_scan_read goes on with: the last packet of the list, or a new one.
LEMMA LatestList ==
    ASSUME NEW s \in Seq(InPacket), s # <<>>, NEW p \in InPacket
    PROVE  /\ Latest(s) = IF s[Len(s)].complete THEN FreshPacket ELSE s[Len(s)]
           /\ Latest(s) \in InPacket /\ ~Latest(s).complete
           /\ SetLatest(s, p) \in Seq(InPacket) /\ SetLatest(s, p) # <<>>
           /\ Closed(s) \in 0 .. Len(s) /\ Len(SetLatest(s, p)) = Closed(s) + 1
           /\ \A i \in 1 .. Closed(s) : SetLatest(s, p)[i] = s[i]
           /\ SetLatest(s, p)[Closed(s) + 1] = p
<1>1. Last(s) = s[Len(s)] /\ Len(s) \in Nat \ {0} /\ s[Len(s)] \in InPacket
  BY DEF Last
<1>2. Latest(s) = IF s[Len(s)].complete THEN FreshPacket ELSE s[Len(s)]
  BY <1>1 DEF Latest
<1>3. Latest(s) \in InPacket /\ ~Latest(s).complete
  BY <1>1, <1>2, FreshType
<1>4. CASE s[Len(s)].complete
  <2>1. SetLatest(s, p) = Append(s, p)
    BY <1>1, <1>4 DEF SetLatest
  <2> QED
    BY <1>1, <1>2, <1>3, <1>4, <2>1 DEF Closed
<1>5. CASE ~s[Len(s)].complete
  <2>1. SetLatest(s, p) = [s EXCEPT ![Len(s)] = p]
    BY <1>1, <1>5 DEF SetLatest
  <2> QED
    BY <1>1, <1>2, <1>3, <1>5, <2>1 DEF Closed
<1> QED
  BY <1>4, <1>5

\* The next word goes into a packet.
LEMMA PutWord ==
    ASSUME NEW p \in InPacket, NEW w \in Nat
    PROVE  /\ PutHeader(p, w) \in InPacket
           /\ PutHeader(p, w).header = Append(p.header, w) /\ PutHeader(p, w).body = p.body
           /\ PutHeader(p, w).complete = p.complete /\ PutHeader(p, w).null = p.null
           /\ PutBody(p, w) \in InPacket
           /\ PutBody(p, w).header = p.header /\ PutBody(p, w).body = Append(p.body, w)
           /\ PutBody(p, w).complete = (Len(p.body) + 1 = p.header[2]) /\ PutBody(p, w).null = p.null
           /\ [p EXCEPT !.null = TRUE] \in InPacket
<1>1. /\ p.header \in Seq(Nat) /\ p.body \in Seq(Nat) /\ p.complete \in BOOLEAN /\ p.null \in BOOLEAN
      /\ Append(p.header, w) \in Seq(Nat) /\ Append(p.body, w) \in Seq(Nat)
      /\ Len(Append(p.body, w)) = Len(p.body) + 1
  BY DEF InPacket
<1> QED
  BY <1>1 DEF InPacket, PutHeader, PutBody

\* A step of ReadWord, by what becomes of the word.
Taken(e, r) ==
    /\ r \in InPacket
    /\ incoming' = [incoming EXCEPT ![e] = SetLatest(@, r)]
    /\ incId' = [incId EXCEPT ![e] = IF r.complete THEN @ + 1 ELSE @]
    /\ wire' = [wire EXCEPT ![Peer(e)] = Tail(@)]
    /\ UNCHANGED <<tstate, pc, socket, faults>>
Refused(e, r, flag) ==
    /\ r \in InPacket /\ flag \in Flag
    /\ AddFlag(e, flag)
    /\ incoming' = [incoming EXCEPT ![e] = SetLatest(@, r)]
    /\ DropBuffer(e)
    /\ Goto(e, "read")
    /\ UNCHANGED <<incId, socket, faults>>

Whole(p) == Len(p.header) = HeaderSize
Refusable(p, n) == Misaligned(p) \/ Misordered(p, n)

\* What a step of tn_scan_read does: it takes the word, or refuses the packet
\* and drops the rest of the buffer.
LEMMA ReadWordCases ==
    ASSUME TypeInv, EndInv, NEW e \in End, ReadWord(e)
    PROVE  LET word == Head(wire[Peer(e)])
               p == Latest(incoming[e])
               h == PutHeader(p, word)
           IN  /\ word \in Nat /\ word = wire[Peer(e)][1] /\ p \in InPacket /\ ~p.complete /\ h \in InPacket
               /\ wire[Peer(e)] \in Seq(Nat) /\ wire[Peer(e)] # <<>>
               /\ incoming[e] \in Seq(InPacket) /\ incoming[e] # <<>>
               /\ pc[e] = "scan" /\ Current(e) = p
               /\ UNCHANGED <<outId, outgoing, flags, left, leaving, reset, written, delivered>>
               /\ \/ /\ Len(p.header) < HeaderSize
                     /\ \/ Whole(h) /\ Refusable(h, incId[e]) /\ \E f : Refused(e, h, f)
                        \/ ~(Whole(h) /\ Refusable(h, incId[e])) /\ Taken(e, h)
                  \/ /\ Len(p.header) >= HeaderSize
                     /\ \/ Whole(p) /\ Refusable(p, incId[e]) /\ \E f : Refused(e, p, f)
                        \/ ~Refusable(p, incId[e]) /\ ~p.null /\ Taken(e, PutBody(p, word))
<1> DEFINE word == Head(wire[Peer(e)])
           p == Latest(incoming[e])
           h == PutHeader(p, word)
<1>1. /\ wire[Peer(e)] \in Seq(Nat) /\ wire[Peer(e)] # <<>> /\ pc[e] = "scan"
      /\ incoming[e] \in Seq(InPacket) /\ incoming[e] # <<>>
      /\ UNCHANGED <<outId, outgoing, flags, left, leaving, reset, written, delivered>>
  BY TwoEnds DEF ReadWord, TypeInv, EndInv, EndOf, history
<1>2. word \in Nat /\ word = wire[Peer(e)][1]
  BY <1>1
<1>3. p \in InPacket /\ ~p.complete
  BY <1>1, LatestList, FreshType
<1>4. h \in InPacket /\ PutBody(p, word) \in InPacket
  BY <1>2, <1>3, PutWord
<1>5. Len(p.header) \in Nat
  BY <1>3 DEF InPacket
<1>6. Current(e) = p
  BY <1>1 DEF Current
<1>7. "MISALIGN" \in Flag /\ "MISORDER" \in Flag
  BY DEF Flag
<1> DEFINE inHead == Len(p.header) < HeaderSize
           q == IF inHead THEN h ELSE p
           whole == Whole(q)
<1>8. \/ whole /\ Misaligned(q) /\ Refused(e, q, "MISALIGN")
      \/ whole /\ ~Misaligned(q) /\ Misordered(q, incId[e]) /\ Refused(e, q, "MISORDER")
      \/ inHead /\ ~(whole /\ Refusable(q, incId[e])) /\ Taken(e, q)
      \/ /\ ~inHead /\ ~Refusable(q, incId[e]) /\ ~q.null
         /\ Taken(e, PutBody(q, word))
  BY <1>3, <1>4, <1>7 DEF ReadWord, Whole, Refusable, Refused, Taken
<1> HIDE DEF p, word, h
<1> SUFFICES \/ /\ inHead
                  /\ \/ Whole(h) /\ Refusable(h, incId[e]) /\ \E f : Refused(e, h, f)
                     \/ ~(Whole(h) /\ Refusable(h, incId[e])) /\ Taken(e, h)
               \/ /\ Len(p.header) >= HeaderSize
                  /\ \/ Whole(p) /\ Refusable(p, incId[e]) /\ \E f : Refused(e, p, f)
                     \/ ~Refusable(p, incId[e]) /\ ~p.null /\ Taken(e, PutBody(p, word))
  BY <1>1, <1>2, <1>3, <1>4, <1>6 DEF p, word, h
<1>9. CASE inHead
  <2>1. q = h
    BY <1>9
  <2> HIDE DEF q
  <2>2. \/ whole /\ Refusable(q, incId[e]) /\ \E f : Refused(e, q, f)
        \/ ~(whole /\ Refusable(q, incId[e])) /\ Taken(e, q)
    <3>1. CASE whole /\ Misaligned(q) /\ Refused(e, q, "MISALIGN")
      BY <3>1 DEF Refusable
    <3>2. CASE whole /\ ~Misaligned(q) /\ Misordered(q, incId[e]) /\ Refused(e, q, "MISORDER")
      BY <3>2 DEF Refusable
    <3> QED
      BY <1>8, <1>9, <3>1, <3>2
  <2> QED
    BY <1>9, <2>1, <2>2
<1>10. CASE ~inHead
  <2>1. q = p
    BY <1>10
  <2> HIDE DEF q
  <2>2. \/ whole /\ Refusable(q, incId[e]) /\ \E f : Refused(e, q, f)
        \/ ~Refusable(q, incId[e]) /\ ~q.null /\ Taken(e, PutBody(q, word))
    <3>1. CASE whole /\ Misaligned(q) /\ Refused(e, q, "MISALIGN")
      BY <3>1 DEF Refusable
    <3>2. CASE whole /\ ~Misaligned(q) /\ Misordered(q, incId[e]) /\ Refused(e, q, "MISORDER")
      BY <3>2 DEF Refusable
    <3> QED
      BY <1>8, <1>10, <3>1, <3>2
  <2> QED
    BY <1>5, <1>10, <2>1, <2>2, MagicNat
<1> QED
  BY <1>9, <1>10
-----------------------------------------------------------------------------
(* Types are kept. *)

LEMMA TypeInit == Init => TypeInv
<1> SUFFICES ASSUME Init PROVE TypeInv
  OBVIOUS
<1>1. \A S : <<>> \in Seq(S)
  OBVIOUS
<1> QED
  BY <1>1 DEF Init, TypeInv

\* The next packet of an end is one of the payloads.
MayWrite(e) == outId[e] \in Nat /\ \A size \in Sizes : Body(outId[e] + 1, size) \in Payload

\* Who writes may write: the bound leaves room for it and the last packet.
LEMMA WriteBound ==
    ASSUME TypeInv, EndInv, NEW e \in End, CanWrite(e) \/ ~leaving[e]
    PROVE  MayWrite(e)
<1>1. outId[e] \in Nat /\ outId[e] <= MaxPackets[e]
  BY Numbers DEF CanWrite, TypeInv, EndInv, EndOf
<1>2. outId[e] + 1 \in 1 .. LastId
  BY <1>1, Numbers
<1> QED
  BY <1>1, <1>2 DEF MayWrite, Payload

\* tn_write adds a packet at the end of the list and drops sent ones.
LEMMA AppendType ==
    ASSUME TypeInv, NEW e \in End, NEW size \in Sizes, Append1(e, size), MayWrite(e)
    PROVE  /\ outId' = [outId EXCEPT ![e] = @ + 1]
           /\ Body(outId[e] + 1, size) \in Payload
           /\ written' = [written EXCEPT ![e] = Append(@, Body(outId[e] + 1, size))]
           /\ OutPacket(outId[e] + 1, size) \in Queued
           /\ Cardinality({i \in DOMAIN outgoing[e] : outgoing[e][i].complete}) \in 0 .. Len(outgoing[e])
           /\ Expired(outgoing[e]) \in 0 .. Cardinality({i \in DOMAIN outgoing[e] : outgoing[e][i].complete})
           /\ outgoing' = [outgoing EXCEPT ![e] =
                             LET list == Append(outgoing[e], OutPacket(outId[e] + 1, size))
                             IN  SubSeq(list, Expired(outgoing[e]) + 1, Len(list))]
           /\ outgoing'[e] \in Seq(Queued)
<1>1. Body(outId[e] + 1, size) \in Payload
  BY DEF MayWrite
<1>2. OutPacket(outId[e] + 1, size) \in Queued
  BY <1>1, PayloadWords DEF OutPacket, Queued, MayWrite
<1>3. outgoing[e] \in Seq(Queued) /\ outgoing \in [End -> Seq(Queued)]
  BY DEF TypeInv
<1>4. Cardinality({i \in DOMAIN outgoing[e] : outgoing[e][i].complete}) \in 0 .. Len(outgoing[e])
  <2> DEFINE s == outgoing[e]
             C == {i \in DOMAIN s : s[i].complete}
  <2>1. C \in SUBSET (1 .. Len(s)) /\ Len(s) \in Nat
    BY <1>3
  <2>2. IsFiniteSet(1 .. Len(s)) /\ Cardinality(1 .. Len(s)) = Len(s)
    <3>1. \A n \in Nat : IsFiniteSet(1 .. n) /\ Cardinality(1 .. n) = n
      BY FS_Interval
    <3> QED
      BY <2>1, <3>1
  <2> HIDE DEF C
  <2>3. IsFiniteSet(C) /\ Cardinality(C) <= Cardinality(1 .. Len(s))
    BY <2>1, <2>2, FS_Subset
  <2>4. Cardinality(C) \in Nat
    BY <2>3, FS_CardinalityType
  <2> QED
    BY <2>1, <2>2, <2>3, <2>4 DEF C
<1>5. Expired(outgoing[e]) \in 0 .. Cardinality({i \in DOMAIN outgoing[e] : outgoing[e][i].complete})
  BY <1>4, BoundAssumption DEF Expired
<1>6. Append(outgoing[e], OutPacket(outId[e] + 1, size)) \in Seq(Queued)
      /\ Len(Append(outgoing[e], OutPacket(outId[e] + 1, size))) = Len(outgoing[e]) + 1
  BY <1>2, <1>3
<1>7. outgoing' = [outgoing EXCEPT ![e] =
                     LET list == Append(outgoing[e], OutPacket(outId[e] + 1, size))
                     IN  SubSeq(list, Expired(outgoing[e]) + 1, Len(list))]
  BY DEF Append1
<1>8. outgoing'[e] \in Seq(Queued)
  BY <1>3, <1>4, <1>5, <1>6, <1>7, Part
<1>9. outId' = [outId EXCEPT ![e] = @ + 1]
      /\ written' = [written EXCEPT ![e] = Append(@, Body(outId[e] + 1, size))]
  BY DEF Append1, OutPacket
<1> QED
  BY <1>1, <1>2, <1>4, <1>5, <1>7, <1>8, <1>9

\* The value of a variable at one end is replaced.
LEMMA Replaced ==
    ASSUME NEW S, NEW f \in [End -> S], NEW e \in End, NEW x \in S
    PROVE  /\ [f EXCEPT ![e] = x] \in [End -> S]
           /\ [f EXCEPT ![e] = x][e] = x
           /\ [f EXCEPT ![e] = x][Peer(e)] = f[Peer(e)]
BY TwoEnds

Places == {"idle", "queued", "flush", "scan", "read", "close", "closed", "crashed"}

\* The steps that go to another place or add an error.
LEMMA PlaceType ==
    ASSUME TypeInv, NEW e \in End
    PROVE  /\ \A place \in Places : Goto(e, place) => pc' \in [End -> Places]
           /\ \A flag \in Flag : AddFlag(e, flag) => tstate' \in [End -> SUBSET Flag]
           /\ \A kind : Fail(kind) => faults' \in Nat
           /\ AfterFlush(e) \in Places
<1>1. pc \in [End -> Places] /\ tstate \in [End -> SUBSET Flag] /\ faults \in Nat
  BY DEF TypeInv, Places
<1>2. ASSUME NEW flag \in Flag, AddFlag(e, flag) PROVE tstate' \in [End -> SUBSET Flag]
  <2>1. tstate[e] \union {flag} \in SUBSET Flag
    BY <1>1
  <2> QED
    BY <1>1, <1>2, <2>1, Replaced DEF AddFlag
<1>3. ASSUME NEW place \in Places, Goto(e, place) PROVE pc' \in [End -> Places]
  BY <1>1, <1>3, Replaced DEF Goto
<1>4. AfterFlush(e) \in Places
  BY DEF AfterFlush, Places
<1>5. \A kind : Fail(kind) => faults' \in Nat
  BY <1>1 DEF Fail
<1> QED
  BY <1>2, <1>3, <1>4, <1>5

\* A part of a sequence has the type of the sequence.
LEMMA SubSeqType ==
    ASSUME NEW S, NEW s \in Seq(S), NEW n \in 1 .. Len(s) + 1
    PROVE  SubSeq(s, n, Len(s)) \in Seq(S)
<1>1. n - 1 \in 0 .. Len(s) /\ (n - 1) + 1 = n
  OBVIOUS
<1> QED
  BY <1>1, Part

\* Every step of either end keeps the types.
LEMMA TypeStep ==
    ASSUME TypeInv, EndInv, ConnInv, [Next]_vars
    PROVE  TypeInv'
<1> USE DEF history, tnc
<1>0. "CONNLOST" \in Flag /\ "MALLOC" \in Flag /\ "SELECT" \in Flag /\ "UNKNOWN" \in Flag
      /\ {"idle", "queued", "flush", "scan", "read", "close", "closed", "crashed"} \subseteq Places
      /\ pc \in [End -> Places] /\ \A S : <<>> \in Seq(S)
  BY DEF Flag, Places, TypeInv
<1>1. ASSUME NEW e \in End, Write(e) \/ Depart(e) PROVE TypeInv'
  <2>1. PICK size \in Sizes : Append1(e, size)
    BY <1>1 DEF Write, Depart
  <2>2. MayWrite(e)
    BY <1>1, WriteBound DEF Write, Depart
  <2>3. /\ outId' \in [End -> Nat] /\ outgoing' \in [End -> Seq(Queued)] /\ written' \in [End -> Seq(Payload)]
    <3>1. /\ outId' = [outId EXCEPT ![e] = @ + 1] /\ Body(outId[e] + 1, size) \in Payload
          /\ written' = [written EXCEPT ![e] = Append(@, Body(outId[e] + 1, size))]
          /\ \E x : outgoing' = [outgoing EXCEPT ![e] = x]
          /\ outgoing'[e] \in Seq(Queued)
      BY <2>1, <2>2, AppendType
    <3>2. outId \in [End -> Nat] /\ outgoing \in [End -> Seq(Queued)] /\ written \in [End -> Seq(Payload)]
      BY DEF TypeInv
    <3>3. Append(written[e], Body(outId[e] + 1, size)) \in Seq(Payload)
      BY <3>1, <3>2
    <3>4. written' \in [End -> Seq(Payload)]
      BY <3>1, <3>2, <3>3, Replaced
    <3>5. outgoing' \in [End -> Seq(Queued)]
      BY <3>1, <3>2
    <3> QED
      BY <3>1, <3>2, <3>4, <3>5
  <2>4. pc' \in [End -> Places]
        /\ leaving' \in [End -> BOOLEAN]
    BY <1>0, <1>1, PlaceType DEF Write, Depart, TypeInv
  <2> QED
    BY <1>1, <2>3, <2>4 DEF Write, Depart, TypeInv, Places
<1>2. ASSUME NEW e \in End, WriteFails(e) \/ FlushSelectFails(e) \/ SendFails(e) \/ SendPipe(e)
                            \/ ScanFails(e) \/ RecvFails(e)
      PROVE  TypeInv'
  <2>1. tstate' \in [End -> SUBSET Flag]
    BY <1>0, <1>2, PlaceType DEF WriteFails, FlushSelectFails, SendFails, SendPipe, GiveUp, ScanFails, RecvFails
  <2>2. pc' \in [End -> Places]
    BY <1>0, <1>2, PlaceType DEF WriteFails, FlushSelectFails, SendFails, SendPipe, GiveUp, ScanFails, RecvFails
  <2>3. faults' \in Nat
    BY <1>2, PlaceType DEF WriteFails, FlushSelectFails, SendFails, SendPipe, ScanFails, RecvFails, TypeInv
  <2>4. left' \in [End -> Seq(Nat)]
    <3>1. left' = left \/ left' = [left EXCEPT ![e] = <<>>]
      BY <1>2 DEF WriteFails, FlushSelectFails, SendFails, SendPipe, GiveUp, ScanFails, RecvFails
    <3>2. left \in [End -> Seq(Nat)] /\ <<>> \in Seq(Nat)
      BY <1>0 DEF TypeInv
    <3> QED
      BY <3>1, <3>2, Replaced
  <2>5. reset' \in [End -> BOOLEAN]
    BY <1>2 DEF WriteFails, FlushSelectFails, SendFails, SendPipe, GiveUp, ScanFails, RecvFails, TypeInv
  <2>6. UNCHANGED <<socket, incId, outId, incoming, outgoing, flags, leaving, wire, written, delivered>>
    BY <1>2 DEF WriteFails, FlushSelectFails, SendFails, SendPipe, GiveUp, ScanFails, RecvFails
  <2> QED
    BY <2>1, <2>2, <2>3, <2>4, <2>5, <2>6 DEF TypeInv, Places
<1>3. ASSUME NEW e \in End, Flush(e) PROVE TypeInv'
  <2>1. CASE UNCHANGED left
    <3>1. pc' \in [End -> Places]
      BY <1>0, <1>3, PlaceType DEF Flush
    <3> QED
      BY <1>3, <2>1, <3>1 DEF Flush, TypeInv, Places
  <2>2. CASE IsUp(e) /\ Unsent(outgoing[e]) # {}
    <3>1. PICK m \in Nat : Queue(e, m)
      BY DEF ConnInv, ConnOf
    <3>2. outgoing[e] \in Seq(Queued) /\ outId[e] \in Nat
      BY DEF TypeInv
    <3>3. FirstUnsent(outgoing[e]) \in 1 .. Len(outgoing[e])
      <4>1. m # outId[e]
        BY <2>2, <3>1, <3>2, UnsentFirst
      <4>2. m < outId[e]
        BY <3>1, <3>2, <4>1 DEF Queue
      <4> QED
        BY <3>1, <3>2, <4>2, UnsentFirst
    <3>4. Words(outgoing[e][FirstUnsent(outgoing[e])]) \in Seq(Nat)
      BY <3>2, <3>3, WordsOf
    <3> QED
      <4>1. pc' \in [End -> Places]
        BY <1>0, <1>3, PlaceType DEF Flush
      <4>2. left' \in [End -> Seq(Nat)]
        <5>1. left' = [left EXCEPT ![e] = Words(outgoing[e][FirstUnsent(outgoing[e])])]
          BY <1>3, <2>2 DEF Flush
        <5>2. left \in [End -> Seq(Nat)]
          BY DEF TypeInv
        <5> QED
          BY <3>4, <5>1, <5>2, Replaced
      <4> QED
        BY <1>3, <4>1, <4>2 DEF Flush, TypeInv, Places
  <2> QED
    BY <1>3, <2>1, <2>2 DEF Flush
<1>4. ASSUME NEW e \in End, Send(e) PROVE TypeInv'
  <2> DEFINE list == FirstSent(outgoing[e])
  <2>1. PICK n \in 1 .. Len(left[e]) :
          /\ wire' = [wire EXCEPT ![e] = @ \o SubSeq(left[e], 1, n)]
          /\ IF n < Len(left[e])
               THEN /\ left' = [left EXCEPT ![e] = SubSeq(@, n + 1, Len(@))]
                    /\ UNCHANGED <<outgoing, pc>>
               ELSE /\ outgoing' = [outgoing EXCEPT ![e] = list]
                    /\ IF Unsent(list) = {}
                         THEN /\ Goto(e, AfterFlush(e))
                              /\ left' = [left EXCEPT ![e] = <<>>]
                         ELSE /\ left' = [left EXCEPT ![e] = Words(list[FirstUnsent(list)])]
                              /\ UNCHANGED pc
    BY <1>4 DEF Send
  <2>2. left[e] \in Seq(Nat) /\ wire[e] \in Seq(Nat) /\ outgoing[e] \in Seq(Queued) /\ outId[e] \in Nat
    BY DEF TypeInv
  <2>3. n \in 0 .. Len(left[e])
    BY <2>2
  <2>4. SubSeq(left[e], 1, n) \in Seq(Nat) /\ SubSeq(left[e], n + 1, Len(left[e])) \in Seq(Nat)
    BY <2>2, <2>3, Part
  <2>5. wire' \in [End -> Seq(Nat)]
    <3>1. wire \in [End -> Seq(Nat)] /\ wire[e] \o SubSeq(left[e], 1, n) \in Seq(Nat)
      BY <2>2, <2>4, Joined DEF TypeInv
    <3> QED
      BY <2>1, <3>1, Replaced
  <2>6. PICK m \in Nat : Queue(e, m) /\ m < outId[e]
    BY <1>4 DEF ConnInv, ConnOf, Partly, Send
  <2>7. list \in Seq(Queued)
    BY <2>2, <2>6, SentList
  <2>8. outgoing' \in [End -> Seq(Queued)]
    <3>1. outgoing \in [End -> Seq(Queued)] /\ (outgoing' = outgoing \/ outgoing' = [outgoing EXCEPT ![e] = list])
      BY <2>1 DEF TypeInv
    <3> QED
      BY <2>7, <3>1, Replaced
  <2>9. ASSUME Unsent(list) # {} PROVE Words(list[FirstUnsent(list)]) \in Seq(Nat)
    <3> DEFINE s == outgoing[e]
               f == m + 1 - Base(e)
    <3>1. /\ Len(list) = Len(s) /\ f \in 1 .. Len(s)
          /\ \A i \in 1 .. Len(s) : list[i].complete = (s[i].complete \/ i = f)
      BY <2>2, <2>6, SentList
    <3>2. \A i \in Unsent(list) : i \in 1 .. Len(list)
      BY <2>7 DEF Unsent
    <3>3. FirstUnsent(list) \in Unsent(list)
      <4>1. \E i \in Unsent(list) : \A k \in Unsent(list) : i <= k
        <5>1. \A i \in 1 .. Len(s) : s[i].complete <=> Base(e) + i <= m
          BY <2>6 DEF Queue
        <5>2. Base(e) \in 0 .. m /\ Base(e) \in Nat
          BY <2>6 DEF Queue
        <5>3. \A i \in 1 .. Len(s) : i \in Unsent(list) <=> i > f
          <6>1. \A i \in 1 .. Len(s) : i \in Unsent(list) <=> ~list[i].complete
            BY <2>7, <3>1 DEF Unsent
          <6> HIDE DEF list
          <6>2. \A i \in 1 .. Len(s) : list[i].complete <=> Base(e) + i <= m + 1
            <7> TAKE i \in 1 .. Len(s)
            <7>1. list[i].complete = (s[i].complete \/ i = f) /\ (s[i].complete <=> Base(e) + i <= m)
              BY <3>1, <5>1
            <7>2. Base(e) + i <= m + 1 <=> (Base(e) + i <= m \/ i = f)
              BY <5>2
            <7> QED
              BY <7>1, <7>2
          <6> QED
            BY <5>2, <6>1, <6>2
        <5>4. f + 1 \in Unsent(list)
          BY <2>9, <3>1, <3>2, <5>3
        <5>5. \A k \in Unsent(list) : f + 1 <= k
          BY <3>1, <3>2, <5>3
        <5> QED
          BY <5>4, <5>5
      <4> QED
        BY <4>1 DEF FirstUnsent
    <3>4. list[FirstUnsent(list)] \in Queued
      BY <2>7, <3>2, <3>3
    <3> QED
      BY <3>4, WordsOf
  <2> HIDE DEF list
  <2>10. left' \in [End -> Seq(Nat)]
    <3>1. left \in [End -> Seq(Nat)]
      BY DEF TypeInv
    <3>2. CASE n < Len(left[e])
      BY <2>1, <2>4, <3>1, <3>2, Replaced
    <3>3. CASE ~(n < Len(left[e])) /\ Unsent(list) = {}
      <4>1. left' = [left EXCEPT ![e] = <<>>] /\ <<>> \in Seq(Nat)
        BY <1>0, <2>1, <3>3
      <4> QED
        BY <3>1, <4>1, Replaced
    <3>4. CASE ~(n < Len(left[e])) /\ Unsent(list) # {}
      BY <2>1, <2>9, <3>1, <3>4, Replaced
    <3> QED
      BY <3>2, <3>3, <3>4
  <2>11. pc' \in [End -> Places]
    BY <1>0, <2>1, PlaceType
  <2> QED
    BY <1>4, <2>5, <2>8, <2>10, <2>11 DEF Send, TypeInv, Places
<1>5. ASSUME NEW e \in End, Scan(e) PROVE TypeInv'
  <2>1. <<FreshPacket>> \in Seq(InPacket)
    BY FreshType
  <2>2. incoming' \in [End -> Seq(InPacket)]
    <3>1. incoming' = incoming \/ incoming' = [incoming EXCEPT ![e] = <<FreshPacket>>]
      <4>1. CASE incoming[e] = <<>>
        BY <1>5, <4>1 DEF Scan
      <4>2. CASE incoming[e] # <<>>
        BY <1>5, <4>2 DEF Scan, TypeInv
      <4> QED
        BY <4>1, <4>2
    <3>2. incoming \in [End -> Seq(InPacket)]
      BY DEF TypeInv
    <3> QED
      BY <2>1, <3>1, <3>2, Replaced
  <2>3. pc' \in [End -> Places]
    BY <1>0, <1>5, PlaceType DEF Scan
  <2> QED
    BY <1>5, <2>2, <2>3 DEF Scan, TypeInv, Places
<1>6. ASSUME NEW e \in End, DropBuffer(e) PROVE wire' \in [End -> Seq(Nat)]
  <2>1. wire[Peer(e)] \in Seq(Nat)
    BY TwoEnds DEF TypeInv
  <2>2. PICK n \in 1 .. Len(wire[Peer(e)]) : wire' = [wire EXCEPT ![Peer(e)] = SubSeq(@, n + 1, Len(@))]
    BY <1>6 DEF DropBuffer
  <2>3. n \in 0 .. Len(wire[Peer(e)])
    BY <2>1
  <2>4. SubSeq(wire[Peer(e)], n + 1, Len(wire[Peer(e)])) \in Seq(Nat)
    BY <2>1, <2>3, Part
  <2> QED
    BY <2>2, <2>4 DEF TypeInv
<1>7. ASSUME NEW e \in End, ReadWord(e) PROVE TypeInv'
  <2>1. PICK r \in InPacket : Taken(e, r) \/ \E f : Refused(e, r, f)
    BY <1>7, ReadWordCases DEF Taken, Refused
  <2>2. /\ incoming[e] \in Seq(InPacket) /\ incoming[e] # <<>> /\ wire[Peer(e)] \in Seq(Nat)
        /\ wire[Peer(e)] # <<>>
        /\ UNCHANGED <<outId, outgoing, flags, left, leaving, reset, written, delivered>>
    BY <1>7, ReadWordCases
  <2>3. SetLatest(incoming[e], r) \in Seq(InPacket)
    BY <2>2, LatestList
  <2>4. CASE Taken(e, r)
    <3>1. Tail(wire[Peer(e)]) \in Seq(Nat)
      BY <2>2
    <3> QED
      <4>1. incoming' \in [End -> Seq(InPacket)]
        BY <2>3, <2>4, Replaced DEF Taken, TypeInv
      <4>2. wire' \in [End -> Seq(Nat)]
        BY <2>4, <3>1, Replaced, TwoEnds DEF Taken, TypeInv
      <4>3. incId' \in [End -> Nat]
        BY <2>4 DEF Taken, TypeInv
      <4> QED
        BY <2>2, <2>4, <4>1, <4>2, <4>3 DEF Taken, TypeInv
  <2>5. ASSUME NEW f, Refused(e, r, f) PROVE TypeInv'
    <3>1. wire' \in [End -> Seq(Nat)]
      BY <1>6, <2>5 DEF Refused
    <3> QED
      <4>1. incoming' \in [End -> Seq(InPacket)]
        BY <2>3, <2>5, Replaced DEF Refused, TypeInv
      <4>2. pc' \in [End -> Places] /\ tstate' \in [End -> SUBSET Flag]
        BY <1>0, <2>5, PlaceType DEF Refused
      <4> QED
        BY <2>2, <2>5, <3>1, <4>1, <4>2 DEF Refused, TypeInv, Places
  <2> QED
    BY <2>1, <2>4, <2>5
<1>8. ASSUME NEW e \in End, ReadWordNoMemory(e) PROVE TypeInv'
  <2> DEFINE p == Latest(incoming[e])
             q == PutHeader(p, Head(wire[Peer(e)]))
             r == [q EXCEPT !.null = TRUE]
  <2>1. incoming[e] \in Seq(InPacket) /\ incoming[e] # <<>> /\ wire[Peer(e)] \in Seq(Nat) /\ wire[Peer(e)] # <<>>
    BY <1>8, TwoEnds DEF ReadWordNoMemory, TypeInv, EndInv, EndOf
  <2>2. p \in InPacket
    BY <2>1, LatestList, FreshType
  <2>3. Head(wire[Peer(e)]) \in Nat
    BY <2>1
  <2>4. q \in InPacket
    BY <2>2, <2>3, PutWord
  <2>5. r \in InPacket
    BY <2>3, <2>4, PutWord
  <2> HIDE DEF q, p, r
  <2>6. SetLatest(incoming[e], r) \in Seq(InPacket)
    BY <2>1, <2>5, LatestList
  <2>7. incoming' \in [End -> Seq(InPacket)]
    <3>1. incoming' = incoming \/ incoming' = [incoming EXCEPT ![e] = SetLatest(@, r)]
      BY <1>8 DEF ReadWordNoMemory, p, q, r
    <3>2. incoming \in [End -> Seq(InPacket)]
      BY DEF TypeInv
    <3> QED
      BY <2>6, <3>1, <3>2, Replaced
  <2>8. wire' \in [End -> Seq(Nat)]
    BY <1>6, <1>8 DEF ReadWordNoMemory
  <2> QED
    <3>1. pc' \in [End -> Places] /\ tstate' \in [End -> SUBSET Flag] /\ faults' \in Nat
      BY <1>0, <1>8, PlaceType DEF ReadWordNoMemory
    <3> QED
      BY <1>8, <2>7, <2>8, <3>1 DEF ReadWordNoMemory, TypeInv, Places
<1>9. ASSUME NEW e \in End, ReadWordCrashes(e) PROVE TypeInv'
  <2>1. pc' \in [End -> Places]
    BY <1>0, <1>9, PlaceType DEF ReadWordCrashes
  <2> QED
    BY <1>9, <2>1 DEF ReadWordCrashes, TypeInv, Places
<1>10. ASSUME NEW e \in End, Read(e) PROVE TypeInv'
  <2>1. incoming[e] \in Seq(InPacket) /\ delivered[e] \in Seq(Seq(Nat))
    BY DEF TypeInv
  <2>2. incoming[e] # <<>> => Tail(incoming[e]) \in Seq(InPacket) /\ Head(incoming[e]) \in InPacket
    BY <2>1
  <2>3. \A p \in InPacket : p.body \in Seq(Nat)
    BY DEF InPacket
  <2>4. incoming[e] # <<>> => Append(delivered[e], Head(incoming[e]).body) \in Seq(Seq(Nat))
    BY <2>1, <2>2, <2>3
  <2>5. delivered' \in [End -> Seq(Seq(Nat))] /\ incoming' \in [End -> Seq(InPacket)]
    <3>1. delivered \in [End -> Seq(Seq(Nat))] /\ incoming \in [End -> Seq(InPacket)]
      BY DEF TypeInv
    <3>2. CASE incoming[e] # <<>> /\ Head(incoming[e]).complete
      <4>1. delivered' = [delivered EXCEPT ![e] = Append(@, Head(incoming[e]).body)]
            /\ incoming' = [incoming EXCEPT ![e] = Tail(@)]
        BY <1>10, <3>2 DEF Read
      <4> QED
        BY <2>2, <2>4, <3>1, <3>2, <4>1, Replaced
    <3>3. CASE UNCHANGED <<delivered, incoming>>
      BY <3>1, <3>3
    <3> QED
      BY <1>10, <3>2, <3>3 DEF Read
  <2>6. flags' \in [End -> SUBSET {"TCPNET_ERROR", "LOCAL_ERROR"}]
    <3>1. flags \in [End -> SUBSET {"TCPNET_ERROR", "LOCAL_ERROR"}]
      BY DEF TypeInv
    <3>2. \A x \in {"TCPNET_ERROR", "LOCAL_ERROR"} :
            flags[e] \union {x} \in SUBSET {"TCPNET_ERROR", "LOCAL_ERROR"}
      BY <3>1
    <3>3. PICK x \in {"TCPNET_ERROR", "LOCAL_ERROR"} :
            flags' = flags \/ flags' = [flags EXCEPT ![e] = @ \union {x}]
      BY <1>10 DEF Read
    <3> QED
      BY <3>1, <3>2, <3>3, Replaced
  <2>7. pc' \in [End -> Places]
    BY <1>0, <1>10, PlaceType DEF Read
  <2> QED
    BY <1>10, <2>5, <2>6, <2>7 DEF Read, TypeInv, Places
<1>11. ASSUME NEW e \in End, Close(e) PROVE TypeInv'
  <2>1. wire[e] \in Seq(Nat)
    BY DEF TypeInv
  <2>2. PICK n \in 0 .. Len(wire[Peer(e)]) : \E k \in 0 .. Len(wire[e]) :
          /\ reset' = [reset EXCEPT ![Peer(e)] = n < Len(wire[Peer(e)])]
          /\ wire' = [wire EXCEPT ![e] = SubSeq(@, 1, k), ![Peer(e)] = <<>>]
    BY <1>11 DEF Close
  <2>3. PICK k \in 0 .. Len(wire[e]) :
          /\ reset' = [reset EXCEPT ![Peer(e)] = n < Len(wire[Peer(e)])]
          /\ wire' = [wire EXCEPT ![e] = SubSeq(@, 1, k), ![Peer(e)] = <<>>]
    BY <2>2
  <2>4. SubSeq(wire[e], 1, k) \in Seq(Nat) /\ <<>> \in Seq(Nat)
    BY <2>1, Part
  <2>5. wire' \in [End -> Seq(Nat)]
    BY <2>3, <2>4, TwoEnds DEF TypeInv
  <2>6. reset' \in [End -> BOOLEAN]
    <3>1. (n < Len(wire[Peer(e)])) \in BOOLEAN /\ reset \in [End -> BOOLEAN] /\ Peer(e) \in End
      BY TwoEnds DEF TypeInv
    <3> QED
      BY <2>3, <3>1, Replaced
  <2>7. pc' \in [End -> Places]
    BY <1>0, <1>11, PlaceType DEF Close
  <2> QED
    BY <1>11, <2>5, <2>6, <2>7 DEF Close, TypeInv, Places
<1>12. CASE UNCHANGED vars
  BY <1>12 DEF vars, TypeInv
<1> QED
  BY <1>1, <1>2, <1>3, <1>4, <1>5, <1>7, <1>8, <1>9, <1>10, <1>11, <1>12 DEF Next, Step, Leave, ClientDeath
-----------------------------------------------------------------------------
(* What a step of one end leaves alone. *)

\* An end changes what is its own; of the other end it changes what that end
\* has sent and whether its connection is reset.
LEMMA OtherEnd ==
    ASSUME TypeInv, NEW e \in End, Step(e)
    PROVE  LET f == Peer(e)
           IN  /\ tstate'[f] = tstate[f] /\ socket'[f] = socket[f] /\ pc'[f] = pc[f]
               /\ incId'[f] = incId[f] /\ outId'[f] = outId[f]
               /\ incoming'[f] = incoming[f] /\ outgoing'[f] = outgoing[f]
               /\ flags'[f] = flags[f] /\ left'[f] = left[f] /\ leaving'[f] = leaving[f]
               /\ written'[f] = written[f] /\ delivered'[f] = delivered[f]
<1> USE DEF Step, Leave, ClientDeath, history, tnc
<1>1. tstate'[Peer(e)] = tstate[Peer(e)]
  BY TwoEnds DEF TypeInv, Write, Depart, WriteFails, Flush, FlushSelectFails, Send, SendFails, SendPipe, GiveUp, Scan, ScanFails, ReadWord, ReadWordNoMemory, ReadWordCrashes, RecvFails, Read, Close, AddFlag
<1>2. socket'[Peer(e)] = socket[Peer(e)]
  BY TwoEnds DEF TypeInv, Write, Depart, WriteFails, Flush, FlushSelectFails, Send, SendFails, SendPipe, GiveUp, Scan, ScanFails, ReadWord, ReadWordNoMemory, ReadWordCrashes, RecvFails, Read, Close
<1>3. pc'[Peer(e)] = pc[Peer(e)]
  <2>1. pc' = pc \/ \E x : pc' = [pc EXCEPT ![e] = x]
    <3>1. CASE Write(e) \/ Depart(e) \/ WriteFails(e) \/ Flush(e) \/ FlushSelectFails(e)
      BY <3>1 DEF Write, Depart, WriteFails, Flush, FlushSelectFails, Goto
    <3>2. CASE Send(e)
      BY <3>2 DEF Send, Goto
    <3>3. CASE SendFails(e) \/ SendPipe(e) \/ Scan(e) \/ ScanFails(e)
      BY <3>3 DEF SendFails, SendPipe, GiveUp, Scan, ScanFails, Goto
    <3>4. CASE ReadWord(e)
      BY <3>4 DEF ReadWord, Goto
    <3>5. CASE ReadWordNoMemory(e) \/ ReadWordCrashes(e) \/ RecvFails(e) \/ Read(e) \/ Close(e)
      BY <3>5 DEF ReadWordNoMemory, ReadWordCrashes, RecvFails, Read, Close, Goto
    <3> QED
      BY <3>1, <3>2, <3>3, <3>4, <3>5
  <2> QED
    BY <2>1, TwoEnds DEF TypeInv
<1>4. incId'[Peer(e)] = incId[Peer(e)] /\ outId'[Peer(e)] = outId[Peer(e)]
  BY TwoEnds, ZenonT(30) DEF TypeInv, Write, Depart, Append1, WriteFails, Flush, FlushSelectFails, Send, SendFails, SendPipe, GiveUp, Scan, ScanFails, ReadWord, ReadWordNoMemory, ReadWordCrashes, RecvFails, Read, Close
<1>5. incoming'[Peer(e)] = incoming[Peer(e)]
  BY TwoEnds, SMTT(30) DEF TypeInv, Write, Depart, WriteFails, Flush, FlushSelectFails, Send, SendFails, SendPipe, GiveUp, Scan, ScanFails, ReadWord, ReadWordNoMemory, ReadWordCrashes, RecvFails, Read, Close
<1>6. outgoing'[Peer(e)] = outgoing[Peer(e)] /\ written'[Peer(e)] = written[Peer(e)]
  BY TwoEnds DEF TypeInv, Write, Depart, Append1, WriteFails, Flush, FlushSelectFails, Send, SendFails, SendPipe, GiveUp, Scan, ScanFails, ReadWord, ReadWordNoMemory, ReadWordCrashes, RecvFails, Read, Close
<1>7. flags'[Peer(e)] = flags[Peer(e)] /\ delivered'[Peer(e)] = delivered[Peer(e)]
  <2>1. CASE Read(e)
    <3>1. flags' = flags \/ \E x : flags' = [flags EXCEPT ![e] = x]
      BY <2>1 DEF Read
    <3>2. delivered' = delivered \/ \E x : delivered' = [delivered EXCEPT ![e] = x]
      BY <2>1 DEF Read
    <3> QED
      BY <3>1, <3>2, TwoEnds DEF TypeInv
  <2>2. CASE ~Read(e)
    BY <2>2 DEF Write, Depart, WriteFails, Flush, FlushSelectFails, Send, SendFails, SendPipe, GiveUp, Scan, ScanFails, ReadWord, ReadWordNoMemory, ReadWordCrashes, RecvFails, Close
  <2> QED
    BY <2>1, <2>2
<1>8. left'[Peer(e)] = left[Peer(e)] /\ leaving'[Peer(e)] = leaving[Peer(e)]
  <2>1. leaving'[Peer(e)] = leaving[Peer(e)]
    BY TwoEnds DEF TypeInv, Write, Depart, WriteFails, Flush, FlushSelectFails, Send, SendFails, SendPipe, GiveUp, Scan, ScanFails, ReadWord, ReadWordNoMemory, ReadWordCrashes, RecvFails, Read, Close
  <2>2. left' = left \/ \E x : left' = [left EXCEPT ![e] = x]
    <3>1. CASE Send(e) \/ Flush(e)
      BY <3>1 DEF Send, Flush
    <3>2. CASE ~(Send(e) \/ Flush(e))
      BY <3>2 DEF Write, Depart, WriteFails, FlushSelectFails, SendFails, SendPipe, GiveUp, Scan, ScanFails, ReadWord, ReadWordNoMemory, ReadWordCrashes, RecvFails, Read, Close
    <3> QED
      BY <3>1, <3>2
  <2> QED
    BY <2>1, <2>2, TwoEnds DEF TypeInv
<1> QED
  BY <1>1, <1>2, <1>3, <1>4, <1>5, <1>6, <1>7, <1>8
\* What a step does to the words on their way and to the connection.
LEMMA Carried ==
    ASSUME TypeInv, EndInv, NEW e \in End, Step(e)
    PROVE  /\ wire'[e] = wire[e]
              \/ (Send(e) /\ \E n \in 1 .. Len(left[e]) :
                    Len(wire[e]) + n <= Capacity /\ wire'[e] = wire[e] \o SubSeq(left[e], 1, n))
              \/ (Close(e) /\ \E n \in 0 .. Len(wire[e]) : wire'[e] = SubSeq(wire[e], 1, n))
           /\ wire'[Peer(e)] = wire[Peer(e)]
              \/ \E n \in 0 .. Len(wire[Peer(e)]) :
                   wire'[Peer(e)] = SubSeq(wire[Peer(e)], n + 1, Len(wire[Peer(e)]))
           /\ reset'[e] => reset[e]
           /\ reset'[Peer(e)] => reset[Peer(e)] \/ ~socket'[e]
           /\ socket'[e] => socket[e]
<1> DEFINE f == Peer(e)
<1>0. /\ wire \in [End -> Seq(Nat)] /\ reset \in [End -> BOOLEAN] /\ socket \in [End -> BOOLEAN]
      /\ wire[e] \in Seq(Nat) /\ wire[f] \in Seq(Nat) /\ f \in End /\ f # e
  BY TwoEnds DEF TypeInv
<1> USE DEF Step, Leave, ClientDeath, history, tnc
<1> HIDE DEF f
<1>1. CASE UNCHANGED <<wire, reset, socket>>
  BY <1>0, <1>1 DEF f
<1>2. CASE Send(e)
  BY <1>0, <1>2 DEF Send, f
<1>3. CASE ReadWord(e) \/ ReadWordNoMemory(e)
  <2>1. /\ UNCHANGED <<reset, socket>>
        /\ DropBuffer(e) \/ (wire[f] # <<>> /\ wire' = [wire EXCEPT ![f] = Tail(@)])
    BY <1>3 DEF ReadWord, ReadWordNoMemory, f
  <2>2. CASE DropBuffer(e)
    <3>1. PICK n \in 1 .. Len(wire[f]) : wire' = [wire EXCEPT ![f] = SubSeq(@, n + 1, Len(@))]
      BY <2>2 DEF DropBuffer, f
    <3>2. n \in 0 .. Len(wire[f])
      BY <1>0
    <3> QED
      BY <1>0, <2>1, <3>1, <3>2 DEF f
  <2>3. CASE wire[f] # <<>> /\ wire' = [wire EXCEPT ![f] = Tail(@)]
    <3>1. Tail(wire[f]) = SubSeq(wire[f], 1 + 1, Len(wire[f])) /\ 1 \in 0 .. Len(wire[f])
      BY <1>0, <2>3
    <3> QED
      BY <1>0, <2>1, <2>3, <3>1 DEF f
  <2> QED
    BY <2>1, <2>2, <2>3
<1>4. CASE ReadWordCrashes(e)
  BY <1>0, <1>4 DEF ReadWordCrashes, f
<1>5. CASE RecvFails(e)
  BY <1>0, <1>5 DEF RecvFails, f
<1>6. CASE Close(e)
  <2>1. PICK k \in 0 .. Len(wire[e]) : wire' = [wire EXCEPT ![e] = SubSeq(@, 1, k), ![f] = <<>>]
    BY <1>6 DEF Close, f
  <2>2. wire'[e] = SubSeq(wire[e], 1, k) /\ wire'[f] = <<>>
    BY <1>0, <2>1
  <2>3. <<>> = SubSeq(wire[f], Len(wire[f]) + 1, Len(wire[f])) /\ Len(wire[f]) \in 0 .. Len(wire[f])
    BY <1>0
  <2>4. ~socket'[e] /\ reset'[e] = reset[e]
    BY <1>0, <1>6 DEF Close, f
  <2> QED
    BY <1>0, <1>6, <2>2, <2>3, <2>4 DEF f
<1> QED
  BY <1>1, <1>2, <1>3, <1>4, <1>5, <1>6
     DEF Write, Depart, WriteFails, Flush, FlushSelectFails, SendFails, SendPipe, GiveUp, Scan, ScanFails, Read

\* Both ends start idle and open.
LEMMA EndInit == Init => EndInv
BY BoundAssumption, TwoEnds DEF Init, EndInv, EndOf, End

\* A packet comes last in the list in its turn.
LEMMA ListClosed ==
    ASSUME NEW s \in Seq(InPacket), s # <<>>, NEW p \in InPacket,
           \A i \in 1 .. Len(s) - 1 : s[i].complete
    PROVE  \A i \in 1 .. Len(SetLatest(s, p)) - 1 : SetLatest(s, p)[i].complete
<1>1. /\ Closed(s) \in 0 .. Len(s) /\ Len(SetLatest(s, p)) = Closed(s) + 1
      /\ \A i \in 1 .. Closed(s) : SetLatest(s, p)[i] = s[i]
  BY LatestList
<1>2. \A i \in 1 .. Closed(s) : s[i].complete
  BY DEF Closed
<1> QED
  BY <1>1, <1>2

\* Every step keeps what holds of each end by itself.
LEMMA EndStep ==
    ASSUME TypeInv, EndInv, ConnInv, [Next]_vars
    PROVE  EndInv'
<1>1. CASE UNCHANGED vars
  BY <1>1 DEF vars, EndInv, EndOf, IsUp
<1>2. ASSUME NEW e \in End, Step(e) PROVE EndInv'
  <2> DEFINE f == Peer(e)
  <2>1. EndOf(e) /\ EndOf(f)
    BY TwoEnds DEF EndInv
  <2>2. f \in End /\ f # e /\ Peer(f) = e
    BY TwoEnds
  <2>3. Len(wire'[f]) <= Len(wire[f]) /\ Len(wire'[e]) <= Capacity
    <3>1. wire[e] \in Seq(Nat) /\ wire[f] \in Seq(Nat) /\ left[e] \in Seq(Nat) /\ Capacity \in Nat
          /\ Len(wire[e]) <= Capacity
      BY <2>1, <2>2, BoundAssumption DEF TypeInv, EndOf
    <3>2. Len(wire'[f]) <= Len(wire[f])
      BY <1>2, <3>1, Carried, Part
    <3>3. ASSUME NEW n \in 1 .. Len(left[e]), Len(wire[e]) + n <= Capacity,
                 wire'[e] = wire[e] \o SubSeq(left[e], 1, n)
          PROVE  Len(wire'[e]) <= Capacity
      BY <3>1, <3>3, Part, Joined
    <3>4. ASSUME NEW n \in 0 .. Len(wire[e]), wire'[e] = SubSeq(wire[e], 1, n)
          PROVE  Len(wire'[e]) <= Capacity
      BY <3>1, <3>4, Part
    <3> QED
      BY <1>2, <3>1, <3>2, <3>3, <3>4, Carried
  <2>4. reset'[f] => ~socket'[e]
    BY <1>2, <2>1, <2>2, Carried DEF EndOf
  <2>5. reset'[e] => ~socket'[f]
    BY <1>2, <2>1, <2>2, Carried, OtherEnd DEF EndOf
  <2>6. EndOf(f)'
    <3> HIDE DEF f
    <3>1. /\ tstate'[f] = tstate[f] /\ socket'[f] = socket[f] /\ pc'[f] = pc[f]
          /\ outId'[f] = outId[f] /\ incoming'[f] = incoming[f] /\ left'[f] = left[f] /\ leaving'[f] = leaving[f]
      BY <1>2, OtherEnd DEF f
    <3>2. Len(wire[f]) \in Nat /\ Len(wire'[f]) \in Nat /\ Capacity \in Nat
      <4>1. TypeInv'
        BY <1>2, TypeStep DEF Next
      <4>2. wire \in [End -> Seq(Nat)] /\ wire' \in [End -> Seq(Nat)]
        BY <4>1 DEF TypeInv
      <4>3. Capacity \in Nat
        BY BoundAssumption
      <4>4. wire[f] \in Seq(Nat) /\ wire'[f] \in Seq(Nat)
        BY <2>2, <4>2
      <4> QED
        BY <4>3, <4>4
    <3>3. Len(wire'[f]) <= Capacity
      BY <2>1, <2>3, <3>2 DEF EndOf
    <3> QED
      BY <2>1, <2>2, <2>4, <3>1, <3>3 DEF EndOf, IsUp
  <2>7. EndOf(e)'
    <3> USE DEF history, tnc, Goto, AfterFlush
    <3>0. /\ pc \in [End -> Places] /\ socket \in [End -> BOOLEAN] /\ leaving \in [End -> BOOLEAN]
          /\ left \in [End -> Seq(Nat)] /\ outId \in [End -> Nat] /\ MaxPackets[e] \in Nat
          /\ tstate \in [End -> SUBSET Flag]
      <4>1. MaxPackets[e] \in Nat
        BY BoundAssumption
      <4> QED
        BY <4>1 DEF TypeInv, Places
    <3> SUFFICES /\ socket'[e] <=> pc'[e] \notin {"closed", "crashed"}
                 /\ pc'[e] = "flush" => IsUp(e)'
                 /\ left'[e] # <<>> <=> pc'[e] = "flush"
                 /\ pc'[e] = "scan" => incoming'[e] # <<>>
                 /\ outId'[e] <= MaxPackets[e] + (IF leaving'[e] THEN 1 ELSE 0)
                 /\ \A i \in 1 .. Len(incoming'[e]) - 1 : incoming'[e][i].complete
      BY <2>3, <2>5 DEF EndOf
    <3> HIDE DEF f
    <3>1. CASE Write(e) \/ Leave(e) \/ ClientDeath(e)
      <4>1. Write(e) \/ Depart(e)
        BY <3>1 DEF Leave, ClientDeath
      <4>2. /\ pc'[e] = "queued" /\ pc[e] \in {"idle", "queued"} /\ socket'[e] = socket[e] /\ left'[e] = left[e]
            /\ incoming'[e] = incoming[e] /\ outId'[e] = outId[e] + 1 /\ socket[e]
        BY <3>0, <4>1 DEF Write, Depart, CanWrite, Append1
      <4>3. outId'[e] <= MaxPackets[e] + (IF leaving'[e] THEN 1 ELSE 0)
        <5>1. outId[e] <= MaxPackets[e] + (IF leaving[e] THEN 1 ELSE 0)
          BY <2>1 DEF EndOf
        <5>2. CASE Write(e)
          BY <3>0, <4>2, <5>1, <5>2 DEF Write, CanWrite
        <5>3. CASE Depart(e)
          BY <3>0, <4>2, <5>1, <5>3 DEF Depart
        <5> QED
          BY <4>1, <5>2, <5>3
      <4> QED
        BY <2>1, <4>2, <4>3 DEF EndOf
    <3>2. CASE WriteFails(e) \/ Flush(e) \/ FlushSelectFails(e)
      <4>1. UNCHANGED <<socket, incoming, outId, leaving>> /\ pc[e] \in {"idle", "queued"}
        BY <3>2 DEF WriteFails, CanWrite, Flush, FlushSelectFails
      <4>2. CASE UNCHANGED left
        <5>1. pc'[e] \in {"idle", "queued", "close"}
          <6>1. pc' = pc \/ Goto(e, AfterFlush(e)) \/ (Goto(e, "flush") /\ left' = [left EXCEPT ![e] = Words(outgoing[e][FirstUnsent(outgoing[e])])])
            BY <3>2 DEF WriteFails, Flush, FlushSelectFails
          <6>2. left[e] = <<>>
            BY <2>1, <4>1 DEF EndOf
          <6>3. ~(left' = [left EXCEPT ![e] = Words(outgoing[e][FirstUnsent(outgoing[e])])])
            <7>1. Words(outgoing[e][FirstUnsent(outgoing[e])]) # <<>>
              BY DEF Words
            <7> QED
              BY <3>0, <4>2, <6>2, <7>1
          <6> QED
            BY <3>0, <4>1, <6>1, <6>3
        <5> QED
          BY <2>1, <4>1, <4>2, <5>1 DEF EndOf
      <4>3. CASE Flush(e) /\ IsUp(e) /\ Unsent(outgoing[e]) # {}
        <5>1. pc'[e] = "flush" /\ left'[e] = Words(outgoing[e][FirstUnsent(outgoing[e])]) /\ UNCHANGED tstate
          BY <3>0, <4>3 DEF Flush
        <5>2. left'[e] # <<>>
          BY <5>1 DEF Words
        <5> QED
          BY <2>1, <4>1, <4>3, <5>1, <5>2 DEF EndOf, IsUp
      <4> QED
        BY <3>2, <4>2, <4>3 DEF WriteFails, Flush, FlushSelectFails
    <3>3. CASE Send(e)
      <4>1. UNCHANGED <<socket, incoming, outId, leaving, tstate>> /\ pc[e] = "flush"
        BY <3>3 DEF Send
      <4>2. left[e] \in Seq(Nat)
        BY <3>0
      <4>3. PICK n \in 1 .. Len(left[e]) :
              \/ n < Len(left[e]) /\ left'[e] = SubSeq(left[e], n + 1, Len(left[e])) /\ UNCHANGED pc
              \/ left'[e] = <<>> /\ Goto(e, AfterFlush(e))
              \/ (\E q : left'[e] = Words(q)) /\ UNCHANGED pc
        BY <3>0, <3>3 DEF Send
      <4>4. CASE n < Len(left[e]) /\ left'[e] = SubSeq(left[e], n + 1, Len(left[e])) /\ UNCHANGED pc
        <5>1. left'[e] # <<>>
          <6>1. n \in 0 .. Len(left[e])
            BY <4>2
          <6>2. Len(left'[e]) = Len(left[e]) - n
            BY <4>2, <4>4, <6>1, Part
          <6>3. Len(left'[e]) # 0
            BY <4>2, <4>4, <6>2
          <6> QED
            BY <6>3
        <5> QED
          BY <2>1, <4>1, <4>4, <5>1 DEF EndOf, IsUp
      <4>5. CASE left'[e] = <<>> /\ Goto(e, AfterFlush(e))
        <5>1. pc'[e] \in {"close", "idle"}
          BY <3>0, <4>5
        <5> QED
          BY <2>1, <4>1, <4>5, <5>1 DEF EndOf
      <4>6. CASE (\E q : left'[e] = Words(q)) /\ UNCHANGED pc
        <5>1. left'[e] # <<>>
          BY <4>6 DEF Words
        <5> QED
          BY <2>1, <4>1, <4>6, <5>1 DEF EndOf, IsUp
      <4> QED
        BY <4>3, <4>4, <4>5, <4>6
    <3>4. CASE SendFails(e) \/ SendPipe(e)
      <4>1. /\ UNCHANGED <<socket, incoming, outId, leaving>> /\ pc[e] = "flush"
            /\ left' = [left EXCEPT ![e] = <<>>] /\ Goto(e, AfterFlush(e))
        BY <3>4 DEF SendFails, SendPipe, GiveUp
      <4>2. left'[e] = <<>> /\ pc'[e] \in {"close", "idle"}
        BY <3>0, <4>1
      <4> QED
        BY <2>1, <4>1, <4>2 DEF EndOf
    <3>5. CASE Scan(e)
      <4>1. /\ UNCHANGED <<socket, left, outId, leaving>> /\ pc[e] = "idle"
        BY <3>5 DEF Scan
      <4>2. \/ pc'[e] = "read" /\ incoming'[e] = incoming[e]
            \/ pc'[e] = "scan" /\ incoming'[e] = IF incoming[e] = <<>> THEN <<FreshPacket>> ELSE incoming[e]
        BY <3>0, <3>5 DEF Scan, TypeInv
      <4>3. incoming'[e] # <<>> \/ pc'[e] = "read"
        BY <4>2
      <4>4. \A i \in 1 .. Len(incoming'[e]) - 1 : incoming'[e][i].complete
        <5>1. CASE incoming'[e] = incoming[e]
          BY <2>1, <5>1 DEF EndOf
        <5>2. CASE incoming'[e] = <<FreshPacket>>
          BY <5>2
        <5> QED
          BY <4>2, <5>1, <5>2
      <4> QED
        BY <2>1, <4>1, <4>2, <4>3, <4>4 DEF EndOf
    <3>6. CASE ScanFails(e) \/ RecvFails(e)
      <4>1. UNCHANGED <<socket, incoming, outId, leaving, left>> /\ pc[e] \in {"idle", "scan"} /\ pc'[e] = "read"
        BY <3>0, <3>6 DEF ScanFails, RecvFails
      <4> QED
        BY <2>1, <4>1 DEF EndOf
    <3>7. CASE ReadWord(e)
      <4>1. PICK r \in InPacket : Taken(e, r) \/ \E flag : Refused(e, r, flag)
        BY <3>7, ReadWordCases DEF Taken, Refused
      <4>2. /\ UNCHANGED <<outId, leaving, left, socket>> /\ pc[e] = "scan"
            /\ incoming[e] \in Seq(InPacket) /\ incoming[e] # <<>>
        BY <3>7, <4>1, ReadWordCases DEF Taken, Refused
      <4>3. incoming'[e] = SetLatest(incoming[e], r) /\ pc'[e] \in {"scan", "read"}
        BY <3>0, <4>1, <4>2 DEF Taken, Refused, TypeInv
      <4>4. incoming'[e] # <<>> /\ \A i \in 1 .. Len(incoming'[e]) - 1 : incoming'[e][i].complete
        <5>1. \A i \in 1 .. Len(incoming[e]) - 1 : incoming[e][i].complete
          BY <2>1 DEF EndOf
        <5> QED
          <6>1. SetLatest(incoming[e], r) # <<>>
            BY <4>2, LatestList
          <6>2. \A i \in 1 .. Len(SetLatest(incoming[e], r)) - 1 : SetLatest(incoming[e], r)[i].complete
            BY <4>2, <5>1, ListClosed
          <6> QED
            BY <4>3, <6>1, <6>2
      <4> QED
        BY <2>1, <4>2, <4>3, <4>4 DEF EndOf
    <3>8. CASE ReadWordNoMemory(e)
      <4>1. /\ UNCHANGED <<outId, leaving, left, socket>> /\ pc[e] = "scan" /\ pc'[e] = "read"
        BY <3>0, <3>8 DEF ReadWordNoMemory
      <4>2. \A i \in 1 .. Len(incoming'[e]) - 1 : incoming'[e][i].complete
        <5>1. \A i \in 1 .. Len(incoming[e]) - 1 : incoming[e][i].complete
          BY <2>1 DEF EndOf
        <5>2. incoming[e] \in Seq(InPacket) /\ incoming[e] # <<>>
          BY <2>1, <4>1 DEF EndOf, TypeInv
        <5>3. incoming'[e] = incoming[e] \/ \E r \in InPacket : incoming'[e] = SetLatest(incoming[e], r)
          <6> DEFINE h == PutHeader(Latest(incoming[e]), Head(wire[f]))
          <6>1. [h EXCEPT !.null = TRUE] \in InPacket
            <7>1. Latest(incoming[e]) \in InPacket
              BY <5>2, LatestList, FreshType
            <7>2. Head(wire[f]) \in Nat
              <8>1. wire[f] \in Seq(Nat) /\ wire[f] # <<>>
                BY <2>2, <3>8 DEF ReadWordNoMemory, TypeInv, f
              <8> QED
                BY <8>1
            <7>3. h \in InPacket
              BY <7>1, <7>2, PutWord
            <7> QED
              BY <7>2, <7>3, PutWord
          <6>2. incoming' = incoming \/ incoming' = [incoming EXCEPT ![e] = SetLatest(@, [h EXCEPT !.null = TRUE])]
            BY <3>8 DEF ReadWordNoMemory, f
          <6> HIDE DEF h
          <6> QED
            BY <6>1, <6>2 DEF TypeInv
        <5> QED
          BY <5>1, <5>2, <5>3, ListClosed
      <4> QED
        BY <2>1, <4>1, <4>2 DEF EndOf
    <3>9. CASE ReadWordCrashes(e)
      <4>1. /\ UNCHANGED <<outId, leaving, left, incoming>> /\ pc[e] = "scan" /\ pc'[e] = "crashed" /\ ~socket'[e]
        BY <3>0, <3>9 DEF ReadWordCrashes
      <4> QED
        BY <2>1, <4>1 DEF EndOf
    <3>10. CASE Read(e)
      <4>1. /\ UNCHANGED <<outId, leaving, left, socket>> /\ pc[e] \in {"scan", "read"} /\ pc'[e] = "idle"
        BY <3>0, <3>10 DEF Read
      <4>2. incoming'[e] = incoming[e] \/ (incoming[e] # <<>> /\ incoming'[e] = Tail(incoming[e]))
        BY <3>10 DEF Read, TypeInv
      <4>3. \A i \in 1 .. Len(incoming'[e]) - 1 : incoming'[e][i].complete
        <5>1. \A i \in 1 .. Len(incoming[e]) - 1 : incoming[e][i].complete
          BY <2>1 DEF EndOf
        <5>2. incoming[e] \in Seq(InPacket)
          BY DEF TypeInv
        <5>3. CASE incoming[e] # <<>> /\ incoming'[e] = Tail(incoming[e])
          <6>1. /\ Len(incoming'[e]) = Len(incoming[e]) - 1 /\ Len(incoming[e]) \in Nat \ {0}
                /\ \A i \in 1 .. Len(incoming[e]) - 1 : incoming'[e][i] = incoming[e][i + 1]
            BY <5>2, <5>3
          <6> QED
            BY <5>1, <6>1
        <5> QED
          BY <4>2, <5>1, <5>3
      <4> QED
        BY <2>1, <4>1, <4>3 DEF EndOf
    <3>11. CASE Close(e)
      <4>1. /\ UNCHANGED <<outId, leaving, left, incoming>> /\ pc[e] = "close" /\ pc'[e] = "closed" /\ ~socket'[e]
        BY <3>0, <3>11 DEF Close
      <4> QED
        BY <2>1, <4>1 DEF EndOf
    <3> QED
      BY <1>2, <3>1, <3>2, <3>3, <3>4, <3>5, <3>6, <3>7, <3>8, <3>9, <3>10, <3>11 DEF Step
  <2> QED
    BY <2>6, <2>7, TwoEnds DEF EndInv
<1> QED
  BY <1>1, <1>2 DEF Next
-----------------------------------------------------------------------------
(* The connection: what does not change. *)

\* Nothing is written.
LEMMA SameWords ==
    ASSUME NEW e \in End, written'[e] = written[e]
    PROVE  \A k, j : WordOf(e, k, j)' = WordOf(e, k, j) /\ Total(e, k)' = Total(e, k)
BY DEF WordOf, Total

\* The queue and the stream do not change.
LEMMA SameQueue ==
    ASSUME NEW e \in End, written'[e] = written[e], outgoing'[e] = outgoing[e], outId'[e] = outId[e],
           NEW m \in Nat, Queue(e, m)
    PROVE  Queue(e, m)'
BY DEF Queue, Base

\* The stream stays as it is when nothing is sent, read or written.
LEMMA SameStream ==
    ASSUME NEW e \in End, written'[e] = written[e], wire'[e] = wire[e],
           NEW K, NEW J, Stream(e, K, J)
    PROVE  Stream(e, K, J)'
<1>1. \A k, j : WordOf(e, k, j)' = WordOf(e, k, j) /\ Total(e, k)' = Total(e, k)
  BY SameWords
<1>2. \A k, j, k2, j2 : Follows(e, k, j, k2, j2)' = Follows(e, k, j, k2, j2)
  BY <1>1 DEF Follows
<1> QED
  BY <1>1, <1>2 DEF Stream

\* The receiving end does not change.
LEMMA SameReads ==
    ASSUME NEW e \in End, NEW r \in End, written'[e] = written[e], faults \in Nat, faults' \in Nat, faults' >= faults,
           incId'[r] = incId[r], NEW p, NEW k \in Nat, NEW j \in Nat
    PROVE  /\ InStep(r, e, p, k, j) => InStep(r, e, p, k, j)'
           /\ OutOfStep(r, p, k, j) => OutOfStep(r, p, k, j)'
<1>1. \A x, y : WordOf(e, x, y)' = WordOf(e, x, y) /\ Total(e, x)' = Total(e, x)
  BY SameWords
<1>2. InStep(r, e, p, k, j) => InStep(r, e, p, k, j)'
  BY <1>1 DEF InStep
<1>3. OutOfStep(r, p, k, j) => OutOfStep(r, p, k, j)'
  BY DEF OutOfStep, Misaligned, Misordered
<1> QED
  BY <1>2, <1>3

\* A connection of which only the call counter, the errors and the place of
\* the sending end change, or which the receiving end has left.
LEMMA SameConn ==
    ASSUME TypeInv, TypeInv', NEW e \in End, ConnOf(e),
           written'[e] = written[e], outgoing'[e] = outgoing[e], outId'[e] = outId[e],
           \/ pc'[e] = pc[e] /\ left'[e] = left[e]
           \/ pc[e] # "flush" /\ pc'[e] # "flush"
           \/ pc'[e] # "flush" /\ (IsUp(e)' => FALSE),
           wire'[e] = wire[e] \/ ~socket'[Peer(e)],
           incId'[Peer(e)] = incId[Peer(e)], delivered'[Peer(e)] = delivered[Peer(e)],
           incoming'[Peer(e)] = incoming[Peer(e)]
             \/ (incoming[Peer(e)] = <<>> /\ incoming'[Peer(e)] = <<FreshPacket>>),
           IsUp(e)' => IsUp(e), socket'[Peer(e)] => socket[Peer(e)],
           faults' >= faults, Clean(e)' => Clean(e)
    PROVE  ConnOf(e)'
<1> DEFINE r == Peer(e)
<1>1. PICK m \in Nat :
        /\ Queue(e, m) /\ Partly(e, m)
        /\ Clean(e) => Received(r, e) /\ Linked(e, m, r)
  BY DEF ConnOf
<1>2. Queue(e, m)'
  BY <1>1, SameQueue
<1>3. \A k, j : WordOf(e, k, j)' = WordOf(e, k, j) /\ Total(e, k)' = Total(e, k)
  BY SameWords
<1>4. Partly(e, m)'
  BY <1>1, <1>3 DEF Partly, Rest
<1>5. r \in End /\ incoming[r] \in Seq(InPacket) /\ faults \in Nat /\ faults' \in Nat
  BY TwoEnds DEF TypeInv
<1>6. incoming[r] = <<>> => Len(incoming[r]) = 0
  BY <1>5
<1>7. ASSUME Clean(e), Received(r, e) PROVE Received(r, e)'
  <2>1. CASE incoming'[r] = incoming[r]
    BY <1>7, <2>1 DEF Received
  <2>2. CASE incoming[r] = <<>> /\ incoming'[r] = <<FreshPacket>>
    <3>1. Len(delivered[r]) \in Nat /\ incId[r] \in Nat
      BY <1>5 DEF TypeInv
    <3>2. incId[r] - Len(delivered[r]) = 0
      BY <1>6, <1>7, <2>2, <3>1 DEF Received
    <3>3. Len(incoming'[r]) = 1 /\ ~incoming'[r][1].complete
      BY <2>2, FreshType
    <3> QED
      BY <1>7, <3>1, <3>2, <3>3 DEF Received
  <2> QED
    BY <2>1, <2>2
<1>8. Current(r)' = Current(r)
  <2>1. CASE incoming'[r] = incoming[r]
    BY <2>1 DEF Current
  <2>2. CASE incoming[r] = <<>> /\ incoming'[r] = <<FreshPacket>>
    <3>1. Latest(<<FreshPacket>>) = FreshPacket
      <4>1. <<FreshPacket>> \in Seq(InPacket) /\ <<FreshPacket>> # <<>> /\ <<FreshPacket>>[Len(<<FreshPacket>>)] = FreshPacket
        BY FreshType
      <4> QED
        BY <4>1, LatestList, FreshType
    <3> QED
      BY <2>2, <3>1 DEF Current
  <2> QED
    BY <2>1, <2>2
<1>9. ASSUME Linked(e, m, r) PROVE Linked(e, m, r)'
  <2> SUFFICES ASSUME socket'[r]
               PROVE  \E K, J \in Course :
                        /\ Stream(e, K, J)'
                        /\ Reads(r, e, K[1], J[1])'
                        /\ IsUp(e)' => Sends(e, m, K[Len(wire[e]) + 1], J[Len(wire[e]) + 1])'
    BY DEF Linked
  <2>1. socket[r] /\ wire'[e] = wire[e]
    OBVIOUS
  <2>2. PICK K, J \in Course :
          /\ Stream(e, K, J)
          /\ Reads(r, e, K[1], J[1])
          /\ IsUp(e) => Sends(e, m, K[Len(wire[e]) + 1], J[Len(wire[e]) + 1])
    BY <1>9, <2>1 DEF Linked
  <2>3. Stream(e, K, J)'
    BY <2>1, <2>2, SameStream
  <2>4. K[1] \in Nat /\ J[1] \in Nat
    BY DEF Course
  <2>5. Reads(r, e, K[1], J[1])'
    <3> HIDE DEF r
    <3>1. incId'[r] = incId[r]
      BY DEF r
    <3>2. \A p : (InStep(r, e, p, K[1], J[1]) => InStep(r, e, p, K[1], J[1])')
                 /\ (OutOfStep(r, p, K[1], J[1]) => OutOfStep(r, p, K[1], J[1])')
      BY <1>5, <2>4, <3>1, SameReads
    <3> QED
      BY <1>8, <2>2, <3>2 DEF Reads
  <2>6. IsUp(e)' => Sends(e, m, K[Len(wire[e]) + 1], J[Len(wire[e]) + 1])'
    <3> SUFFICES ASSUME IsUp(e)' PROVE Sends(e, m, K[Len(wire[e]) + 1], J[Len(wire[e]) + 1])'
      OBVIOUS
    <3>1. \A k, j : Sends(e, m, k, j) => Sends(e, m, k, j)'
      <4>1. CASE pc'[e] = pc[e] /\ left'[e] = left[e]
        BY <1>3, <4>1 DEF Sends, Rest
      <4>2. CASE pc[e] # "flush" /\ pc'[e] # "flush"
        BY <4>2 DEF Sends
      <4> QED
        BY <4>1, <4>2
    <3>2. Sends(e, m, K[Len(wire[e]) + 1], J[Len(wire[e]) + 1])
      BY <2>2
    <3> QED
      BY <2>1, <3>1, <3>2
  <2> QED
    BY <2>3, <2>5, <2>6
<1> QED
  BY <1>1, <1>2, <1>4, <1>7, <1>9 DEF ConnOf
-----------------------------------------------------------------------------
(* The connection: writing and sending. *)

\* tn_write puts a packet behind those in the queue, and drops only packets
\* that are sent.
LEMMA QueueAppends ==
    ASSUME TypeInv, NEW e \in End, NEW size \in Sizes, Append1(e, size), MayWrite(e),
           NEW m \in Nat, Queue(e, m)
    PROVE  Queue(e, m)' /\ m <= outId[e]
           /\ \A k \in 1 .. outId[e] : written'[e][k] = written[e][k]
<1> DEFINE s == outgoing[e]
           p == OutPacket(outId[e] + 1, size)
           b == Base(e)
           d == Expired(s)
           n == outId[e]
<1>1. /\ outId' = [outId EXCEPT ![e] = @ + 1]
      /\ written' = [written EXCEPT ![e] = Append(@, Body(n + 1, size))]
      /\ p \in Queued
      /\ d \in 0 .. Cardinality({i \in DOMAIN s : s[i].complete})
      /\ outgoing' = [outgoing EXCEPT ![e] = LET list == Append(s, p) IN SubSeq(list, d + 1, Len(list))]
      /\ Body(n + 1, size) \in Payload
  BY AppendType
<1>2. /\ s \in Seq(Queued) /\ written[e] \in Seq(Payload)
      /\ outId \in [End -> Nat] /\ outgoing \in [End -> Seq(Queued)] /\ written \in [End -> Seq(Payload)]
  BY DEF TypeInv
<1>3. /\ {i \in DOMAIN s : s[i].complete} = 1 .. m - b /\ b \in Nat /\ m - b \in 0 .. Len(s)
      /\ n = b + Len(s) /\ Len(s) \in Nat /\ n \in Nat
  BY <1>2, UnsentFirst
<1>4. Cardinality(1 .. m - b) = m - b
  <2>1. \A x \in Nat : Cardinality(1 .. x) = x
    BY FS_Interval
  <2> QED
    BY <1>3, <2>1
<1>5. d \in Nat /\ d <= m - b /\ b \in Nat /\ Len(s) \in Nat /\ n \in Nat /\ n = b + Len(s) /\ d <= Len(s)
      /\ m - b \in Nat /\ m - b <= Len(s)
  <2>1. Cardinality({i \in DOMAIN s : s[i].complete}) = m - b
    BY <1>3, <1>4
  <2>2. b \in Nat /\ m - b \in 0 .. Len(s) /\ n = b + Len(s) /\ Len(s) \in Nat /\ n \in Nat
    BY <1>3
  <2>3. d \in 0 .. m - b
    BY <1>1, <2>1
  <2> HIDE DEF s, b, d, n
  <2> QED
    BY <2>2, <2>3
<1>6. /\ p.id = n + 1 /\ p.body = Body(n + 1, size) /\ ~p.complete
  BY DEF OutPacket
<1> HIDE DEF p, d, b, s, n
<1>7. Append(s, p) \in Seq(Queued) /\ Len(Append(s, p)) = Len(s) + 1
      /\ \A i \in 1 .. Len(s) + 1 : Append(s, p)[i] = IF i <= Len(s) THEN s[i] ELSE p
  BY <1>1, <1>2, SMTT(30)
<1>8. d \in 0 .. Len(Append(s, p)) /\ d \in Nat
  BY <1>3, <1>5, <1>7
<1>9. outgoing'[e] = SubSeq(Append(s, p), d + 1, Len(Append(s, p))) /\ outId'[e] = n + 1
      /\ written'[e] = Append(written[e], Body(n + 1, size))
  BY <1>1, <1>2 DEF n, s
<1>10. /\ Len(outgoing'[e]) = Len(s) + 1 - d
       /\ \A i \in 1 .. Len(s) + 1 - d : outgoing'[e][i] = Append(s, p)[d + i]
  <2> DEFINE a == Append(s, p)
             t == SubSeq(a, d + 1, Len(a))
  <2>1. a \in Seq(Queued) /\ d \in 0 .. Len(a) /\ Len(a) = Len(s) + 1 /\ outgoing'[e] = t
    BY <1>7, <1>8, <1>9
  <2> HIDE DEF a
  <2>2. Len(t) = Len(a) - d /\ \A i \in 1 .. Len(a) - d : t[i] = a[d + i]
    BY <2>1, Part
  <2> HIDE DEF t
  <2>3. Len(outgoing'[e]) = Len(a) - d /\ \A i \in 1 .. Len(a) - d : outgoing'[e][i] = a[d + i]
    BY <2>1, <2>2
  <2>4. Len(a) - d = Len(s) + 1 - d
    BY <2>1
  <2> QED
    BY <2>3, <2>4 DEF a
<1>11. Base(e)' = b + d
  <2>1. outId'[e] - Len(outgoing'[e]) = b + d
    <3>1. outId'[e] = n + 1 /\ Len(outgoing'[e]) = Len(s) + 1 - d
      BY <1>9, <1>10
    <3> QED
      BY <1>5, <3>1
  <2> QED
    BY <2>1 DEF Base
<1>12. /\ Len(written[e]) = n /\ m <= n
       /\ Len(written'[e]) = n + 1
       /\ \A k \in 1 .. n : written'[e][k] = written[e][k]
       /\ written'[e][n + 1] = Body(n + 1, size)
  <2>1. Len(written[e]) = n /\ m <= n
    BY <1>3 DEF Queue, n
  <2> QED
    BY <1>1, <1>2, <1>3, <1>9, <2>1
<1>13. ASSUME NEW i \in 1 .. Len(outgoing'[e])
       PROVE  /\ outgoing'[e][i].id = b + d + i
              /\ outgoing'[e][i].body = written'[e][b + d + i]
              /\ outgoing'[e][i].complete <=> b + d + i <= m
  <2>1. i \in 1 .. Len(s) + 1 - d /\ d + i \in 1 .. Len(s) + 1 /\ b + d + i = b + (d + i)
    <3>1. Len(outgoing'[e]) = Len(s) + 1 - d
      BY <1>10
    <3> QED
      BY <1>5, <3>1
  <2>2. CASE d + i <= Len(s)
    <3>1. outgoing'[e][i] = s[d + i] /\ d + i \in 1 .. Len(s)
      BY <1>3, <1>7, <1>10, <2>1, <2>2
    <3>2. /\ s[d + i].id = b + (d + i)
          /\ s[d + i].body = written[e][b + (d + i)]
          /\ s[d + i].complete <=> b + (d + i) <= m
      BY <3>1 DEF Queue, s, b
    <3>3. b + (d + i) \in 1 .. n
      BY <1>3, <3>1
    <3> QED
      BY <1>12, <2>1, <3>1, <3>2, <3>3
  <2>3. CASE ~(d + i <= Len(s))
    <3>1. outgoing'[e][i] = p /\ b + d + i = n + 1
      <4>1. d + i = Len(s) + 1
        BY <1>5, <2>1, <2>3
      <4>2. outgoing'[e][i] = Append(s, p)[d + i]
        BY <1>10, <2>1
      <4>3. Append(s, p)[d + i] = p
        BY <1>5, <1>7, <4>1
      <4>4. b + d + i = n + 1
        BY <1>5, <2>1, <4>1
      <4> QED
        BY <4>2, <4>3, <4>4
    <3>2. ~(b + d + i <= m)
      BY <1>3, <1>12, <3>1
    <3> QED
      BY <1>6, <1>12, <3>1, <3>2
  <2> QED
    BY <2>2, <2>3
<1>14. Queue(e, m)'
  <2>1. m \in 0 .. outId'[e] /\ Len(written'[e]) = outId'[e]
    BY <1>3, <1>9, <1>12
  <2>2. b + d \in 0 .. m
    BY <1>3, <1>5
  <2> QED
    BY <1>11, <1>13, <2>1, <2>2 DEF Queue
<1> QED
  BY <1>12, <1>14 DEF n

\* tn_write keeps the connection: the new packet is the last of the queue.
LEMMA WriteConn ==
    ASSUME TypeInv, TypeInv', EndInv, NEW e \in End, ConnOf(e), Write(e) \/ Depart(e)
    PROVE  ConnOf(e)'
<1> DEFINE r == Peer(e)
           n == outId[e]
<1>1. PICK size \in Sizes : Append1(e, size)
  BY DEF Write, Depart
<1>2. MayWrite(e)
  BY WriteBound DEF Write, Depart
<1>3. PICK m \in Nat :
        /\ Queue(e, m) /\ Partly(e, m)
        /\ Clean(e) => Received(r, e) /\ Linked(e, m, r)
  BY DEF ConnOf
<1>4. /\ Queue(e, m)' /\ m <= n
      /\ \A k \in 1 .. n : written'[e][k] = written[e][k]
      /\ Len(written'[e]) = n + 1 /\ Len(written[e]) = n
  <2>1. /\ Queue(e, m)' /\ m <= outId[e]
        /\ \A k \in 1 .. outId[e] : written'[e][k] = written[e][k]
        /\ Len(written'[e]) = outId[e] + 1 /\ Len(written[e]) = outId[e]
    <3>1. Queue(e, m)
      BY <1>3
    <3>2. TypeInv /\ Append1(e, size) /\ MayWrite(e) /\ size \in Sizes /\ m \in Nat
      BY <1>1, <1>2
    <3>3. Queue(e, m)'
      BY <3>1, <3>2, QueueAppends
    <3>4. m <= outId[e]
      BY <3>1, <3>2, QueueAppends
    <3>5. \A k \in 1 .. outId[e] : written'[e][k] = written[e][k]
      BY <3>1, <3>2, QueueAppends
    <3>6. Len(written'[e]) = outId[e] + 1 /\ Len(written[e]) = outId[e]
      <4>1. Len(written'[e]) = outId'[e] /\ Len(written[e]) = outId[e]
        BY <3>1, <3>3 DEF Queue
      <4>2. outId'[e] = outId[e] + 1
        BY <3>2 DEF Append1, TypeInv
      <4> QED
        BY <4>1, <4>2
    <3> QED
      BY <3>3, <3>4, <3>5, <3>6
  <2> QED
    BY <2>1
<1>5. /\ UNCHANGED <<tstate, socket, incId, incoming, wire, faults, delivered>>
      /\ pc[e] # "flush" /\ pc'[e] = "queued"
  BY DEF Write, Depart, CanWrite, TypeInv, Goto
<1>6. r \in End /\ n \in Nat
  BY <1>2, TwoEnds DEF MayWrite
<1>7. \A k \in 1 .. n : Total(e, k)' = Total(e, k) /\ \A j : WordOf(e, k, j)' = WordOf(e, k, j)
  BY <1>4 DEF Total, WordOf
<1>8. ASSUME Received(r, e) PROVE Received(r, e)'
  <2>1. Len(delivered[r]) \in Nat /\ incId[r] \in Nat
    BY <1>6 DEF TypeInv
  <2>2. /\ Len(delivered[r]) <= incId[r] /\ incId[r] <= n
        /\ \A i \in 1 .. Len(delivered[r]) : delivered[r][i] = written[e][i]
        /\ \A i \in 1 .. incId[r] - Len(delivered[r]) :
             incoming[r][i].body = written[e][Len(delivered[r]) + i]
    BY <1>4, <1>8 DEF Received
  <2>3. \A i \in 1 .. Len(delivered[r]) : delivered[r][i] = written'[e][i]
    BY <1>4, <1>6, <2>1, <2>2
  <2>4. \A i \in 1 .. incId[r] - Len(delivered[r]) : incoming[r][i].body = written'[e][Len(delivered[r]) + i]
    <3> TAKE i \in 1 .. incId[r] - Len(delivered[r])
    <3>1. Len(delivered[r]) + i \in 1 .. n
      BY <1>6, <2>1, <2>2
    <3> QED
      BY <1>4, <2>2, <3>1
  <2>5. incId[r] <= Len(written'[e])
    BY <1>4, <1>6, <2>1, <2>2
  <2> QED
    BY <1>5, <1>8, <2>3, <2>4, <2>5 DEF Received
<1>9. ASSUME Linked(e, m, r) PROVE Linked(e, m, r)'
  <2> SUFFICES ASSUME socket[r]
               PROVE  \E K, J \in Course :
                        /\ Stream(e, K, J)'
                        /\ Reads(r, e, K[1], J[1])'
                        /\ IsUp(e)' => Sends(e, m, K[Len(wire[e]) + 1], J[Len(wire[e]) + 1])'
    BY <1>5 DEF Linked
  <2>1. PICK K, J \in Course :
          /\ Stream(e, K, J)
          /\ Reads(r, e, K[1], J[1])
          /\ IsUp(e) => Sends(e, m, K[Len(wire[e]) + 1], J[Len(wire[e]) + 1])
    BY <1>9 DEF Linked
  <2>2. Stream(e, K, J)'
    <3>1. \A i \in 1 .. Len(wire[e]) : K[i] \in 1 .. n /\ K[i] \in 1 .. n + 1
      <4>1. \A i \in 1 .. Len(wire[e]) : K[i] \in 1 .. n
        BY <1>4, <2>1 DEF Stream
      <4>2. \A k \in 1 .. n : k \in 1 .. n + 1
        BY <1>6
      <4> QED
        BY <4>1, <4>2
    <3>2. \A k \in 1 .. n : \A j, k2, j2 : Follows(e, k, j, k2, j2)' = Follows(e, k, j, k2, j2)
      BY <1>7 DEF Follows
    <3>3. wire'[e] = wire[e]
      BY <1>5
    <3>4. ASSUME NEW i \in 1 .. Len(wire[e])
          PROVE  /\ K[i] \in 1 .. Len(written'[e]) /\ J[i] \in 1 .. Total(e, K[i])'
                 /\ wire[e][i] = WordOf(e, K[i], J[i])'
                 /\ Follows(e, K[i], J[i], K[i + 1], J[i + 1])'
      <4>1. /\ J[i] \in 1 .. Total(e, K[i])
            /\ wire[e][i] = WordOf(e, K[i], J[i])
            /\ Follows(e, K[i], J[i], K[i + 1], J[i + 1])
        BY <2>1 DEF Stream
      <4>2. K[i] \in 1 .. n /\ K[i] \in 1 .. Len(written'[e])
        BY <1>4, <3>1
      <4> QED
        <5>1. Total(e, K[i])' = Total(e, K[i]) /\ WordOf(e, K[i], J[i])' = WordOf(e, K[i], J[i])
          BY <1>7, <4>2
        <5>2. Follows(e, K[i], J[i], K[i + 1], J[i + 1])' = Follows(e, K[i], J[i], K[i + 1], J[i + 1])
          BY <3>2, <4>2
        <5>3. J[i] \in 1 .. Total(e, K[i])' /\ wire[e][i] = WordOf(e, K[i], J[i])'
          BY <4>1, <5>1
        <5> QED
          BY <4>1, <4>2, <5>2, <5>3
    <3>5. \A a, b \in 1 .. Len(wire[e]) + 1 : a < b => Before(K[a], J[a], K[b], J[b])
      BY <2>1 DEF Stream
    <3> QED
      BY <3>3, <3>4, <3>5 DEF Stream
  <2>3. Reads(r, e, K[1], J[1])'
    <3>1. Current(r)' = Current(r)
      BY <1>5 DEF Current
    <3>2. CASE OutOfStep(r, Current(r), K[1], J[1])
      <4>1. OutOfStep(r, Current(r), K[1], J[1])'
        BY <1>5, <3>1, <3>2 DEF OutOfStep, Misaligned, Misordered
      <4> QED
        BY <4>1 DEF Reads
    <3>3. CASE InStep(r, e, Current(r), K[1], J[1])
      <4> DEFINE p == Current(r)
      <4>0. p \in InPacket
        <5>1. incoming[r] \in Seq(InPacket)
          BY <1>6 DEF TypeInv
        <5> QED
          BY <5>1, LatestList, FreshType DEF Current
      <4>1. Len(p.header) \in Nat /\ Len(p.body) \in Nat
        BY <4>0, PacketParts
      <4>2. CASE J[1] > 1
        <5>1. K[1] \in 1 .. n
          <6>1. K[1] <= n /\ K[1] = incId[r] + 1 /\ incId[r] \in Nat
            BY <1>4, <1>6, <3>3, <4>2 DEF InStep, TypeInv
          <6> QED
            BY <1>6, <6>1
        <5> QED
          <6> HIDE DEF p, r, n
          <6>1. InStep(r, e, p, K[1], J[1])
            BY <3>3 DEF p
          <6>2. K[1] <= Len(written'[e])
            BY <1>4, <1>6, <5>1
          <6>3. incId'[r] = incId[r]
            BY <1>5
          <6>4. written'[e][K[1]] = written[e][K[1]]
            BY <1>4, <5>1
          <6>5. InStep(r, e, Current(r), K[1], J[1])'
            BY <1>7, <3>1, <5>1, <6>1, <6>2, <6>3, <6>4, ZenonT(30) DEF InStep, p
          <6> QED
            BY <6>5 DEF Reads
      <4>3. CASE ~(J[1] > 1)
        <5>1. p.header = <<>> /\ p.body = <<>>
          <6>1. J[1] = Len(p.header) + Len(p.body) + 1
            BY <3>3 DEF InStep
          <6>2. Len(p.header) = 0 /\ Len(p.body) = 0
            <7>1. \A x, y, z \in Nat : x = y + z + 1 /\ ~(x > 1) => y = 0 /\ z = 0
              OBVIOUS
            <7>2. J[1] \in Nat
              BY DEF Course
            <7> QED
              BY <4>1, <4>3, <6>1, <7>1, <7>2
          <6> QED
            BY <4>0, <6>2, PacketParts
        <5>2. InStep(r, e, Current(r), K[1], J[1])'
          <6> HIDE DEF r, n
          <6>1. incId'[r] = incId[r]
            BY <1>5
          <6>2. /\ ~p.null /\ K[1] = incId[r] + 1 /\ J[1] = Len(p.header) + Len(p.body) + 1
                /\ Len(p.header) <= HeaderSize /\ (Len(p.header) < HeaderSize => p.body = <<>>)
            BY <3>3 DEF InStep
          <6> HIDE DEF p
          <6> QED
            BY <3>1, <4>3, <5>1, <6>1, <6>2 DEF InStep, p
        <5> QED
          BY <5>2 DEF Reads
      <4> QED
        BY <4>2, <4>3
    <3> QED
      BY <2>1, <3>2, <3>3 DEF Reads
  <2>4. IsUp(e)' => Sends(e, m, K[Len(wire[e]) + 1], J[Len(wire[e]) + 1])'
    BY <1>5, <2>1 DEF Sends, IsUp
  <2> QED
    BY <2>2, <2>3, <2>4
<1>10. Partly(e, m)'
  BY <1>5 DEF Partly
<1>11. Clean(e)' => Clean(e)
  BY <1>5 DEF Clean
<1> QED
  BY <1>3, <1>4, <1>8, <1>9, <1>10, <1>11 DEF ConnOf
\* The words of the packet sent next.
LEMMA NextWords ==
    ASSUME NEW e \in End, NEW m \in Nat, Queue(e, m), TypeInv, m < outId[e]
    PROVE  LET w == Words(outgoing[e][FirstUnsent(outgoing[e])])
           IN  /\ w \in Seq(Nat) /\ Len(w) = Total(e, m + 1) /\ Len(w) \in Nat \ {0}
               /\ \A i \in 1 .. Len(w) : w[i] = WordOf(e, m + 1, i)
<1> DEFINE s == outgoing[e]
           f == m + 1 - Base(e)
           p == s[f]
<1>1. s \in Seq(Queued) /\ outId[e] \in Nat
  BY DEF TypeInv
<1>2. f \in 1 .. Len(s) /\ FirstUnsent(s) = f /\ Base(e) \in Nat
  BY <1>1, UnsentFirst
<1>3. Base(e) + f = m + 1
  BY <1>2
<1> HIDE DEF f
<1>4. p.id = m + 1 /\ p.body = written[e][m + 1]
  BY <1>2, <1>3 DEF Queue
<1>5. p \in Queued
  BY <1>1, <1>2
<1> HIDE DEF p
<1>6. /\ Words(p) \in Seq(Nat) /\ Len(Words(p)) = HeaderSize + Len(p.body)
      /\ Words(p)[1] = Magic /\ Words(p)[2] = Len(p.body) /\ Words(p)[3] = p.id
      /\ \A i \in 1 .. Len(p.body) : Words(p)[i + 3] = p.body[i]
  BY <1>5, WordsOf
<1>7. Len(p.body) \in Nat
  BY <1>5 DEF Queued
<1>8. \A i \in 1 .. Len(Words(p)) : Words(p)[i] = WordOf(e, m + 1, i)
  <2> TAKE i \in 1 .. Len(Words(p))
  <2>1. CASE i \in {1, 2, 3}
    BY <1>4, <1>6, <2>1 DEF WordOf
  <2>2. CASE i \notin {1, 2, 3}
    <3>1. i - 3 \in 1 .. Len(p.body) /\ (i - 3) + 3 = i
      BY <1>6, <1>7, <2>2 DEF HeaderSize
    <3>2. Words(p)[i] = p.body[i - 3]
      BY <1>6, <3>1
    <3> QED
      BY <1>4, <2>2, <3>2 DEF WordOf, HeaderSize
  <2> QED
    BY <2>1, <2>2
<1>9. Len(Words(p)) = Total(e, m + 1) /\ Len(Words(p)) \in Nat \ {0}
  BY <1>4, <1>6, <1>7 DEF Total, HeaderSize
<1> QED
  BY <1>2, <1>6, <1>8, <1>9 DEF p

\* tn_write_flush begins.
LEMMA FlushConn ==
    ASSUME TypeInv, TypeInv', NEW e \in End, ConnOf(e), Flush(e)
    PROVE  ConnOf(e)'
<1> DEFINE r == Peer(e)
<1>1. /\ UNCHANGED <<tstate, incId, outId, incoming, outgoing, socket, wire, faults, written, delivered>>
      /\ pc[e] = "queued"
  BY DEF Flush, tnc, history
<1>2. CASE pc'[e] # "flush"
  <2>1. /\ faults' >= faults /\ Clean(e)' = Clean(e) /\ IsUp(e)' = IsUp(e)
        /\ written'[e] = written[e] /\ outgoing'[e] = outgoing[e] /\ outId'[e] = outId[e] /\ wire'[e] = wire[e]
        /\ incId'[r] = incId[r] /\ delivered'[r] = delivered[r] /\ incoming'[r] = incoming[r] /\ socket'[r] = socket[r]
    BY <1>1 DEF Clean, IsUp, TypeInv
  <2>2. pc[e] # "flush"
    BY <1>1
  <2> QED
    BY <1>2, <2>1, <2>2, SameConn
<1>3. CASE pc'[e] = "flush"
  <2>1. PICK m \in Nat :
          /\ Queue(e, m) /\ Partly(e, m)
          /\ Clean(e) => Received(r, e) /\ Linked(e, m, r)
    BY DEF ConnOf
  <2>2. Unsent(outgoing[e]) # {} /\ left'[e] = Words(outgoing[e][FirstUnsent(outgoing[e])])
    BY <1>3 DEF Flush, Goto, AfterFlush, TypeInv
  <2>3. m < outId[e] /\ outId[e] \in Nat
    <3>1. outgoing[e] \in Seq(Queued) /\ outId[e] \in Nat
      BY DEF TypeInv
    <3>2. m # outId[e]
      BY <2>1, <2>2, <3>1, UnsentFirst
    <3> QED
      BY <2>1, <3>1, <3>2 DEF Queue
  <2>4. /\ left'[e] \in Seq(Nat) /\ Len(left'[e]) = Total(e, m + 1) /\ Len(left'[e]) \in Nat
        /\ \A i \in 1 .. Len(left'[e]) : left'[e][i] = WordOf(e, m + 1, i)
    BY <2>1, <2>2, <2>3, NextWords
  <2>5. \A k, j : WordOf(e, k, j)' = WordOf(e, k, j) /\ Total(e, k)' = Total(e, k)
    BY <1>1, SameWords
  <2>6. Rest(e, m)' = 0
    BY <2>4, <2>5 DEF Rest
  <2>7. Partly(e, m)'
    <3>1. \A i \in 1 .. Len(left'[e]) : left'[e][i] = WordOf(e, m + 1, 0 + i)'
      BY <2>4, <2>5
    <3> QED
      BY <1>1, <2>3, <2>6, <3>1 DEF Partly
  <2>8. Queue(e, m)'
    BY <1>1, <2>1, SameQueue
  <2>9. Received(r, e) => Received(r, e)'
    BY <1>1 DEF Received
  <2>10. Linked(e, m, r) => Linked(e, m, r)'
    <3>1. \A K, J : Stream(e, K, J) => Stream(e, K, J)'
      BY <1>1, SameStream
    <3>2. \A k, j \in Nat : Reads(r, e, k, j) => Reads(r, e, k, j)'
      <4>1. r \in End /\ faults \in Nat /\ faults' \in Nat /\ faults' >= faults /\ incId'[r] = incId[r]
        BY <1>1, TwoEnds DEF TypeInv
      <4>2. Current(r)' = Current(r)
        BY <1>1 DEF Current
      <4> HIDE DEF r
      <4>3. \A p : \A k, j \in Nat :
              /\ InStep(r, e, p, k, j) => InStep(r, e, p, k, j)'
              /\ OutOfStep(r, p, k, j) => OutOfStep(r, p, k, j)'
        BY <1>1, <4>1, SameReads
      <4> QED
        BY <4>2, <4>3 DEF Reads
    <3>3. \A k, j : Sends(e, m, k, j) => Sends(e, m, k, j)'
      BY <1>1, <1>3, <2>6 DEF Sends
    <3>4. IsUp(e)' = IsUp(e) /\ wire'[e] = wire[e] /\ socket'[r] = socket[r]
      BY <1>1 DEF IsUp
    <3> SUFFICES ASSUME Linked(e, m, r), socket[r]
                 PROVE  \E K, J \in Course :
                          /\ Stream(e, K, J)'
                          /\ Reads(r, e, K[1], J[1])'
                          /\ IsUp(e)' => Sends(e, m, K[Len(wire[e]) + 1], J[Len(wire[e]) + 1])'
      BY <3>4 DEF Linked
    <3>5. PICK K, J \in Course :
            /\ Stream(e, K, J)
            /\ Reads(r, e, K[1], J[1])
            /\ IsUp(e) => Sends(e, m, K[Len(wire[e]) + 1], J[Len(wire[e]) + 1])
      BY DEF Linked
    <3>6. Stream(e, K, J)' /\ Reads(r, e, K[1], J[1])'
      BY <3>1, <3>2, <3>5 DEF Course
    <3>7. IsUp(e) => Sends(e, m, K[Len(wire'[e]) + 1], J[Len(wire'[e]) + 1])
      BY <3>4, <3>5
    <3>8. IsUp(e)' => Sends(e, m, K[Len(wire[e]) + 1], J[Len(wire[e]) + 1])'
      BY <3>3, <3>4, <3>5
    <3> QED
      BY <3>6, <3>8
  <2>11. Clean(e)' = Clean(e)
    BY <1>1 DEF Clean
  <2> QED
    BY <2>1, <2>7, <2>8, <2>9, <2>10, <2>11 DEF ConnOf
<1> QED
  BY <1>2, <1>3

\* The words x of packet k come after its first a words.
PartOf(e, k, a, x) ==
    a + Len(x) <= Total(e, k) /\ \A i \in 1 .. Len(x) : x[i] = WordOf(e, k, a + i)

\* The stream ends in front of word j of packet k.
EndsAt(e, K, J, k, j) == K[Len(wire[e]) + 1] = k /\ J[Len(wire[e]) + 1] = j

\* More words of packet k go behind the stream.
Grows(e, K, J, k, a, x) ==
    /\ Stream(e, K, J) /\ wire[e] \in Seq(Nat) /\ x # <<>> /\ wire'[e] = wire[e] \o x
    /\ written'[e] = written[e] /\ written[e] \in Seq(Payload) /\ k \in 1 .. Len(written[e])
    /\ PartOf(e, k, a, x) /\ EndsAt(e, K, J, k, a + 1)
Grown(e, K, J, K2, J2, k, a, x) ==
    /\ Stream(e, K2, J2)'
    /\ K2[1] = K[1] /\ J2[1] = J[1]
    /\ IF a + Len(x) < Total(e, k)
         THEN EndsAt(e, K2, J2, k, a + Len(x) + 1)'
         ELSE EndsAt(e, K2, J2, k + 1, 1)'

\* The stream grows by words of the packet it ends in.
LEMMA StreamGrows ==
    \A e \in End, K, J \in Course, x \in Seq(Nat), k, a \in Nat :
        Grows(e, K, J, k, a, x) => \E K2, J2 \in Course : Grown(e, K, J, K2, J2, k, a, x)
<1> SUFFICES ASSUME NEW e \in End, NEW K \in Course, NEW J \in Course, NEW x \in Seq(Nat), NEW k \in Nat,
                    NEW a \in Nat, Grows(e, K, J, k, a, x)
             PROVE  \E K2, J2 \in Course : Grown(e, K, J, K2, J2, k, a, x)
  OBVIOUS
<1> USE DEF Grows
<1>0. /\ K[Len(wire[e]) + 1] = k /\ J[Len(wire[e]) + 1] = a + 1 /\ a + Len(x) <= Total(e, k)
      /\ \A i \in 1 .. Len(x) : x[i] = WordOf(e, k, a + i)
  BY DEF PartOf, EndsAt
<1> DEFINE L == Len(wire[e])
           n == Len(x)
           T == Total(e, k)
           past(i) == a + (i - L) > T
           F == [i \in Nat |-> IF i <= L THEN K[i] ELSE IF past(i) THEN k + 1 ELSE k]
           G == [i \in Nat |-> IF i <= L THEN J[i] ELSE IF past(i) THEN 1 ELSE a + (i - L)]
<1>1. L \in Nat /\ n \in Nat \ {0} /\ T \in Nat /\ k \in Nat /\ a + n <= T
  <2>1. Len(written[e][k]) \in Nat
    BY PayloadWords, SMTT(30)
  <2>2. T \in Nat
    BY <2>1 DEF Total, HeaderSize
  <2> QED
    BY <1>0, <2>2
<1>2. /\ Len(wire'[e]) = L + n
      /\ \A i \in 1 .. L : wire'[e][i] = wire[e][i]
      /\ \A i \in 1 .. n : wire'[e][L + i] = x[i]
  BY Joined
<1> HIDE DEF L, n, T
<1>3. F \in Course /\ G \in Course
  <2>0. \A i \in Nat : K[i] \in Nat /\ J[i] \in Nat
    BY DEF Course
  <2>1. \A i \in Nat : F[i] \in Nat
    BY <1>1, <2>0
  <2>2. \A i \in Nat : G[i] \in Nat
    <3> TAKE i \in Nat
    <3>1. CASE i <= L
      BY <2>0, <3>1
    <3>2. CASE ~(i <= L)
      <4>1. a + (i - L) \in Nat
        BY <1>1, <3>2
      <4> QED
        BY <3>2, <4>1
    <3> QED
      BY <3>1, <3>2
  <2> QED
    BY <2>1, <2>2 DEF Course
<1>4. \A i \in 1 .. L : F[i] = K[i] /\ G[i] = J[i]
  BY <1>1
<1>5. F[L + 1] = K[L + 1] /\ G[L + 1] = J[L + 1]
  <2>1. a + 1 <= T /\ a + ((L + 1) - L) = a + 1 /\ ~(L + 1 <= L) /\ L + 1 \in Nat
    <3> HIDE DEF F, G, past
    <3> QED
      BY <1>1
  <2>2. K[L + 1] = k /\ J[L + 1] = a + 1
    BY <1>0 DEF L
  <2> QED
    BY <1>1, <2>1, <2>2
<1>6. \A i \in 1 .. n : F[L + i] = k /\ G[L + i] = a + i /\ a + i <= T
  <2> TAKE i \in 1 .. n
  <2>1. a + i <= T /\ a + ((L + i) - L) = a + i /\ ~(L + i <= L) /\ L + i \in Nat
    <3> HIDE DEF F, G, past
    <3> QED
      BY <1>1
  <2> QED
    BY <1>1, <2>1
<1>7. IF a + n < T THEN F[L + n + 1] = k /\ G[L + n + 1] = a + n + 1
      ELSE a + n = T /\ F[L + n + 1] = k + 1 /\ G[L + n + 1] = 1
  <2>1. a + n <= T /\ a + ((L + n + 1) - L) = a + n + 1 /\ ~(L + n + 1 <= L) /\ L + n + 1 \in Nat
    BY <1>1 DEF n, T
  <2> QED
    BY <1>1, <2>1
<1>8. F[1] = K[1] /\ G[1] = J[1]
  <2>1. L = 0 \/ 1 \in 1 .. L
    BY <1>1
  <2>2. CASE L = 0
    BY <1>5, <2>2
  <2> QED
    BY <1>4, <2>1, <2>2
<1> HIDE DEF F, G
<1>9. PICK K2, J2 \in Course : K2 = F /\ J2 = G
  BY <1>3
<1>10. /\ \A i \in 1 .. L : K2[i] = K[i] /\ J2[i] = J[i]
       /\ K2[L + 1] = K[L + 1] /\ J2[L + 1] = J[L + 1]
       /\ \A i \in 1 .. n : K2[L + i] = k /\ J2[L + i] = a + i /\ a + i <= T
       /\ K2[1] = K[1] /\ J2[1] = J[1]
  BY <1>4, <1>5, <1>6, <1>8, <1>9
<1>11. IF a + n < T THEN K2[L + n + 1] = k /\ J2[L + n + 1] = a + n + 1
       ELSE a + n = T /\ K2[L + n + 1] = k + 1 /\ J2[L + n + 1] = 1
  BY <1>7, <1>9
<1>12. \A q, j : WordOf(e, q, j)' = WordOf(e, q, j) /\ Total(e, q)' = Total(e, q)
  BY SameWords
<1>13. \A q, j, q2, j2 : Follows(e, q, j, q2, j2)' = Follows(e, q, j, q2, j2)
  BY <1>12 DEF Follows
<1>14. ASSUME NEW i \in 1 .. L + n
       PROVE  /\ K2[i] \in 1 .. Len(written[e]) /\ J2[i] \in 1 .. Total(e, K2[i])
              /\ wire'[e][i] = WordOf(e, K2[i], J2[i])
              /\ Follows(e, K2[i], J2[i], K2[i + 1], J2[i + 1])
  <2>1. CASE i \in 1 .. L
    <3>1. /\ K[i] \in 1 .. Len(written[e]) /\ J[i] \in 1 .. Total(e, K[i])
          /\ wire[e][i] = WordOf(e, K[i], J[i])
          /\ Follows(e, K[i], J[i], K[i + 1], J[i + 1])
      BY <2>1 DEF Stream, L
    <3>2. K2[i + 1] = K[i + 1] /\ J2[i + 1] = J[i + 1]
      <4>1. i + 1 \in 1 .. L \/ i + 1 = L + 1
        BY <1>1, <2>1
      <4> QED
        BY <1>10, <4>1
    <3> QED
      BY <1>2, <1>10, <2>1, <3>1, <3>2
  <2>2. CASE i \notin 1 .. L
    <3>1. PICK q \in 1 .. n : i = L + q
      <4>1. i - L \in 1 .. n /\ i = L + (i - L)
        BY <1>1, <2>2
      <4> QED
        BY <4>1
    <3>2. K2[i] = k /\ J2[i] = a + q /\ a + q \in 1 .. T
      <4>1. a + q \in Nat \ {0}
        BY <1>1
      <4> QED
        BY <1>1, <1>10, <3>1, <4>1
    <3>3. wire'[e][i] = WordOf(e, k, a + q)
      BY <1>0, <1>2, <3>1 DEF n
    <3>4. Follows(e, k, a + q, K2[i + 1], J2[i + 1])
      <4>1. CASE q < n
        <5>1. q + 1 \in 1 .. n /\ i + 1 = L + (q + 1)
          <6>1. q \in Nat /\ q >= 1
            BY <1>1
          <6>2. q + 1 \in 1 .. n
            BY <1>1, <4>1, <6>1
          <6> QED
            BY <1>1, <3>1, <6>1, <6>2
        <5>2. K2[i + 1] = k /\ J2[i + 1] = a + (q + 1) /\ a + (q + 1) <= T
          BY <1>10, <5>1
        <5>3. a + q < T /\ a + (q + 1) = a + q + 1
          BY <1>1, <5>2
        <5> QED
          BY <5>2, <5>3 DEF Follows, T
      <4>2. CASE q = n
        <5>1. i + 1 = L + n + 1
          BY <3>1, <4>2
        <5> QED
          BY <1>11, <4>2, <5>1 DEF Follows, T
      <4>3. q < n \/ q = n
        BY <1>1
      <4> QED
        BY <4>1, <4>2, <4>3
    <3> QED
      BY <3>2, <3>3, <3>4 DEF T
  <2> QED
    BY <2>1, <2>2
<1>15. ASSUME NEW b \in 1 .. L + n + 1, NEW c \in 1 .. L + n + 1, b < c
       PROVE  Before(K2[b], J2[b], K2[c], J2[c])
  <2>1. ASSUME c <= L + 1 PROVE Before(K2[b], J2[b], K2[c], J2[c])
    <3>1. b \in 1 .. L /\ c \in 1 .. L + 1 /\ b \in 1 .. L + 1 /\ (c \in 1 .. L \/ c = L + 1)
      <4>1. b \in Nat /\ c \in Nat /\ b >= 1 /\ c >= 1 /\ b < c
        BY <1>1, <1>15
      <4> QED
        BY <1>1, <2>1, <4>1
    <3>2. Before(K[b], J[b], K[c], J[c])
      BY <1>15, <3>1 DEF Stream, L
    <3> QED
      BY <1>10, <3>1, <3>2
  <2>2. ASSUME b > L PROVE Before(K2[b], J2[b], K2[c], J2[c])
    <3>1. PICK q \in 1 .. n : b = L + q
      <4>1. b - L \in 1 .. n /\ b = L + (b - L)
        BY <1>1, <1>15, <2>2
      <4> QED
        BY <4>1
    <3>2. K2[b] = k /\ J2[b] = a + q
      BY <1>10, <3>1
    <3>3. CASE c = L + n + 1
      BY <1>1, <1>11, <3>1, <3>2, <3>3 DEF Before
    <3>4. CASE c # L + n + 1
      <4>1. c - L \in 1 .. n /\ c = L + (c - L) /\ q < c - L
        BY <1>1, <1>15, <3>1, <3>4
      <4>2. K2[c] = k /\ J2[c] = a + (c - L)
        BY <1>10, <4>1
      <4>3. a + q < a + (c - L)
        BY <4>1
      <4> QED
        BY <3>2, <4>2, <4>3 DEF Before
    <3> QED
      BY <3>3, <3>4
  <2>3. ASSUME c > L + 1, b <= L PROVE Before(K2[b], J2[b], K2[c], J2[c])
    <3>1. L + 1 \in 1 .. L + n + 1 /\ L + 1 > L /\ L + 1 < c /\ b < L + 1
      BY <1>1, <2>3
    <3>2. Before(K2[b], J2[b], K2[L + 1], J2[L + 1])
      <4>1. b \in 1 .. L + 1 /\ L + 1 \in 1 .. L + 1 /\ b \in 1 .. L
        BY <1>1, <2>3
      <4>2. Before(K[b], J[b], K[L + 1], J[L + 1])
        BY <3>1, <4>1 DEF Stream, L
      <4> QED
        BY <1>10, <4>1, <4>2
    <3>3. Before(K2[L + 1], J2[L + 1], K2[c], J2[c])
      <4>1. K2[L + 1] = k /\ J2[L + 1] = a + 1
        BY <1>0, <1>10 DEF L
      <4>2. CASE c = L + n + 1
        BY <1>1, <1>11, <4>1, <4>2, SMTT(30) DEF Before
      <4>3. CASE c # L + n + 1
        <5>1. c - L \in 1 .. n /\ c = L + (c - L) /\ 1 < c - L
          BY <1>1, <1>15, <2>3, <4>3
        <5>2. K2[c] = k /\ J2[c] = a + (c - L)
          BY <1>10, <5>1
        <5> QED
          BY <1>1, <4>1, <5>1, <5>2 DEF Before
      <4> QED
        BY <4>2, <4>3
    <3>4. K2[b] \in Nat /\ J2[b] \in Nat /\ K2[c] \in Nat /\ J2[c] \in Nat /\ K2[L + 1] \in Nat /\ J2[L + 1] \in Nat
      <4>1. b \in Nat /\ c \in Nat /\ L + 1 \in Nat
        BY <1>1
      <4>2. \A i \in Nat : K2[i] \in Nat /\ J2[i] \in Nat
        BY DEF Course
      <4> QED
        BY <4>1, <4>2
    <3>5. PICK x1, y1, x2, y2, x3, y3 \in Nat :
            x1 = K2[b] /\ y1 = J2[b] /\ x2 = K2[L + 1] /\ y2 = J2[L + 1] /\ x3 = K2[c] /\ y3 = J2[c]
      BY <3>4
    <3>6. Before(x1, y1, x2, y2) /\ Before(x2, y2, x3, y3)
      BY <3>2, <3>3, <3>5
    <3>7. Before(x1, y1, x3, y3)
      BY <3>6 DEF Before
    <3> QED
      BY <3>5, <3>7
  <2> QED
    <3>1. c <= L + 1 \/ b > L \/ (c > L + 1 /\ b <= L)
      BY <1>1
    <3> QED
      BY <2>1, <2>2, <2>3, <3>1
<1>16. Stream(e, K2, J2)'
  <2>1. ASSUME NEW i \in 1 .. Len(wire'[e])
        PROVE  /\ K2[i] \in 1 .. Len(written'[e]) /\ J2[i] \in 1 .. Total(e, K2[i])'
               /\ wire'[e][i] = WordOf(e, K2[i], J2[i])'
               /\ Follows(e, K2[i], J2[i], K2[i + 1], J2[i + 1])'
    <3>1. i \in 1 .. L + n
      BY <1>2
    <3>2. /\ K2[i] \in 1 .. Len(written[e]) /\ J2[i] \in 1 .. Total(e, K2[i])
          /\ wire'[e][i] = WordOf(e, K2[i], J2[i])
          /\ Follows(e, K2[i], J2[i], K2[i + 1], J2[i + 1])
      BY <1>14, <3>1
    <3> QED
      BY <1>12, <1>13, <3>2
  <2>2. \A b, c \in 1 .. Len(wire'[e]) + 1 : b < c => Before(K2[b], J2[b], K2[c], J2[c])
    BY <1>2, <1>15
  <2> QED
    BY <2>1, <2>2 DEF Stream
<1>17. IF a + Len(x) < Total(e, k)
         THEN K2[Len(wire'[e]) + 1] = k /\ J2[Len(wire'[e]) + 1] = a + Len(x) + 1
         ELSE K2[Len(wire'[e]) + 1] = k + 1 /\ J2[Len(wire'[e]) + 1] = 1
  BY <1>2, <1>11 DEF T, n
<1> QED
  BY <1>9, <1>10, <1>16, <1>17 DEF EndsAt, Grown

\* The receiving end r is as it was.
LEMMA StillReads ==
    ASSUME TypeInv, TypeInv', NEW e \in End, NEW r \in End,
           written'[e] = written[e], faults' >= faults, incId'[r] = incId[r], Current(r)' = Current(r)
    PROVE  \A k, j \in Nat : Reads(r, e, k, j) => Reads(r, e, k, j)'
<1>1. faults \in Nat /\ faults' \in Nat
  BY DEF TypeInv
<1>2. \A p : \A k, j \in Nat :
        /\ InStep(r, e, p, k, j) => InStep(r, e, p, k, j)'
        /\ OutOfStep(r, p, k, j) => OutOfStep(r, p, k, j)'
  BY <1>1, SameReads
<1> QED
  BY <1>2 DEF Reads

\* Words of the packet being sent go out; after the last of them the packet
\* counts as sent.
LEMMA SendQueue ==
    ASSUME TypeInv, TypeInv', EndInv, NEW e \in End, Send(e), NEW m \in Nat, Queue(e, m), Partly(e, m)
    PROVE  \E n \in 1 .. Len(left[e]) :
             LET a == Rest(e, m) IN
             /\ a \in Nat /\ a + Len(left[e]) = Total(e, m + 1) /\ m < outId[e] /\ IsUp(e) /\ pc[e] = "flush"
             /\ wire'[e] = wire[e] \o SubSeq(left[e], 1, n)
             /\ \A i \in 1 .. Len(left[e]) : left[e][i] = WordOf(e, m + 1, a + i)
             /\ IF n < Len(left[e])
                  THEN Queue(e, m)' /\ Partly(e, m)' /\ pc'[e] = "flush" /\ Rest(e, m)' = a + n
                  ELSE Queue(e, m + 1)' /\ Partly(e, m + 1)' /\ (pc'[e] = "flush" => Rest(e, m + 1)' = 0)
<1> DEFINE a == Rest(e, m)
           list == FirstSent(outgoing[e])
           s == outgoing[e]
           f == m + 1 - Base(e)
<1>1. /\ UNCHANGED <<tstate, socket, incId, outId, incoming, faults, written, delivered>> /\ pc[e] = "flush"
  BY DEF Send, history
<1>2. /\ s \in Seq(Queued) /\ outId[e] \in Nat /\ left[e] \in Seq(Nat) /\ wire[e] \in Seq(Nat)
      /\ outgoing \in [End -> Seq(Queued)] /\ left \in [End -> Seq(Nat)] /\ pc \in [End -> Places]
      /\ wire \in [End -> Seq(Nat)] /\ written[e] \in Seq(Payload)
  BY DEF TypeInv, Places
<1>3. /\ a \in Nat /\ m < outId[e] /\ IsUp(e)
      /\ \A i \in 1 .. Len(left[e]) : left[e][i] = WordOf(e, m + 1, a + i)
  BY <1>1 DEF Partly, EndInv, EndOf
<1>4. a + Len(left[e]) = Total(e, m + 1)
  <2>1. m + 1 \in 1 .. Len(written[e])
    BY <1>2, <1>3 DEF Queue
  <2>2. Total(e, m + 1) \in Nat
    BY <1>2, <2>1, PayloadWords DEF Total, HeaderSize
  <2> QED
    BY <1>2, <2>2 DEF Rest
<1> HIDE DEF list
<1>5. PICK n \in 1 .. Len(left[e]) :
        /\ wire' = [wire EXCEPT ![e] = @ \o SubSeq(left[e], 1, n)]
        /\ IF n < Len(left[e])
             THEN /\ left' = [left EXCEPT ![e] = SubSeq(@, n + 1, Len(@))]
                  /\ UNCHANGED <<outgoing, pc>>
             ELSE /\ outgoing' = [outgoing EXCEPT ![e] = list]
                  /\ IF Unsent(list) = {}
                       THEN /\ Goto(e, AfterFlush(e))
                            /\ left' = [left EXCEPT ![e] = <<>>]
                       ELSE /\ left' = [left EXCEPT ![e] = Words(list[FirstUnsent(list)])]
                            /\ UNCHANGED pc
  BY DEF Send, list
<1>6. wire'[e] = wire[e] \o SubSeq(left[e], 1, n)
  BY <1>2, <1>5
<1>7. \A k, j : WordOf(e, k, j)' = WordOf(e, k, j) /\ Total(e, k)' = Total(e, k)
  BY <1>1, SameWords
<1>8. CASE n < Len(left[e])
  <2>1. left'[e] = SubSeq(left[e], n + 1, Len(left[e])) /\ outgoing'[e] = outgoing[e] /\ pc'[e] = "flush"
    BY <1>1, <1>2, <1>5, <1>8
  <2>2. n \in 0 .. Len(left[e])
    BY <1>2
  <2>3. Len(left'[e]) = Len(left[e]) - n /\ \A i \in 1 .. Len(left[e]) - n : left'[e][i] = left[e][n + i]
    BY <1>2, <2>1, <2>2, Part
  <2>4. Queue(e, m)'
    BY <1>1, <2>1, SameQueue
  <2>5. Rest(e, m)' = a + n
    <3>1. Total(e, m + 1) - (Len(left[e]) - n) = a + n
      BY <1>2, <1>3, <1>4
    <3> QED
      BY <1>7, <2>3, <3>1 DEF Rest
  <2>6. \A i \in 1 .. Len(left'[e]) : left'[e][i] = WordOf(e, m + 1, (a + n) + i)
    <3> TAKE i \in 1 .. Len(left'[e])
    <3>1. n + i \in 1 .. Len(left[e]) /\ a + (n + i) = (a + n) + i /\ i \in 1 .. Len(left[e]) - n
      BY <1>2, <1>3, <2>3
    <3> QED
      BY <1>3, <2>3, <3>1
  <2>7. Partly(e, m)'
    <3>1. a + n \in Nat
      BY <1>3
    <3> QED
      BY <1>1, <1>3, <1>7, <2>5, <2>6, <3>1 DEF Partly
  <2> QED
    BY <1>1, <1>3, <1>4, <1>6, <1>8, <2>1, <2>4, <2>5, <2>7
<1>9. CASE ~(n < Len(left[e]))
  <2>1. outgoing'[e] = list /\ outId'[e] = outId[e] /\ written'[e] = written[e]
    BY <1>1, <1>2, <1>5, <1>9
  <2>2. /\ list \in Seq(Queued) /\ Len(list) = Len(s)
        /\ f \in 1 .. Len(s)
        /\ \A i \in 1 .. Len(s) : list[i].id = s[i].id /\ list[i].body = s[i].body
                                  /\ list[i].complete = (s[i].complete \/ i = f)
    BY <1>2, <1>3, SentList DEF list
  <2>3. Base(e)' = Base(e) /\ Base(e) \in Nat /\ Base(e) <= m /\ Base(e) + f = m + 1
        /\ outId[e] = Base(e) + Len(s) /\ Len(s) \in Nat /\ f \in Nat
    <3>1. Base(e)' = Base(e)
      BY <2>1, <2>2 DEF Base
    <3>2. Base(e) \in 0 .. m /\ outId[e] = Base(e) + Len(s) /\ Len(s) \in Nat
      BY <1>2 DEF Queue, Base
    <3> QED
      BY <2>2, <3>1, <3>2
  <2> HIDE DEF f
  <2>4. \A i \in 1 .. Len(s) : list[i].complete <=> Base(e) + i <= m + 1
    <3> TAKE i \in 1 .. Len(s)
    <3>1. list[i].complete = (s[i].complete \/ i = f) /\ (s[i].complete <=> Base(e) + i <= m)
      BY <2>2 DEF Queue
    <3>2. Base(e) + i <= m + 1 <=> (Base(e) + i <= m \/ i = f)
      BY <2>3
    <3> QED
      BY <3>1, <3>2
  <2>5. Queue(e, m + 1)'
    <3>1. m + 1 \in 0 .. outId[e] /\ Base(e) \in 0 .. m + 1 /\ Len(written[e]) = outId[e]
      BY <1>2, <1>3, <2>3 DEF Queue
    <3>2. \A i \in 1 .. Len(s) : list[i].id = Base(e) + i /\ list[i].body = written[e][Base(e) + i]
      BY <2>2 DEF Queue
    <3>3. m + 1 \in 0 .. outId'[e] /\ Len(written'[e]) = outId'[e] /\ Base(e)' \in 0 .. m + 1
      BY <2>1, <2>3, <3>1
    <3>4. ASSUME NEW i \in 1 .. Len(outgoing'[e])
          PROVE  /\ outgoing'[e][i].id = Base(e)' + i
                 /\ outgoing'[e][i].body = written'[e][Base(e)' + i]
                 /\ outgoing'[e][i].complete <=> Base(e)' + i <= m + 1
      <4>1. i \in 1 .. Len(s) /\ outgoing'[e][i] = list[i] /\ Base(e)' = Base(e) /\ written'[e] = written[e]
        BY <2>1, <2>2, <2>3
      <4> QED
        BY <2>4, <3>2, <4>1
    <3> QED
      BY <3>3, <3>4 DEF Queue
  <2>6. CASE Unsent(list) = {}
    <3>1. pc'[e] # "flush"
      BY <1>2, <1>5, <1>9, <2>6 DEF Goto, AfterFlush
    <3>2. Partly(e, m + 1)'
      BY <3>1 DEF Partly
    <3> QED
      BY <1>1, <1>3, <1>4, <1>6, <1>9, <2>5, <3>1, <3>2
  <2>7. CASE Unsent(list) # {}
    <3> DEFINE c == m + 1 - Base(e)
    <3>1. /\ c \in 0 .. Len(list) /\ c = f /\ \A i \in 1 .. Len(list) : list[i].complete <=> i <= c
      <4>1. c \in 0 .. Len(list) /\ c = f
        BY <2>2, <2>3
      <4>2. \A i \in 1 .. Len(list) : Base(e) + i <= m + 1 <=> i <= c
        BY <2>2, <2>3
      <4> QED
        BY <2>2, <2>4, <4>1, <4>2
    <3> HIDE DEF c
    <3>2. c # Len(list) /\ (c < Len(list) => FirstUnsent(list) = c + 1)
      BY <2>2, <2>7, <3>1, FirstOfUnsent
    <3>3. c + 1 \in 1 .. Len(s) /\ FirstUnsent(list) = c + 1 /\ Base(e) + (c + 1) = m + 2 /\ m + 1 < outId[e]
      <4>1. c \in Nat /\ c <= Len(s) /\ c # Len(s) /\ Len(s) \in Nat
        BY <2>2, <2>3, <3>1, <3>2
      <4>2. c < Len(s)
        BY <4>1
      <4>3. c + 1 \in 1 .. Len(s) /\ FirstUnsent(list) = c + 1
        BY <2>2, <3>2, <4>1, <4>2
      <4>4. Base(e) + c = m + 1 /\ m \in Nat
        BY <2>3, <3>1
      <4>5. Base(e) + (c + 1) = m + 2
        BY <2>3, <4>1, <4>4, SMTT(30)
      <4>6. m + 1 < outId[e]
        BY <2>3, <4>1, <4>2, <4>4
      <4> QED
        BY <4>3, <4>5, <4>6
    <3> DEFINE q == list[c + 1]
    <3>4. q \in Queued /\ q.id = m + 2 /\ q.body = written[e][m + 2]
      <4>1. q \in Queued
        BY <2>2, <3>3
      <4>2. q.id = s[c + 1].id /\ q.body = s[c + 1].body
        BY <2>2, <3>3
      <4>3. s[c + 1].id = Base(e) + (c + 1) /\ s[c + 1].body = written[e][Base(e) + (c + 1)]
        BY <3>3 DEF Queue
      <4> QED
        BY <3>3, <4>1, <4>2, <4>3
    <3> HIDE DEF q
    <3>5. left'[e] = Words(q) /\ pc'[e] = "flush"
      BY <1>1, <1>2, <1>5, <1>9, <2>7, <3>3 DEF q
    <3>6. /\ Words(q) \in Seq(Nat) /\ Len(Words(q)) = HeaderSize + Len(q.body)
          /\ Words(q)[1] = Magic /\ Words(q)[2] = Len(q.body) /\ Words(q)[3] = q.id
          /\ \A i \in 1 .. Len(q.body) : Words(q)[i + 3] = q.body[i]
      BY <3>4, WordsOf
    <3>7. Len(q.body) \in Nat
      BY <3>4 DEF Queued
    <3>8. \A i \in 1 .. Len(Words(q)) : Words(q)[i] = WordOf(e, m + 2, i)
      <4> TAKE i \in 1 .. Len(Words(q))
      <4>1. CASE i \in {1, 2, 3}
        BY <3>4, <3>6, <4>1 DEF WordOf
      <4>2. CASE i \notin {1, 2, 3}
        <5>1. i - 3 \in 1 .. Len(q.body) /\ (i - 3) + 3 = i
          <6>1. Len(Words(q)) = 3 + Len(q.body)
            BY <3>6 DEF HeaderSize
          <6> QED
            BY <3>7, <4>2, <6>1
        <5>2. Words(q)[i] = q.body[i - 3]
          BY <3>6, <5>1
        <5> QED
          BY <3>4, <4>2, <5>2 DEF WordOf, HeaderSize
      <4> QED
        BY <4>1, <4>2
    <3>9. Len(Words(q)) = Total(e, m + 2) /\ Len(Words(q)) \in Nat
      BY <3>4, <3>6, <3>7 DEF Total, HeaderSize
    <3>10. m + 1 + 1 = m + 2
      OBVIOUS
    <3>11. Rest(e, m + 1)' = 0
      BY <1>7, <3>5, <3>9, <3>10 DEF Rest
    <3>12. Partly(e, m + 1)'
      <4>1. \A i \in 1 .. Len(left'[e]) : left'[e][i] = WordOf(e, m + 1 + 1, 0 + i)'
        BY <1>7, <3>5, <3>8, <3>9, <3>10
      <4> QED
        BY <1>1, <3>3, <3>11, <4>1 DEF Partly
    <3> QED
      BY <1>1, <1>3, <1>4, <1>6, <1>9, <2>5, <3>11, <3>12
  <2> QED
    BY <2>6, <2>7
<1> QED
  BY <1>8, <1>9
\* A send that succeeds keeps the connection: the stream grows by the words
\* sent.
LEMMA SendConn ==
    ASSUME TypeInv, TypeInv', EndInv, NEW e \in End, ConnOf(e), Send(e)
    PROVE  ConnOf(e)'
<1> DEFINE r == Peer(e)
<1>1. PICK m \in Nat :
        /\ Queue(e, m) /\ Partly(e, m)
        /\ Clean(e) => Received(r, e) /\ Linked(e, m, r)
  BY DEF ConnOf
<1>2. /\ UNCHANGED <<tstate, socket, incId, outId, incoming, faults, written, delivered>>
  BY DEF Send, history
<1>3. /\ left[e] \in Seq(Nat) /\ wire[e] \in Seq(Nat) /\ written[e] \in Seq(Payload) /\ r \in End /\ outId[e] \in Nat
  BY TwoEnds DEF TypeInv
<1> DEFINE a == Rest(e, m)
<1>4. PICK n \in 1 .. Len(left[e]) :
        /\ a \in Nat /\ a + Len(left[e]) = Total(e, m + 1) /\ m < outId[e] /\ IsUp(e) /\ pc[e] = "flush"
        /\ wire'[e] = wire[e] \o SubSeq(left[e], 1, n)
        /\ \A i \in 1 .. Len(left[e]) : left[e][i] = WordOf(e, m + 1, a + i)
        /\ IF n < Len(left[e])
             THEN Queue(e, m)' /\ Partly(e, m)' /\ pc'[e] = "flush" /\ Rest(e, m)' = a + n
             ELSE Queue(e, m + 1)' /\ Partly(e, m + 1)' /\ (pc'[e] = "flush" => Rest(e, m + 1)' = 0)
  BY <1>1, SendQueue
<1> HIDE DEF a
<1> DEFINE x == SubSeq(left[e], 1, n)
<1>5. x \in Seq(Nat) /\ Len(x) = n /\ x # <<>> /\ \A i \in 1 .. n : x[i] = left[e][i]
  <2>1. n \in 0 .. Len(left[e]) /\ n # 0
    BY <1>3
  <2>2. x \in Seq(Nat) /\ Len(x) = n /\ \A i \in 1 .. n : x[i] = left[e][i]
    BY <1>3, <2>1, Part
  <2> QED
    BY <2>1, <2>2
<1> HIDE DEF x
<1>6. Received(r, e) => Received(r, e)'
  BY <1>2 DEF Received
<1>7. Clean(e)' = Clean(e)
  BY <1>2 DEF Clean
<1>8. PICK q \in Nat :
        /\ Queue(e, q)' /\ Partly(e, q)'
        /\ \/ n < Len(left[e]) /\ q = m /\ pc'[e] = "flush" /\ Rest(e, q)' = a + n
           \/ n = Len(left[e]) /\ q = m + 1 /\ (pc'[e] = "flush" => Rest(e, q)' = 0)
  <2>1. CASE n < Len(left[e])
    BY <1>4, <2>1
  <2>2. CASE ~(n < Len(left[e]))
    <3>1. n = Len(left[e]) /\ m + 1 \in Nat
      BY <1>3, <2>2
    <3> QED
      BY <1>4, <2>2, <3>1
  <2> QED
    BY <2>1, <2>2
<1>9. ASSUME Linked(e, m, r) PROVE Linked(e, q, r)'
  <2>1. socket'[r] = socket[r] /\ wire'[e] = wire[e] \o x
    BY <1>2, <1>4 DEF x
  <2> SUFFICES ASSUME socket[r]
               PROVE  \E K, J \in Course :
                        /\ Stream(e, K, J)'
                        /\ Reads(r, e, K[1], J[1])'
                        /\ IsUp(e)' => Sends(e, q, K[Len(wire[e]) + 1], J[Len(wire[e]) + 1])'
    BY <2>1 DEF Linked
  <2>2. PICK K, J \in Course :
          /\ Stream(e, K, J)
          /\ Reads(r, e, K[1], J[1])
          /\ Sends(e, m, K[Len(wire[e]) + 1], J[Len(wire[e]) + 1])
    BY <1>4, <1>9 DEF Linked
  <2>3. PICK k, b \in Nat : k = m + 1 /\ b = a
    BY <1>4
  <2>4. K[Len(wire[e]) + 1] = k /\ J[Len(wire[e]) + 1] = b + 1
    BY <1>4, <2>2, <2>3 DEF Sends, a
  <2>5. k \in 1 .. Len(written[e])
    BY <1>1, <1>3, <1>4, <2>3 DEF Queue
  <2>6. b + Len(x) <= Total(e, k) /\ b + Len(left[e]) = Total(e, k)
    BY <1>3, <1>4, <1>5, <2>3
  <2>7. \A i \in 1 .. Len(x) : x[i] = WordOf(e, k, b + i)
    <3>1. \A i \in 1 .. n : i \in 1 .. Len(left[e])
      BY <1>3
    <3> QED
      BY <1>4, <1>5, <2>3, <3>1
  <2>8. written'[e] = written[e]
    BY <1>2
  <2>9. PICK y \in Seq(Nat) : y = x
    BY <1>5
  <2>10. PICK K2, J2 \in Course :
           /\ Stream(e, K2, J2)'
           /\ K2[1] = K[1] /\ J2[1] = J[1]
           /\ IF b + Len(y) < Total(e, k)
                THEN EndsAt(e, K2, J2, k, b + Len(y) + 1)'
                ELSE EndsAt(e, K2, J2, k + 1, 1)'
    <3>1. PartOf(e, k, b, y) /\ EndsAt(e, K, J, k, b + 1) /\ wire[e] \in Seq(Nat) /\ written[e] \in Seq(Payload)
      BY <1>3, <2>4, <2>6, <2>7, <2>9 DEF PartOf, EndsAt
    <3>2. Grows(e, K, J, k, b, y)
      BY <1>5, <2>1, <2>2, <2>5, <2>8, <2>9, <3>1 DEF Grows
    <3>3. \E K2, J2 \in Course : Grown(e, K, J, K2, J2, k, b, y)
      BY <3>2, StreamGrows
    <3> QED
      BY <3>3 DEF Grown
  <2>11. Reads(r, e, K2[1], J2[1])'
    <3>1. K[1] \in Nat /\ J[1] \in Nat
      BY DEF Course
    <3>2. Current(r)' = Current(r) /\ faults' >= faults /\ incId'[r] = incId[r]
      BY <1>2 DEF Current, TypeInv
    <3> HIDE DEF r
    <3>3. \A k1, j1 \in Nat : Reads(r, e, k1, j1) => Reads(r, e, k1, j1)'
      BY <1>3, <2>8, <3>2, StillReads
    <3> QED
      BY <2>2, <2>10, <3>1, <3>3
  <2>12. ASSUME IsUp(e)'
         PROVE  Sends(e, q, K2[Len(wire[e]) + 1], J2[Len(wire[e]) + 1])'
    <3>1. CASE n < Len(left[e]) /\ q = m /\ pc'[e] = "flush" /\ Rest(e, q)' = a + n
      <4>1. b + Len(y) < Total(e, k) /\ b + Len(y) + 1 = Rest(e, q)' + 1
        <5>1. Len(y) = n /\ Len(left[e]) \in Nat /\ n < Len(left[e]) /\ n \in Nat
          BY <1>3, <1>5, <2>9, <3>1
        <5>2. b + n < b + Len(left[e])
          BY <5>1
        <5> QED
          BY <2>3, <2>6, <3>1, <5>1, <5>2
      <4> QED
        BY <2>3, <2>10, <3>1, <4>1 DEF Sends, EndsAt
    <3>2. CASE n = Len(left[e]) /\ q = m + 1 /\ (pc'[e] = "flush" => Rest(e, q)' = 0)
      <4>1. ~(b + Len(y) < Total(e, k))
        BY <1>3, <1>5, <2>6, <2>9, <3>2
      <4> QED
        BY <2>3, <2>10, <3>2, <4>1 DEF Sends, EndsAt
    <3> QED
      BY <1>8, <3>1, <3>2
  <2> QED
    BY <2>10, <2>11, <2>12
<1> QED
  BY <1>1, <1>6, <1>7, <1>8, <1>9 DEF ConnOf
\* send fails: after that the other end cannot be sure to see whole packets.
LEMMA SendFailsConn ==
    ASSUME TypeInv, TypeInv', NEW e \in End, ConnOf(e), SendFails(e)
    PROVE  ConnOf(e)'
<1>1. PICK m \in Nat : Queue(e, m)
  BY DEF ConnOf
<1>2. /\ UNCHANGED <<outId, outgoing, written>> /\ pc'[e] # "flush" /\ faults' = faults + 1
      /\ Faults \intersect {"ENOMEM", "ESEND"} # {}
  BY DEF SendFails, GiveUp, Goto, AfterFlush, Fail, TypeInv, history
<1>3. Queue(e, m)'
  BY <1>1, <1>2, SameQueue
<1>4. Partly(e, m)'
  BY <1>2 DEF Partly
<1>5. ~Clean(e)'
  <2>1. faults' # 0
    BY <1>2 DEF TypeInv
  <2>2. tstate'[e] \intersect {"MALLOC", "UNKNOWN"} # {}
    <3>1. PICK flag \in {"MALLOC", "UNKNOWN"} : AddFlag(e, flag)
      BY DEF SendFails, GiveUp
    <3>2. tstate'[e] = tstate[e] \union {flag}
      BY <3>1 DEF AddFlag, TypeInv
    <3> QED
      BY <3>2
  <2> QED
    BY <1>2, <2>1, <2>2 DEF Clean
<1> QED
  BY <1>3, <1>4, <1>5 DEF ConnOf

\* An end closes its socket: of what it has sent, a part may still arrive.
LEMMA CloseConn ==
    ASSUME TypeInv, TypeInv', NEW e \in End, ConnOf(e), Close(e)
    PROVE  ConnOf(e)'
<1> DEFINE r == Peer(e)
<1>1. PICK m \in Nat :
        /\ Queue(e, m) /\ Partly(e, m)
        /\ Clean(e) => Received(r, e) /\ Linked(e, m, r)
  BY DEF ConnOf
<1>2. /\ UNCHANGED <<tstate, incId, outId, incoming, outgoing, faults, written, delivered>>
      /\ pc'[e] = "closed" /\ ~socket'[e] /\ r \in End /\ socket'[r] = socket[r]
  <2>1. UNCHANGED <<tstate, incId, outId, incoming, outgoing, faults, written, delivered>>
    BY DEF Close, tnc, history
  <2>2. pc'[e] = "closed" /\ ~socket'[e]
    BY DEF Close, Goto, TypeInv
  <2>3. r \in End /\ socket'[r] = socket[r]
    BY TwoEnds DEF Close, TypeInv
  <2> QED
    BY <2>1, <2>2, <2>3
<1>3. PICK n \in 0 .. Len(wire[e]) : wire'[e] = SubSeq(wire[e], 1, n)
  <2>1. PICK n \in 0 .. Len(wire[e]) : wire' = [wire EXCEPT ![e] = SubSeq(@, 1, n), ![Peer(e)] = <<>>]
    BY DEF Close
  <2> QED
    BY <2>1, TwoEnds DEF TypeInv
<1>4. wire[e] \in Seq(Nat)
  BY DEF TypeInv
<1>5. Len(wire'[e]) = n /\ n <= Len(wire[e]) /\ n \in Nat /\ Len(wire[e]) \in Nat
      /\ \A i \in 1 .. n : wire'[e][i] = wire[e][i]
  BY <1>3, <1>4, Part
<1>6. Queue(e, m)' /\ Partly(e, m)' /\ Clean(e)' = Clean(e) /\ (Received(r, e) => Received(r, e)')
  <2>1. Queue(e, m)'
    BY <1>1, <1>2, SameQueue
  <2>2. Partly(e, m)'
    BY <1>2 DEF Partly
  <2> QED
    BY <1>2, <2>1, <2>2 DEF Clean, Received
<1>7. ASSUME Linked(e, m, r) PROVE Linked(e, m, r)'
  <2>1. ~IsUp(e)'
    BY <1>2 DEF IsUp
  <2> SUFFICES ASSUME socket[r]
               PROVE  \E K, J \in Course : Stream(e, K, J)' /\ Reads(r, e, K[1], J[1])'
    BY <1>2, <2>1 DEF Linked
  <2>2. PICK K, J \in Course : Stream(e, K, J) /\ Reads(r, e, K[1], J[1])
    BY <1>7 DEF Linked
  <2>3. Stream(e, K, J)'
    <3>1. \A k, j : WordOf(e, k, j)' = WordOf(e, k, j) /\ Total(e, k)' = Total(e, k)
      BY <1>2, SameWords
    <3>2. \A k, j, k2, j2 : Follows(e, k, j, k2, j2)' = Follows(e, k, j, k2, j2)
      BY <3>1 DEF Follows
    <3>3. \A i \in 1 .. n : i \in 1 .. Len(wire[e])
      BY <1>5
    <3>4. \A i \in 1 .. n + 1 : i \in 1 .. Len(wire[e]) + 1
      BY <1>5
    <3>5. ASSUME NEW i \in 1 .. Len(wire'[e])
          PROVE  /\ K[i] \in 1 .. Len(written'[e]) /\ J[i] \in 1 .. Total(e, K[i])'
                 /\ wire'[e][i] = WordOf(e, K[i], J[i])'
                 /\ Follows(e, K[i], J[i], K[i + 1], J[i + 1])'
      <4>1. i \in 1 .. n /\ i \in 1 .. Len(wire[e])
        BY <1>5, <3>3
      <4>2. /\ K[i] \in 1 .. Len(written[e]) /\ J[i] \in 1 .. Total(e, K[i])
            /\ wire[e][i] = WordOf(e, K[i], J[i])
            /\ Follows(e, K[i], J[i], K[i + 1], J[i + 1])
        BY <2>2, <4>1 DEF Stream
      <4> QED
        BY <1>2, <1>5, <3>1, <3>2, <4>1, <4>2
    <3>6. \A b, c \in 1 .. Len(wire'[e]) + 1 : b < c => Before(K[b], J[b], K[c], J[c])
      BY <1>5, <2>2, <3>4 DEF Stream
    <3> QED
      BY <3>5, <3>6 DEF Stream
  <2>4. Reads(r, e, K[1], J[1])'
    <3>1. K[1] \in Nat /\ J[1] \in Nat
      BY DEF Course
    <3>2. Current(r)' = Current(r) /\ faults' >= faults /\ incId'[r] = incId[r] /\ written'[e] = written[e]
      BY <1>2 DEF Current, TypeInv
    <3> HIDE DEF r
    <3>3. \A k1, j1 \in Nat : Reads(r, e, k1, j1) => Reads(r, e, k1, j1)'
      BY <1>2, <3>2, StillReads
    <3> QED
      BY <2>2, <3>1, <3>3
  <2> QED
    BY <2>3, <2>4
<1> QED
  BY <1>1, <1>6, <1>7 DEF ConnOf

\* Steps of one end that its sending to the other does not notice: sent are
\* the same words, and the errors only grow.
LEMMA QuietConn ==
    ASSUME TypeInv, TypeInv', EndInv, NEW e \in End, ConnOf(e),
           \/ WriteFails(e) \/ FlushSelectFails(e) \/ SendPipe(e) \/ Scan(e) \/ ScanFails(e)
           \/ ReadWord(e) \/ ReadWordNoMemory(e) \/ ReadWordCrashes(e) \/ RecvFails(e) \/ Read(e)
    PROVE  ConnOf(e)'
<1> DEFINE r == Peer(e)
<1> USE DEF history, tnc
<1>1. Step(e)
  BY DEF Step
<1>2. /\ incId'[r] = incId[r] /\ delivered'[r] = delivered[r] /\ incoming'[r] = incoming[r] /\ socket'[r] = socket[r]
  BY <1>1, OtherEnd
<1>3. /\ written' = written /\ outgoing' = outgoing /\ outId' = outId
  BY DEF WriteFails, FlushSelectFails, SendPipe, GiveUp, Scan, ScanFails, ReadWord, ReadWordNoMemory, ReadWordCrashes, RecvFails, Read
<1>4. wire'[e] = wire[e]
  <2>1. wire' = wire \/ \E x : wire' = [wire EXCEPT ![r] = x]
    BY DEF WriteFails, FlushSelectFails, SendPipe, GiveUp, Scan, ScanFails, ReadWord, ReadWordNoMemory, ReadWordCrashes, RecvFails, Read, DropBuffer
  <2> QED
    BY <2>1, TwoEnds DEF TypeInv
<1>5. faults' >= faults
  <2>1. faults' = faults \/ faults' = faults + 1
    BY DEF WriteFails, FlushSelectFails, SendPipe, GiveUp, Scan, ScanFails, ReadWord, ReadWordNoMemory, ReadWordCrashes, RecvFails, Read, Fail
  <2> QED
    BY <2>1 DEF TypeInv
<1>6. tstate[e] \subseteq tstate'[e]
  <2>1. tstate' = tstate \/ \E flag : AddFlag(e, flag)
    BY DEF WriteFails, FlushSelectFails, SendPipe, GiveUp, Scan, ScanFails, ReadWord, ReadWordNoMemory, ReadWordCrashes, RecvFails, Read
  <2> QED
    BY <2>1 DEF AddFlag, TypeInv
<1>7. (IsUp(e)' => IsUp(e)) /\ (Clean(e)' => Clean(e))
  <2>1. socket'[e] => socket[e]
    BY <1>1, Carried
  <2>2. IsUp(e)' => IsUp(e)
    BY <1>6, <2>1 DEF IsUp
  <2>3. faults \in Nat /\ faults' \in Nat
    BY DEF TypeInv
  <2> QED
    BY <1>5, <1>6, <2>2, <2>3 DEF Clean
<1>8. \/ pc'[e] = pc[e] /\ left'[e] = left[e]
      \/ pc[e] # "flush" /\ pc'[e] # "flush"
      \/ pc'[e] # "flush" /\ (IsUp(e)' => FALSE)
  <2>1. CASE SendPipe(e)
    <3>1. pc'[e] # "flush" /\ "CONNLOST" \in tstate'[e]
      BY <2>1 DEF SendPipe, GiveUp, Goto, AfterFlush, AddFlag, TypeInv
    <3> QED
      BY <3>1 DEF IsUp
  <2>2. CASE WriteFails(e)
    BY <2>2 DEF WriteFails
  <2>3. CASE FlushSelectFails(e)
    BY <2>3 DEF FlushSelectFails, Goto, AfterFlush, TypeInv
  <2>4. CASE Scan(e) \/ ScanFails(e)
    BY <2>4 DEF Scan, ScanFails, Goto, TypeInv
  <2>5. CASE ReadWord(e)
    <3>1. pc[e] = "scan" /\ (pc' = pc \/ Goto(e, "read"))
      BY <2>5 DEF ReadWord
    <3> QED
      BY <3>1 DEF Goto, TypeInv
  <2>6. CASE ReadWordNoMemory(e) \/ ReadWordCrashes(e) \/ RecvFails(e) \/ Read(e)
    BY <2>6 DEF ReadWordNoMemory, ReadWordCrashes, RecvFails, Read, Goto, TypeInv
  <2> QED
    BY <2>1, <2>2, <2>3, <2>4, <2>5, <2>6
<1> QED
  BY <1>2, <1>3, <1>4, <1>5, <1>6, <1>7, <1>8, SameConn
-----------------------------------------------------------------------------
(* The connection: reading. *)

\* The first n words leave the stream.
LEMMA StreamShift ==
    ASSUME NEW e \in End, NEW K \in Course, NEW J \in Course, Stream(e, K, J),
           wire[e] \in Seq(Nat), NEW n \in 0 .. Len(wire[e]),
           wire'[e] = SubSeq(wire[e], n + 1, Len(wire[e])), written'[e] = written[e]
    PROVE  \E K2, J2 \in Course :
             /\ Stream(e, K2, J2)'
             /\ K2[1] = K[n + 1] /\ J2[1] = J[n + 1]
             /\ \A k, j : EndsAt(e, K, J, k, j) => EndsAt(e, K2, J2, k, j)'
<1> DEFINE L == Len(wire[e])
           F == [i \in Nat |-> K[i + n]]
           G == [i \in Nat |-> J[i + n]]
<1>1. L \in Nat /\ n \in Nat /\ n <= L
  OBVIOUS
<1>2. /\ Len(wire'[e]) = L - n
      /\ \A i \in 1 .. L - n : wire'[e][i] = wire[e][n + i]
  <2>1. /\ Len(SubSeq(wire[e], n + 1, Len(wire[e]))) = Len(wire[e]) - n
        /\ \A i \in 1 .. Len(wire[e]) - n : SubSeq(wire[e], n + 1, Len(wire[e]))[i] = wire[e][n + i]
    BY Part
  <2> QED
    BY <2>1
<1>3. F \in Course /\ G \in Course
  <2>1. \A i \in Nat : K[i + n] \in Nat /\ J[i + n] \in Nat
    <3>1. \A i \in Nat : i + n \in Nat
      BY <1>1
    <3> HIDE DEF L
    <3> QED
      BY <3>1 DEF Course
  <2> QED
    BY <2>1 DEF Course
<1>4. PICK K2, J2 \in Course : K2 = F /\ J2 = G
  BY <1>3
<1>5. \A i \in Nat : K2[i] = K[i + n] /\ J2[i] = J[i + n]
  BY <1>4
<1> HIDE DEF F, G, L
<1>6. \A q, j : WordOf(e, q, j)' = WordOf(e, q, j) /\ Total(e, q)' = Total(e, q)
  BY SameWords
<1>7. \A q, j, q2, j2 : Follows(e, q, j, q2, j2)' = Follows(e, q, j, q2, j2)
  BY <1>6 DEF Follows
<1>8. ASSUME NEW i \in 1 .. Len(wire'[e])
      PROVE  /\ K2[i] \in 1 .. Len(written'[e]) /\ J2[i] \in 1 .. Total(e, K2[i])'
             /\ wire'[e][i] = WordOf(e, K2[i], J2[i])'
             /\ Follows(e, K2[i], J2[i], K2[i + 1], J2[i + 1])'
  <2>1. i \in 1 .. L - n /\ i \in Nat /\ i + 1 \in Nat /\ i + n \in 1 .. L /\ n + i = i + n /\ (i + 1) + n = (i + n) + 1
    BY <1>1, <1>2, SMTT(30)
  <2>2. /\ K[i + n] \in 1 .. Len(written[e]) /\ J[i + n] \in 1 .. Total(e, K[i + n])
        /\ wire[e][i + n] = WordOf(e, K[i + n], J[i + n])
        /\ Follows(e, K[i + n], J[i + n], K[(i + n) + 1], J[(i + n) + 1])
    BY <2>1 DEF Stream, L
  <2>3. K2[i] = K[i + n] /\ J2[i] = J[i + n] /\ K2[i + 1] = K[(i + n) + 1] /\ J2[i + 1] = J[(i + n) + 1]
    <3>1. K2[i + 1] = K[(i + 1) + n] /\ J2[i + 1] = J[(i + 1) + n]
      BY <1>5, <2>1
    <3> QED
      BY <1>5, <2>1, <3>1
  <2>4. wire'[e][i] = wire[e][i + n]
    BY <1>2, <2>1
  <2> QED
    BY <1>6, <1>7, <2>2, <2>3, <2>4
<1>9. ASSUME NEW b \in 1 .. Len(wire'[e]) + 1, NEW c \in 1 .. Len(wire'[e]) + 1, b < c
      PROVE  Before(K2[b], J2[b], K2[c], J2[c])
  <2>1. b \in Nat /\ c \in Nat /\ b + n \in 1 .. L + 1 /\ c + n \in 1 .. L + 1 /\ b + n < c + n
    BY <1>1, <1>2, <1>9
  <2>2. Before(K[b + n], J[b + n], K[c + n], J[c + n])
    BY <2>1 DEF Stream, L
  <2> QED
    BY <1>5, <2>1, <2>2
<1>10. Stream(e, K2, J2)'
  BY <1>8, <1>9 DEF Stream
<1>11. K2[1] = K[n + 1] /\ J2[1] = J[n + 1]
  <2>1. 1 + n = n + 1
    BY <1>1
  <2> QED
    BY <1>5, <2>1
<1>12. K2[Len(wire'[e]) + 1] = K[L + 1] /\ J2[Len(wire'[e]) + 1] = J[L + 1]
  <2>1. Len(wire'[e]) + 1 \in Nat /\ (Len(wire'[e]) + 1) + n = L + 1
    <3>1. Len(wire'[e]) = L - n
      BY <1>2
    <3>2. PICK x \in Nat : x = L - n
      BY <1>1
    <3>3. x + 1 \in Nat /\ (x + 1) + n = L + 1
      BY <1>1, <3>2
    <3> QED
      BY <3>1, <3>2, <3>3
  <2>2. K2[Len(wire'[e]) + 1] = K[(Len(wire'[e]) + 1) + n] /\ J2[Len(wire'[e]) + 1] = J[(Len(wire'[e]) + 1) + n]
    BY <1>5, <2>1
  <2> QED
    BY <2>1, <2>2
<1> QED
  BY <1>10, <1>11, <1>12 DEF EndsAt, L

\* A step of the receiving end keeps the connection if it keeps the packets
\* received, and reads on where the stream now begins.
LEMMA ReaderConn ==
    ASSUME TypeInv, TypeInv', NEW e \in End, ConnOf(e), Step(Peer(e)), NEW n \in 0 .. Len(wire[e]),
           wire'[e] = SubSeq(wire[e], n + 1, Len(wire[e])), faults' >= faults, socket[Peer(e)],
           \A K, J \in Course :
             Stream(e, K, J) /\ Reads(Peer(e), e, K[1], J[1]) /\ Received(Peer(e), e) /\ Len(written[e]) = outId[e]
               => Received(Peer(e), e)' /\ (socket'[Peer(e)] => Reads(Peer(e), e, K[n + 1], J[n + 1])')
    PROVE  ConnOf(e)'
<1> DEFINE r == Peer(e)
<1>1. PICK m \in Nat :
        /\ Queue(e, m) /\ Partly(e, m)
        /\ Clean(e) => Received(r, e) /\ Linked(e, m, r)
  BY DEF ConnOf
<1>2. r \in End /\ Peer(r) = e
  BY TwoEnds
<1>3. /\ tstate'[e] = tstate[e] /\ socket'[e] = socket[e] /\ pc'[e] = pc[e] /\ outId'[e] = outId[e]
      /\ outgoing'[e] = outgoing[e] /\ left'[e] = left[e] /\ written'[e] = written[e]
  BY <1>2, OtherEnd
<1>4. \A k, j : WordOf(e, k, j)' = WordOf(e, k, j) /\ Total(e, k)' = Total(e, k)
  BY <1>3, SameWords
<1>5. Queue(e, m)' /\ Partly(e, m)'
  <2>1. Queue(e, m)'
    BY <1>1, <1>3, SameQueue
  <2>2. Rest(e, m)' = Rest(e, m)
    BY <1>3, <1>4 DEF Rest
  <2> QED
    BY <1>1, <1>3, <1>4, <2>1, <2>2 DEF Partly
<1>6. Clean(e)' => Clean(e)
  <2>1. faults \in Nat /\ faults' \in Nat
    BY DEF TypeInv
  <2> QED
    BY <1>3, <2>1 DEF Clean
<1>7. ASSUME Received(r, e), Linked(e, m, r) PROVE Received(r, e)' /\ Linked(e, m, r)'
  <2>1. PICK K, J \in Course :
          /\ Stream(e, K, J)
          /\ Reads(r, e, K[1], J[1])
          /\ IsUp(e) => Sends(e, m, K[Len(wire[e]) + 1], J[Len(wire[e]) + 1])
    BY <1>7 DEF Linked
  <2>2. Received(r, e)' /\ (socket'[r] => Reads(r, e, K[n + 1], J[n + 1])')
    <3>1. Len(written[e]) = outId[e]
      BY <1>1 DEF Queue
    <3> QED
      BY <1>7, <2>1, <3>1
  <2>3. wire[e] \in Seq(Nat)
    BY DEF TypeInv
  <2>4. PICK K2, J2 \in Course :
          /\ Stream(e, K2, J2)'
          /\ K2[1] = K[n + 1] /\ J2[1] = J[n + 1]
          /\ \A k, j : EndsAt(e, K, J, k, j) => EndsAt(e, K2, J2, k, j)'
    BY <1>3, <2>1, <2>3, StreamShift
  <2>5. \A k, j : Sends(e, m, k, j)' = Sends(e, m, k, j)
    <3>1. Rest(e, m)' = Rest(e, m)
      BY <1>3, <1>4 DEF Rest
    <3> QED
      BY <1>3, <3>1 DEF Sends
  <2>6. IsUp(e)' => Sends(e, m, K2[Len(wire[e]) + 1], J2[Len(wire[e]) + 1])'
    <3>1. IsUp(e)' = IsUp(e)
      BY <1>3 DEF IsUp
    <3>2. EndsAt(e, K, J, K[Len(wire[e]) + 1], J[Len(wire[e]) + 1])
      BY DEF EndsAt
    <3>3. PICK k, j : k = K[Len(wire[e]) + 1] /\ j = J[Len(wire[e]) + 1]
      OBVIOUS
    <3>4. EndsAt(e, K2, J2, k, j)'
      BY <2>4, <3>2, <3>3
    <3>5. IsUp(e)' => Sends(e, m, k, j)'
      BY <2>1, <2>5, <3>1, <3>3
    <3>6. k = K2[Len(wire'[e]) + 1] /\ j = J2[Len(wire'[e]) + 1]
      BY <3>4 DEF EndsAt
    <3> QED
      BY <3>5, <3>6
  <2>7. Linked(e, m, r)'
    <3>1. socket'[r] => Reads(r, e, K2[1], J2[1])'
      BY <2>2, <2>4
    <3> QED
      BY <2>4, <2>6, <3>1 DEF Linked
  <2> QED
    BY <2>2, <2>7
<1> QED
  BY <1>1, <1>5, <1>6, <1>7 DEF ConnOf
\* A word behind the first of a packet does not look like the start of one.
LEMMA NotMagic ==
    ASSUME NEW e \in End, written[e] \in Seq(Payload), Len(written[e]) <= LastId,
           NEW k \in 1 .. Len(written[e]), NEW j \in 1 .. Total(e, k)
    PROVE  /\ WordOf(e, k, j) \in Nat
           /\ j > 1 => WordOf(e, k, j) # Magic
           /\ Total(e, k) = 3 + Len(written[e][k]) /\ Len(written[e][k]) \in 1 .. Magic - 1 /\ j \in Nat /\ j >= 1
<1>1. written[e][k] \in Payload /\ k \in Nat /\ k <= LastId
  BY Numbers
<1>2. /\ Len(written[e][k]) \in 1 .. Magic - 1
      /\ \A i \in 1 .. Len(written[e][k]) : written[e][k][i] \in Nat /\ written[e][k][i] < Magic
  BY <1>1, PayloadWords
<1>3. Total(e, k) = 3 + Len(written[e][k])
  BY DEF Total, HeaderSize
<1>4. j \in Nat /\ j >= 1 /\ j <= 3 + Len(written[e][k])
  BY <1>2, <1>3
<1> SUFFICES WordOf(e, k, j) \in Nat /\ (j > 1 => WordOf(e, k, j) # Magic)
  BY <1>2, <1>3, <1>4
<1>5. CASE j \in {1, 2, 3}
  <2>0. \A x \in Nat : x <= LastId => x < Magic /\ x # Magic
    BY MagicNat, Numbers
  <2>1. Len(written[e][k]) \in Nat /\ Len(written[e][k]) < Magic /\ Len(written[e][k]) # Magic
    <3>1. \A x \in 1 .. Magic - 1 : x \in Nat /\ x < Magic /\ x # Magic
      BY MagicNat
    <3> QED
      BY <1>2, <3>1
  <2>2. CASE j = 1
    BY <2>2, MagicNat DEF WordOf
  <2>3. CASE j = 2
    <3>1. WordOf(e, k, j) = Len(written[e][k])
      BY <2>3 DEF WordOf
    <3> QED
      BY <2>0, <2>1, <3>1
  <2>4. CASE j = 3
    <3>1. WordOf(e, k, j) = k
      BY <2>4 DEF WordOf
    <3> QED
      BY <1>1, <2>0, <3>1
  <2> QED
    BY <1>5, <2>2, <2>3, <2>4
<1>6. CASE j \notin {1, 2, 3}
  <2>1. j - 3 \in 1 .. Len(written[e][k])
    BY <1>2, <1>4, <1>6
  <2>2. WordOf(e, k, j) = written[e][k][j - 3]
    BY <1>6 DEF WordOf, HeaderSize
  <2>3. PICK i \in 1 .. Len(written[e][k]) : i = j - 3
    BY <2>1
  <2>4. written[e][k][i] \in Nat /\ written[e][k][i] < Magic
    BY <1>2
  <2>5. WordOf(e, k, j) = written[e][k][i]
    BY <2>2, <2>3
  <2>6. \A x \in Nat : x < Magic => x # Magic
    BY MagicNat
  <2> QED
    BY <2>4, <2>5, <2>6
<1> QED
  BY <1>2, <1>3, <1>4, <1>5, <1>6

\* In step: a header is accepted, and a whole packet is the one written.
LEMMA GoesOn ==
    ASSUME NEW r \in End, NEW e \in End, NEW p \in InPacket, incId[r] \in Nat,
           written[e] \in Seq(Payload), Len(written[e]) <= LastId,
           NEW k \in 1 .. Len(written[e]), NEW j \in 1 .. Total(e, k), NEW k2, NEW j2,
           Follows(e, k, j, k2, j2), InStep(r, e, p, k, j), NEW w \in Nat, w = WordOf(e, k, j), ~p.complete
    PROVE  /\ Len(p.header) < HeaderSize =>
                /\ ~(Whole(PutHeader(p, w)) /\ Refusable(PutHeader(p, w), incId[r]))
                /\ InStep(r, e, PutHeader(p, w), k2, j2)
           /\ Len(p.header) >= HeaderSize =>
                /\ ~Refusable(p, incId[r])
                /\ ~PutBody(p, w).complete => InStep(r, e, PutBody(p, w), k2, j2)
                /\ PutBody(p, w).complete => /\ PutBody(p, w).body = written[e][k] /\ k = incId[r] + 1
                                             /\ k2 = k + 1 /\ j2 = 1
<1> DEFINE h == PutHeader(p, w)
           q == PutBody(p, w)
           T == Total(e, k)
<1>1. /\ p.header \in Seq(Nat) /\ Len(p.header) \in Nat /\ p.body \in Seq(Nat) /\ Len(p.body) \in Nat
  BY PacketParts
<1>2. /\ h \in InPacket /\ h.header = Append(p.header, w) /\ h.body = p.body /\ h.null = p.null
      /\ q \in InPacket /\ q.header = p.header /\ q.body = Append(p.body, w)
      /\ q.complete = (Len(p.body) + 1 = p.header[2]) /\ q.null = p.null
  BY PutWord
<1>3. /\ T = 3 + Len(written[e][k]) /\ Len(written[e][k]) \in 1 .. Magic - 1 /\ j \in Nat /\ j >= 1 /\ k \in Nat
      /\ j <= T
  BY NotMagic
<1>4. /\ ~p.null /\ k = incId[r] + 1 /\ j = Len(p.header) + Len(p.body) + 1
      /\ Len(p.header) <= 3 /\ (Len(p.header) < 3 => p.body = <<>>)
      /\ \A i \in 1 .. Len(p.header) : p.header[i] = WordOf(e, k, i)
      /\ \A i \in 1 .. Len(p.body) : p.body[i] = written[e][k][i]
  BY DEF InStep, HeaderSize
<1>9. PICK a \in Nat, b \in Nat : a = Len(p.header) /\ b = Len(p.body)
  BY <1>1
<1>10. j = a + b + 1 /\ a <= 3 /\ (a < 3 => b = 0 /\ p.body = <<>>)
  <2>1. j = a + b + 1 /\ a <= 3 /\ (a < 3 => p.body = <<>>)
    BY <1>4, <1>9
  <2> QED
    BY <1>9, <2>1
<1>5. IF j < T THEN k2 = k /\ j2 = j + 1 ELSE k2 = k + 1 /\ j2 = 1
  BY DEF Follows
<1>6. WordOf(e, k, 1) = Magic /\ WordOf(e, k, 2) = Len(written[e][k]) /\ WordOf(e, k, 3) = k
  BY DEF WordOf
<1> HIDE DEF h, q, T
<1>7. ASSUME Len(p.header) < 3
      PROVE  ~(Whole(h) /\ Refusable(h, incId[r])) /\ InStep(r, e, h, k2, j2)
  <2>1. p.body = <<>> /\ Len(p.body) = 0 /\ j = Len(p.header) + 1 /\ j <= 3
    <3>1. a < 3
      BY <1>7, <1>9
    <3>2. b = 0 /\ p.body = <<>> /\ j = a + 1 /\ j <= 3
      BY <1>10, <3>1
    <3> QED
      BY <1>9, <3>2
  <2>2. /\ Len(h.header) = Len(p.header) + 1
        /\ \A i \in 1 .. Len(p.header) : h.header[i] = p.header[i]
        /\ h.header[Len(p.header) + 1] = w
    BY <1>1, <1>2
  <2>3. \A i \in 1 .. Len(h.header) : h.header[i] = WordOf(e, k, i)
    <3> TAKE i \in 1 .. Len(h.header)
    <3>1. i \in 1 .. Len(p.header) \/ i = Len(p.header) + 1
      BY <1>1, <2>2
    <3> QED
      BY <1>4, <2>1, <2>2, <3>1
  <2>4. k2 = k /\ j2 = j + 1 /\ j + 1 <= T
    <3>1. PICK x \in 1 .. Magic - 1 : x = Len(written[e][k])
      BY <1>3
    <3>2. T = 3 + x /\ j \in Nat /\ j <= 3
      BY <1>3, <2>1, <3>1
    <3>3. j + 1 <= T /\ j < T
      BY <3>2
    <3> QED
      BY <1>5, <3>3
  <2>5. ~(Whole(h) /\ Refusable(h, incId[r]))
    <3> SUFFICES ASSUME Len(h.header) = 3 PROVE ~Refusable(h, incId[r])
      BY DEF Whole, HeaderSize
    <3>1. h.header[1] = Magic /\ h.header[3] = k
      BY <1>6, <2>3
    <3> QED
      BY <1>4, <3>1 DEF Refusable, Misaligned, Misordered
  <2>6. InStep(r, e, h, k2, j2)
    <3>1. Len(h.header) <= HeaderSize /\ h.body = <<>> /\ Len(h.body) = 0 /\ ~h.null
      BY <1>1, <1>2, <1>4, <1>7, <2>1, <2>2 DEF HeaderSize
    <3>2. j2 = Len(h.header) + Len(h.body) + 1
      BY <1>1, <2>1, <2>2, <2>4, <3>1
    <3>3. k2 <= Len(written[e]) /\ j2 <= Total(e, k2)
      BY <2>4 DEF T
    <3>4. \A i \in 1 .. Len(h.body) : h.body[i] = written[e][k2][i]
      BY <3>1
    <3>5. k2 = incId[r] + 1
      BY <1>4, <2>4
    <3>6. \A i \in 1 .. Len(h.header) : h.header[i] = WordOf(e, k2, i)
      BY <2>3, <2>4
    <3> QED
      BY <3>1, <3>2, <3>3, <3>4, <3>5, <3>6 DEF InStep
  <2> QED
    BY <2>5, <2>6
<1>8. ASSUME Len(p.header) >= 3
      PROVE  /\ ~Refusable(p, incId[r])
             /\ ~q.complete => InStep(r, e, q, k2, j2)
             /\ q.complete => q.body = written[e][k] /\ k = incId[r] + 1 /\ k2 = k + 1 /\ j2 = 1
  <2>1. Len(p.header) = 3 /\ j = 3 + Len(p.body) + 1
    <3>0. a >= 3
      BY <1>8, <1>9
    <3>1. a = 3
      BY <1>10, <3>0
    <3> QED
      BY <1>9, <1>10, <3>1
  <2>2. p.header[1] = Magic /\ p.header[2] = Len(written[e][k]) /\ p.header[3] = k
    BY <1>4, <1>6, <2>1
  <2>3. ~Refusable(p, incId[r])
    BY <1>4, <2>2 DEF Refusable, Misaligned, Misordered
  <2>4. w = written[e][k][Len(p.body) + 1]
    <3>1. j \notin {1, 2, 3} /\ j - 3 = Len(p.body) + 1
      BY <1>1, <2>1
    <3> QED
      BY <3>1 DEF WordOf, HeaderSize
  <2>5. Len(q.body) = Len(p.body) + 1 /\ \A i \in 1 .. Len(q.body) : q.body[i] = written[e][k][i]
    <3>1. /\ Len(q.body) = Len(p.body) + 1
          /\ \A i \in 1 .. Len(p.body) : q.body[i] = p.body[i]
          /\ q.body[Len(p.body) + 1] = w
      BY <1>1, <1>2
    <3>2. \A i \in 1 .. Len(q.body) : i \in 1 .. Len(p.body) \/ i = Len(p.body) + 1
      BY <1>1, <3>1
    <3> QED
      BY <1>4, <2>4, <3>1, <3>2
  <2>6. q.complete <=> Len(p.body) + 1 = Len(written[e][k])
    BY <1>2, <2>2
  <2>7. ASSUME ~q.complete PROVE InStep(r, e, q, k2, j2)
    <3>1. Len(p.body) + 1 < Len(written[e][k])
      <4>1. Len(p.body) + 1 # Len(written[e][k])
        BY <2>6, <2>7
      <4> QED
        BY <1>1, <1>3, <2>1, <4>1, SMTT(30)
    <3>2. k2 = k /\ j2 = j + 1 /\ j + 1 <= T
      BY <1>1, <1>3, <1>5, <2>1, <3>1, SMTT(30)
    <3>3. j2 = Len(q.header) + Len(q.body) + 1 /\ Len(q.header) = 3 /\ ~q.null
      BY <1>1, <1>2, <1>4, <2>1, <2>5, <3>2
    <3>4. \A i \in 1 .. Len(q.header) : q.header[i] = WordOf(e, k2, i)
      BY <1>2, <1>4, <3>2
    <3>5. \A i \in 1 .. Len(q.body) : q.body[i] = written[e][k2][i]
      BY <2>5, <3>2
    <3>6. k2 = incId[r] + 1 /\ k2 <= Len(written[e]) /\ j2 <= Total(e, k2)
      <4>1. k2 = incId[r] + 1 /\ j2 <= Total(e, k2)
        BY <1>4, <3>2 DEF T
      <4>2. k <= Len(written[e])
        OBVIOUS
      <4> QED
        BY <3>2, <4>1, <4>2
    <3> QED
      BY <3>3, <3>4, <3>5, <3>6 DEF InStep, HeaderSize
  <2>8. ASSUME q.complete PROVE q.body = written[e][k] /\ k = incId[r] + 1 /\ k2 = k + 1 /\ j2 = 1
    <3>1. Len(p.body) + 1 = Len(written[e][k])
      BY <2>6, <2>8
    <3>2. ~(j < T)
      BY <1>1, <1>3, <2>1, <3>1
    <3>3. q.body = written[e][k]
      <4>1. q.body \in Seq(Nat) /\ written[e][k] \in Seq(Nat) /\ Len(q.body) = Len(written[e][k])
        BY <1>2, <2>5, <3>1, PacketParts, PayloadWords
      <4> QED
        BY <2>5, <4>1, SeqEqual
    <3> QED
      BY <1>4, <1>5, <3>2, <3>3
  <2> QED
    BY <2>3, <2>7, <2>8
<1> QED
  BY <1>7, <1>8 DEF h, q, HeaderSize

\* Out of step: no header is accepted.
LEMMA StaysOut ==
    ASSUME NEW r \in End, NEW e \in End, NEW p \in InPacket, incId[r] \in Nat,
           written[e] \in Seq(Payload), Len(written[e]) <= LastId,
           NEW k \in 1 .. Len(written[e]), NEW j \in 1 .. Total(e, k), NEW k2, NEW j2,
           Follows(e, k, j, k2, j2), OutOfStep(r, p, k, j), NEW w \in Nat, w = WordOf(e, k, j)
    PROVE  /\ Len(p.header) < HeaderSize =>
                /\ Whole(PutHeader(p, w)) => Refusable(PutHeader(p, w), incId[r])
                /\ ~Whole(PutHeader(p, w)) => OutOfStep(r, PutHeader(p, w), k2, j2)
           /\ Len(p.header) >= HeaderSize => Whole(p) /\ (p.null \/ Refusable(p, incId[r]))
<1> DEFINE h == PutHeader(p, w)
           T == Total(e, k)
<1>1. /\ p.header \in Seq(Nat) /\ Len(p.header) \in Nat /\ (p.header = <<>> <=> Len(p.header) = 0)
  BY PacketParts
<1>2. h.header = Append(p.header, w)
  BY PutWord
<1>3. /\ T = 3 + Len(written[e][k]) /\ Len(written[e][k]) \in 1 .. Magic - 1 /\ j \in Nat /\ j >= 1 /\ k \in Nat
      /\ j <= T /\ (j > 1 => w # Magic)
  BY NotMagic
<1>4. /\ faults > 0
      /\ \/ Len(p.header) = 3 /\ (p.null \/ Refusable(p, incId[r]))
         \/ Len(p.header) = 0 /\ (k > incId[r] + 1 \/ (k = incId[r] + 1 /\ j > 1))
         \/ Len(p.header) \in {1, 2} /\ (p.header[1] # Magic \/ (k > incId[r] + 1 /\ j = Len(p.header) + 1))
  BY <1>1 DEF OutOfStep, HeaderSize, Refusable
<1>5. IF j < T THEN k2 = k /\ j2 = j + 1 ELSE k2 = k + 1 /\ j2 = 1
  BY DEF Follows
<1>6. j2 >= 1
  BY <1>3, <1>5
<1> HIDE DEF h, T
<1>7. /\ Len(h.header) = Len(p.header) + 1
      /\ \A i \in 1 .. Len(p.header) : h.header[i] = p.header[i]
      /\ h.header[Len(p.header) + 1] = w
  BY <1>1, <1>2
<1>8. CASE Len(p.header) = 0 /\ (k > incId[r] + 1 \/ (k = incId[r] + 1 /\ j > 1))
  <2>1. Len(h.header) = 1 /\ h.header[1] = w
    BY <1>7, <1>8
  <2>2. h.header[1] # Magic \/ (k2 > incId[r] + 1 /\ j2 = Len(h.header) + 1)
    <3>1. CASE j > 1
      BY <1>3, <2>1, <3>1
    <3>2. CASE ~(j > 1)
      BY <1>3, <1>5, <1>8, <2>1, <3>2
    <3> QED
      BY <3>1, <3>2
  <2>3. OutOfStep(r, h, k2, j2)
    BY <1>4, <1>6, <2>1, <2>2 DEF OutOfStep
  <2> QED
    BY <1>8, <2>1, <2>3 DEF Whole, HeaderSize, h
<1>9. CASE Len(p.header) \in {1, 2} /\ (p.header[1] # Magic \/ (k > incId[r] + 1 /\ j = Len(p.header) + 1))
  <2>1. h.header[1] = p.header[1]
    BY <1>7, <1>9
  <2>2. CASE Len(p.header) = 1
    <3>1. Len(h.header) = 2
      BY <1>7, <2>2
    <3>2. h.header[1] # Magic \/ (k2 > incId[r] + 1 /\ j2 = Len(h.header) + 1)
      BY <1>3, <1>5, <1>9, <2>1, <2>2, <3>1
    <3>3. OutOfStep(r, h, k2, j2)
      BY <1>4, <1>6, <3>1, <3>2 DEF OutOfStep
    <3> QED
      BY <2>2, <3>1, <3>3 DEF Whole, HeaderSize, h
  <2>3. CASE Len(p.header) = 2
    <3>1. Len(h.header) = 3 /\ h.header[3] = w
      BY <1>7, <2>3
    <3>2. Refusable(h, incId[r])
      <4>1. CASE p.header[1] # Magic
        BY <2>1, <4>1 DEF Refusable, Misaligned
      <4>2. CASE k > incId[r] + 1 /\ j = Len(p.header) + 1
        <5>1. w = k /\ k # incId[r] + 1
          BY <1>3, <2>3, <4>2 DEF WordOf
        <5> QED
          BY <3>1, <5>1 DEF Refusable, Misordered
      <4> QED
        BY <1>9, <4>1, <4>2
    <3> QED
      BY <2>3, <3>1, <3>2 DEF Whole, HeaderSize, h
  <2> QED
    BY <1>9, <2>2, <2>3
<1>10. CASE Len(p.header) = 3 /\ (p.null \/ Refusable(p, incId[r]))
  BY <1>10 DEF Whole, HeaderSize
<1> QED
  BY <1>4, <1>8, <1>9, <1>10
\* A packet put at the end of the list is the one to go on with, unless it is
\* complete.
LEMMA PutCurrent ==
    ASSUME NEW r \in End, incoming[r] \in Seq(InPacket), incoming[r] # <<>>, NEW q \in InPacket,
           incoming'[r] = SetLatest(incoming[r], q)
    PROVE  Current(r)' = IF q.complete THEN FreshPacket ELSE q
<1> DEFINE s == SetLatest(incoming[r], q)
<1>1. /\ s \in Seq(InPacket) /\ s # <<>> /\ Len(s) = Closed(incoming[r]) + 1
      /\ s[Closed(incoming[r]) + 1] = q
  BY LatestList
<1>2. s[Len(s)] = q
  BY <1>1
<1> HIDE DEF s
<1>3. Latest(s) = IF q.complete THEN FreshPacket ELSE q
  <2>1. Latest(s) = IF s[Len(s)].complete THEN FreshPacket ELSE s[Len(s)]
    BY <1>1, LatestList
  <2> QED
    BY <1>2, <2>1
<1>4. Current(r)' = IF s = <<>> THEN FreshPacket ELSE Latest(s)
  BY DEF Current, s
<1> QED
  BY <1>1, <1>3, <1>4

\* The packets received stay the first written when one grows, or is complete.
LEMMA PutReceived ==
    ASSUME NEW r \in End, NEW e \in End, Received(r, e),
           incoming[r] \in Seq(InPacket), incoming[r] # <<>>, NEW q \in InPacket,
           incId[r] \in Nat, Len(delivered[r]) \in Nat, Len(written[e]) \in Nat,
           incoming'[r] = SetLatest(incoming[r], q),
           delivered'[r] = delivered[r], written'[e] = written[e],
           \/ ~q.complete /\ incId'[r] = incId[r]
           \/ /\ q.complete /\ incId'[r] = incId[r] + 1 /\ incId[r] + 1 <= Len(written[e])
              /\ q.body = written[e][incId[r] + 1]
    PROVE  Received(r, e)'
<1> DEFINE s == incoming[r]
           t == SetLatest(s, q)
<1>1. PICK d \in Nat, n \in Nat, l \in Nat, L \in Nat :
        d = Len(delivered[r]) /\ n = incId[r] /\ l = Len(written[e]) /\ L = Len(s)
  OBVIOUS
<1>2. /\ d <= n /\ n <= l
      /\ \A i \in 1 .. d : delivered[r][i] = written[e][i]
      /\ L \in {n - d, n - d + 1}
      /\ \A i \in 1 .. n - d : s[i].complete /\ s[i].body = written[e][d + i]
      /\ L = n - d + 1 => ~s[n - d + 1].complete
  BY <1>1 DEF Received
<1>3. PICK c \in Nat : c = n - d /\ n = c + d
  BY <1>2
<1>4. Closed(s) = c
  <2>1. L >= 1
    BY <1>1
  <2>2. CASE L = c
    <3>1. s[L].complete
      BY <1>2, <1>3, <2>1, <2>2
    <3> QED
      BY <1>1, <2>2, <3>1 DEF Closed
  <2>3. CASE L = c + 1
    <3>1. ~s[L].complete
      BY <1>2, <1>3, <2>3
    <3> QED
      BY <1>1, <2>3, <3>1 DEF Closed
  <2> QED
    BY <1>2, <1>3, <2>2, <2>3
<1>5. /\ t \in Seq(InPacket) /\ Len(t) = c + 1 /\ t[c + 1] = q
      /\ \A i \in 1 .. c : t[i] = s[i]
  BY <1>4, LatestList
<1> HIDE DEF s, t
<1>6. \A i \in 1 .. c : t[i].complete /\ t[i].body = written[e][d + i]
  BY <1>2, <1>3, <1>5
<1>7. incoming'[r] = t
  BY DEF s, t
<1>8. CASE ~q.complete /\ incId'[r] = incId[r]
  <2>1. incId'[r] - Len(delivered'[r]) = c /\ Len(incoming'[r]) = c + 1 /\ incId'[r] = n /\ Len(delivered'[r]) = d
        /\ Len(written'[e]) = l
    BY <1>1, <1>3, <1>5, <1>7, <1>8
  <2>2. \A i \in 1 .. Len(delivered'[r]) : delivered'[r][i] = written'[e][i]
    BY <1>2, <2>1
  <2>3. \A i \in 1 .. incId'[r] - Len(delivered'[r]) :
          incoming'[r][i].complete /\ incoming'[r][i].body = written'[e][Len(delivered'[r]) + i]
    BY <1>6, <1>7, <2>1
  <2>4. ~incoming'[r][c + 1].complete
    BY <1>5, <1>7, <1>8
  <2> QED
    BY <1>2, <2>1, <2>2, <2>3, <2>4 DEF Received
<1>9. CASE /\ q.complete /\ incId'[r] = incId[r] + 1 /\ incId[r] + 1 <= Len(written[e])
           /\ q.body = written[e][incId[r] + 1]
  <2>1. incId'[r] - Len(delivered'[r]) = c + 1 /\ Len(incoming'[r]) = c + 1 /\ incId'[r] = n + 1
        /\ Len(delivered'[r]) = d /\ Len(written'[e]) = l /\ n + 1 <= l /\ d <= n + 1
    BY <1>1, <1>2, <1>3, <1>5, <1>7, <1>9
  <2>2. \A i \in 1 .. c + 1 : t[i].complete /\ t[i].body = written[e][d + i]
    <3> TAKE i \in 1 .. c + 1
    <3>1. CASE i \in 1 .. c
      BY <1>6, <3>1
    <3>2. CASE i = c + 1
      <4>1. n + 1 = d + (c + 1)
        BY <1>3
      <4> QED
        BY <1>1, <1>5, <1>9, <3>2, <4>1
    <3> QED
      BY <3>1, <3>2
  <2>3. c + 1 # (c + 1) + 1 /\ c + 1 \in {c + 1, c + 2}
    OBVIOUS
  <2> QED
    BY <1>2, <1>7, <2>1, <2>2, <2>3 DEF Received
<1> QED
  BY <1>8, <1>9

\* Handing over the first packet of the list.
LEMMA HandOver ==
    ASSUME NEW r \in End, NEW e \in End, Received(r, e),
           incoming[r] \in Seq(InPacket), incoming[r] # <<>>, Head(incoming[r]).complete,
           incId[r] \in Nat, delivered[r] \in Seq(Seq(Nat)), Len(written[e]) \in Nat,
           incoming'[r] = Tail(incoming[r]), delivered'[r] = Append(delivered[r], Head(incoming[r]).body),
           incId'[r] = incId[r], written'[e] = written[e]
    PROVE  /\ Received(r, e)' /\ Current(r)' = Current(r)
           /\ Len(delivered[r]) < Len(written[e])
           /\ Head(incoming[r]).body = written[e][Len(delivered[r]) + 1]
<1> DEFINE s == incoming[r]
           t == Tail(s)
           x == Head(s).body
<1>1. PICK d \in Nat, n \in Nat, l \in Nat, L \in Nat \ {0} :
        d = Len(delivered[r]) /\ n = incId[r] /\ l = Len(written[e]) /\ L = Len(s)
  OBVIOUS
<1>2. /\ d <= n /\ n <= l
      /\ \A i \in 1 .. d : delivered[r][i] = written[e][i]
      /\ L \in {n - d, n - d + 1}
      /\ \A i \in 1 .. n - d : s[i].complete /\ s[i].body = written[e][d + i]
      /\ L = n - d + 1 => ~s[n - d + 1].complete
  BY <1>1 DEF Received
<1>3. s[1] = Head(s) /\ s[1].complete /\ x \in Seq(Nat)
  <2>1. s[1] = Head(s) /\ s[1] \in InPacket
    BY <1>1
  <2> QED
    BY <2>1, PacketParts
<1>4. PICK c \in Nat : c = n - d - 1 /\ n = d + 1 + c
  <2>1. n # d
    <3>1. n = d => L = 1 /\ L = n - d + 1
      BY <1>1, <1>2
    <3> QED
      BY <1>2, <1>3, <3>1
  <2> QED
    BY <1>2, <2>1
<1>5. x = written[e][d + 1] /\ d < l
  BY <1>2, <1>3, <1>4
<1>6. t \in Seq(InPacket) /\ Len(t) = L - 1 /\ \A i \in 1 .. L - 1 : t[i] = s[i + 1]
  BY <1>1
<1>7. /\ Len(delivered'[r]) = d + 1
      /\ \A i \in 1 .. d : delivered'[r][i] = delivered[r][i]
      /\ delivered'[r][d + 1] = x
  BY <1>1, <1>3
<1>8. incoming'[r] = t /\ Current(r)' = (IF t = <<>> THEN FreshPacket ELSE Latest(t))
      /\ Current(r) = Latest(s)
  BY DEF Current
<1>14. s \in Seq(InPacket) /\ s # <<>>
  OBVIOUS
<1>15. /\ Latest(s) = IF s[Len(s)].complete THEN FreshPacket ELSE s[Len(s)]
       /\ t # <<>> => Latest(t) = IF t[Len(t)].complete THEN FreshPacket ELSE t[Len(t)]
  <2> HIDE DEF s, t
  <2> QED
    BY <1>6, <1>14, LatestList, FreshType
<1>9. Current(r)' = Current(r)
  <2> HIDE DEF s, t
  <2>1. CASE L = 1
    <3>1. Len(t) = 0 /\ t = <<>>
      BY <1>6, <2>1
    <3>2. s[Len(s)].complete
      BY <1>1, <1>3, <2>1
    <3>3. Latest(s) = FreshPacket
      BY <3>2, <1>15
    <3> QED
      BY <1>8, <3>1, <3>3
  <2>2. CASE L # 1
    <3>0. L - 1 \in 1 .. L - 1 /\ (L - 1) + 1 = L /\ L - 1 # 0
      BY <2>2
    <3>1. Len(t) # 0 /\ t # <<>> /\ t[L - 1] = s[L]
      BY <1>6, <3>0
    <3>2. t[Len(t)] = s[Len(s)]
      BY <1>1, <1>6, <3>1
    <3> QED
      BY <1>8, <1>15, <3>1, <3>2
  <2> QED
    BY <2>1, <2>2
<1> HIDE DEF s, t, x
<1>10. \A i \in 1 .. d + 1 : delivered'[r][i] = written'[e][i]
  <2> TAKE i \in 1 .. d + 1
  <2>1. i \in 1 .. d \/ i = d + 1
    OBVIOUS
  <2> QED
    BY <1>2, <1>5, <1>7, <2>1
<1>11. \A i \in 1 .. c : t[i].complete /\ t[i].body = written'[e][(d + 1) + i]
  <2> TAKE i \in 1 .. c
  <2>1. i \in 1 .. L - 1 /\ i + 1 \in 1 .. n - d /\ d + (i + 1) = (d + 1) + i
    BY <1>2, <1>4
  <2>2. s[i + 1].complete /\ s[i + 1].body = written[e][d + (i + 1)]
    BY <1>2, <2>1
  <2> QED
    BY <1>6, <2>1, <2>2
<1>12. Len(t) \in {c, c + 1} /\ (Len(t) = c + 1 => ~t[c + 1].complete)
  <2>1. L \in {c + 1, c + 2}
    BY <1>2, <1>4
  <2>2. CASE L = c + 1
    BY <1>6, <2>2
  <2>3. CASE L = c + 2
    <3>1. c + 1 \in 1 .. L - 1 /\ (c + 1) + 1 = n - d + 1 /\ L = n - d + 1 /\ L - 1 = c + 1
      BY <1>4, <2>3
    <3>2. t[c + 1] = s[(c + 1) + 1]
      BY <1>6, <3>1
    <3> QED
      BY <1>2, <1>6, <3>1, <3>2
  <2> QED
    BY <2>1, <2>2, <2>3
<1>13. Received(r, e)'
  <2>0. n - (d + 1) = c /\ d + 1 <= n
    BY <1>4
  <2>1. incId'[r] = n /\ Len(written'[e]) = l
    BY <1>1
  <2>2. incId'[r] - Len(delivered'[r]) = c
    BY <1>7, <2>0, <2>1
  <2>3. \A i \in 1 .. Len(delivered'[r]) : delivered'[r][i] = written'[e][i]
    BY <1>7, <1>10
  <2>4. \A i \in 1 .. incId'[r] - Len(delivered'[r]) :
          incoming'[r][i].complete /\ incoming'[r][i].body = written'[e][Len(delivered'[r]) + i]
    BY <1>7, <1>8, <1>11, <2>2
  <2>5. Len(incoming'[r]) \in {c, c + 1} /\ (Len(incoming'[r]) = c + 1 => ~incoming'[r][c + 1].complete)
    BY <1>8, <1>12
  <2>6. Len(delivered'[r]) <= incId'[r] /\ incId'[r] <= Len(written'[e])
    BY <1>2, <1>7, <2>0, <2>1
  <2> QED
    BY <2>2, <2>3, <2>4, <2>5, <2>6 DEF Received
<1> QED
  BY <1>1, <1>5, <1>9, <1>13 DEF x, s
\* The words behind the first are later ones.
LEMMA LaterPlace ==
    ASSUME NEW e \in End, NEW K \in Course, NEW J \in Course, Stream(e, K, J),
           wire[e] \in Seq(Nat), NEW n \in 1 .. Len(wire[e])
    PROVE  /\ K[1] \in Nat /\ J[1] \in Nat /\ K[n + 1] \in Nat /\ J[n + 1] \in Nat /\ J[n + 1] >= 1
           /\ Before(K[1], J[1], K[n + 1], J[n + 1])
<1>1. PICK L \in Nat : L = Len(wire[e])
  OBVIOUS
<1>2. n \in Nat /\ n <= L /\ n >= 1 /\ 1 \in 1 .. L + 1 /\ n + 1 \in 1 .. L + 1 /\ 1 < n + 1 /\ n + 1 \in Nat
  BY <1>1
<1>3. K[1] \in Nat /\ J[1] \in Nat /\ K[n + 1] \in Nat /\ J[n + 1] \in Nat /\ J[n] \in Nat
  BY <1>2 DEF Course
<1>4. Before(K[1], J[1], K[n + 1], J[n + 1])
  BY <1>1, <1>2 DEF Stream
<1>5. Follows(e, K[n], J[n], K[n + 1], J[n + 1])
  BY DEF Stream
<1>6. J[n + 1] = J[n] + 1 \/ J[n + 1] = 1
  BY <1>5 DEF Follows
<1>7. J[n + 1] >= 1
  BY <1>3, <1>6
<1> QED
  BY <1>3, <1>4, <1>7

\* The first word, and where the second one is.
LEMMA FirstWord ==
    ASSUME NEW e \in End, NEW K \in Course, NEW J \in Course, Stream(e, K, J),
           wire[e] \in Seq(Nat), wire[e] # <<>>
    PROVE  /\ K[1] \in 1 .. Len(written[e]) /\ J[1] \in 1 .. Total(e, K[1])
           /\ wire[e][1] = WordOf(e, K[1], J[1])
           /\ Follows(e, K[1], J[1], K[2], J[2])
           /\ K[2] \in Nat /\ J[2] \in Nat
<1>1. 1 \in 1 .. Len(wire[e])
  OBVIOUS
<1>2. K[2] \in Nat /\ J[2] \in Nat
  BY DEF Course
<1>3. 1 + 1 = 2
  OBVIOUS
<1> QED
  BY <1>1, <1>2, <1>3 DEF Stream

\* A packet that the receiver would not accept stays where it is.
LEMMA RefusedOut ==
    ASSUME TypeInv, TypeInv', NEW r \in End, NEW p, Len(p.header) = HeaderSize, p.null \/ Refusable(p, incId[r]),
           faults > 0, faults' >= faults, incId'[r] = incId[r], NEW k \in Nat, NEW j \in Nat, j >= 1
    PROVE  OutOfStep(r, p, k, j)'
<1>1. faults' > 0
  BY DEF TypeInv
<1> QED
  BY <1>1 DEF OutOfStep, Refusable, Misaligned, Misordered

\* A receiver that reads a word goes on with the next, or has lost the thread
\* before and refuses the packet.
LEMMA ReadWordConn ==
    ASSUME TypeInv, TypeInv', EndInv, NEW e \in End, ConnOf(e), ReadWord(Peer(e))
    PROVE  ConnOf(e)'
<1> DEFINE r == Peer(e)
           w == Head(wire[e])
           p == Latest(incoming[r])
           h == PutHeader(p, w)
           b == PutBody(p, w)
<1>1. r \in End /\ Peer(r) = e
  BY TwoEnds
<1>2. Step(r)
  BY DEF Step
<1>3. /\ w \in Nat /\ w = wire[e][1] /\ p \in InPacket /\ ~p.complete /\ h \in InPacket
      /\ wire[e] \in Seq(Nat) /\ wire[e] # <<>>
      /\ incoming[r] \in Seq(InPacket) /\ incoming[r] # <<>>
      /\ Current(r) = p
      /\ UNCHANGED <<outId, written, delivered>>
      /\ \/ /\ Len(p.header) < HeaderSize
            /\ \/ Whole(h) /\ Refusable(h, incId[r]) /\ \E f : Refused(r, h, f)
               \/ ~(Whole(h) /\ Refusable(h, incId[r])) /\ Taken(r, h)
         \/ /\ Len(p.header) >= HeaderSize
            /\ \/ Whole(p) /\ Refusable(p, incId[r]) /\ \E f : Refused(r, p, f)
               \/ ~Refusable(p, incId[r]) /\ ~p.null /\ Taken(r, b)
  BY <1>1, ReadWordCases
<1>4. Len(p.header) \in Nat /\ ~h.complete /\ b \in InPacket
  <2> HIDE DEF p, w
  <2>1. PutHeader(p, w).complete = p.complete /\ PutBody(p, w) \in InPacket
    BY <1>3, PutWord
  <2>2. Len(p.header) \in Nat
    BY <1>3, PacketParts
  <2> QED
    BY <1>3, <2>1, <2>2
<1>5. /\ incId[r] \in Nat /\ Len(delivered[r]) \in Nat /\ written[e] \in Seq(Payload) /\ Len(written[e]) \in Nat
      /\ delivered'[r] = delivered[r] /\ written'[e] = written[e] /\ faults \in Nat /\ outId[e] <= LastId
  <2>1. outId[e] <= LastId
    <3>1. outId[e] <= MaxPackets[e] + (IF leaving[e] THEN 1 ELSE 0) /\ outId[e] \in Nat
      BY DEF EndInv, EndOf, TypeInv
    <3>2. MaxPackets[e] \in Nat /\ LastId \in Nat /\ MaxPackets[e] + 1 <= LastId
      BY Numbers
    <3> QED
      BY <3>1, <3>2
  <2>2. delivered[r] \in Seq(Seq(Nat)) /\ written[e] \in Seq(Payload) /\ incId[r] \in Nat /\ faults \in Nat
    BY <1>1 DEF TypeInv
  <2> QED
    BY <1>3, <2>1, <2>2
<1> HIDE DEF r, p, w, h, b
<1>6. ASSUME NEW f, NEW q, Refused(r, q, f), ~q.complete, q \in InPacket, Whole(q), Refusable(q, incId[r]),
             \A K, J \in Course :
               Stream(e, K, J) /\ Len(written[e]) <= LastId => ~InStep(r, e, p, K[1], J[1])
      PROVE  ConnOf(e)'
  <2>1. PICK n \in 1 .. Len(wire[e]) : wire'[e] = SubSeq(wire[e], n + 1, Len(wire[e]))
    BY <1>1, <1>6 DEF Refused, DropBuffer, TypeInv
  <2>2. incoming'[r] = SetLatest(incoming[r], q) /\ incId' = incId /\ faults' = faults
    BY <1>1, <1>6 DEF Refused, TypeInv
  <2>3. Current(r)' = q
    BY <1>1, <1>3, <1>6, <2>2, PutCurrent
  <2>4. ASSUME NEW K \in Course, NEW J \in Course, Stream(e, K, J), Reads(r, e, K[1], J[1]), Received(r, e),
               Len(written[e]) = outId[e]
        PROVE  Received(r, e)' /\ (socket'[r] => Reads(r, e, K[n + 1], J[n + 1])')
    <3>1. OutOfStep(r, p, K[1], J[1])
      BY <1>3, <1>5, <1>6, <2>4 DEF Reads
    <3>2. faults > 0
      BY <3>1 DEF OutOfStep
    <3>3. PICK k \in Nat, j \in Nat : k = K[n + 1] /\ j = J[n + 1] /\ j >= 1
      BY <1>3, <2>4, LaterPlace
    <3>4. OutOfStep(r, q, k, j)'
      BY <1>1, <1>5, <1>6, <2>2, <3>2, <3>3, RefusedOut DEF Whole
    <3>5. Received(r, e)'
      BY <1>1, <1>3, <1>5, <1>6, <2>2, <2>4, PutReceived
    <3> QED
      BY <2>3, <3>3, <3>4, <3>5 DEF Reads
  <2>5. n \in 0 .. Len(wire[e]) /\ faults' >= faults /\ socket[r]
    <3>1. socket[r]
      BY <1>1 DEF ReadWord, EndInv, EndOf, r
    <3> QED
      BY <1>5, <2>2, <3>1
  <2> QED
    BY <1>2, <2>1, <2>4, <2>5, ReaderConn DEF r
<1>7. ASSUME NEW q \in InPacket, Taken(r, q),
             \A K, J \in Course :
               Stream(e, K, J) /\ Len(written[e]) <= LastId =>
                 /\ InStep(r, e, p, K[1], J[1]) =>
                      /\ ~q.complete => InStep(r, e, q, K[2], J[2])
                      /\ q.complete => /\ incId[r] + 1 <= Len(written[e]) /\ q.body = written[e][incId[r] + 1]
                                       /\ K[2] = incId[r] + 2 /\ J[2] = 1
                 /\ OutOfStep(r, p, K[1], J[1]) => ~q.complete /\ OutOfStep(r, q, K[2], J[2])
      PROVE  ConnOf(e)'
  <2>1. /\ incoming'[r] = SetLatest(incoming[r], q) /\ incId'[r] = (IF q.complete THEN incId[r] + 1 ELSE incId[r])
        /\ wire'[e] = Tail(wire[e]) /\ faults' = faults
    BY <1>1, <1>7 DEF Taken, TypeInv
  <2>2. wire'[e] = SubSeq(wire[e], 1 + 1, Len(wire[e])) /\ 1 \in 0 .. Len(wire[e])
    BY <1>3, <2>1
  <2>3. Current(r)' = IF q.complete THEN FreshPacket ELSE q
    BY <1>1, <1>3, <2>1, PutCurrent
  <2>4. ASSUME NEW K \in Course, NEW J \in Course, Stream(e, K, J), Reads(r, e, K[1], J[1]), Received(r, e),
               Len(written[e]) = outId[e]
        PROVE  Received(r, e)' /\ (socket'[r] => Reads(r, e, K[1 + 1], J[1 + 1])')
    <3>1. PICK k \in Nat, j \in Nat : k = K[2] /\ j = J[2]
      BY <1>3, <2>4, FirstWord
    <3>2. /\ InStep(r, e, p, K[1], J[1]) =>
               /\ ~q.complete => InStep(r, e, q, k, j)
               /\ q.complete => /\ incId[r] + 1 <= Len(written[e]) /\ q.body = written[e][incId[r] + 1]
                                /\ k = incId[r] + 2 /\ j = 1
          /\ OutOfStep(r, p, K[1], J[1]) => ~q.complete /\ OutOfStep(r, q, k, j)
      BY <1>5, <1>7, <2>4, <3>1
    <3>3. CASE ~q.complete
      <4>1. incId'[r] = incId[r] /\ Current(r)' = q
        BY <2>1, <2>3, <3>3
      <4>2. InStep(r, e, q, k, j) \/ OutOfStep(r, q, k, j)
        BY <1>3, <2>4, <3>2, <3>3 DEF Reads
      <4>3. InStep(r, e, q, k, j)' \/ OutOfStep(r, q, k, j)'
        BY <1>1, <1>5, <2>1, <4>1, <4>2, SameReads
      <4>4. Received(r, e)'
        BY <1>1, <1>3, <1>5, <1>7, <2>1, <2>4, <3>3, <4>1, PutReceived
      <4>5. Reads(r, e, k, j)'
        BY <4>1, <4>3 DEF Reads
      <4> QED
        BY <3>1, <4>4, <4>5
    <3>4. CASE q.complete
      <4>1. incId'[r] = incId[r] + 1 /\ Current(r)' = FreshPacket
        BY <2>1, <2>3, <3>4
      <4>2. InStep(r, e, p, K[1], J[1])
        BY <1>3, <2>4, <3>2, <3>4 DEF Reads
      <4>3. /\ incId[r] + 1 <= Len(written[e]) /\ q.body = written[e][incId[r] + 1]
            /\ k = incId[r] + 2 /\ j = 1
        BY <3>2, <3>4, <4>2
      <4>4. Received(r, e)'
        BY <1>1, <1>3, <1>5, <1>7, <2>1, <2>4, <3>4, <4>1, <4>3, PutReceived
      <4>5. InStep(r, e, FreshPacket, k, j)'
        <5>1. k = incId'[r] + 1
          BY <1>5, <4>1, <4>3
        <5>2. Len(FreshPacket.header) = 0 /\ Len(FreshPacket.body) = 0
          BY FreshType
        <5> QED
          BY <4>3, <5>1, <5>2, FreshType DEF InStep, HeaderSize
      <4>6. Reads(r, e, k, j)'
        BY <4>1, <4>5 DEF Reads
      <4> QED
        BY <3>1, <4>4, <4>6
    <3> QED
      BY <3>3, <3>4
  <2>5. faults' >= faults /\ socket[r]
    <3>1. socket[r]
      BY <1>1 DEF ReadWord, EndInv, EndOf, r
    <3> QED
      BY <1>5, <2>1, <3>1
  <2> QED
    BY <1>2, <2>2, <2>4, <2>5, ReaderConn DEF r
<1>8. ASSUME NEW K \in Course, NEW J \in Course, Stream(e, K, J), Len(written[e]) <= LastId
      PROVE  /\ InStep(r, e, p, K[1], J[1]) /\ Len(p.header) < HeaderSize =>
                  /\ ~(Whole(h) /\ Refusable(h, incId[r]))
                  /\ InStep(r, e, h, K[2], J[2])
             /\ InStep(r, e, p, K[1], J[1]) /\ Len(p.header) >= HeaderSize =>
                  /\ ~Refusable(p, incId[r])
                  /\ ~b.complete => InStep(r, e, b, K[2], J[2])
                  /\ b.complete => /\ incId[r] + 1 <= Len(written[e]) /\ b.body = written[e][incId[r] + 1]
                                   /\ K[2] = incId[r] + 2 /\ J[2] = 1
             /\ OutOfStep(r, p, K[1], J[1]) /\ Len(p.header) < HeaderSize =>
                  /\ Whole(h) => Refusable(h, incId[r])
                  /\ ~Whole(h) => OutOfStep(r, h, K[2], J[2])
             /\ OutOfStep(r, p, K[1], J[1]) /\ Len(p.header) >= HeaderSize =>
                  Whole(p) /\ (p.null \/ Refusable(p, incId[r]))
  <2>1. PICK k \in 1 .. Len(written[e]), j \in 1 .. Total(e, K[1]), k2 \in Nat, j2 \in Nat :
          /\ k = K[1] /\ j = J[1] /\ k2 = K[2] /\ j2 = J[2]
          /\ w = WordOf(e, k, j) /\ Follows(e, k, j, k2, j2)
    BY <1>3, <1>8, FirstWord
  <2>2. ASSUME InStep(r, e, p, k, j)
        PROVE  /\ Len(p.header) < HeaderSize =>
                    /\ ~(Whole(h) /\ Refusable(h, incId[r]))
                    /\ InStep(r, e, h, k2, j2)
               /\ Len(p.header) >= HeaderSize =>
                    /\ ~Refusable(p, incId[r])
                    /\ ~b.complete => InStep(r, e, b, k2, j2)
                    /\ b.complete => /\ b.body = written[e][k] /\ k = incId[r] + 1
                                     /\ k2 = k + 1 /\ j2 = 1
    <3>1. /\ Len(p.header) < HeaderSize =>
               /\ ~(Whole(PutHeader(p, w)) /\ Refusable(PutHeader(p, w), incId[r]))
               /\ InStep(r, e, PutHeader(p, w), k2, j2)
          /\ Len(p.header) >= HeaderSize =>
               /\ ~Refusable(p, incId[r])
               /\ ~PutBody(p, w).complete => InStep(r, e, PutBody(p, w), k2, j2)
               /\ PutBody(p, w).complete => /\ PutBody(p, w).body = written[e][k] /\ k = incId[r] + 1
                                            /\ k2 = k + 1 /\ j2 = 1
      <4>1. j \in 1 .. Total(e, k)
        BY <2>1
      <4>2. incId[r] \in Nat /\ written[e] \in Seq(Payload) /\ w \in Nat /\ p \in InPacket /\ ~p.complete
        BY <1>3, <1>5
      <4> QED
        BY <1>1, <1>8, <2>1, <2>2, <4>1, <4>2, GoesOn
    <3> QED
      BY <3>1 DEF h, b
  <2>3. ASSUME OutOfStep(r, p, k, j)
        PROVE  /\ Len(p.header) < HeaderSize =>
                    /\ Whole(h) => Refusable(h, incId[r])
                    /\ ~Whole(h) => OutOfStep(r, h, k2, j2)
               /\ Len(p.header) >= HeaderSize => Whole(p) /\ (p.null \/ Refusable(p, incId[r]))
    BY <1>1, <1>3, <1>5, <1>8, <2>1, <2>3, StaysOut DEF h
  <2>4. k = incId[r] + 1 /\ k2 = k + 1 => incId[r] + 1 <= Len(written[e]) /\ k2 = incId[r] + 2
    BY <1>5, <2>1
  <2> QED
    BY <2>1, <2>2, <2>3, <2>4
<1>9. CASE Len(p.header) < HeaderSize
  <2>1. CASE Whole(h) /\ Refusable(h, incId[r]) /\ \E f : Refused(r, h, f)
    BY <1>3, <1>4, <1>6, <1>8, <1>9, <2>1
  <2>2. CASE ~(Whole(h) /\ Refusable(h, incId[r])) /\ Taken(r, h)
    BY <1>3, <1>4, <1>7, <1>8, <1>9, <2>2
  <2> QED
    BY <1>3, <1>4, <1>9, <2>1, <2>2, MagicNat
<1>10. CASE Len(p.header) >= HeaderSize
  <2>1. CASE Whole(p) /\ Refusable(p, incId[r]) /\ \E f : Refused(r, p, f)
    BY <1>3, <1>6, <1>8, <1>10, <2>1
  <2>2. CASE ~Refusable(p, incId[r]) /\ ~p.null /\ Taken(r, b)
    BY <1>4, <1>7, <1>8, <1>10, <2>2
  <2> QED
    BY <1>3, <1>4, <1>10, <2>1, <2>2, MagicNat
<1> QED
  BY <1>4, <1>9, <1>10, MagicNat
\* A receiver that runs out of memory loses words of the stream: it is out of
\* step from then on.
LEMMA NoMemoryConn ==
    ASSUME TypeInv, TypeInv', EndInv, NEW e \in End, ConnOf(e), ReadWordNoMemory(Peer(e))
    PROVE  ConnOf(e)'
<1> DEFINE r == Peer(e)
           w == Head(wire[e])
           p == Latest(incoming[r])
           q == [PutHeader(p, w) EXCEPT !.null = TRUE]
<1>1. r \in End /\ Peer(r) = e
  BY TwoEnds
<1>2. Step(r)
  BY DEF Step
<1>3. /\ pc[r] = "scan" /\ wire[e] # <<>>
      /\ \/ Last(incoming[r]).complete /\ UNCHANGED incoming
         \/ Len(p.header) = HeaderSize - 1 /\ incoming' = [incoming EXCEPT ![r] = SetLatest(@, q)]
      /\ faults' = faults + 1 /\ DropBuffer(r)
      /\ UNCHANGED <<incId, written, delivered>>
  BY <1>1 DEF ReadWordNoMemory, Fail, history
<1>4. /\ wire[e] \in Seq(Nat) /\ incoming[r] \in Seq(InPacket) /\ incoming[r] # <<>> /\ socket[r]
      /\ incId[r] \in Nat /\ Len(delivered[r]) \in Nat /\ Len(written[e]) \in Nat /\ faults \in Nat
  <2>1. /\ wire[e] \in Seq(Nat) /\ incoming[r] \in Seq(InPacket)
        /\ incId[r] \in Nat /\ delivered[r] \in Seq(Seq(Nat)) /\ written[e] \in Seq(Payload) /\ faults \in Nat
    BY <1>1 DEF TypeInv
  <2>2. incoming[r] # <<>> /\ socket[r]
    BY <1>1, <1>3 DEF EndInv, EndOf
  <2> QED
    BY <2>1, <2>2
<1>8. Current(r) = p
  BY <1>4 DEF Current
<1> HIDE DEF r
<1>5. PICK n \in 1 .. Len(wire[e]) : wire'[e] = SubSeq(wire[e], n + 1, Len(wire[e]))
  <2>1. PICK n \in 1 .. Len(wire[e]) :
            wire' = [wire EXCEPT ![e] = SubSeq(wire[e], n + 1, Len(wire[e]))]
    BY <1>1, <1>3 DEF DropBuffer
  <2>2. DOMAIN wire = End
    BY DEF TypeInv
  <2> QED
    BY <2>1, <2>2
<1>6. n \in 0 .. Len(wire[e]) /\ faults' >= faults /\ faults' > 0
  BY <1>3, <1>4
<1>7. p \in InPacket /\ ~p.complete /\ w \in Nat
  <2>1. w \in Nat
    BY <1>3, <1>4
  <2>2. p \in InPacket /\ ~p.complete
    BY <1>4, LatestList, FreshType
  <2> QED
    BY <2>1, <2>2
<1> HIDE DEF w, p
<1>9. CASE Last(incoming[r]).complete /\ UNCHANGED incoming
  <2>0. PICK x \in InPacket : x = p
    BY <1>7
  <2>1. Current(r)' = x
    BY <1>8, <1>9, <2>0 DEF Current
  <2>2. p.header = <<>> /\ p.body = <<>> /\ Len(p.header) = 0 /\ Len(p.body) = 0
    BY <1>9, FreshType DEF p, Latest
  <2>3. ASSUME NEW K \in Course, NEW J \in Course, Stream(e, K, J), Reads(r, e, K[1], J[1]), Received(r, e),
               Len(written[e]) = outId[e]
        PROVE  Received(r, e)' /\ (socket'[r] => Reads(r, e, K[n + 1], J[n + 1])')
    <3>1. Received(r, e)'
      BY <1>3, <1>9, <2>3 DEF Received
    <3>2. PICK k \in Nat, j \in Nat, k2 \in Nat, j2 \in Nat :
            k = K[1] /\ j = J[1] /\ k2 = K[n + 1] /\ j2 = J[n + 1] /\ j2 >= 1 /\ Before(k, j, k2, j2)
      BY <1>4, <2>3, LaterPlace
    <3>3. InStep(r, e, p, k, j) \/ OutOfStep(r, p, k, j)
      BY <1>8, <2>3, <3>2 DEF Reads
    <3>4. (k = incId[r] + 1 /\ j = 1) \/ k > incId[r] + 1 \/ (k = incId[r] + 1 /\ j > 1)
      BY <2>2, <3>3 DEF InStep, OutOfStep, HeaderSize
    <3>5. k2 > incId[r] + 1 \/ (k2 = incId[r] + 1 /\ j2 > 1)
      BY <1>4, <3>2, <3>4 DEF Before
    <3>6. OutOfStep(r, x, k2, j2)'
      BY <1>3, <1>6, <2>0, <2>2, <3>2, <3>5 DEF OutOfStep
    <3>7. Reads(r, e, k2, j2)'
      BY <2>1, <3>6 DEF Reads
    <3> QED
      BY <3>1, <3>2, <3>7
  <2> QED
    BY <1>2, <1>4, <1>5, <1>6, <2>3, ReaderConn DEF r
<1>10. CASE Len(p.header) = HeaderSize - 1 /\ incoming' = [incoming EXCEPT ![r] = SetLatest(@, q)]
  <2>1. /\ PutHeader(p, w) \in InPacket /\ PutHeader(p, w).header = Append(p.header, w)
        /\ PutHeader(p, w).complete = p.complete
    BY <1>7, PutWord
  <2>2. q \in InPacket /\ q.header = Append(p.header, w) /\ q.complete = p.complete /\ q.null
    <3>1. PICK x \in InPacket : x = PutHeader(p, w)
      BY <2>1
    <3>2. [x EXCEPT !.null = TRUE].null /\ [x EXCEPT !.null = TRUE].header = x.header
          /\ [x EXCEPT !.null = TRUE].complete = x.complete /\ [x EXCEPT !.null = TRUE] \in InPacket
      BY DEF InPacket
    <3> QED
      BY <2>1, <3>1, <3>2
  <2>3. Len(q.header) = HeaderSize /\ ~q.complete
    <3>1. p.header \in Seq(Nat)
      BY <1>7, PacketParts
    <3>2. Len(Append(p.header, w)) = Len(p.header) + 1
      BY <1>7, <3>1
    <3>3. Len(Append(p.header, w)) = HeaderSize
      BY <1>10, <3>2 DEF HeaderSize
    <3> QED
      BY <1>7, <2>2, <3>3
  <2>4. incoming'[r] = SetLatest(incoming[r], q) /\ incId'[r] = incId[r] /\ delivered'[r] = delivered[r]
        /\ written'[e] = written[e]
    BY <1>1, <1>3, <1>10 DEF TypeInv
  <2> HIDE DEF q
  <2>7. PICK x \in InPacket : x = q
    BY <2>2
  <2>5. Current(r)' = x
    BY <1>1, <1>4, <2>2, <2>3, <2>4, <2>7, PutCurrent
  <2>6. ASSUME NEW K \in Course, NEW J \in Course, Stream(e, K, J), Reads(r, e, K[1], J[1]), Received(r, e),
               Len(written[e]) = outId[e]
        PROVE  Received(r, e)' /\ (socket'[r] => Reads(r, e, K[n + 1], J[n + 1])')
    <3>1. Received(r, e)'
      BY <1>1, <1>4, <2>2, <2>3, <2>4, <2>6, PutReceived
    <3>2. PICK k \in Nat, j \in Nat : k = K[n + 1] /\ j = J[n + 1] /\ j >= 1
      BY <1>4, <2>6, LaterPlace
    <3>3. OutOfStep(r, x, k, j)'
      BY <1>6, <2>2, <2>3, <2>4, <2>7, <3>2 DEF OutOfStep
    <3>4. Reads(r, e, k, j)'
      BY <2>5, <3>3 DEF Reads
    <3> QED
      BY <3>1, <3>2, <3>4
  <2> QED
    BY <1>2, <1>4, <1>5, <1>6, <2>6, ReaderConn DEF r
<1> QED
  BY <1>3, <1>9, <1>10

\* A packet is handed over.
LEMMA DeliverConn ==
    ASSUME TypeInv, TypeInv', EndInv, NEW e \in End, ConnOf(e), Read(Peer(e)),
           incoming[Peer(e)] # <<>>, Head(incoming[Peer(e)]).complete
    PROVE  ConnOf(e)'
<1> DEFINE r == Peer(e)
<1>1. r \in End /\ Peer(r) = e
  BY TwoEnds
<1>2. Step(r)
  BY DEF Step
<1>3. /\ wire[e] \in Seq(Nat) /\ incoming[r] \in Seq(InPacket) /\ socket[r]
      /\ incId[r] \in Nat /\ delivered[r] \in Seq(Seq(Nat)) /\ Len(written[e]) \in Nat /\ faults \in Nat
  <2>1. /\ wire[e] \in Seq(Nat) /\ incoming[r] \in Seq(InPacket)
        /\ incId[r] \in Nat /\ delivered[r] \in Seq(Seq(Nat)) /\ written[e] \in Seq(Payload) /\ faults \in Nat
    BY <1>1 DEF TypeInv
  <2>2. socket[r]
    BY <1>1 DEF Read, EndInv, EndOf
  <2> QED
    BY <2>1, <2>2
<1>4. /\ incoming'[r] = Tail(incoming[r]) /\ delivered'[r] = Append(delivered[r], Head(incoming[r]).body)
      /\ incId'[r] = incId[r] /\ written'[e] = written[e] /\ wire'[e] = wire[e] /\ faults' = faults
  BY <1>1 DEF Read, TypeInv
<1>5. wire'[e] = SubSeq(wire[e], 0 + 1, Len(wire[e])) /\ 0 \in 0 .. Len(wire[e]) /\ faults' >= faults
  <2>1. SubSeq(wire[e], 0 + 1, Len(wire[e])) = wire[e]
    BY <1>3
  <2> QED
    BY <1>3, <1>4, <2>1
<1>6. ASSUME NEW K \in Course, NEW J \in Course, Stream(e, K, J), Reads(r, e, K[1], J[1]), Received(r, e),
             Len(written[e]) = outId[e]
      PROVE  Received(r, e)' /\ (socket'[r] => Reads(r, e, K[0 + 1], J[0 + 1])')
  <2>1. Received(r, e)' /\ Current(r)' = Current(r)
    BY <1>1, <1>3, <1>4, <1>6, HandOver
  <2>2. PICK k \in Nat, j \in Nat : k = K[1] /\ j = J[1] /\ k = K[0 + 1] /\ j = J[0 + 1]
    BY <1>6 DEF Course
  <2>3. Reads(r, e, k, j)'
    BY <1>1, <1>4, <1>5, <1>6, <2>1, <2>2, StillReads
  <2> QED
    BY <2>1, <2>2, <2>3
<1> HIDE DEF r
<1> QED
  BY <1>2, <1>3, <1>5, <1>6, ReaderConn DEF r
\* Any other step of the receiving end leaves alone what it has read, or
\* closes its socket.
LEMMA ReaderQuiet ==
    ASSUME TypeInv, TypeInv', EndInv, NEW e \in End, ConnOf(e), Step(Peer(e)),
           ~ReadWord(Peer(e)), ~ReadWordNoMemory(Peer(e)),
           ~(Read(Peer(e)) /\ incoming[Peer(e)] # <<>> /\ Head(incoming[Peer(e)]).complete)
    PROVE  ConnOf(e)'
<1>0. PICK r \in End : r = Peer(e) /\ Peer(r) = e
  BY TwoEnds
<1>1. /\ tstate'[e] = tstate[e] /\ socket'[e] = socket[e] /\ pc'[e] = pc[e] /\ outId'[e] = outId[e]
      /\ outgoing'[e] = outgoing[e] /\ left'[e] = left[e] /\ written'[e] = written[e]
  BY <1>0, OtherEnd
<1> DEFINE Writes == Write(r) \/ WriteFails(r) \/ Flush(r) \/ FlushSelectFails(r) \/ SendFails(r) \/ SendPipe(r) \/ Leave(r) \/ ClientDeath(r)
           Reads1 == Scan(r) \/ ScanFails(r) \/ ReadWordCrashes(r) \/ RecvFails(r)
           Reads2 == Read(r) /\ ~(incoming[r] # <<>> /\ Head(incoming[r]).complete)
<1>2. Writes \/ Reads1 \/ Reads2 \/ Send(r) \/ Close(r)
  BY <1>0 DEF Step
<1> USE DEF history, tnc, Leave, ClientDeath
<1>3. faults' >= faults
  <2>1. faults' = faults \/ faults' = faults + 1
    <3>1. CASE Writes
      BY <3>1 DEF Write, Depart, WriteFails, Flush, FlushSelectFails, SendFails, SendPipe, GiveUp, Fail
    <3>2. CASE Reads1 \/ Reads2
      BY <3>2 DEF Scan, ScanFails, ReadWordCrashes, RecvFails, Read, Fail
    <3>3. CASE Send(r) \/ Close(r)
      BY <3>3 DEF Send, Close
    <3> QED
      BY <1>2, <3>1, <3>2, <3>3
  <2> QED
    BY <2>1 DEF TypeInv
<1>4. Clean(e)' => Clean(e)
  <2>1. faults \in Nat /\ faults' \in Nat
    BY DEF TypeInv
  <2> QED
    BY <1>1, <1>3, <2>1 DEF Clean
<1>5. incId'[r] = incId[r] /\ delivered'[r] = delivered[r]
  <2>1. CASE Writes
    BY <2>1 DEF Write, Depart, Append1, WriteFails, Flush, FlushSelectFails, SendFails, SendPipe, GiveUp
  <2>2. CASE Reads1 \/ Reads2
    BY <2>2 DEF Scan, ScanFails, ReadWordCrashes, RecvFails, Read
  <2>3. CASE Send(r) \/ Close(r)
    BY <2>3 DEF Send, Close
  <2> QED
    BY <1>2, <2>1, <2>2, <2>3
<1>6. incoming'[r] = incoming[r] \/ (incoming[r] = <<>> /\ incoming'[r] = <<FreshPacket>>)
  <2>1. CASE Writes
    BY <2>1 DEF Write, Depart, WriteFails, Flush, FlushSelectFails, SendFails, SendPipe, GiveUp
  <2>2. CASE Reads1
    BY <2>2 DEF Scan, ScanFails, ReadWordCrashes, RecvFails, TypeInv
  <2>3. CASE Send(r) \/ Close(r) \/ Reads2
    BY <2>3 DEF Send, Close, Read
  <2> QED
    BY <1>2, <2>1, <2>2, <2>3
<1>7. wire'[e] = wire[e] \/ ~socket'[r]
  <2>1. CASE Writes
    BY <2>1 DEF Write, Depart, WriteFails, Flush, FlushSelectFails, SendFails, SendPipe, GiveUp
  <2>2. CASE Reads1 \/ Reads2
    BY <2>2 DEF Scan, ScanFails, ReadWordCrashes, RecvFails, Read
  <2>3. CASE Send(r)
    <3>1. \E x : wire' = [wire EXCEPT ![r] = x]
      BY <2>3 DEF Send
    <3> QED
      BY <1>0, <3>1, TwoEnds DEF TypeInv
  <2>4. CASE Close(r)
    BY <2>4 DEF Close, TypeInv
  <2> QED
    BY <1>2, <2>1, <2>2, <2>3, <2>4
<1>8. socket'[r] => socket[r]
  BY <1>0, Carried, TwoEnds
<1>9. IsUp(e)' => IsUp(e)
  BY <1>1 DEF IsUp
<1> QED
  BY <1>0, <1>1, <1>3, <1>4, <1>5, <1>6, <1>7, <1>8, <1>9, SameConn

\* Nothing has been sent or received at the start.
LEMMA ConnInit == Init => ConnInv
<1> SUFFICES ASSUME Init, NEW e \in End PROVE ConnOf(e)
  BY DEF ConnInv
<1> DEFINE r == Peer(e)
           K == [i \in Nat |-> 1]
<1>0. r \in End
  BY TwoEnds
<1>1. /\ outId[e] = 0 /\ outgoing[e] = <<>> /\ written[e] = <<>> /\ pc[e] = "idle" /\ wire[e] = <<>>
      /\ delivered[r] = <<>> /\ incoming[r] = <<>> /\ incId[r] = 0
  BY <1>0 DEF Init
<1>2. /\ Len(outgoing[e]) = 0 /\ Len(written[e]) = 0 /\ Len(wire[e]) = 0 /\ Len(delivered[r]) = 0
      /\ Len(incoming[r]) = 0
  BY <1>1
<1>3. Queue(e, 0) /\ Partly(e, 0)
  <2>0. 0 - 0 = 0
    OBVIOUS
  <2>1. Base(e) = 0
    BY <1>1, <1>2, <2>0, Zenon DEF Base
  <2>2. Queue(e, 0)
    BY <1>1, <1>2, <2>1 DEF Queue
  <2> QED
    BY <1>1, <2>2 DEF Partly
<1>4. Received(r, e)
  <2>0. 0 - 0 = 0 /\ 0 \in {0, 1} /\ 0 # 0 + 1
    OBVIOUS
  <2>1. incId[r] - Len(delivered[r]) = 0 /\ Len(incoming[r]) \in {0, 1} /\ Len(incoming[r]) # 0 + 1
    BY <1>1, <1>2, <2>0, Zenon
  <2>2. \A i \in 1 .. 0 : FALSE
    OBVIOUS
  <2> QED
    BY <1>1, <1>2, <2>1, <2>2 DEF Received
<1>5. Current(r) = FreshPacket
  BY <1>1 DEF Current
<1>6. InStep(r, e, FreshPacket, 1, 1)
  <2>1. Len(FreshPacket.header) = 0 /\ Len(FreshPacket.body) = 0
    BY FreshType
  <2> QED
    BY <1>1, <2>1, FreshType DEF InStep, HeaderSize
<1>7. K \in Course /\ K[1] = 1
  BY DEF Course
<1> HIDE DEF K, r
<1>8. Stream(e, K, K)
  BY <1>2 DEF Stream
<1>9. Sends(e, 0, K[Len(wire[e]) + 1], K[Len(wire[e]) + 1])
  BY <1>1, <1>2, <1>7 DEF Sends
<1>10. Linked(e, 0, r)
  BY <1>5, <1>6, <1>7, <1>8, <1>9 DEF Linked, Reads
<1> QED
  BY <1>3, <1>4, <1>10 DEF ConnOf, r

\* Every step of either end keeps the connections.
LEMMA ConnStep ==
    ASSUME TypeInv, TypeInv', EndInv, ConnInv, [Next]_vars
    PROVE  ConnInv'
<1>1. CASE UNCHANGED vars
  <2> SUFFICES ASSUME NEW e \in End PROVE ConnOf(e)'
    BY DEF ConnInv
  <2>1. ConnOf(e)
    BY DEF ConnInv
  <2>2. faults' = faults /\ faults \in Nat /\ UNCHANGED <<tstate, socket, pc, left, written, outgoing, outId, wire, incId, delivered, incoming>>
    BY <1>1 DEF vars, TypeInv
  <2>3. faults' >= faults /\ (Clean(e)' => Clean(e)) /\ (IsUp(e)' => IsUp(e))
    BY <2>2 DEF Clean, IsUp
  <2> QED
    BY <2>1, <2>2, <2>3, SameConn
<1>2. ASSUME NEW e \in End, Step(e) PROVE ConnOf(e)'
  <2>1. ConnOf(e)
    BY DEF ConnInv
  <2>2. CASE Write(e) \/ Leave(e) \/ ClientDeath(e)
    BY <2>1, <2>2, WriteConn DEF Leave, ClientDeath
  <2>3. CASE Flush(e)
    BY <2>1, <2>3, FlushConn
  <2>4. CASE Send(e)
    BY <2>1, <2>4, SendConn
  <2>5. CASE SendFails(e)
    BY <2>1, <2>5, SendFailsConn
  <2>6. CASE Close(e)
    BY <2>1, <2>6, CloseConn
  <2>7. CASE \/ WriteFails(e) \/ FlushSelectFails(e) \/ SendPipe(e) \/ Scan(e) \/ ScanFails(e)
             \/ ReadWord(e) \/ ReadWordNoMemory(e) \/ ReadWordCrashes(e) \/ RecvFails(e) \/ Read(e)
    BY <2>1, <2>7, QuietConn
  <2> QED
    BY <1>2, <2>2, <2>3, <2>4, <2>5, <2>6, <2>7 DEF Step
<1>3. ASSUME NEW e \in End, Step(Peer(e)) PROVE ConnOf(e)'
  <2>1. ConnOf(e)
    BY DEF ConnInv
  <2> QED
    BY <1>3, <2>1, ReadWordConn, NoMemoryConn, DeliverConn, ReaderQuiet
<1>4. ASSUME Next PROVE ConnInv'
  <2> SUFFICES ASSUME NEW e \in End PROVE ConnOf(e)'
    BY DEF ConnInv
  <2>1. PICK f \in End : Step(f)
    BY <1>4 DEF Next
  <2>2. f = e \/ f = Peer(e)
    BY TwoEnds
  <2> QED
    BY <1>2, <1>3, <2>1, <2>2
<1> QED
  BY <1>1, <1>4

-----------------------------------------------------------------------------
(* The theorems. *)

NetInv == TypeInv /\ EndInv /\ ConnInv

\* The invariant of the two ends and of the two streams between them holds in
\* every state, however the operating system cuts, fails or resets.
THEOREM Connected == Spec => []NetInv
<1>1. Init => NetInv
  BY TypeInit, EndInit, ConnInit DEF NetInv
<1>2. NetInv /\ [Next]_vars => NetInv'
  BY TypeStep, EndStep, ConnStep DEF NetInv
<1> QED
  BY <1>1, <1>2, PTL DEF Spec
(* No false alarm. *)

Quiet == faults = 0 /\ (\A e \in End : socket[e]) => \A e \in End : tstate[e] = {}

\* A packet is refused only after a failure.
LEMMA RefusedLate ==
    ASSUME NetInv, NEW r \in End, ReadWord(r), faults = 0
    PROVE  tstate' = tstate
<1> DEFINE e == Peer(r)
           w == Head(wire[e])
           p == Latest(incoming[r])
           h == PutHeader(p, w)
<1>0. TypeInv /\ EndInv /\ ConnInv
  BY DEF NetInv
<1>1. e \in End /\ Peer(e) = r
  BY TwoEnds
<1>2. /\ w \in Nat /\ w = wire[e][1] /\ p \in InPacket /\ ~p.complete
      /\ wire[e] \in Seq(Nat) /\ wire[e] # <<>> /\ Current(r) = p /\ pc[r] = "scan"
      /\ \/ /\ Len(p.header) < HeaderSize
            /\ \/ Whole(h) /\ Refusable(h, incId[r]) /\ \E f : Refused(r, h, f)
               \/ ~(Whole(h) /\ Refusable(h, incId[r])) /\ Taken(r, h)
         \/ /\ Len(p.header) >= HeaderSize
            /\ \/ Whole(p) /\ Refusable(p, incId[r]) /\ \E f : Refused(r, p, f)
               \/ ~Refusable(p, incId[r]) /\ ~p.null /\ Taken(r, PutBody(p, w))
  BY <1>0, ReadWordCases
<1>3. PICK m \in Nat : Queue(e, m) /\ Received(r, e) /\ Linked(e, m, r)
  BY <1>0, <1>1 DEF ConnInv, ConnOf, Clean
<1>4. socket[r] /\ incId[r] \in Nat /\ written[e] \in Seq(Payload) /\ Len(written[e]) <= LastId
  <2>1. socket[r] /\ incId[r] \in Nat /\ written[e] \in Seq(Payload) /\ outId[e] \in Nat
    BY <1>0, <1>1, <1>2, ZenonT(30) DEF TypeInv, EndInv, EndOf
  <2>2. outId[e] <= MaxPackets[e] + (IF leaving[e] THEN 1 ELSE 0)
    BY <1>0, <1>1 DEF EndInv, EndOf
  <2>3. outId[e] <= LastId
    <3>1. MaxPackets[e] \in Nat /\ LastId \in Nat /\ MaxPackets[e] + 1 <= LastId
      BY <1>1, Numbers
    <3> QED
      BY <2>1, <2>2, <3>1
  <2> QED
    BY <1>3, <2>1, <2>3 DEF Queue
<1> HIDE DEF e, w, p
<1>5. PICK K \in Course, J \in Course : Stream(e, K, J) /\ Reads(r, e, K[1], J[1])
  BY <1>3, <1>4 DEF Linked
<1>6. InStep(r, e, p, K[1], J[1])
  BY <1>2, <1>5 DEF Reads, OutOfStep
<1>7. PICK k \in 1 .. Len(written[e]), j \in 1 .. Total(e, K[1]), k2 \in Nat, j2 \in Nat :
        /\ k = K[1] /\ j = J[1] /\ k2 = K[2] /\ j2 = J[2]
        /\ w = WordOf(e, k, j) /\ Follows(e, k, j, k2, j2)
  BY <1>1, <1>2, <1>5, FirstWord
<1>8. /\ Len(p.header) < HeaderSize => ~(Whole(h) /\ Refusable(h, incId[r]))
      /\ Len(p.header) >= HeaderSize => ~Refusable(p, incId[r])
  <2>1. j \in 1 .. Total(e, k) /\ InStep(r, e, p, k, j)
    BY <1>6, <1>7
  <2> QED
    BY <1>1, <1>2, <1>4, <1>7, <2>1, GoesOn
<1> QED
  BY <1>2, <1>8 DEF Taken

\* Without a failure, and with both ends there, no step finds an error.
LEMMA QuietStep ==
    ASSUME NetInv, Quiet, [Next]_vars
    PROVE  Quiet'
<1>1. CASE UNCHANGED vars
  BY <1>1 DEF Quiet, vars
<1>2. CASE Next
  <2> SUFFICES ASSUME faults' = 0, \A e \in End : socket'[e]
               PROVE  tstate' = tstate /\ faults = 0 /\ \A e \in End : socket[e]
    BY DEF Quiet
  <2> USE DEF Leave, ClientDeath, history, tnc
  <2>0. TypeInv /\ EndInv /\ faults \in Nat
    BY DEF NetInv, TypeInv
  <2>1. PICK e \in End : Step(e)
    BY <1>2 DEF Next
  <2>2. \A f \in End : socket[f]
    <3>1. socket'[Peer(e)] = socket[Peer(e)] /\ (socket'[e] => socket[e])
      BY <2>0, <2>1, OtherEnd, Carried
    <3> QED
      BY <3>1, TwoEnds
  <2>3. ~(faults' = faults + 1)
    BY <2>0
  <2>4. \A kind : ~Fail(kind)
    BY <2>3 DEF Fail
  <2>5. CASE ReadWord(e)
    <3>1. faults' = faults
      BY <2>5 DEF ReadWord
    <3> QED
      BY <2>2, <2>5, <3>1, RefusedLate
  <2>6. CASE Write(e) \/ Leave(e) \/ ClientDeath(e) \/ Flush(e) \/ Send(e) \/ Read(e) \/ Scan(e) \/ Close(e) \/ ReadWordCrashes(e)
    BY <2>2, <2>6 DEF Write, Depart, Append1, Flush, Send, Read, Scan, Close, ReadWordCrashes
  <2>7. ~(WriteFails(e) \/ FlushSelectFails(e) \/ SendFails(e) \/ ScanFails(e) \/ ReadWordNoMemory(e))
    BY <2>4 DEF WriteFails, FlushSelectFails, SendFails, ScanFails, ReadWordNoMemory
  <2>8. ~SendPipe(e)
    BY <2>2, TwoEnds DEF SendPipe
  <2>9. ~RecvFails(e)
    <3>1. ~reset[e]
      BY <2>0, <2>2, TwoEnds DEF EndInv, EndOf
    <3> QED
      BY <2>4, <3>1 DEF RecvFails
  <2> QED
    BY <2>1, <2>5, <2>6, <2>7, <2>8, <2>9 DEF Step
<1> QED
  BY <1>1, <1>2

\* As long as no call of the operating system fails and nobody closes, neither
\* end finds an error, however the socket cuts the stream (tn_scan_read): no
\* packet looks misaligned or misordered.
THEOREM NoAlarm == Spec => []NoFalseAlarm
<1>1. Init => Quiet
  BY DEF Init, Quiet
<1>2. NetInv /\ Quiet /\ [Next]_vars => Quiet'
  BY QuietStep
<1>3. NetInv /\ Quiet => NoFalseAlarm
  <2> SUFFICES ASSUME NetInv, Quiet PROVE TypeOK
    BY DEF NoFalseAlarm, Quiet
  <2>1. TypeInv /\ EndInv
    BY DEF NetInv
  <2> QED
    BY <2>1 DEF TypeOK, TypeInv, EndInv, EndOf
<1> QED
  BY <1>1, <1>2, <1>3, Connected, PTL DEF Spec

-----------------------------------------------------------------------------
(* The channel. *)

Reliable == Faults \intersect {"ENOMEM", "ESEND"} = {}

\* A packet that is handed over is the next one that the other end wrote.
LEMMA HandsOver ==
    ASSUME Reliable, NetInv, NEW r \in End, Read(r), incoming[r] # <<>>, Head(incoming[r]).complete
    PROVE  Channel!Deliver(r)
<1> DEFINE e == Peer(r)
<1>0. e \in End /\ Peer(e) = r
  BY TwoEnds
<1>1. /\ incoming[r] \in Seq(InPacket) /\ incId[r] \in Nat /\ delivered[r] \in Seq(Seq(Nat))
      /\ Len(written[e]) \in Nat /\ delivered \in [End -> Seq(Seq(Nat))]
  <2>1. /\ incoming[r] \in Seq(InPacket) /\ incId[r] \in Nat /\ delivered[r] \in Seq(Seq(Nat))
        /\ written[e] \in Seq(Payload) /\ delivered \in [End -> Seq(Seq(Nat))]
    BY <1>0 DEF NetInv, TypeInv
  <2> QED
    BY <2>1
<1>2. /\ incoming'[r] = Tail(incoming[r]) /\ incId'[r] = incId[r] /\ written' = written
      /\ delivered' = [delivered EXCEPT ![r] = Append(@, Head(incoming[r]).body)]
  BY DEF Read, NetInv, TypeInv
<1>3. delivered'[r] = Append(delivered[r], Head(incoming[r]).body) /\ written'[e] = written[e]
  BY <1>1, <1>2
<1>4. Received(r, e)
  BY <1>0 DEF NetInv, ConnInv, ConnOf, Clean, Reliable
<1> HIDE DEF e
<1>5. /\ Len(delivered[r]) < Len(written[e])
      /\ Head(incoming[r]).body = written[e][Len(delivered[r]) + 1]
  BY <1>0, <1>1, <1>2, <1>3, <1>4, HandOver
<1>6. Channel!Peer(r) = e
  BY DEF Channel!Peer, Peer, e
<1> QED
  BY <1>2, <1>5, <1>6 DEF Channel!Deliver

\* A packet that is written is one of the payloads, put behind the others.
LEMMA WritesOne ==
    ASSUME NetInv, NEW e \in End, Write(e) \/ Depart(e)
    PROVE  Channel!Write(e)
<1>1. PICK size \in Sizes : Append1(e, size)
  BY DEF Write, Depart
<1>2. MayWrite(e)
  BY WriteBound DEF NetInv, Write, Depart
<1>3. Body(outId[e] + 1, size) \in Payload
  BY <1>2 DEF MayWrite
<1>4. written' = [written EXCEPT ![e] = Append(@, Body(outId[e] + 1, size))]
  BY <1>1 DEF Append1, OutPacket
<1>5. delivered' = delivered
  BY DEF Write, Depart
<1> QED
  BY <1>3, <1>4, <1>5 DEF Channel!Write

\* Every step is a step of the channel, or changes nothing there.
LEMMA ChannelStep ==
    ASSUME Reliable, NetInv, [Next]_vars
    PROVE  [Channel!Next]_<<written, delivered>>
<1> USE DEF history, tnc
<1>1. CASE UNCHANGED vars
  BY <1>1 DEF vars
<1>2. ASSUME NEW e \in End, Step(e) PROVE [Channel!Next]_<<written, delivered>>
  <2>0. e \in Channel!End
    BY DEF End, Channel!End
  <2>1. CASE Write(e) \/ Leave(e) \/ ClientDeath(e)
    <3>1. Channel!Write(e)
      BY <2>1, WritesOne DEF Leave, ClientDeath
    <3> QED
      BY <2>0, <3>1 DEF Channel!Next
  <2>2. CASE Read(e)
    <3>1. CASE incoming[e] # <<>> /\ Head(incoming[e]).complete
      <4>1. Channel!Deliver(e)
        BY <2>2, <3>1, HandsOver
      <4> QED
        BY <2>0, <4>1 DEF Channel!Next
    <3>2. CASE ~(incoming[e] # <<>> /\ Head(incoming[e]).complete)
      BY <2>2, <3>2 DEF Read
    <3> QED
      BY <3>1, <3>2
  <2>3. CASE ~(Write(e) \/ Leave(e) \/ ClientDeath(e) \/ Read(e))
    <3>1. UNCHANGED <<written, delivered>>
      BY <1>2, <2>3 DEF Step, WriteFails, Flush, FlushSelectFails, Send, SendFails, SendPipe, GiveUp, Scan, ScanFails, ReadWord, ReadWordNoMemory, ReadWordCrashes, RecvFails, Close
    <3> QED
      BY <3>1
  <2> QED
    BY <2>1, <2>2, <2>3
<1> QED
  BY <1>1, <1>2 DEF Next

\* Where send does not fail in the middle of a packet, the transport
\* implements the channel: packets arrive whole, once and in the order of
\* tn_write, however the socket cuts the stream, whatever the lists drop, and
\* whatever the reading end loses to a lack of memory or a failed call.
THEOREM ChannelHolds == Reliable => (Spec => ImplementsChannel)
<1> SUFFICES ASSUME Reliable PROVE Spec => ImplementsChannel
  OBVIOUS
<1>1. Init => Channel!Init
  BY DEF Init, Channel!Init, End, Channel!End
<1>2. NetInv /\ [Next]_vars => [Channel!Next]_<<written, delivered>>
  BY ChannelStep
<1> QED
  BY <1>1, <1>2, Connected, PTL DEF Spec, ImplementsChannel, Channel!Spec

\* Whatever fails, the handler is only ever given something that the other end
\* did not write after tn_send_buffer of that end has given up in the middle of
\* a packet, which that end has on record: as long as the error state of the
\* writer is clean, the reader has exactly a beginning of what was written,
\* whatever its own end has lost.
THEOREM DamageIsOnRecord == Spec => []DamageOnRecord
<1>1. NetInv => DamageOnRecord
  <2> SUFFICES ASSUME NetInv, NEW r \in End, tstate[Peer(r)] \intersect {"MALLOC", "UNKNOWN"} = {}
               PROVE  IsPrefix(delivered[r], written[Peer(r)])
    BY DEF DamageOnRecord
  <2>1. PICK e \in End : e = Peer(r) /\ Peer(e) = r
    BY TwoEnds
  <2>2. Received(r, e)
    BY <2>1 DEF NetInv, ConnInv, ConnOf, Clean
  <2>3. delivered[r] \in Seq(Seq(Nat)) /\ written[e] \in Seq(Payload) /\ incId[r] \in Nat
    BY DEF NetInv, TypeInv
  <2>4. /\ Len(delivered[r]) <= incId[r] /\ incId[r] <= Len(written[e])
        /\ \A i \in 1 .. Len(delivered[r]) : delivered[r][i] = written[e][i]
    BY <2>2 DEF Received
  <2>5. Len(delivered[r]) \in Nat /\ Len(written[e]) \in Nat /\ Len(delivered[r]) <= Len(written[e])
    BY <2>3, <2>4
  <2>6. SubSeq(delivered[r], 1, Len(delivered[r])) = SubSeq(written[e], 1, Len(delivered[r]))
    BY <2>3, <2>4, <2>5
  <2> QED
    BY <2>1, <2>5, <2>6 DEF IsPrefix
<1> QED
  BY <1>1, Connected, PTL
=============================================================================
