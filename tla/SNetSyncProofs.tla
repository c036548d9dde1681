--------------------------- MODULE SNetSyncProofs ----------------------------
(***************************************************************************)
(* The safety properties of SNetSync, proved for every number of clients,  *)
(* every sequence of events and every set of orders.                       *)
(***************************************************************************)
EXTENDS SNetSync, SequenceTheorems, FiniteSetTheorems, TLAPS

-----------------------------------------------------------------------------
(* The state of a client's request to go past an event.                    *)

\* The places of the packets of a type.
At(s, type) == {n \in 1 .. Len(s) : s[n].type = type}
None(s, type) == At(s, type) = {}
One(s, type) == \E n \in 1 .. Len(s) : At(s, type) = {n}
\* All packets of a type come before all of another.
Before(s, type, other) == \A n \in At(s, type), m \in At(s, other) : n < m

Going(i) ==
    /\ ~wait[i] /\ pos[i] = opened /\ ~svrWait[i]
    /\ None(up[i], "SYNC") /\ None(down[i], "SYN@")
Asking(i) ==
    /\ wait[i] /\ pos[i] = opened + 1 /\ ~svrWait[i]
    /\ One(up[i], "SYNC") /\ None(down[i], "SYN@")
Waiting(i) ==
    /\ wait[i] /\ pos[i] = opened + 1 /\ svrWait[i]
    /\ None(up[i], "SYNC") /\ None(down[i], "SYN@")
Released(i) ==
    /\ wait[i] /\ pos[i] = opened /\ ~svrWait[i]
    /\ None(up[i], "SYNC") /\ One(down[i], "SYN@")

PhaseInv == \A i \in Client : Going(i) \/ Asking(i) \/ Waiting(i) \/ Released(i)

\* The packets that go down.
Volleys == UNION {[S -> Orders] : S \in SUBSET Client}
Reply ==
    [type : {"SYN@"}, event : Event \union {"none"}, rnd : Seq(Volleys), bogus : BOOLEAN]
      \union [type : {"ORD@"}, table : [Client -> Orders]]
      \union [type : {"PLST"}, table : [Client -> Orders]]
      \union [type : {"INVT"}, player : Client]

TypeInv ==
    /\ up \in [Client -> Seq(Packet)]
    /\ down \in [Client -> Seq(Reply)]
    /\ alive \in [Client -> BOOLEAN]
    /\ pos \in [Client -> 0 .. Len(Script)]
    /\ wait \in [Client -> BOOLEAN]
    /\ syncarg \in [Client -> Event \union {"none"}]
    /\ view \in [Client -> [Client -> Orders]]
    /\ bought \in [Client -> [Client -> Nat]]
    /\ given \in [Client -> Nat]
    /\ used \in [Client -> Seq(Volleys)]
    /\ missync \in [Client -> BOOLEAN]
    /\ svrWait \in [Client -> BOOLEAN]
    /\ svrArg \in [Client -> [type : {"SYNC"}, event : Event \union {"none"}, serv : BOOLEAN]]
    /\ svrQuit \in [Client -> BOOLEAN]
    /\ polling \in {"idle", "client", "server"}
    /\ current \in Client
    /\ opened \in Nat

-----------------------------------------------------------------------------
(* Events. *)
EventOf(i) ==
    /\ wait[i] => pos[i] >= 1 /\ syncarg[i] = Script[pos[i]]
    /\ \A n \in At(up[i], "SYNC") : up[i][n].event = Script[pos[i]]
    /\ svrWait[i] => svrArg[i].event = Script[pos[i]]
    /\ \A n \in At(down[i], "SYN@") :
          down[i][n].event = Script[pos[i]] /\ ~down[i][n].bogus
EventInv == \A i \in Client : EventOf(i)

(* Clients that have left. *)
AliveOf(i) ==
    /\ i = Host => alive[i]
    /\ svrQuit[i] => ~alive[i]
    /\ ~None(up[i], "DISC") => ~alive[i]
AliveInv == \A i \in Client : AliveOf(i)

(* Inventories. *)
Rounds(n) == Cardinality({k \in 1 .. n : Script[k] = "ROUND"})

\* Among the first n packets of s, those that tell of a tour of player p.
Tells(x, p) == x.type = "INVT" /\ x.player = p
Told(s, n, p) == Cardinality({k \in 1 .. n : Tells(s[k], p)})

\* A client tells the others of its tours before it asks to go on.
TellsOf(i) ==
    /\ bought[i][i] = Rounds(pos[i])
    /\ \A n \in At(up[i], "INVT") : up[i][n].player = i
    /\ \A n \in At(down[i], "INVT") : down[i][n].player # i
    /\ Before(up[i], "INVT", "SYNC")
    /\ None(up[i], "SYNC") => None(up[i], "INVT")

\* What client i knows of the tours of p, and is about to learn.
AllTold(s, p) == Told(s, Len(s), p)
Tally(i, p) == bought[i][p] + AllTold(down[i], p) + AllTold(up[p], p)
ToursOf(i, p) ==
    /\ Tally(i, p) <= Rounds(pos[p])
    /\ alive[i] => Tally(i, p) = Rounds(pos[p])
    /\ alive[i] => \A a \in At(down[i], "SYN@") :
                      bought[i][p] + Told(down[i], a - 1, p) = Rounds(opened)

BoughtInv == \A i \in Client : TellsOf(i) /\ \A p \in Client \ {i} : ToursOf(i, p)

(* Volleys: those of the last turn may be outstanding. *)
UsedOf(i) ==
    IF pos[i] = 0 THEN Len(used[i]) = 0
    ELSE Len(used[i]) = Turns(pos[i] - 1) \/ (~wait[i] /\ Len(used[i]) = Turns(pos[i]))
UsedInv == \A i \in Client : UsedOf(i)

-----------------------------------------------------------------------------
(* Sequences and places. *)

LEMMA AtAppend ==
    ASSUME NEW S, NEW s \in Seq(S), NEW x \in S, NEW t
    PROVE  /\ Append(s, x) \in Seq(S)
           /\ Len(Append(s, x)) = Len(s) + 1
           /\ \A n \in 1 .. Len(s) : Append(s, x)[n] = s[n]
           /\ Append(s, x)[Len(s) + 1] = x
           /\ x.type = t => At(Append(s, x), t) = At(s, t) \union {Len(s) + 1}
           /\ x.type # t => At(Append(s, x), t) = At(s, t)
BY DEF At

\* A packet queued behind none of its type is the only one of its type.
LEMMA LastOnly ==
    ASSUME NEW S, NEW s \in Seq(S), NEW x \in S, NEW t, At(s, t) = {}
    PROVE  \A n \in At(Append(s, x), t) : n = Len(s) + 1 /\ Append(s, x)[n] = x
<1>1. /\ Len(Append(s, x)) = Len(s) + 1 /\ Len(s) \in Nat
      /\ \A n \in 1 .. Len(s) : Append(s, x)[n] = s[n]
      /\ Append(s, x)[Len(s) + 1] = x
  OBVIOUS
<1> SUFFICES ASSUME NEW n \in At(Append(s, x), t) PROVE n = Len(s) + 1
  BY <1>1
<1>2. n \in 1 .. Len(s) + 1 /\ Append(s, x)[n].type = t
  BY <1>1 DEF At
<1>3. n \notin 1 .. Len(s)
  BY <1>1, <1>2 DEF At
<1> QED
  BY <1>1, <1>2, <1>3

\* Taking the packet at the head moves the others up one place.
LEMMA AtTail ==
    ASSUME NEW S, NEW s \in Seq(S), s # <<>>, NEW t
    PROVE  /\ Tail(s) \in Seq(S) /\ Head(s) \in S /\ Head(s) = s[1]
           /\ Len(Tail(s)) = Len(s) - 1 /\ Len(s) \in Nat \ {0}
           /\ \A n \in 1 .. Len(s) - 1 : Tail(s)[n] = s[n + 1]
           /\ \A n : n \in At(Tail(s), t) <=> n \in 1 .. Len(s) - 1 /\ n + 1 \in At(s, t)
BY DEF At

\* What may be done to a queue without a change for packets of a type.
Same(s, r, t) == (None(s, t) => None(r, t)) /\ (One(s, t) => One(r, t))

\* A queued packet adds one of its own type and none of another type.
LEMMA AppendCounts ==
    ASSUME NEW S, NEW s \in Seq(S), NEW x \in S, NEW t
    PROVE  /\ x.type # t => Same(s, Append(s, x), t)
           /\ x.type = t /\ None(s, t) => One(Append(s, x), t)
<1>1. Len(s) \in Nat /\ Len(Append(s, x)) = Len(s) + 1
  BY AtAppend
<1>2. CASE x.type # t
  <2>1. At(Append(s, x), t) = At(s, t)
    BY AtAppend, <1>2
  <2> QED
    BY <1>1, <1>2, <2>1 DEF Same, None, One
<1>3. CASE x.type = t
  <2>1. At(Append(s, x), t) = At(s, t) \union {Len(s) + 1}
    BY AtAppend, <1>3
  <2> QED
    BY <1>1, <1>3, <2>1 DEF None, One
<1> QED
  BY <1>2, <1>3

\* Taking the head packet takes one of its own type and none of another.
LEMMA TailCounts ==
    ASSUME NEW S, NEW s \in Seq(S), s # <<>>, NEW t
    PROVE  /\ Head(s).type # t => Same(s, Tail(s), t)
           /\ Head(s).type = t => ~None(s, t) /\ (One(s, t) => None(Tail(s), t))
<1>1. /\ Head(s) = s[1] /\ Len(s) \in Nat \ {0} /\ Len(Tail(s)) = Len(s) - 1
      /\ \A n : n \in At(Tail(s), t) <=> n \in 1 .. Len(s) - 1 /\ n + 1 \in At(s, t)
  BY AtTail
<1>2. CASE Head(s).type # t
  <2>1. 1 \notin At(s, t)
    BY <1>1, <1>2 DEF At
  <2>2. None(s, t) => None(Tail(s), t)
    BY <1>1 DEF None
  <2>3. ASSUME One(s, t) PROVE One(Tail(s), t)
    <3>1. PICK n \in 1 .. Len(s) : At(s, t) = {n}
      BY <2>3 DEF One
    <3>2. n # 1
      BY <2>1, <3>1
    <3>3. n - 1 \in 1 .. Len(s) - 1
      BY <1>1, <3>2
    <3>4. \A m : m \in At(Tail(s), t) <=> m = n - 1
      BY <1>1, <3>1, <3>3
    <3> QED
      BY <1>1, <3>3, <3>4 DEF One
  <2> QED
    BY <1>2, <2>2, <2>3 DEF Same
<1>3. CASE Head(s).type = t
  <2>1. 1 \in At(s, t)
    BY <1>1, <1>3 DEF At
  <2>2. ASSUME One(s, t) PROVE None(Tail(s), t)
    <3>1. PICK n \in 1 .. Len(s) : At(s, t) = {n}
      BY <2>2 DEF One
    <3>2. At(s, t) = {1}
      BY <2>1, <3>1
    <3> QED
      BY <1>1, <3>2 DEF None
  <2> QED
    BY <1>3, <2>1, <2>2 DEF None
<1> QED
  BY <1>2, <1>3

\* A queue has as many of a type as itself, and never both none and one.
LEMMA SameSelf == \A s, t : Same(s, s, t) /\ ~(None(s, t) /\ One(s, t))
BY DEF Same, None, One

\* Same is transitive, so the steps of one handler can be taken together.
LEMMA SameChain == \A s, r, q, t : Same(s, r, t) /\ Same(r, q, t) => Same(s, q, t)
BY DEF Same

\* An empty queue has no packet of any type.
LEMMA AtEmpty == \A t : At(<<>>, t) = {}
BY DEF At

-----------------------------------------------------------------------------
\* The server's own player is one of the clients.
LEMMA HostIsClient == Host \in Client /\ Client \subseteq Nat
BY ClientAssumption DEF Host, Client

(* Counting. *)

LEMMA CountNext ==
    ASSUME NEW n \in Nat, NEW A \in SUBSET (1 .. n + 1)
    PROVE  /\ Cardinality(A) \in 0 .. n + 1
           /\ Cardinality(A \ {n + 1}) \in 0 .. n
           /\ Cardinality(A) = Cardinality(A \ {n + 1}) + (IF n + 1 \in A THEN 1 ELSE 0)
<1>1. /\ IsFiniteSet(1 .. n) /\ IsFiniteSet(1 .. n + 1)
      /\ Cardinality(1 .. n) = n /\ Cardinality(1 .. n + 1) = n + 1
  BY FS_Interval
<1>2. A \ {n + 1} \in SUBSET (1 .. n)
  OBVIOUS
<1>3. /\ IsFiniteSet(A) /\ Cardinality(A) \in Nat /\ Cardinality(A) <= n + 1
      /\ Cardinality(A \ {n + 1}) \in Nat /\ Cardinality(A \ {n + 1}) <= n
  <2>1. \A U : IsFiniteSet(U) => \A V \in SUBSET U : IsFiniteSet(V) /\ Cardinality(V) <= Cardinality(U)
    BY FS_Subset
  <2>2. IsFiniteSet(A) /\ Cardinality(A) <= Cardinality(1 .. n + 1)
    BY <1>1, <2>1
  <2>3. IsFiniteSet(A \ {n + 1}) /\ Cardinality(A \ {n + 1}) <= Cardinality(1 .. n)
    BY <1>1, <1>2, <2>1
  <2> QED
    BY <1>1, <2>2, <2>3, FS_CardinalityType
<1>4. Cardinality(A \ {n + 1}) = IF n + 1 \in A THEN Cardinality(A) - 1 ELSE Cardinality(A)
  BY <1>3, FS_RemoveElement
<1> QED
  BY <1>3, <1>4

\* Counting the members of a set of places that was moved by one place.
LEMMA CountShift ==
    ASSUME NEW n \in Nat \ {0}, NEW A \in SUBSET (1 .. n), NEW B \in SUBSET (1 .. n - 1),
           \A k \in 1 .. n - 1 : k \in B <=> k + 1 \in A
    PROVE  Cardinality(A) = Cardinality(B) + (IF 1 \in A THEN 1 ELSE 0)
<1>1. IsFiniteSet(A) /\ IsFiniteSet(B) /\ Cardinality(A) \in Nat /\ Cardinality(B) \in Nat
  <2>1. IsFiniteSet(1 .. n) /\ IsFiniteSet(1 .. n - 1)
    BY FS_Interval
  <2>2. IsFiniteSet(A) /\ IsFiniteSet(B)
    BY <2>1, FS_Subset
  <2> QED
    BY <2>2, FS_CardinalityType
<1>2. Cardinality(A \ {1}) = Cardinality(B)
  <2> DEFINE f == [k \in B |-> k + 1]
  <2>1. \A k \in B : k + 1 \in A \ {1}
    OBVIOUS
  <2>2. \A m \in A \ {1} : m - 1 \in B /\ (m - 1) + 1 = m
    OBVIOUS
  <2>3. f \in [B -> A \ {1}] /\ \A k \in B : f[k] = k + 1
    BY <2>1
  <2>4. f \in Injection(B, A \ {1})
    <3>1. \A a, b \in B : f[a] = f[b] => a = b
      BY <2>3
    <3> QED
      BY <2>3, <3>1 DEF Injection, IsInjective
  <2>5. f \in Surjection(B, A \ {1})
    <3>1. \A m \in A \ {1} : \E k \in B : f[k] = m
      BY <2>2, <2>3
    <3> QED
      BY <2>3, <3>1 DEF Surjection
  <2> HIDE DEF f
  <2>6. f \in Bijection(B, A \ {1})
    BY <2>4, <2>5 DEF Bijection
  <2> QED
    BY <1>1, <2>6, FS_Bijection DEF ExistsBijection
<1>3. Cardinality(A \ {1}) = IF 1 \in A THEN Cardinality(A) - 1 ELSE Cardinality(A)
  BY <1>1, FS_RemoveElement
<1> QED
  BY <1>1, <1>2, <1>3

\* One more event ends a turn or does not.
LEMMA TurnsNext ==
    \A n \in Nat : /\ Turns(n) \in 0 .. n /\ Turns(n + 1) \in Nat
                   /\ Turns(n + 1) = Turns(n) + (IF Script[n + 1] = "TURN" THEN 1 ELSE 0)
<1> TAKE n \in Nat
<1> DEFINE T(m) == {k \in 1 .. m : Script[k] = "TURN"}
<1>1. T(n + 1) \in SUBSET (1 .. n + 1) /\ T(n + 1) \ {n + 1} = T(n)
      /\ (n + 1 \in T(n + 1) <=> Script[n + 1] = "TURN")
  OBVIOUS
<1> HIDE DEF T
<1>2. /\ Cardinality(T(n + 1)) \in 0 .. n + 1 /\ Cardinality(T(n)) \in 0 .. n
      /\ Cardinality(T(n + 1)) = Cardinality(T(n)) + (IF Script[n + 1] = "TURN" THEN 1 ELSE 0)
  BY <1>1, CountNext
<1> QED
  BY <1>2 DEF Turns, T

\* One more event ends a round or does not.
LEMMA RoundsNext ==
    \A n \in Nat : /\ Rounds(n) \in 0 .. n /\ Rounds(n + 1) \in Nat
                   /\ Rounds(n + 1) = Rounds(n) + (IF Script[n + 1] = "ROUND" THEN 1 ELSE 0)
<1> TAKE n \in Nat
<1> DEFINE T(m) == {k \in 1 .. m : Script[k] = "ROUND"}
<1>1. T(n + 1) \in SUBSET (1 .. n + 1) /\ T(n + 1) \ {n + 1} = T(n)
      /\ (n + 1 \in T(n + 1) <=> Script[n + 1] = "ROUND")
  OBVIOUS
<1> HIDE DEF T
<1>2. /\ Cardinality(T(n + 1)) \in 0 .. n + 1 /\ Cardinality(T(n)) \in 0 .. n
      /\ Cardinality(T(n + 1)) = Cardinality(T(n)) + (IF Script[n + 1] = "ROUND" THEN 1 ELSE 0)
  BY <1>1, CountNext
<1> QED
  BY <1>2 DEF Rounds, T

\* Before the first event no turn and no round is over.
LEMMA ZeroEvents == Turns(0) = 0 /\ Rounds(0) = 0
<1>1. {k \in 1 .. 0 : Script[k] = "TURN"} = {} /\ {k \in 1 .. 0 : Script[k] = "ROUND"} = {}
  OBVIOUS
<1> QED
  BY <1>1, FS_EmptySet DEF Turns, Rounds

\* No packets tell of no tour.
LEMMA ToldEmpty == \A s, p : Told(s, 0, p) = 0
<1> TAKE s, p
<1>1. {k \in 1 .. 0 : Tells(s[k], p)} = {}
  OBVIOUS
<1> QED
  BY <1>1, FS_EmptySet DEF Told

\* The number of tours a queue tells of is a natural number.
LEMMA ToldNat == \A s, p : \A n \in Nat : Told(s, n, p) \in Nat
<1> TAKE s, p
<1> TAKE n \in Nat
<1>1. IsFiniteSet(1 .. n) /\ {k \in 1 .. n : Tells(s[k], p)} \in SUBSET (1 .. n)
  BY FS_Interval
<1>2. IsFiniteSet({k \in 1 .. n : Tells(s[k], p)})
  BY <1>1, FS_Subset
<1> QED
  BY <1>2, FS_CardinalityType DEF Told

\* A packet queued last adds the tour it tells of, and changes nothing before
\* it.
LEMMA ToldAppend ==
    ASSUME NEW S, NEW s \in Seq(S), NEW x \in S, NEW p
    PROVE  /\ Told(Append(s, x), Len(s) + 1, p) = Told(s, Len(s), p) + (IF Tells(x, p) THEN 1 ELSE 0)
           /\ \A n \in 0 .. Len(s) : Told(Append(s, x), n, p) = Told(s, n, p)
<1> DEFINE r == Append(s, x)
<1>1. r[Len(s) + 1] = x /\ Len(s) \in Nat /\ \A k \in 1 .. Len(s) : r[k] = s[k]
  BY AtAppend
<1> HIDE DEF r
<1>2. \A n \in 0 .. Len(s) : Told(r, n, p) = Told(s, n, p)
  <2> TAKE n \in 0 .. Len(s)
  <2>1. {k \in 1 .. n : Tells(r[k], p)} = {k \in 1 .. n : Tells(s[k], p)}
    BY <1>1
  <2> QED
    BY <2>1 DEF Told
<1>3. Told(r, Len(s) + 1, p) = Told(r, Len(s), p) + (IF Tells(x, p) THEN 1 ELSE 0)
  <2> DEFINE A(m) == {k \in 1 .. m : Tells(r[k], p)}
  <2>1. A(Len(s) + 1) \in SUBSET (1 .. Len(s) + 1) /\ A(Len(s) + 1) \ {Len(s) + 1} = A(Len(s))
        /\ (Len(s) + 1 \in A(Len(s) + 1) <=> Tells(x, p))
    BY <1>1
  <2> HIDE DEF A
  <2>2. Cardinality(A(Len(s) + 1)) = Cardinality(A(Len(s))) + (IF Tells(x, p) THEN 1 ELSE 0)
    BY <1>1, <2>1, CountNext
  <2> QED
    BY <2>2 DEF Told, A
<1>4. Len(s) \in 0 .. Len(s)
  BY <1>1
<1> QED
  BY <1>2, <1>3, <1>4 DEF r

\* The tours told of are those of the head packet and those of the rest.
LEMMA ToldTail ==
    ASSUME NEW S, NEW s \in Seq(S), s # <<>>, NEW p, NEW n \in 1 .. Len(s)
    PROVE  Told(s, n, p) = Told(Tail(s), n - 1, p) + (IF Tells(Head(s), p) THEN 1 ELSE 0)
<1> DEFINE A == {k \in 1 .. n : Tells(s[k], p)}
           B == {k \in 1 .. n - 1 : Tells(Tail(s)[k], p)}
<1>1. \A k \in 1 .. n - 1 : Tail(s)[k] = s[k + 1]
  BY AtTail
<1>2. Head(s) = s[1] /\ n \in Nat \ {0}
  BY AtTail
<1>3. \A k \in 1 .. n - 1 : k \in B <=> k + 1 \in A
  BY <1>1, <1>2
<1>4. (1 \in A <=> Tells(Head(s), p)) /\ A \in SUBSET (1 .. n) /\ B \in SUBSET (1 .. n - 1)
  BY <1>2
<1> HIDE DEF A, B
<1>5. Cardinality(A) = Cardinality(B) + (IF 1 \in A THEN 1 ELSE 0)
  BY <1>2, <1>3, <1>4, CountShift
<1> QED
  BY <1>4, <1>5 DEF Told, A, B

-----------------------------------------------------------------------------
\* The game starts in a state of the right type.
LEMMA TypeInit == Init => TypeInv
<1> USE ClientAssumption, ScriptAssumption, OrdersAssumption, HostIsClient
<1> SUFFICES ASSUME Init PROVE TypeInv
  OBVIOUS
<1>1. \A S : <<>> \in Seq(S)
  OBVIOUS
<1> QED
  BY <1>1 DEF Init, TypeInv, SyncRqst, Client, Host

\* What is sent is a packet.
LEMMA PacketTypes ==
    ASSUME TypeInv, NEW i \in Client
    PROVE  /\ \A o \in Orders : CliOrders(i, o) \in Packet
           /\ \A e \in Event, b \in BOOLEAN : SyncRqst(e, b) \in Packet
           /\ PlayerState(view[i]) \in Packet
           /\ Inventory(i) \in Packet
           /\ Disconnect \in Packet
BY DEF TypeInv, Packet, CliOrders, SyncRqst, PlayerState, Inventory, Disconnect

\* What a client appends when it asks.
LEMMA AskParts ==
    ASSUME TypeInv, NEW i \in Client, NEW e \in Event
    PROVE  /\ Farewell(i, e) \in {<<>>, <<Inventory(i)>>, <<PlayerState(view[i])>>}
           /\ Farewell(i, e) = <<Inventory(i)>> <=> e = "ROUND"
           /\ up[i] \o AskToSync(i, e) =
                 IF Farewell(i, e) = <<>> THEN Append(up[i], SyncRqst(e, i = Host))
                 ELSE Append(Append(up[i], Farewell(i, e)[1]), SyncRqst(e, i = Host))
<1>1. Farewell(i, e) \in {<<>>, <<Inventory(i)>>, <<PlayerState(view[i])>>}
  BY DEF Farewell
<1>2. Farewell(i, e) = <<Inventory(i)>> <=> e = "ROUND"
  BY DEF Farewell, Inventory, PlayerState
<1>3. \A x, y : up[i] \o Append(<<>>, x) = Append(up[i], x)
               /\ up[i] \o Append(<<y>>, x) = Append(Append(up[i], y), x)
  BY SMTT(30) DEF TypeInv
<1>4. \A x : <<x>> # <<>> /\ <<x>>[1] = x
  OBVIOUS
<1>5. CASE Farewell(i, e) = <<>>
  BY <1>1, <1>2, <1>3, <1>4, <1>5, Z3 DEF AskToSync
<1>6. CASE Farewell(i, e) = <<Inventory(i)>>
  BY <1>1, <1>2, <1>3, <1>4, <1>6, Z3 DEF AskToSync
<1>7. CASE Farewell(i, e) = <<PlayerState(view[i])>>
  BY <1>1, <1>2, <1>3, <1>4, <1>7, Z3 DEF AskToSync
<1> QED
  BY <1>1, <1>5, <1>6, <1>7

-----------------------------------------------------------------------------
(* Type correctness. *)

LEMMA TypeFacts ==
    TypeInv => /\ up \in [Client -> Seq(Packet)] /\ down \in [Client -> Seq(Reply)]
               /\ pos \in [Client -> Nat] /\ bought \in [Client -> [Client -> Nat]] /\ opened \in Nat
<1>1. Len(Script) \in Nat
  BY ScriptAssumption
<1> QED
  BY <1>1 DEF TypeInv

\* A client that has events left has its next one inside the script.
LEMMA UpcomingEvent ==
    ASSUME TypeInv, NEW i \in Client, Upcoming(i) # "END"
    PROVE  /\ pos[i] \in Nat /\ pos[i] < Len(Script) /\ pos[i] + 1 \in 0 .. Len(Script)
           /\ Upcoming(i) = Script[pos[i] + 1] /\ Upcoming(i) \in Event
<1>1. pos[i] \in 0 .. Len(Script) /\ Len(Script) \in Nat
  BY ScriptAssumption DEF TypeInv
<1>2. pos[i] < Len(Script) /\ Upcoming(i) = Script[pos[i] + 1]
  BY DEF Upcoming
<1>3. pos[i] + 1 \in 1 .. Len(Script)
  BY <1>1, <1>2
<1> QED
  BY <1>1, <1>2, <1>3, ScriptAssumption

\* Giving orders (sc_client_send_player_orders) keeps the types.
LEMMA TypeOrder ==
    ASSUME TypeInv, NEW i \in Client, Order(i)
    PROVE  TypeInv'
<1>1. PICK o \in Orders :
        /\ view' = [view EXCEPT ![i][i] = o]
        /\ up' = [up EXCEPT ![i] = @ \o <<CliOrders(i, o)>>]
  BY DEF Order, ToServer
<1>2. CliOrders(i, o) \in Packet
  BY PacketTypes
<1>3. up' \in [Client -> Seq(Packet)]
  BY <1>1, <1>2 DEF TypeInv
<1>4. view' \in [Client -> [Client -> Orders]]
  BY <1>1 DEF TypeInv
<1>5. given' \in [Client -> Nat]
  BY DEF Order, TypeInv
<1> QED
  BY <1>3, <1>4, <1>5 DEF TypeInv, Order, svrVars, pollVars

\* Going into a synchronisation (sc_client_sync) keeps the types.
LEMMA TypeSync ==
    ASSUME TypeInv, NEW i \in Client, Sync(i)
    PROVE  TypeInv'
<1> DEFINE e == Upcoming(i)
<1>1. e \in Event /\ pos[i] + 1 \in 0 .. Len(Script)
  BY UpcomingEvent DEF Sync
<1> HIDE DEF e
<1>2. up' = [up EXCEPT ![i] = @ \o AskToSync(i, e)]
  BY DEF Sync, ToServer, e
<1>3. AskToSync(i, e) \in Seq(Packet)
  <2>1. SyncRqst(e, i = Host) \in Packet /\ Inventory(i) \in Packet /\ PlayerState(view[i]) \in Packet
    BY <1>1, PacketTypes
  <2>2. Farewell(i, e) \in Seq(Packet)
    <3>1. <<>> \in Seq(Packet) /\ <<Inventory(i)>> \in Seq(Packet)
             /\ <<PlayerState(view[i])>> \in Seq(Packet)
      BY <2>1
    <3>2. Farewell(i, e) \in {<<>>, <<Inventory(i)>>, <<PlayerState(view[i])>>}
      BY <1>1, AskParts
    <3> QED
      BY <3>1, <3>2
  <2> QED
    BY <2>1, <2>2 DEF AskToSync
<1>4. up' \in [Client -> Seq(Packet)]
  BY <1>2, <1>3 DEF TypeInv
<1>5. bought' \in [Client -> [Client -> Nat]]
  BY SMTT(30) DEF Sync, TypeInv
<1>6. /\ syncarg' \in [Client -> Event \union {"none"}]
      /\ wait' \in [Client -> BOOLEAN] /\ pos' \in [Client -> 0 .. Len(Script)]
  BY <1>1 DEF Sync, TypeInv, e
<1> QED
  BY <1>4, <1>5, <1>6 DEF TypeInv, Sync, svrVars, pollVars

\* The orders a client simulates with are one order for each player that
\* fires.
LEMMA VolleyType ==
    ASSUME TypeInv, NEW i \in Client
    PROVE  Volley(i) \in Volleys
<1> DEFINE S == IF Sequential THEN {TurnOf(TurnsEnded(i) - 1)} ELSE Client
<1>1. S \subseteq Client
  <2>1. TurnsEnded(i) - 1 \in Int => TurnOf(TurnsEnded(i) - 1) \in Client
    BY ClientAssumption DEF TurnOf, Client
  <2>2. TurnsEnded(i) \in Nat
    <3>1. pos[i] \in Nat
      BY ScriptAssumption DEF TypeInv
    <3> QED
      BY <3>1, TurnsNext DEF TurnsEnded
  <2> QED
    BY <2>1, <2>2
<1>2. Volley(i) \in [S -> Orders]
  BY <1>1 DEF Volley, TypeInv
<1> QED
  BY <1>1, <1>2 DEF Volleys

\* Simulating a turn keeps the types.
LEMMA TypeSimulate ==
    ASSUME TypeInv, NEW i \in Client, Simulate(i)
    PROVE  TypeInv'
<1>1. Volley(i) \in Volleys
  BY VolleyType
<1>2. used' \in [Client -> Seq(Volleys)]
  BY <1>1 DEF Simulate, TypeInv
<1> QED
  BY <1>2 DEF TypeInv, Simulate, svrVars, pollVars

\* A client that leaves (sc_client_free) keeps the types.
LEMMA TypeQuit ==
    ASSUME TypeInv, NEW i \in Client, Quit(i)
    PROVE  TypeInv'
<1>1. up' \in [Client -> Seq(Packet)]
  BY PacketTypes, SMTT(30) DEF Quit, ToServer, TypeInv
<1> QED
  BY <1>1 DEF TypeInv, Quit, svrVars, pollVars

\* Handling a packet in the client keeps the types.
LEMMA TypeClientRecv ==
    ASSUME TypeInv, NEW i \in Client, ClientRecv(i)
    PROVE  TypeInv'
<1> DEFINE p == Head(down[i])
<1>1. down[i] \in Seq(Reply) /\ down[i] # <<>>
  BY DEF TypeInv, ClientRecv
<1>2. p \in Reply /\ Tail(down[i]) \in Seq(Reply)
  BY <1>1, AtTail
<1>3. down' \in [Client -> Seq(Reply)]
  BY <1>2 DEF ClientRecv, TypeInv
<1>4. CASE p.type = "ORD@" /\ RecvOrders(i, p)
  <2>1. p.table \in [Client -> Orders]
    BY <1>2, <1>4 DEF Reply
  <2>2. view' \in [Client -> [Client -> Orders]]
    BY <2>1, <1>4 DEF RecvOrders, TypeInv
  <2> QED
    BY <1>3, <1>4, <2>2 DEF TypeInv, ClientRecv, RecvOrders, svrVars, pollVars
<1>5. CASE p.type = "PLST" /\ RecvPlayerState
  BY <1>3, <1>5 DEF TypeInv, ClientRecv, RecvPlayerState, svrVars, pollVars
<1>6. CASE p.type = "INVT" /\ RecvInventory(i, p)
  <2>1. p.player \in Client
    BY <1>2, <1>6 DEF Reply
  <2>2. bought' \in [Client -> [Client -> Nat]]
    <3>1. bought \in [Client -> [Client -> Nat]]
      BY DEF TypeInv
    <3>2. PICK q \in Client : q = p.player
      BY <2>1
    <3>3. bought' = [bought EXCEPT ![i] = [bought[i] EXCEPT ![q] = bought[i][q] + 1]]
      BY <3>2, <1>6 DEF RecvInventory
    <3>4. bought[i] \in [Client -> Nat] /\ bought[i][q] + 1 \in Nat
      BY <3>1
    <3>5. [bought[i] EXCEPT ![q] = bought[i][q] + 1] \in [Client -> Nat]
      BY <3>4
    <3> QED
      BY <3>1, <3>3, <3>5
  <2> QED
    BY <1>3, <1>6, <2>2 DEF TypeInv, ClientRecv, RecvInventory, svrVars, pollVars
<1>7. CASE p.type = "SYN@" /\ RecvSync(i, p)
  <2>1. wait' \in [Client -> BOOLEAN]
    BY <1>7 DEF RecvSync, TypeInv
  <2>2. missync' \in [Client -> BOOLEAN]
    <3>1. p.bogus \in BOOLEAN
      BY <1>2, <1>7 DEF Reply
    <3> HIDE DEF p
    <3> QED
      BY <3>1, <1>7 DEF RecvSync, TypeInv
  <2> QED
    BY <1>3, <1>7, <2>1, <2>2 DEF TypeInv, ClientRecv, RecvSync, svrVars, pollVars
<1> QED
  BY <1>4, <1>5, <1>6, <1>7 DEF ClientRecv

\* What the server appends.
LEMMA ServerAppends ==
    ASSUME TypeInv, NEW i \in Client, ServerRecv(i)
    PROVE  /\ up[i] \in Seq(Packet) /\ up[i] # <<>> /\ Head(up[i]) \in Packet
           /\ Tail(up[i]) \in Seq(Packet)
           /\ up' = [up EXCEPT ![i] = Tail(@)]
           /\ Head(up[i]) \in [type : {"SYNC"}, event : Event, serv : BOOLEAN] <=>
                  Head(up[i]).type = "SYNC"
<1>1. up[i] \in Seq(Packet) /\ up[i] # <<>>
  BY DEF TypeInv, ServerRecv
<1>2. Head(up[i]) \in Packet /\ Tail(up[i]) \in Seq(Packet)
  BY <1>1, AtTail
<1>3. Head(up[i]) \in [type : {"SYNC"}, event : Event, serv : BOOLEAN] <=>
                  Head(up[i]).type = "SYNC"
  BY <1>2 DEF Packet, Disconnect
<1> QED
  BY <1>1, <1>2, <1>3 DEF ServerRecv

\* Handling a packet in the server keeps the types.
LEMMA TypeServerRecv ==
    ASSUME TypeInv, NEW i \in Client, ServerRecv(i)
    PROVE  TypeInv'
<1> DEFINE p == Head(up[i])
<1>1. p \in Packet /\ up' \in [Client -> Seq(Packet)]
  <2>1. up \in [Client -> Seq(Packet)]
    BY DEF TypeInv
  <2> QED
    BY <2>1, ServerAppends
<1>2. \A q \in Reply : RelayTo(i, q) => down' \in [Client -> Seq(Reply)]
  BY DEF RelayTo, TypeInv
<1>3. CASE p.type = "SYNC" /\ ServerSync(i, p)
  <2>1. p \in [type : {"SYNC"}, event : Event \union {"none"}, serv : BOOLEAN]
    BY <1>3, ServerAppends
  <2> DEFINE arg == [svrArg EXCEPT ![i] = p]
  <2>2. arg \in [Client -> [type : {"SYNC"}, event : Event \union {"none"}, serv : BOOLEAN]]
    BY <2>1 DEF TypeInv
  <2>3. svrArg' = arg
    BY <1>3 DEF ServerSync
  <2> HIDE DEF arg
  <2>4. \A j \in Client : Answer(arg, j) \in Reply
    <3>1. arg[Host].event \in Event \union {"none"} /\ used[Host] \in Seq(Volleys) /\ <<>> \in Seq(Volleys)
      BY <2>2, HostIsClient DEF TypeInv
    <3> QED
      BY <3>1 DEF Answer, SyncResp, SyncBogus, RandPeek, Reply
  <2>5. SyncAll([svrWait EXCEPT ![i] = TRUE], arg)
    BY <1>3 DEF ServerSync, arg
  <2>6. down' \in [Client -> Seq(Reply)]
    <3>1. down \in [Client -> Seq(Reply)]
      BY DEF TypeInv
    <3>2. \A j \in Client : Append(down[j], Answer(arg, j)) \in Seq(Reply)
      BY <2>4, <3>1
    <3> QED
      BY <2>5, <3>1, <3>2 DEF SyncAll
  <2>7. svrWait' \in [Client -> BOOLEAN] /\ opened' \in Nat
    <3>1. svrWait \in [Client -> BOOLEAN] /\ opened \in Nat
      BY DEF TypeInv
    <3>2. [svrWait EXCEPT ![i] = TRUE] \in [Client -> BOOLEAN]
          /\ [j \in Client |-> FALSE] \in [Client -> BOOLEAN] /\ opened + 1 \in Nat
      BY <3>1
    <3> QED
      BY <2>5, <3>1, <3>2 DEF SyncAll
  <2>8. UNCHANGED svrQuit
    BY <1>3 DEF ServerSync
  <2> QED
    BY <1>1, <2>2, <2>3, <2>6, <2>7, <2>8 DEF TypeInv, ServerRecv, cliVars, pollVars
<1>4. CASE p.type = "ORDR" /\ ServerOrders(i, p)
  <2>1. p.player \in Client /\ p.order \in Orders
    BY <1>1, <1>4 DEF Packet, Disconnect
  <2>2. RelayTable(p) \in [Client -> Orders]
    BY <2>1, HostIsClient DEF RelayTable, TypeInv
  <2>3. SvrOrders(RelayTable(p)) \in Reply
    BY <2>2 DEF SvrOrders, Reply
  <2>4. down' \in [Client -> Seq(Reply)]
    BY <2>3, <1>2, <1>4 DEF ServerOrders
  <2> QED
    BY <1>1, <1>4, <2>4 DEF TypeInv, ServerRecv, ServerOrders, cliVars, pollVars, svrVars
<1>5. CASE p.type \in {"PLST", "INVT"} /\ ServerRelay(i, p)
  <2>1. p \in Reply
    BY <1>1, <1>5 DEF Packet, Reply, Disconnect
  <2>2. down' \in [Client -> Seq(Reply)]
    BY <2>1, <1>2, <1>5 DEF ServerRelay
  <2> QED
    BY <1>1, <1>5, <2>2 DEF TypeInv, ServerRecv, ServerRelay, cliVars, pollVars, svrVars
<1>6. CASE p.type = "DISC" /\ ServerDisconnect(i)
  BY <1>1, <1>6 DEF TypeInv, ServerRecv, ServerDisconnect, cliVars, pollVars
<1> QED
  BY <1>3, <1>4, <1>5, <1>6 DEF ServerRecv

\* Passing from one connection to the next (sc_net_run) keeps the types.
LEMMA TypePolls ==
    ASSUME TypeInv, PollClient \/ PollServer \/ PollNext
    PROVE  TypeInv'
<1>1. CASE PollClient
  BY <1>1 DEF PollClient, TypeInv, cliVars, svrVars
<1>2. CASE PollServer
  BY <1>2, HostIsClient DEF PollServer, TypeInv, cliVars, svrVars, Host
<1>3. CASE PollNext
  <2>1. current' \in Client
    <3>1. current \in Client
      BY DEF TypeInv
    <3>2. (current + 1 < N /\ current' = current + 1) \/ current' = current
      BY <1>3 DEF PollNext
    <3> QED
      BY <3>1, <3>2, ClientAssumption DEF Client
  <2>2. polling' \in {"idle", "client", "server"}
    BY <1>3 DEF PollNext, TypeInv
  <2> QED
    BY <1>3, <2>1, <2>2 DEF PollNext, TypeInv, cliVars, svrVars
<1> QED
  BY <1>1, <1>2, <1>3

\* Every step of clients and server keeps the types.
LEMMA TypeStep == TypeInv /\ [Next]_vars => TypeInv'
<1> SUFFICES ASSUME TypeInv, [Next]_vars PROVE TypeInv'
  OBVIOUS
<1>1. CASE UNCHANGED vars
  BY <1>1 DEF vars, cliVars, svrVars, pollVars, TypeInv
<1> QED
  BY <1>1, TypeOrder, TypeSync, TypeSimulate, TypeQuit, TypeClientRecv, TypeServerRecv,
     TypePolls DEF Next

\* The queues hold packets only of the shapes that the client and the server
\* build, and every client's counters and tables keep their types, whatever
\* the script of events and the orders.
THEOREM TypeCorrect == Spec => []TypeInv
BY TypeInit, TypeStep, PTL DEF Spec

-----------------------------------------------------------------------------
(* The phases of a request. *)

Phase(i) == Going(i) \/ Asking(i) \/ Waiting(i) \/ Released(i)

\* All clients start before the first event.
LEMMA PhaseInit == Init => PhaseInv
<1> SUFFICES ASSUME Init, NEW i \in Client PROVE Going(i)
  BY DEF PhaseInv
<1>1. None(<<>>, "SYNC") /\ None(<<>>, "SYN@")
  BY AtEmpty DEF None
<1> QED
  BY <1>1 DEF Init, Going

\* What does not touch the request of a client.
LEMMA PhaseFrame ==
    ASSUME NEW i \in Client, Phase(i),
           wait'[i] = wait[i], pos'[i] = pos[i], opened' = opened,
           svrWait'[i] = svrWait[i],
           Same(up[i], up'[i], "SYNC"), Same(down[i], down'[i], "SYN@")
    PROVE  Phase(i)'
BY DEF Phase, Going, Asking, Waiting, Released, Same

\* A client sends packets, none of them a request.
LEMMA PhaseSends ==
    ASSUME TypeInv, NEW i \in Client, NEW x \in Packet, x.type # "SYNC", PhaseInv,
           ToServer(i, <<x>>), UNCHANGED <<down, wait, pos, opened, svrWait>>
    PROVE  PhaseInv'
<1> SUFFICES ASSUME NEW j \in Client PROVE Phase(j)'
  BY DEF PhaseInv, Phase
<1>1. up \in [Client -> Seq(Packet)]
  BY DEF TypeInv
<1>2. up'[j] = IF j = i THEN Append(up[j], x) ELSE up[j]
  <2>1. up'[j] = IF j = i THEN up[j] \o <<x>> ELSE up[j]
    BY <1>1 DEF ToServer
  <2>2. up[j] \o <<x>> = Append(up[j], x)
    BY <1>1
  <2> QED
    BY <2>1, <2>2
<1>3. Same(up[j], up'[j], "SYNC")
  BY <1>1, <1>2, AppendCounts, SameSelf
<1> QED
  BY <1>3, SameSelf, PhaseFrame DEF PhaseInv, Phase

\* A client that asks to go on goes from the first phase to the second.
LEMMA PhaseSync ==
    ASSUME TypeInv, PhaseInv, NEW i \in Client, Sync(i)
    PROVE  PhaseInv'
<1> SUFFICES ASSUME NEW j \in Client PROVE Phase(j)'
  BY DEF PhaseInv, Phase
<1> DEFINE e == Upcoming(i)
           r == SyncRqst(e, i = Host)
<1>1. e \in Event /\ r \in Packet /\ Inventory(i) \in Packet /\ PlayerState(view[i]) \in Packet
  BY UpcomingEvent, PacketTypes DEF Sync
<1>2. r.type = "SYNC" /\ Inventory(i).type # "SYNC" /\ PlayerState(view[i]).type # "SYNC"
  BY DEF SyncRqst, Inventory, PlayerState
<1>3. up \in [Client -> Seq(Packet)] /\ pos \in [Client -> 0 .. Len(Script)]
      /\ wait \in [Client -> BOOLEAN] /\ opened \in Nat
  BY DEF TypeInv
<1>4. up'[i] = up[i] \o AskToSync(i, e) /\ (j # i => up'[j] = up[j])
  BY <1>3 DEF Sync, ToServer
<1>5. UNCHANGED <<down, opened, svrWait>> /\ wait'[i] /\ pos'[i] = pos[i] + 1 /\ ~wait[i]
      /\ (j # i => wait'[j] = wait[j] /\ pos'[j] = pos[j])
  BY <1>3 DEF Sync, Runs, svrVars
<1> HIDE DEF e, r
<1>6. Going(i)
  BY <1>5 DEF PhaseInv, Asking, Waiting, Released
<1>7. One(up'[i], "SYNC")
  <2>1. \E s \in Seq(Packet) : up'[i] = Append(s, r) /\ Same(up[i], s, "SYNC")
    <3>1. CASE Farewell(i, e) = <<>>
      BY <1>1, <1>3, <1>4, <3>1, AskParts, SameSelf DEF r
    <3>2. CASE Farewell(i, e) # <<>>
      <4>1. PICK x \in Packet : x.type # "SYNC" /\ Farewell(i, e) = <<x>>
        BY <1>1, <1>2, <3>2, AskParts
      <4>2. up'[i] = Append(Append(up[i], x), r)
        <5>1. <<x>>[1] = x
          OBVIOUS
        <5>2. up[i] \o AskToSync(i, e) = Append(Append(up[i], Farewell(i, e)[1]), r)
          BY <1>1, <3>2, AskParts DEF r
        <5> QED
          BY <1>4, <4>1, <5>1, <5>2
      <4>3. Append(up[i], x) \in Seq(Packet) /\ Same(up[i], Append(up[i], x), "SYNC")
        BY <1>3, <4>1, AtAppend, AppendCounts
      <4> QED
        BY <4>2, <4>3
    <3> QED
      BY <3>1, <3>2
  <2>2. PICK s \in Seq(Packet) : up'[i] = Append(s, r) /\ None(s, "SYNC")
    BY <1>6, <2>1 DEF Same, Going
  <2> QED
    BY <1>1, <1>2, <2>2, AppendCounts
<1>8. CASE j = i
  BY <1>3, <1>5, <1>6, <1>7, <1>8 DEF Phase, Asking, Going
<1>9. CASE j # i
  BY <1>4, <1>5, <1>9, SameSelf, PhaseFrame DEF PhaseInv, Phase
<1> QED
  BY <1>8, <1>9

\* A packet handled by a client moves it out of the last phase only by an
\* answer to its request.
LEMMA PhaseClientRecv ==
    ASSUME TypeInv, PhaseInv, NEW i \in Client, ClientRecv(i)
    PROVE  PhaseInv'
<1> SUFFICES ASSUME NEW j \in Client PROVE Phase(j)'
  BY DEF PhaseInv, Phase
<1> DEFINE p == Head(down[i])
<1>1. down \in [Client -> Seq(Reply)] /\ down[i] # <<>> /\ wait \in [Client -> BOOLEAN]
  BY DEF ClientRecv, TypeInv
<1>2. down'[i] = Tail(down[i]) /\ (j # i => down'[j] = down[j])
  BY <1>1 DEF ClientRecv
<1>3. UNCHANGED <<up, pos, opened, svrWait>>
  BY DEF ClientRecv, svrVars
<1>4. CASE p.type # "SYN@"
  <2>1. UNCHANGED wait
    BY <1>4 DEF ClientRecv, RecvOrders, RecvPlayerState, RecvInventory
  <2>2. Same(down[j], down'[j], "SYN@")
    <3>1. CASE j = i
      <4>1. down[i] \in Seq(Reply)
        BY <1>1
      <4>2. Same(down[i], Tail(down[i]), "SYN@")
        BY <1>1, <1>4, <4>1, TailCounts
      <4> QED
        BY <1>2, <3>1, <4>2
    <3>2. CASE j # i
      BY <1>2, <3>2, SameSelf
    <3> QED
      BY <3>1, <3>2
  <2> QED
    BY <1>3, <2>1, <2>2, SameSelf, PhaseFrame DEF PhaseInv, Phase
<1>5. CASE p.type = "SYN@"
  <2>1. wait' = [wait EXCEPT ![i] = FALSE]
    BY <1>5 DEF ClientRecv, RecvSync
  <2>2. ~None(down[i], "SYN@") /\ (One(down[i], "SYN@") => None(down'[i], "SYN@"))
    BY <1>1, <1>2, <1>5, TailCounts
  <2>3. Released(i)
    BY <2>2 DEF PhaseInv, Going, Asking, Waiting
  <2>4. CASE j = i
    BY <1>1, <1>3, <2>1, <2>2, <2>3, <2>4 DEF Phase, Released, Going
  <2>5. CASE j # i
    BY <1>1, <1>2, <1>3, <2>1, <2>5, SameSelf, PhaseFrame DEF PhaseInv, Phase
  <2> QED
    BY <2>4, <2>5
<1> QED
  BY <1>4, <1>5

\* The server relays a packet.
LEMMA PhaseRelays ==
    ASSUME TypeInv, PhaseInv, NEW i \in Client, ServerRecv(i), NEW x \in Reply,
           x.type # "SYN@", RelayTo(i, x), Head(up[i]).type # "SYNC", UNCHANGED svrVars
    PROVE  PhaseInv'
<1> SUFFICES ASSUME NEW j \in Client PROVE Phase(j)'
  BY DEF PhaseInv, Phase
<1>1. up \in [Client -> Seq(Packet)] /\ down \in [Client -> Seq(Reply)]
  BY DEF TypeInv
<1>2. Same(up[j], up'[j], "SYNC")
  <2>1. up'[j] = IF j = i THEN Tail(up[j]) ELSE up[j]
    BY <1>1, ServerAppends, ZenonT(30)
  <2> QED
    BY <1>1, <2>1, ServerAppends, TailCounts, SameSelf
<1>3. Same(down[j], down'[j], "SYN@")
  <2>1. down'[j] = down[j] \/ down'[j] = Append(down[j], x)
    BY DEF RelayTo
  <2> QED
    BY <1>1, <2>1, AppendCounts, SameSelf
<1>4. UNCHANGED <<wait, pos, opened, svrWait>>
  BY DEF ServerRecv, cliVars, svrVars
<1> QED
  BY <1>2, <1>3, <1>4, PhaseFrame DEF PhaseInv, Phase

\* The barrier opens when everyone waits; until then one more waits.
LEMMA PhaseServerSync ==
    ASSUME TypeInv, PhaseInv, NEW i \in Client, ServerRecv(i),
           Head(up[i]).type = "SYNC", ServerSync(i, Head(up[i]))
    PROVE  /\ PhaseInv'
           /\ opened' # opened => opened' = opened + 1 /\ \A j \in Client : pos[j] = opened + 1
<1> DEFINE p == Head(up[i])
           waiting == [svrWait EXCEPT ![i] = TRUE]
           arg == [svrArg EXCEPT ![i] = p]
<1>1. /\ up \in [Client -> Seq(Packet)] /\ down \in [Client -> Seq(Reply)]
      /\ svrWait \in [Client -> BOOLEAN] /\ opened \in Nat
  BY DEF TypeInv
<1>2. /\ ~None(up[i], "SYNC") /\ (One(up[i], "SYNC") => None(up'[i], "SYNC"))
      /\ \A j \in Client : j # i => up'[j] = up[j]
  <2>1. up' = [up EXCEPT ![i] = Tail(@)] /\ up[i] # <<>>
    BY ServerAppends
  <2> QED
    BY <1>1, <2>1, TailCounts
<1>3. Asking(i)
  BY <1>2 DEF PhaseInv, Going, Waiting, Released
<1>4. UNCHANGED <<wait, pos>>
  BY DEF ServerRecv, cliVars
<1>5. SyncAll(waiting, arg)
  BY DEF ServerSync
<1> HIDE DEF waiting, arg
<1>6. waiting \in [Client -> BOOLEAN] /\ waiting[i] /\ \A j \in Client : j # i => waiting[j] = svrWait[j]
  BY <1>1 DEF waiting
<1>7. CASE \A j \in Client : waiting[j]
  <2>1. /\ down' = [j \in Client |-> Append(down[j], Answer(arg, j))]
        /\ svrWait' = [j \in Client |-> FALSE] /\ opened' = opened + 1
    BY <1>5, <1>7 DEF SyncAll
  <2>2. \A j \in Client : j # i => Waiting(j)
    BY <1>6, <1>7 DEF PhaseInv, Going, Asking, Released
  <2>3. \A j \in Client : pos[j] = opened + 1
    BY <1>3, <2>2 DEF Asking, Waiting
  <2>4. ASSUME NEW j \in Client PROVE Released(j)'
    <3>1. /\ wait[j] /\ None(down[j], "SYN@") /\ None(up'[j], "SYNC")
      BY <1>2, <1>3, <2>2 DEF Asking, Waiting
    <3>2. Answer(arg, j) \in Reply /\ Answer(arg, j).type = "SYN@"
      <4>1. down'[j] \in Seq(Reply) /\ down'[j] = Append(down[j], Answer(arg, j))
        BY <2>1, TypeServerRecv DEF TypeInv
      <4>2. Answer(arg, j).type = "SYN@"
        BY DEF Answer, SyncResp, SyncBogus
      <4>3. down'[j][Len(down[j]) + 1] = Answer(arg, j) /\ Len(down[j]) + 1 \in 1 .. Len(down'[j])
        BY <1>1, <4>1
      <4> QED
        BY <4>1, <4>2, <4>3
    <3>3. One(down'[j], "SYN@")
      BY <1>1, <2>1, <3>1, <3>2, AppendCounts
    <3> QED
      BY <1>4, <2>1, <2>3, <3>1, <3>3 DEF Released
  <2> QED
    BY <2>1, <2>3, <2>4 DEF PhaseInv
<1>8. CASE ~(\A j \in Client : waiting[j])
  <2>1. svrWait' = waiting /\ UNCHANGED <<down, opened>>
    BY <1>5, <1>8 DEF SyncAll
  <2>2. Waiting(i)'
    BY <1>2, <1>3, <1>4, <1>6, <2>1 DEF Asking, Waiting
  <2>3. ASSUME NEW j \in Client, j # i PROVE Phase(j)'
    BY <1>2, <1>4, <1>6, <2>1, <2>3, SameSelf, PhaseFrame DEF PhaseInv, Phase
  <2> QED
    BY <2>1, <2>2, <2>3 DEF PhaseInv, Phase
<1> QED
  BY <1>7, <1>8

\* The server counts a request, or answers all clients when it is the last
\* one.
LEMMA PhaseServerRecv ==
    ASSUME TypeInv, PhaseInv, NEW i \in Client, ServerRecv(i)
    PROVE  PhaseInv'
<1> DEFINE p == Head(up[i])
<1>1. p \in Packet
  BY ServerAppends
<1>2. CASE p.type = "SYNC" /\ ServerSync(i, p)
  BY <1>2, PhaseServerSync
<1>3. CASE p.type = "ORDR" /\ ServerOrders(i, p)
  <2>1. p.player \in Client /\ p.order \in Orders
    BY <1>1, <1>3 DEF Packet, Disconnect
  <2>2. RelayTable(p) \in [Client -> Orders]
    BY <2>1, HostIsClient DEF RelayTable, TypeInv
  <2>3. SvrOrders(RelayTable(p)) \in Reply /\ SvrOrders(RelayTable(p)).type # "SYN@"
    BY <2>2 DEF SvrOrders, Reply
  <2> QED
    BY <1>3, <2>3, PhaseRelays DEF ServerOrders
<1>4. CASE p.type \in {"PLST", "INVT"} /\ ServerRelay(i, p)
  <2>1. p \in Reply
    BY <1>1, <1>4 DEF Packet, Reply, Disconnect
  <2> QED
    BY <1>4, <2>1, PhaseRelays DEF ServerRelay
<1>5. CASE p.type = "DISC" /\ ServerDisconnect(i)
  <2> SUFFICES ASSUME NEW j \in Client PROVE Phase(j)'
    BY DEF PhaseInv, Phase
  <2>1. up \in [Client -> Seq(Packet)]
    BY DEF TypeInv
  <2>2. Same(up[j], up'[j], "SYNC")
    <3>1. up'[j] = IF j = i THEN Tail(up[j]) ELSE up[j]
      BY <2>1, ServerAppends
    <3> QED
      BY <1>5, <2>1, <3>1, ServerAppends, TailCounts, SameSelf
  <2>3. UNCHANGED <<wait, pos, opened, svrWait, down>>
    BY <1>5 DEF ServerRecv, ServerDisconnect, cliVars
  <2> QED
    BY <2>2, <2>3, SameSelf, PhaseFrame DEF PhaseInv, Phase
<1> QED
  BY <1>2, <1>3, <1>4, <1>5 DEF ServerRecv

\* Every step leaves each client in one of the four phases of its request.
LEMMA PhaseStep == TypeInv /\ PhaseInv /\ [Next]_vars => PhaseInv'
<1> SUFFICES ASSUME TypeInv, PhaseInv, [Next]_vars PROVE PhaseInv'
  OBVIOUS
<1>1. ASSUME UNCHANGED <<up, down, pos, wait, svrWait, opened>> PROVE PhaseInv'
  BY <1>1 DEF PhaseInv, Going, Asking, Waiting, Released
<1>2. ASSUME NEW i \in Client, Order(i) PROVE PhaseInv'
  <2>1. PICK o \in Orders : ToServer(i, <<CliOrders(i, o)>>)
    BY <1>2 DEF Order
  <2>2. CliOrders(i, o) \in Packet /\ CliOrders(i, o).type # "SYNC"
    BY PacketTypes DEF CliOrders
  <2>3. UNCHANGED <<down, wait, pos, opened, svrWait>>
    BY <1>2 DEF Order, svrVars
  <2> QED
    BY <2>1, <2>2, <2>3, PhaseSends
<1>3. ASSUME NEW i \in Client, Quit(i) PROVE PhaseInv'
  <2>1. Disconnect \in Packet /\ Disconnect.type # "SYNC"
    BY PacketTypes DEF Disconnect
  <2>2. ToServer(i, <<Disconnect>>) /\ UNCHANGED <<down, wait, pos, opened, svrWait>>
    BY <1>3 DEF Quit, svrVars
  <2> QED
    BY <2>1, <2>2, PhaseSends
<1>4. ASSUME NEW i \in Client, Simulate(i) PROVE PhaseInv'
  BY <1>1, <1>4 DEF Simulate, svrVars
<1>5. ASSUME PollClient \/ PollServer \/ PollNext PROVE PhaseInv'
  BY <1>1, <1>5 DEF PollClient, PollServer, PollNext, cliVars, svrVars
<1>6. CASE UNCHANGED vars
  BY <1>1, <1>6 DEF vars, cliVars, svrVars
<1> QED
  BY <1>2, <1>3, <1>4, <1>5, <1>6, PhaseSync, PhaseClientRecv, PhaseServerRecv DEF Next
-----------------------------------------------------------------------------
(* The barrier. *)

LEMMA BarrierInit == Init => Barrier!Init
BY DEF Init, Barrier!Init

\* A step of the network is a step of the barrier of RoundBarrier or changes
\* nothing there.
LEMMA BarrierStep == TypeInv /\ PhaseInv /\ [Next]_vars => 
    [Barrier!Next]_<<pos, [i \in Client |-> IF wait[i] THEN pos[i] - 1 ELSE pos[i]]>>
<1> DEFINE passed == [i \in Client |-> IF wait[i] THEN pos[i] - 1 ELSE pos[i]]
<1> SUFFICES ASSUME TypeInv, PhaseInv, [Next]_vars
             PROVE  Barrier!Next \/ UNCHANGED <<pos, passed>>
  OBVIOUS
<1>1. /\ pos \in [Client -> 0 .. Len(Script)] /\ pos \in [Client -> Nat]
      /\ wait \in [Client -> BOOLEAN] /\ opened \in Nat
  BY ScriptAssumption DEF TypeInv
<1>2. ASSUME UNCHANGED <<pos, wait>> PROVE UNCHANGED <<pos, passed>>
  BY <1>2
<1>3. ASSUME NEW i \in Client, Sync(i) PROVE Barrier!Reach(i)
  <2>1. ~wait[i] /\ wait' = [wait EXCEPT ![i] = TRUE] /\ pos' = [pos EXCEPT ![i] = @ + 1]
    BY <1>3 DEF Sync, Runs
  <2>2. \A j \in Client : passed'[j] = passed[j]
    BY <1>1, <2>1
  <2>3. passed' = passed
    BY <2>2
  <2>4. pos[i] = passed[i]
    BY <2>1
  <2> QED
    BY <2>1, <2>3, <2>4 DEF Barrier!Reach
<1>4. ASSUME NEW i \in Client, ClientRecv(i)
      PROVE  Barrier!Pass(i) \/ UNCHANGED <<pos, wait>>
  <2>1. UNCHANGED pos
    BY <1>4 DEF ClientRecv
  <2>2. CASE Head(down[i]).type # "SYN@"
    BY <1>4, <2>1, <2>2 DEF ClientRecv, RecvOrders, RecvPlayerState, RecvInventory
  <2>3. CASE Head(down[i]).type = "SYN@"
    <3>1. wait' = [wait EXCEPT ![i] = FALSE]
      BY <1>4, <2>3 DEF ClientRecv, RecvSync
    <3>2. down[i] \in Seq(Reply) /\ down[i] # <<>>
      BY <1>4 DEF ClientRecv, TypeInv
    <3>3. ~None(down[i], "SYN@")
      BY <2>3, <3>2, TailCounts
    <3>4. Released(i)
      BY <3>3 DEF PhaseInv, Going, Asking, Waiting
    <3>5. wait[i] /\ pos[i] = opened /\ \A j \in Client : pos[j] = opened \/ pos[j] = opened + 1
      BY <3>4 DEF PhaseInv, Going, Asking, Waiting, Released
    <3>6. passed[i] < pos[i] /\ \A j \in Client : passed[i] < pos[j]
      BY <1>1, <3>5
    <3>7. \A j \in Client : passed'[j] = IF j = i THEN passed[j] + 1 ELSE passed[j]
      BY <1>1, <2>1, <3>1, <3>5
    <3>8. passed' = [passed EXCEPT ![i] = passed[i] + 1]
      BY <3>7
    <3> QED
      BY <2>1, <3>6, <3>8 DEF Barrier!Pass
  <2> QED
    BY <2>2, <2>3
<1>5. ASSUME NEW i \in Client, Order(i) \/ Simulate(i) \/ Quit(i) \/ ServerRecv(i)
      PROVE  UNCHANGED <<pos, wait>>
  BY <1>5 DEF Order, Simulate, Quit, ServerRecv, cliVars
<1>6. ASSUME PollClient \/ PollServer \/ PollNext \/ UNCHANGED vars
      PROVE  UNCHANGED <<pos, wait>>
  BY <1>6 DEF PollClient, PollServer, PollNext, vars, cliVars
<1> HIDE DEF passed
<1> QED
  BY <1>2, <1>3, <1>4, <1>5, <1>6 DEF Next, Barrier!Next

\* The synchronisation packets of client and server (sc_client_sync,
\* _sc_server_sync) implement the barrier: no client goes past an event
\* before all clients have reached it.
THEOREM BarrierHolds == Spec => ImplementsBarrier
<1>1. Init => TypeInv /\ PhaseInv /\ Barrier!Init
  BY TypeInit, PhaseInit, BarrierInit
<1>2. TypeInv /\ PhaseInv /\ [Next]_vars => (TypeInv /\ PhaseInv)'
  BY TypeStep, PhaseStep
<1> QED
  BY <1>1, <1>2, BarrierStep, PTL DEF Spec, ImplementsBarrier, Barrier!Spec
-----------------------------------------------------------------------------
(* What a step does to the connections. *)

\* The packets of a type in r were in s.
From(r, s, t) == \A n \in At(r, t) : \E m \in At(s, t) : r[n] = s[m]

\* A packet of another type queued last brings none of this type.
LEMMA FromAppend ==
    ASSUME NEW S, NEW s \in Seq(S), NEW x \in S, NEW t, x.type # t
    PROVE  From(Append(s, x), s, t)
BY AtAppend DEF From, At

\* Taking the head packet brings none of any type.
LEMMA FromTail ==
    ASSUME NEW S, NEW s \in Seq(S), s # <<>>, NEW t
    PROVE  From(Tail(s), s, t)
BY AtTail DEF From, At

\* A queue brings nothing that it had not.
LEMMA FromSelf == \A s, t : From(s, s, t)
BY DEF From

\* A client sends a packet.
Sends(i, x) == \A j \in Client : up'[j] = IF j = i THEN Append(up[j], x) ELSE up[j]

\* A packet sent to the server is queued at the end, and nothing else is.
LEMMA ToServerSends ==
    ASSUME TypeInv, NEW i \in Client, NEW x \in Packet, ToServer(i, <<x>>)
    PROVE  Sends(i, x)
<1>1. up \in [Client -> Seq(Packet)]
  BY DEF TypeInv
<1> SUFFICES ASSUME NEW j \in Client
             PROVE  up'[j] = IF j = i THEN Append(up[j], x) ELSE up[j]
  BY DEF Sends
<1>2. up'[j] = IF j = i THEN up[j] \o <<x>> ELSE up[j]
  BY <1>1 DEF ToServer
<1>3. up[j] \o <<x>> = Append(up[j], x)
  BY <1>1
<1> QED
  BY <1>2, <1>3

\* A client asks: a request at the end, before it perhaps a farewell.
Asks(i, s, e) ==
    /\ e \in Event /\ e = Script[pos[i] + 1] /\ Upcoming(i) = e
    /\ s \in Seq(Packet) /\ SyncRqst(e, i = Host) \in Packet
    /\ \/ e = "ROUND" /\ s = Append(up[i], Inventory(i))
       \/ e = "TURN" /\ s = Append(up[i], PlayerState(view[i]))
       \/ e \notin {"ROUND", "TURN"} /\ s = up[i]
    /\ \A j \in Client : up'[j] = IF j = i THEN Append(s, SyncRqst(e, i = Host)) ELSE up[j]

\* A synchronisation sends at most a tour, and then the request.
LEMMA SyncAsks ==
    ASSUME TypeInv, NEW i \in Client, Sync(i)
    PROVE  \E s, e : Asks(i, s, e)
<1> DEFINE e == Upcoming(i)
           r == SyncRqst(e, i = Host)
<1>1. e \in Event /\ e = Script[pos[i] + 1] /\ r \in Packet
      /\ Inventory(i) \in Packet /\ PlayerState(view[i]) \in Packet
  BY UpcomingEvent, PacketTypes DEF Sync
<1>2. up \in [Client -> Seq(Packet)]
  BY DEF TypeInv
<1>3. \A j \in Client : up'[j] = IF j = i THEN up[j] \o AskToSync(i, e) ELSE up[j]
  BY <1>2 DEF Sync, ToServer
<1> HIDE DEF e
<1>4. \A x, y : up[i] \o Append(<<>>, x) = Append(up[i], x)
               /\ up[i] \o Append(<<y>>, x) = Append(Append(up[i], y), x)
  BY <1>2
<1>5. CASE e = "ROUND"
  <2>1. Farewell(i, e) = <<Inventory(i)>>
    BY <1>5 DEF Farewell
  <2>2. up[i] \o AskToSync(i, e) = Append(Append(up[i], Inventory(i)), r)
    BY <1>4, <2>1 DEF AskToSync
  <2>3. Append(up[i], Inventory(i)) \in Seq(Packet)
    BY <1>1, <1>2
  <2> QED
    BY <1>1, <1>3, <1>5, <2>2, <2>3 DEF Asks, e
<1>6. CASE e = "TURN"
  <2>1. Farewell(i, e) = <<PlayerState(view[i])>>
    BY <1>6 DEF Farewell
  <2>2. up[i] \o AskToSync(i, e) = Append(Append(up[i], PlayerState(view[i])), r)
    BY <1>4, <2>1 DEF AskToSync
  <2>3. Append(up[i], PlayerState(view[i])) \in Seq(Packet)
    BY <1>1, <1>2
  <2> QED
    BY <1>1, <1>3, <1>6, <2>2, <2>3 DEF Asks, e
<1>7. CASE e \notin {"ROUND", "TURN"}
  <2>1. Farewell(i, e) = <<>>
    BY <1>7 DEF Farewell
  <2>2. up[i] \o AskToSync(i, e) = Append(up[i], r)
    BY <1>4, <2>1 DEF AskToSync
  <2> QED
    BY <1>1, <1>2, <1>3, <1>7, <2>2 DEF Asks, e
<1> QED
  BY <1>5, <1>6, <1>7

\* The server takes a packet.
Takes(i) ==
    /\ up[i] \in Seq(Packet) /\ up[i] # <<>>
    /\ \A j \in Client : up'[j] = IF j = i THEN Tail(up[j]) ELSE up[j]

\* The server sends a packet on.
Relays(i, x) ==
    /\ x \in Reply
    /\ \A j \in Client : down'[j] = IF j = i \/ svrQuit[j] THEN down[j] ELSE Append(down[j], x)
    /\ UNCHANGED svrVars

\* One more waits.
Counts(i, p) ==
    /\ p.type = "SYNC" /\ p.event \in Event
    /\ \A j \in Client : svrWait'[j] = IF j = i THEN TRUE ELSE svrWait[j]
    /\ \A j \in Client : svrArg'[j] = IF j = i THEN p ELSE svrArg[j]
    /\ UNCHANGED <<down, opened, svrQuit>>

\* The barrier opens.
Opens(i, p) ==
    /\ p.type = "SYNC" /\ p.event \in Event
    /\ Asking(i) /\ \A j \in Client \ {i} : Waiting(j)
    /\ \A j \in Client : svrArg'[j] = IF j = i THEN p ELSE svrArg[j]
    /\ \A j \in Client : down'[j] = Append(down[j], Answer(svrArg', j)) /\ Answer(svrArg', j) \in Reply
    /\ \A j \in Client : ~svrWait'[j]
    /\ opened' = opened + 1 /\ UNCHANGED svrQuit

\* What the server does with a packet: it counts a request, opens the event,
\* relays, or marks a client as gone.
LEMMA ServerCases ==
    ASSUME TypeInv, PhaseInv, NEW i \in Client, ServerRecv(i)
    PROVE  LET p == Head(up[i])
           IN  /\ p \in Packet /\ Takes(i) /\ polling = "server"
               /\ UNCHANGED cliVars /\ UNCHANGED pollVars
               /\ \/ Counts(i, p)
                  \/ Opens(i, p)
                  \/ /\ p.type = "ORDR" /\ p.player \in Client /\ p.order \in Orders
                     /\ RelayTable(p) \in [Client -> Orders]
                     /\ Relays(i, SvrOrders(RelayTable(p)))
                  \/ p.type \in {"PLST", "INVT"} /\ Relays(i, p)
                  \/ /\ p.type = "DISC" /\ UNCHANGED <<down, svrWait, svrArg, opened>>
                     /\ \A j \in Client : svrQuit'[j] = IF j = i THEN TRUE ELSE svrQuit[j]
<1> DEFINE p == Head(up[i])
<1>1. p \in Packet /\ up[i] \in Seq(Packet) /\ up[i] # <<>> /\ polling = "server"
      /\ UNCHANGED cliVars /\ UNCHANGED pollVars
  BY ServerAppends DEF ServerRecv
<1>2. /\ up \in [Client -> Seq(Packet)] /\ down \in [Client -> Seq(Reply)]
      /\ svrWait \in [Client -> BOOLEAN] /\ svrQuit \in [Client -> BOOLEAN]
      /\ svrArg \in [Client -> [type : {"SYNC"}, event : Event \union {"none"}, serv : BOOLEAN]]
  BY DEF TypeInv
<1>3. Takes(i)
  BY <1>1, <1>2, ServerAppends DEF Takes
<1>4. \A x \in Reply : RelayTo(i, x) /\ UNCHANGED svrVars => Relays(i, x)
  BY DEF RelayTo, Relays
<1>5. CASE p.type = "SYNC" /\ ServerSync(i, p)
  <2> DEFINE waiting == [svrWait EXCEPT ![i] = TRUE]
             arg == [svrArg EXCEPT ![i] = p]
  <2>1. SyncAll(waiting, arg) /\ svrArg' = arg /\ UNCHANGED svrQuit
    BY <1>5 DEF ServerSync
  <2>2. p.event \in Event
    BY <1>5, ServerAppends
  <2>3. /\ \A j \in Client : arg[j] = IF j = i THEN p ELSE svrArg[j]
        /\ \A j \in Client : waiting[j] = IF j = i THEN TRUE ELSE svrWait[j]
    BY <1>2
  <2> HIDE DEF waiting, arg
  <2>4. CASE \A j \in Client : waiting[j]
    <3>1. /\ down' = [j \in Client |-> Append(down[j], Answer(svrArg', j))]
          /\ svrWait' = [j \in Client |-> FALSE] /\ opened' = opened + 1
      BY <2>1, <2>4 DEF SyncAll
    <3>2. \A j \in Client \ {i} : Waiting(j)
      BY <2>3, <2>4 DEF PhaseInv, Going, Asking, Released
    <3>3. ~None(up[i], "SYNC")
      BY <1>1, <1>5, TailCounts
    <3>4. Asking(i)
      BY <3>3 DEF PhaseInv, Going, Waiting, Released
    <3>5. ASSUME NEW j \in Client PROVE Answer(svrArg', j) \in Reply
      <4>1. down'[j] \in Seq(Reply) /\ down'[j] = Append(down[j], Answer(svrArg', j))
        BY <3>1, TypeServerRecv DEF TypeInv
      <4>2. down'[j][Len(down[j]) + 1] = Answer(svrArg', j) /\ Len(down[j]) + 1 \in 1 .. Len(down'[j])
        BY <1>2, <4>1
      <4> QED
        BY <4>1, <4>2
    <3>6. Opens(i, p)
      BY <1>5, <2>1, <2>2, <2>3, <3>1, <3>2, <3>4, <3>5 DEF Opens
    <3> QED
      BY <1>1, <1>3, <3>6
  <2>5. CASE ~(\A j \in Client : waiting[j])
    <3>1. svrWait' = waiting /\ UNCHANGED <<down, opened>>
      BY <2>1, <2>5 DEF SyncAll
    <3>2. Counts(i, p)
      BY <1>5, <2>1, <2>2, <2>3, <3>1 DEF Counts
    <3> QED
      BY <1>1, <1>3, <3>2
  <2> QED
    BY <2>4, <2>5
<1>6. CASE p.type = "ORDR" /\ ServerOrders(i, p)
  <2>1. p.player \in Client /\ p.order \in Orders
    BY <1>1, <1>6 DEF Packet, Disconnect
  <2>2. RelayTable(p) \in [Client -> Orders]
    BY <2>1, HostIsClient DEF RelayTable, TypeInv
  <2>3. SvrOrders(RelayTable(p)) \in Reply
    BY <2>2 DEF SvrOrders, Reply
  <2>4. Relays(i, SvrOrders(RelayTable(p)))
    BY <1>4, <1>6, <2>3 DEF ServerOrders
  <2> QED
    BY <1>1, <1>3, <1>6, <2>1, <2>2, <2>4
<1>7. CASE p.type \in {"PLST", "INVT"} /\ ServerRelay(i, p)
  <2>1. p \in Reply
    BY <1>1, <1>7 DEF Packet, Reply, Disconnect
  <2>2. Relays(i, p)
    BY <1>4, <1>7, <2>1 DEF ServerRelay
  <2> QED
    BY <1>1, <1>3, <1>7, <2>2
<1>8. CASE p.type = "DISC" /\ ServerDisconnect(i)
  <2>1. svrQuit' = [svrQuit EXCEPT ![i] = TRUE] /\ UNCHANGED <<down, svrWait, svrArg, opened>>
    BY <1>8 DEF ServerDisconnect
  <2>2. \A j \in Client : svrQuit'[j] = IF j = i THEN TRUE ELSE svrQuit[j]
    BY <1>2, <2>1
  <2> QED
    BY <1>1, <1>3, <1>8, <2>1, <2>2
<1> QED
  BY <1>5, <1>6, <1>7, <1>8 DEF ServerRecv

\* A client takes a packet.
Gets(i) ==
    /\ down[i] \in Seq(Reply) /\ down[i] # <<>> /\ Head(down[i]) \in Reply
    /\ \A j \in Client : down'[j] = IF j = i THEN Tail(down[j]) ELSE down[j]
    /\ UNCHANGED <<up, alive, pos, syncarg, given, used, svrVars, pollVars>>

\* What a client does with a packet from the server.
LEMMA ClientGets ==
    ASSUME TypeInv, NEW i \in Client, ClientRecv(i)
    PROVE  Gets(i)
<1>1. down \in [Client -> Seq(Reply)] /\ down[i] \in Seq(Reply) /\ down[i] # <<>>
  BY DEF ClientRecv, TypeInv
<1>2. Head(down[i]) \in Reply
  BY <1>1, AtTail
<1> QED
  BY <1>1, <1>2 DEF ClientRecv, Gets
-----------------------------------------------------------------------------
(* The event of a request. *)

LEMMA EventInit == Init => EventInv
<1> SUFFICES ASSUME Init, NEW i \in Client PROVE EventOf(i)
  BY DEF EventInv
<1>1. up[i] = <<>> /\ down[i] = <<>> /\ ~wait[i] /\ ~svrWait[i]
  BY DEF Init
<1> QED
  BY <1>1, AtEmpty DEF EventOf

\* What adds no packet to the request of a client.
LEMMA EventFrame ==
    ASSUME NEW i \in Client, EventOf(i), pos'[i] = pos[i],
           wait'[i] => wait[i] /\ syncarg'[i] = syncarg[i],
           svrWait'[i] => svrWait[i] /\ svrArg'[i] = svrArg[i],
           From(up'[i], up[i], "SYNC"), From(down'[i], down[i], "SYN@")
    PROVE  EventOf(i)'
BY DEF EventOf, From

\* A request carries the event its client has come to.
LEMMA EventSync ==
    ASSUME TypeInv, PhaseInv, EventInv, NEW i \in Client, Sync(i)
    PROVE  EventInv'
<1> SUFFICES ASSUME NEW j \in Client PROVE EventOf(j)'
  BY DEF EventInv
<1>1. PICK s, e : Asks(i, s, e)
  BY SyncAsks
<1>2. /\ pos \in [Client -> 0 .. Len(Script)] /\ wait \in [Client -> BOOLEAN]
      /\ syncarg \in [Client -> Event \union {"none"}] /\ up \in [Client -> Seq(Packet)] /\ opened \in Nat
  BY DEF TypeInv
<1>3. /\ UNCHANGED <<down, svrVars>> /\ ~wait[i]
      /\ wait'[i] /\ pos'[i] = pos[i] + 1 /\ syncarg'[i] = e
      /\ j # i => wait'[j] = wait[j] /\ pos'[j] = pos[j] /\ syncarg'[j] = syncarg[j]
  BY <1>1, <1>2 DEF Sync, Runs, Asks
<1>4. CASE j = i
  <2>1. Going(i)
    BY <1>3 DEF PhaseInv, Asking, Waiting, Released
  <2>2. At(s, "SYNC") = {}
    <3>1. At(up[i], "SYNC") = {}
      BY <2>1 DEF Going, None
    <3>2. Inventory(i) \in Packet /\ PlayerState(view[i]) \in Packet
      BY PacketTypes
    <3>3. Inventory(i).type = "INVT" /\ PlayerState(view[i]).type = "PLST"
      BY DEF Inventory, PlayerState
    <3>4. \A x \in Packet : x.type # "SYNC" => At(Append(up[i], x), "SYNC") = At(up[i], "SYNC")
      BY <1>2, AtAppend
    <3> QED
      BY <1>1, <3>1, <3>2, <3>3, <3>4 DEF Asks
  <2>3. up'[i] = Append(s, SyncRqst(e, i = Host)) /\ s \in Seq(Packet) /\ SyncRqst(e, i = Host) \in Packet
        /\ e = Script[pos[i] + 1] /\ e \in Event
    BY <1>1 DEF Asks
  <2>4. \A n \in At(up'[i], "SYNC") : up'[i][n] = SyncRqst(e, i = Host)
    <3>1. At(up'[i], "SYNC") = At(s, "SYNC") \union {Len(s) + 1} /\ up'[i][Len(s) + 1] = SyncRqst(e, i = Host)
      BY <2>3, AtAppend DEF SyncRqst
    <3> QED
      BY <2>2, <3>1
  <2>5. SyncRqst(e, i = Host).event = e
    BY DEF SyncRqst
  <2>6. At(down'[i], "SYN@") = {} /\ ~svrWait'[i]
    BY <1>3, <2>1 DEF Going, None, svrVars
  <2>7. pos'[i] >= 1 /\ Script[pos'[i]] = e
    <3>1. pos[i] \in 0 .. Len(Script)
      BY <1>2
    <3> QED
      BY <1>3, <2>3, <3>1
  <2> QED
    BY <1>3, <1>4, <2>4, <2>5, <2>6, <2>7 DEF EventOf
<1>5. CASE j # i
  <2>1. up'[j] = up[j]
    BY <1>1, <1>5 DEF Asks
  <2> QED
    BY <1>3, <1>5, <2>1, FromSelf, EventFrame DEF EventInv, svrVars
<1> QED
  BY <1>4, <1>5

\* Handling a packet in the client leaves the events of the requests alone.
LEMMA EventClientRecv ==
    ASSUME TypeInv, EventInv, NEW i \in Client, ClientRecv(i)
    PROVE  EventInv'
<1> SUFFICES ASSUME NEW j \in Client PROVE EventOf(j)'
  BY DEF EventInv
<1>1. Gets(i)
  BY ClientGets
<1>2. wait'[j] => wait[j]
  <2>1. wait \in [Client -> BOOLEAN]
    BY DEF TypeInv
  <2>2. wait' = wait \/ wait' = [wait EXCEPT ![i] = FALSE]
    BY DEF ClientRecv, RecvOrders, RecvPlayerState, RecvInventory, RecvSync
  <2> QED
    BY <2>1, <2>2
<1>3. From(down'[j], down[j], "SYN@")
  BY <1>1, FromTail, FromSelf DEF Gets
<1> QED
  BY <1>1, <1>2, <1>3, FromSelf, EventFrame DEF EventInv, Gets, svrVars

\* The answer of the server carries the event all clients asked for, and none
\* is marked as wrong.
LEMMA EventServerRecv ==
    ASSUME TypeInv, PhaseInv, EventInv, NEW i \in Client, ServerRecv(i)
    PROVE  EventInv'
<1> SUFFICES ASSUME NEW j \in Client PROVE EventOf(j)'
  BY DEF EventInv
<1> DEFINE p == Head(up[i])
<1>1. p \in Packet /\ Takes(i) /\ UNCHANGED cliVars
  BY ServerCases
<1>2. From(up'[j], up[j], "SYNC")
  BY <1>1, FromTail, FromSelf DEF Takes
<1>3. down \in [Client -> Seq(Reply)] /\ opened \in Nat
  BY DEF TypeInv
<1>4. UNCHANGED <<pos, wait, syncarg, used>>
  BY <1>1 DEF cliVars
<1>5. p.type = "SYNC" => p.event = Script[pos[i]]
  <2>1. 1 \in 1 .. Len(up[i]) /\ p = up[i][1]
    BY <1>1, AtTail DEF Takes
  <2> QED
    BY <2>1 DEF EventInv, EventOf, At
<1> HIDE DEF p
<1>6. CASE Counts(i, p)
  <2>1. svrWait'[j] => svrArg'[j].event = Script[pos[j]]
    BY <1>5, <1>6 DEF Counts, EventInv, EventOf
  <2>2. down'[j] = down[j]
    BY <1>6 DEF Counts
  <2> QED
    BY <1>2, <1>4, <2>1, <2>2 DEF EventInv, EventOf, From
<1>7. CASE Opens(i, p)
  <2>1. \A k \in Client : pos[k] = opened + 1 /\ svrArg'[k].event = Script[opened + 1]
    BY <1>5, <1>7 DEF Opens, Asking, Waiting, EventInv, EventOf
  <2>2. Answer(svrArg', j).event = Script[pos[j]] /\ ~Answer(svrArg', j).bogus
    BY <2>1, HostIsClient DEF Answer, SyncResp
  <2>3. At(down[j], "SYN@") = {}
    BY <1>7 DEF Opens, Asking, Waiting, None
  <2>4. \A n \in At(down'[j], "SYN@") : down'[j][n] = Answer(svrArg', j)
    <3>1. PICK x \in Reply : x = Answer(svrArg', j) /\ down'[j] = Append(down[j], x)
      BY <1>7 DEF Opens
    <3>2. down[j] \in Seq(Reply)
      BY <1>3
    <3> QED
      BY <2>3, <3>1, <3>2, LastOnly
  <2>5. ~svrWait'[j]
    BY <1>7 DEF Opens
  <2> QED
    BY <1>2, <1>4, <2>2, <2>4, <2>5 DEF EventInv, EventOf, From
<1>8. ASSUME NEW x \in Reply, x.type # "SYN@", Relays(i, x) PROVE EventOf(j)'
  <2>1. From(down'[j], down[j], "SYN@")
    BY <1>3, <1>8, FromAppend, FromSelf DEF Relays
  <2> QED
    BY <1>2, <1>4, <1>8, <2>1, EventFrame DEF EventInv, Relays, svrVars
<1>9. CASE p.type = "ORDR" /\ Relays(i, SvrOrders(RelayTable(p)))
  BY <1>8, <1>9 DEF Relays, SvrOrders
<1>10. CASE p.type \in {"PLST", "INVT"} /\ Relays(i, p)
  BY <1>8, <1>10 DEF Relays
<1>11. CASE UNCHANGED <<down, svrWait, svrArg, opened>>
  BY <1>2, <1>4, <1>11, FromSelf, EventFrame DEF EventInv
<1> QED
  BY <1>6, <1>7, <1>9, <1>10, <1>11, ServerCases DEF p

\* Every step keeps the events of requests and answers equal to those of the
\* script.
LEMMA EventStep == TypeInv /\ PhaseInv /\ EventInv /\ [Next]_vars => EventInv'
<1> SUFFICES ASSUME TypeInv, PhaseInv, EventInv, [Next]_vars PROVE EventInv'
  OBVIOUS
<1>1. ASSUME UNCHANGED <<up, down, pos, wait, syncarg, svrWait, svrArg>> PROVE EventInv'
  BY <1>1 DEF EventInv, EventOf
<1>2. ASSUME NEW i \in Client, NEW x \in Packet, x.type # "SYNC", Sends(i, x),
             UNCHANGED <<down, pos, wait, syncarg, svrWait, svrArg>>
      PROVE  EventInv'
  <2> SUFFICES ASSUME NEW j \in Client PROVE EventOf(j)'
    BY DEF EventInv
  <2>1. up \in [Client -> Seq(Packet)]
    BY DEF TypeInv
  <2>2. From(up'[j], up[j], "SYNC")
    BY <1>2, <2>1, FromAppend, FromSelf DEF Sends
  <2> QED
    BY <1>2, <2>2, FromSelf, EventFrame DEF EventInv
<1>3. ASSUME NEW i \in Client, Order(i) PROVE EventInv'
  <2>1. PICK o \in Orders : ToServer(i, <<CliOrders(i, o)>>)
    BY <1>3 DEF Order
  <2>2. CliOrders(i, o) \in Packet /\ CliOrders(i, o).type # "SYNC"
    BY PacketTypes DEF CliOrders
  <2>3. UNCHANGED <<down, pos, wait, syncarg, svrWait, svrArg>>
    BY <1>3 DEF Order, svrVars
  <2> QED
    BY <1>2, <2>1, <2>2, <2>3, ToServerSends
<1>4. ASSUME NEW i \in Client, Quit(i) PROVE EventInv'
  <2>1. Disconnect \in Packet /\ Disconnect.type # "SYNC" /\ ToServer(i, <<Disconnect>>)
    BY <1>4, PacketTypes DEF Disconnect, Quit
  <2>2. UNCHANGED <<down, pos, wait, syncarg, svrWait, svrArg>>
    BY <1>4 DEF Quit, svrVars
  <2> QED
    BY <1>2, <2>1, <2>2, ToServerSends
<1>5. ASSUME NEW i \in Client, Simulate(i) PROVE EventInv'
  BY <1>1, <1>5 DEF Simulate, svrVars
<1>6. ASSUME PollClient \/ PollServer \/ PollNext \/ UNCHANGED vars PROVE EventInv'
  BY <1>1, <1>6 DEF PollClient, PollServer, PollNext, cliVars, svrVars, vars
<1> QED
  BY <1>3, <1>4, <1>5, <1>6, EventSync, EventClientRecv, EventServerRecv DEF Next
\* From is transitive, so the steps of one handler can be taken together.
LEMMA FromChain == \A r, s, q, t : From(r, s, t) /\ From(s, q, t) => From(r, q, t)
BY DEF From

\* A client that asks sends nothing else than its farewell and the request.
LEMMA AskFrom ==
    ASSUME TypeInv, NEW i \in Client, NEW s, NEW e, Asks(i, s, e),
           NEW t, t # "SYNC", t # "INVT", t # "PLST"
    PROVE  \A j \in Client : From(up'[j], up[j], t)
<1>1. up[i] \in Seq(Packet)
  BY DEF TypeInv
<1>2. /\ Inventory(i) \in Packet /\ PlayerState(view[i]) \in Packet /\ Inventory(i).type # t
      /\ PlayerState(view[i]).type # t /\ SyncRqst(e, i = Host).type # t
  BY PacketTypes DEF SyncRqst, Inventory, PlayerState
<1>3. s \in Seq(Packet) /\ SyncRqst(e, i = Host) \in Packet
  BY DEF Asks
<1>4. From(s, up[i], t)
  <2>1. From(Append(up[i], Inventory(i)), up[i], t) /\ From(Append(up[i], PlayerState(view[i])), up[i], t)
    BY <1>1, <1>2, FromAppend
  <2> QED
    BY <2>1, FromSelf DEF Asks
<1>5. From(Append(s, SyncRqst(e, i = Host)), s, t)
  BY <1>2, <1>3, FromAppend
<1>6. From(Append(s, SyncRqst(e, i = Host)), up[i], t)
  BY <1>4, <1>5, FromChain
<1> QED
  BY <1>6, FromSelf DEF Asks

-----------------------------------------------------------------------------
(* The steps of the clients. *)

\* A player gives an order.
Gives(i, o) ==
    /\ o \in Orders /\ CliOrders(i, o) \in Packet /\ Sends(i, CliOrders(i, o))
    /\ Runs(i) /\ Upcoming(i) = "TURN" /\ ~MustSimulate(i)
    /\ Sequential => TurnOf(TurnsEnded(i)) = i
    /\ \A j, p \in Client : view'[j][p] = IF j = i /\ p = i THEN o ELSE view[j][p]
    /\ UNCHANGED <<down, alive, pos, wait, syncarg, bought, used, missync, svrVars, pollVars>>

\* A client goes on to the next event.
GoesOn(i, s, e) ==
    /\ Asks(i, s, e) /\ Runs(i) /\ ~MustSimulate(i) /\ pos[i] < Len(Script)
    /\ \A j \in Client : wait'[j] = (j = i \/ wait[j])
    /\ \A j \in Client : pos'[j] = IF j = i THEN pos[j] + 1 ELSE pos[j]
    /\ \A j, p \in Client :
         bought'[j][p] = IF j = i /\ p = i /\ e = "ROUND" THEN bought[j][p] + 1 ELSE bought[j][p]
    /\ UNCHANGED <<down, alive, view, given, used, missync, svrVars, pollVars>>

\* A client carries out a volley.
Fires(i) ==
    /\ Runs(i) /\ MustSimulate(i) /\ Volley(i) \in Volleys
    /\ \A j \in Client : used'[j] = IF j = i THEN Append(used[j], Volley(i)) ELSE used[j]
    /\ UNCHANGED <<up, down, alive, pos, wait, syncarg, view, bought, given,
                   missync, svrVars, pollVars>>

\* A client leaves.
Leaves(i) ==
    /\ i # Host /\ polling = "idle" /\ Disconnect \in Packet /\ Sends(i, Disconnect)
    /\ \A j \in Client : alive'[j] = (j # i /\ alive[j])
    /\ UNCHANGED <<down, pos, wait, syncarg, view, bought, given, used, missync, svrVars, pollVars>>

\* The server goes on with its poll.
Polls ==
    /\ UNCHANGED <<up, down, cliVars, svrVars>>
    /\ polling' = "server" => polling = "server" \/ down[Host] = <<>>

\* The steps of the network by what they do to the queues.
LEMMA StepCases ==
    ASSUME TypeInv, [Next]_vars
    PROVE  \/ \E i \in Client : \/ \E o : Gives(i, o)
                                \/ \E s, e : GoesOn(i, s, e)
                                \/ Fires(i) \/ Leaves(i) \/ ClientRecv(i) \/ ServerRecv(i)
           \/ Polls
<1>1. /\ view \in [Client -> [Client -> Orders]] /\ bought \in [Client -> [Client -> Nat]]
      /\ used \in [Client -> Seq(Volleys)] /\ alive \in [Client -> BOOLEAN]
      /\ wait \in [Client -> BOOLEAN] /\ pos \in [Client -> 0 .. Len(Script)]
  BY DEF TypeInv
<1>2. ASSUME NEW i \in Client, Order(i) PROVE \E o : Gives(i, o)
  <2>1. PICK o \in Orders : view' = [view EXCEPT ![i][i] = o] /\ ToServer(i, <<CliOrders(i, o)>>)
    BY <1>2 DEF Order
  <2>2. CliOrders(i, o) \in Packet /\ Sends(i, CliOrders(i, o))
    BY <2>1, PacketTypes, ToServerSends
  <2>3. \A j, p \in Client : view'[j][p] = IF j = i /\ p = i THEN o ELSE view[j][p]
    BY <1>1, <2>1
  <2>4. Gives(i, o)
    BY <1>2, <2>2, <2>3 DEF Order, Gives
  <2> QED
    BY <2>4
<1>3. ASSUME NEW i \in Client, Sync(i) PROVE \E s, e : GoesOn(i, s, e)
  <2>1. PICK s, e : Asks(i, s, e)
    BY <1>3, SyncAsks
  <2>2. /\ wait' = [wait EXCEPT ![i] = TRUE] /\ pos' = [pos EXCEPT ![i] = @ + 1]
        /\ bought' = IF e = "ROUND" THEN [bought EXCEPT ![i][i] = @ + 1] ELSE bought
    BY <1>3, <2>1 DEF Sync, Asks
  <2>3. \A j \in Client : wait'[j] = (j = i \/ wait[j])
    BY <1>1, <2>2
  <2>4. \A j \in Client : pos'[j] = IF j = i THEN pos[j] + 1 ELSE pos[j]
    BY <1>1, <2>2
  <2>5. \A j, p \in Client :
         bought'[j][p] = IF j = i /\ p = i /\ e = "ROUND" THEN bought[j][p] + 1 ELSE bought[j][p]
    BY <1>1, <2>2
  <2>6. pos[i] < Len(Script)
    BY <1>3, UpcomingEvent DEF Sync
  <2>7. GoesOn(i, s, e)
    BY <1>3, <2>1, <2>3, <2>4, <2>5, <2>6 DEF Sync, GoesOn
  <2> QED
    BY <2>7
<1>4. ASSUME NEW i \in Client, Simulate(i) PROVE Fires(i)
  <2>1. \A j \in Client : used'[j] = IF j = i THEN Append(used[j], Volley(i)) ELSE used[j]
    BY <1>1, <1>4 DEF Simulate
  <2>2. Volley(i) \in Volleys
    BY <1>4, VolleyType DEF Simulate
  <2> QED
    BY <1>4, <2>1, <2>2 DEF Simulate, Fires
<1>5. ASSUME NEW i \in Client, Quit(i) PROVE Leaves(i)
  <2>1. alive' = [alive EXCEPT ![i] = FALSE] /\ ToServer(i, <<Disconnect>>) /\ i # Host
    BY <1>5, ClientAssumption DEF Quit
  <2>2. \A j \in Client : alive'[j] = (j # i /\ alive[j])
    BY <1>1, <2>1
  <2>3. Disconnect \in Packet /\ Sends(i, Disconnect)
    BY <2>1, PacketTypes, ToServerSends
  <2> QED
    BY <1>5, <2>1, <2>2, <2>3 DEF Quit, Leaves
<1>6. PollClient \/ PollServer \/ PollNext \/ UNCHANGED vars => Polls
  BY DEF PollClient, PollServer, PollNext, vars, cliVars, svrVars, pollVars, Polls
<1> QED
  BY <1>2, <1>3, <1>4, <1>5, <1>6 DEF Next

-----------------------------------------------------------------------------
(* Clients that have left. *)

LEMMA FromNone == \A r, s, t : From(r, s, t) /\ None(s, t) => None(r, t)
BY DEF From, None

\* No client has left at the start.
LEMMA AliveInit == Init => AliveInv
<1> SUFFICES ASSUME Init, NEW i \in Client PROVE AliveOf(i)
  BY DEF AliveInv
<1>1. up[i] = <<>> /\ alive[i] /\ ~svrQuit[i]
  BY DEF Init
<1> QED
  BY <1>1, AtEmpty DEF AliveOf, None

\* A step that sends no goodbye of a client leaves it as it was.
LEMMA AliveFrame ==
    ASSUME NEW i \in Client, AliveOf(i), From(up'[i], up[i], "DISC"),
           alive'[i] = alive[i], svrQuit'[i] = svrQuit[i]
    PROVE  AliveOf(i)'
BY FromNone DEF AliveOf

\* A client that has left stays away, and the server's own client never
\* leaves.
LEMMA AliveStep == TypeInv /\ PhaseInv /\ AliveInv /\ [Next]_vars => AliveInv'
<1> SUFFICES ASSUME TypeInv, PhaseInv, AliveInv, [Next]_vars, NEW j \in Client
             PROVE  AliveOf(j)'
  BY DEF AliveInv
<1>1. AliveOf(j) /\ up \in [Client -> Seq(Packet)]
  BY DEF AliveInv, TypeInv
<1>2. ASSUME NEW i \in Client, NEW o, Gives(i, o) PROVE AliveOf(j)'
  <2>1. CliOrders(i, o) \in Packet /\ CliOrders(i, o).type # "DISC"
    BY <1>2 DEF Gives, CliOrders
  <2>2. From(up'[j], up[j], "DISC")
    BY <1>1, <1>2, <2>1, FromAppend, FromSelf DEF Gives, Sends
  <2> QED
    BY <1>1, <1>2, <2>2, AliveFrame DEF Gives, svrVars
<1>3. ASSUME NEW i \in Client, NEW s, NEW e, GoesOn(i, s, e) PROVE AliveOf(j)'
  <2>5. From(up'[j], up[j], "DISC")
    BY <1>3, AskFrom DEF GoesOn
  <2> QED
    BY <1>1, <1>3, <2>5, AliveFrame DEF GoesOn, svrVars
<1>4. ASSUME NEW i \in Client, Fires(i) PROVE AliveOf(j)'
  BY <1>1, <1>4, FromSelf, AliveFrame DEF Fires, svrVars
<1>5. ASSUME NEW i \in Client, Leaves(i) PROVE AliveOf(j)'
  BY <1>1, <1>5 DEF Leaves, Sends, AliveOf, svrVars
<1>6. ASSUME NEW i \in Client, ClientRecv(i) PROVE AliveOf(j)'
  BY <1>1, <1>6, ClientGets, FromSelf, AliveFrame DEF Gets, svrVars
<1>7. ASSUME NEW i \in Client, ServerRecv(i) PROVE AliveOf(j)'
  <2> DEFINE p == Head(up[i])
  <2>1. Takes(i) /\ UNCHANGED alive
    BY <1>7, ServerCases DEF cliVars
  <2>2. From(up'[j], up[j], "DISC")
    BY <1>1, <2>1, FromTail, FromSelf DEF Takes
  <2>3. CASE UNCHANGED svrQuit
    BY <1>1, <2>1, <2>2, <2>3, AliveFrame
  <2>4. CASE p.type = "DISC" /\ \A k \in Client : svrQuit'[k] = IF k = i THEN TRUE ELSE svrQuit[k]
    <3>1. ~None(up[i], "DISC")
      BY <2>1, <2>4, TailCounts DEF Takes
    <3>2. ~alive[i]
      BY <3>1 DEF AliveInv, AliveOf
    <3> QED
      BY <1>1, <2>1, <2>2, <2>4, <3>2, FromNone DEF AliveOf
  <2> QED
    BY <1>7, <2>3, <2>4, ServerCases DEF Counts, Opens, Relays, svrVars
<1>8. CASE Polls
  BY <1>1, <1>8, FromSelf, AliveFrame DEF Polls, cliVars, svrVars
<1> QED
  BY <1>2, <1>3, <1>4, <1>5, <1>6, <1>7, <1>8, StepCases
-----------------------------------------------------------------------------
(* Shopping. *)

LEMMA BeforeAppend ==
    ASSUME NEW S, NEW s \in Seq(S), NEW x \in S, NEW t, NEW u, x.type # t, Before(s, t, u)
    PROVE  Before(Append(s, x), t, u)
<1>1. At(Append(s, x), t) = At(s, t) /\ At(s, t) \subseteq 1 .. Len(s) /\ Len(s) \in Nat
  BY AtAppend DEF At
<1>2. At(Append(s, x), u) \subseteq At(s, u) \union {Len(s) + 1}
  BY AtAppend DEF At
<1> QED
  BY <1>1, <1>2 DEF Before

\* A request queued behind everything else has all of the other packets
\* before it.
LEMMA BeforeAsk ==
    ASSUME NEW S, NEW s \in Seq(S), NEW x \in S, NEW t, NEW u, x.type = u, t # u, None(s, u)
    PROVE  Before(Append(s, x), t, u)
<1>1. At(Append(s, x), t) = At(s, t) /\ At(s, t) \subseteq 1 .. Len(s) /\ Len(s) \in Nat
  BY AtAppend DEF At
<1>2. At(Append(s, x), u) \subseteq {Len(s) + 1}
  BY LastOnly DEF None
<1> QED
  BY <1>1, <1>2 DEF Before

\* Taking the head packet keeps the order of the others; once a request is
\* taken, nothing that had to come before it is left.
LEMMA BeforeTail ==
    ASSUME NEW S, NEW s \in Seq(S), s # <<>>, NEW t, NEW u, Before(s, t, u)
    PROVE  /\ Before(Tail(s), t, u)
           /\ Head(s).type = u => None(Tail(s), t)
<1>1. /\ Head(s) = s[1] /\ Len(s) \in Nat \ {0}
      /\ \A n : n \in At(Tail(s), t) <=> n \in 1 .. Len(s) - 1 /\ n + 1 \in At(s, t)
      /\ \A n : n \in At(Tail(s), u) <=> n \in 1 .. Len(s) - 1 /\ n + 1 \in At(s, u)
  BY AtTail
<1>2. Before(Tail(s), t, u)
  BY <1>1 DEF Before
<1>3. ASSUME Head(s).type = u, NEW n \in At(Tail(s), t) PROVE FALSE
  <2>1. 1 \in At(s, u)
    BY <1>1, <1>3 DEF At
  <2>2. n + 1 < 1 /\ n \in Nat
    BY <1>1, <1>3, <2>1 DEF Before
  <2> QED
    BY <2>2
<1> QED
  BY <1>2, <1>3 DEF None

\* A queue with no packet about tours tells of none.
LEMMA ToldNone ==
    ASSUME NEW s, None(s, "INVT"), NEW p
    PROVE  Told(s, Len(s), p) = 0
<1>1. {k \in 1 .. Len(s) : Tells(s[k], p)} = {}
  BY DEF None, At, Tells
<1> QED
  BY <1>1, FS_EmptySet DEF Told

\* What a whole queue tells of, with one more packet.
LEMMA AllToldAppend ==
    ASSUME NEW S, NEW s \in Seq(S), NEW x \in S, NEW p
    PROVE  /\ AllTold(Append(s, x), p) = AllTold(s, p) + (IF Tells(x, p) THEN 1 ELSE 0)
           /\ AllTold(s, p) \in Nat
BY AtAppend, ToldAppend, ToldNat DEF AllTold

\* What a whole queue tells of, with the head packet taken.
LEMMA AllToldTail ==
    ASSUME NEW S, NEW s \in Seq(S), s # <<>>, NEW p
    PROVE  /\ AllTold(s, p) = AllTold(Tail(s), p) + (IF Tells(Head(s), p) THEN 1 ELSE 0)
           /\ AllTold(s, p) \in Nat /\ AllTold(Tail(s), p) \in Nat
<1>1. Len(s) \in 1 .. Len(s) /\ Len(Tail(s)) = Len(s) - 1 /\ Len(s) \in Nat /\ Len(Tail(s)) \in Nat
  BY AtTail
<1> QED
  BY <1>1, ToldTail, ToldNat DEF AllTold

\* Every step keeps a client's own tours told before it asks to go on.
LEMMA TellsStep ==
    ASSUME TypeInv, PhaseInv, BoughtInv, [Next]_vars, NEW j \in Client
    PROVE  TellsOf(j)'
<1>1. /\ up \in [Client -> Seq(Packet)] /\ down \in [Client -> Seq(Reply)]
      /\ pos \in [Client -> Nat] /\ bought \in [Client -> [Client -> Nat]] /\ opened \in Nat
  BY ScriptAssumption DEF TypeInv
<1>2. TellsOf(j)
  BY DEF BoughtInv
<1>3. None(up[j], "SYNC") \/ One(up[j], "SYNC")
  BY DEF PhaseInv, Going, Asking, Waiting, Released
\* What leaves the tours of client j alone.
<1>4. ASSUME bought'[j][j] = bought[j][j], pos'[j] = pos[j],
             up'[j] = up[j] \/ \E x \in Packet : x.type \notin {"SYNC", "INVT"} /\ up'[j] = Append(up[j], x),
             \A n \in At(down'[j], "INVT") : down'[j][n].player # j
      PROVE  TellsOf(j)'
  <2>1. CASE up'[j] = up[j]
    BY <1>2, <1>4, <2>1 DEF TellsOf
  <2>2. ASSUME NEW x \in Packet, x.type \notin {"SYNC", "INVT"}, up'[j] = Append(up[j], x)
        PROVE  TellsOf(j)'
    <3>1. /\ At(up'[j], "SYNC") = At(up[j], "SYNC") /\ At(up'[j], "INVT") = At(up[j], "INVT")
          /\ \A n \in 1 .. Len(up[j]) : up'[j][n] = up[j][n]
      BY <1>1, <2>2, AtAppend
    <3>2. \A n \in At(up'[j], "INVT") : up'[j][n].player = j
      BY <1>2, <3>1 DEF TellsOf, At
    <3> QED
      BY <1>2, <1>4, <3>1, <3>2 DEF TellsOf, Before, None
  <2> QED
    BY <1>4, <2>1, <2>2
<1>5. ASSUME From(down'[j], down[j], "INVT") PROVE \A n \in At(down'[j], "INVT") : down'[j][n].player # j
  BY <1>2, <1>5 DEF TellsOf, From
<1>6. ASSUME NEW i \in Client, NEW o, Gives(i, o) PROVE TellsOf(j)'
  <2>1. CliOrders(i, o) \in Packet /\ CliOrders(i, o).type \notin {"SYNC", "INVT"}
    BY <1>6 DEF Gives, CliOrders
  <2> QED
    BY <1>4, <1>5, <1>6, <2>1, FromSelf DEF Gives, Sends
<1>7. ASSUME NEW i \in Client, NEW s, NEW e, GoesOn(i, s, e) PROVE TellsOf(j)'
  <2>1. CASE j # i
    BY <1>4, <1>5, <1>7, <2>1, FromSelf DEF GoesOn, Asks
  <2>2. CASE j = i
    <3> DEFINE r == SyncRqst(e, i = Host)
    <3>1. Going(i)
      BY <1>7 DEF GoesOn, Runs, PhaseInv, Asking, Waiting, Released
    <3>2. None(up[i], "SYNC") /\ None(up[i], "INVT")
      BY <1>2, <2>2, <3>1 DEF Going, TellsOf
    <3>3. s \in Seq(Packet) /\ r \in Packet /\ r.type = "SYNC" /\ up'[i] = Append(s, r)
      BY <1>7 DEF GoesOn, Asks, SyncRqst
    <3>4. /\ None(s, "SYNC")
          /\ \A n \in At(s, "INVT") : s[n].player = i
      <4>1. ASSUME NEW x \in Packet, x = Inventory(i) \/ x = PlayerState(view[i]), s = Append(up[i], x)
            PROVE  None(s, "SYNC") /\ \A n \in At(s, "INVT") : s[n].player = i
        <5>1. x.type # "SYNC" /\ (x.type = "INVT" => x.player = i)
          BY <4>1 DEF Inventory, PlayerState
        <5>2. None(s, "SYNC")
          BY <1>1, <3>2, <4>1, <5>1, AppendCounts DEF Same
        <5>3. \A n \in At(s, "INVT") : s[n] = x /\ s[n].type = "INVT"
          <6>1. up[i] \in Seq(Packet) /\ At(up[i], "INVT") = {}
            BY <1>1, <3>2 DEF None
          <6>2. \A n \in At(s, "INVT") : s[n] = x
            BY <4>1, <6>1, LastOnly
          <6> QED
            BY <6>2 DEF At
        <5> QED
          BY <5>1, <5>2, <5>3
      <4>2. Inventory(i) \in Packet /\ PlayerState(view[i]) \in Packet
        BY PacketTypes
      <4> QED
        BY <1>7, <3>2, <4>1, <4>2 DEF GoesOn, Asks, None
    <3>5. /\ At(up'[i], "INVT") = At(s, "INVT") /\ \A n \in 1 .. Len(s) : up'[i][n] = s[n]
      BY <3>3, AtAppend
    <3>6. \A n \in At(up'[i], "INVT") : up'[i][n].player = i
      BY <3>4, <3>5 DEF At
    <3>7. Before(up'[i], "INVT", "SYNC") /\ ~None(up'[i], "SYNC")
      <4>1. Before(Append(s, r), "INVT", "SYNC")
        BY <3>3, <3>4, BeforeAsk
      <4>2. One(Append(s, r), "SYNC")
        BY <3>3, <3>4, AppendCounts
      <4> QED
        BY <3>3, <4>1, <4>2, SameSelf
    <3>8. bought'[i][i] = Rounds(pos'[i])
      <4>1. pos[i] \in Nat /\ pos'[i] = pos[i] + 1 /\ bought[i][i] \in Nat /\ e = Script[pos[i] + 1]
            /\ bought'[i][i] = IF e = "ROUND" THEN bought[i][i] + 1 ELSE bought[i][i]
        BY <1>1, <1>7 DEF GoesOn, Asks
      <4> QED
        BY <1>2, <2>2, <4>1, RoundsNext DEF TellsOf
    <3>9. down'[i] = down[i]
      BY <1>7 DEF GoesOn
    <3> QED
      BY <1>2, <2>2, <3>6, <3>7, <3>8, <3>9 DEF TellsOf
  <2> QED
    BY <2>1, <2>2
<1>8. ASSUME NEW i \in Client, Fires(i) PROVE TellsOf(j)'
  BY <1>4, <1>5, <1>8, FromSelf DEF Fires
<1>9. ASSUME NEW i \in Client, Leaves(i) PROVE TellsOf(j)'
  <2>1. Disconnect \in Packet /\ Disconnect.type \notin {"SYNC", "INVT"}
    BY <1>9 DEF Leaves, Disconnect
  <2> QED
    BY <1>4, <1>5, <1>9, <2>1, FromSelf DEF Leaves, Sends
<1>10. ASSUME NEW i \in Client, ClientRecv(i) PROVE TellsOf(j)'
  <2> DEFINE p == Head(down[i])
  <2>1. Gets(i)
    BY <1>10, ClientGets
  <2>2. From(down'[j], down[j], "INVT")
    BY <2>1, FromTail, FromSelf DEF Gets
  <2>3. bought'[j][j] = bought[j][j]
    <3>1. CASE p.type = "INVT" /\ RecvInventory(i, p)
      <4>1. j = i => p.player # j
        <5>1. ~None(down[i], "INVT") /\ 1 \in 1 .. Len(down[i]) /\ p = down[i][1]
          <6>1. down[i] \in Seq(Reply) /\ down[i] # <<>>
            BY <2>1 DEF Gets
          <6>2. Len(down[i]) \in Nat \ {0} /\ p = down[i][1]
            BY <6>1, AtTail
          <6>3. ~None(down[i], "INVT")
            BY <3>1, <6>1, TailCounts
          <6> QED
            BY <6>2, <6>3
        <5> QED
          BY <1>2, <3>1, <5>1 DEF TellsOf, At
      <4>2. PICK q \in Client : q = p.player
        BY <2>1, <3>1 DEF Gets, Reply
      <4>3. bought' = [bought EXCEPT ![i] = [bought[i] EXCEPT ![q] = bought[i][q] + 1]]
        BY <3>1, <4>2 DEF RecvInventory
      <4> QED
        BY <1>1, <4>1, <4>2, <4>3
    <3>2. CASE UNCHANGED bought
      BY <3>2
    <3> QED
      BY <1>10, <3>1, <3>2 DEF ClientRecv, RecvOrders, RecvPlayerState, RecvSync
  <2> QED
    BY <1>4, <1>5, <2>1, <2>2, <2>3 DEF Gets
<1>11. ASSUME NEW i \in Client, ServerRecv(i) PROVE TellsOf(j)'
  <2> DEFINE p == Head(up[i])
  <2>1. Takes(i) /\ p \in Packet /\ UNCHANGED <<pos, bought>>
    BY <1>11, ServerCases DEF cliVars
  <2>2. p.type = "INVT" => p.player = i
    <3>1. 1 \in 1 .. Len(up[i]) /\ p = up[i][1]
      BY <2>1, AtTail DEF Takes
    <3> QED
      BY <3>1 DEF BoughtInv, TellsOf, At
  <2>3. \A n \in At(down'[j], "INVT") : down'[j][n].player # j
    <3>1. ASSUME From(down'[j], down[j], "INVT") PROVE \A n \in At(down'[j], "INVT") : down'[j][n].player # j
      BY <1>5, <3>1
    <3>2. ASSUME NEW x \in Reply, down'[j] = Append(down[j], x), x.type # "INVT" \/ x.player # j
          PROVE  \A n \in At(down'[j], "INVT") : down'[j][n].player # j
      <4> SUFFICES ASSUME NEW n \in At(down'[j], "INVT") PROVE down'[j][n].player # j
        OBVIOUS
      <4>1. n \in 1 .. Len(down[j]) + 1 /\ down'[j][n].type = "INVT" /\ Len(down[j]) \in Nat
        BY <1>1, <3>2, AtAppend DEF At
      <4>2. CASE n = Len(down[j]) + 1
        BY <1>1, <3>2, <4>1, <4>2, AtAppend
      <4>3. CASE n \in 1 .. Len(down[j])
        <5>1. down'[j][n] = down[j][n]
          BY <1>1, <3>2, <4>3, AtAppend
        <5> QED
          BY <1>2, <4>1, <4>3, <5>1 DEF TellsOf, At
      <4> QED
        BY <4>1, <4>2, <4>3
    <3>3. CASE UNCHANGED down
      BY <3>1, <3>3, FromSelf
    <3>4. CASE Opens(i, p)
      <4>1. Answer(svrArg', j).type # "INVT"
        BY DEF Answer, SyncResp, SyncBogus
      <4> QED
        BY <3>2, <3>4, <4>1 DEF Opens
    <3>5. ASSUME NEW x \in Reply, x.type # "INVT" \/ x.player = i, Relays(i, x)
          PROVE  \A n \in At(down'[j], "INVT") : down'[j][n].player # j
      <4>1. CASE down'[j] = down[j]
        BY <3>1, <4>1, FromSelf
      <4>2. CASE j # i /\ down'[j] = Append(down[j], x)
        BY <3>2, <3>5, <4>2
      <4> QED
        BY <3>5, <4>1, <4>2 DEF Relays
    <3>6. SvrOrders(RelayTable(p)).type # "INVT"
      BY DEF SvrOrders
    <3> QED
      BY <1>11, <2>2, <3>3, <3>4, <3>5, <3>6, ServerCases DEF Counts, Relays
  <2>4. CASE j # i
    BY <1>4, <2>1, <2>3, <2>4 DEF Takes
  <2>5. CASE j = i
    <3>1. up'[i] = Tail(up[i]) /\ From(up'[i], up[i], "INVT") /\ Before(up'[i], "INVT", "SYNC")
      BY <1>2, <2>1, <2>5, FromTail, BeforeTail DEF Takes, TellsOf
    <3>2. None(up'[i], "SYNC") => None(up'[i], "INVT")
      <4>1. CASE p.type = "SYNC"
        BY <1>2, <2>1, <2>5, <3>1, <4>1, BeforeTail DEF Takes, TellsOf
      <4>2. CASE p.type # "SYNC"
        <5>1. Same(up[i], up'[i], "SYNC")
          BY <2>1, <3>1, <4>2, TailCounts DEF Takes
        <5>2. None(up'[i], "SYNC") => None(up[i], "SYNC")
          BY <1>3, <2>5, <5>1, SameSelf DEF Same
        <5> QED
          BY <1>2, <2>5, <3>1, <5>2, FromNone DEF TellsOf
      <4> QED
        BY <4>1, <4>2
    <3>3. \A n \in At(up'[i], "INVT") : up'[i][n].player = i
      BY <1>2, <2>5, <3>1 DEF TellsOf, From
    <3> QED
      BY <1>2, <2>1, <2>3, <2>5, <3>1, <3>2, <3>3 DEF TellsOf
  <2> QED
    BY <2>4, <2>5
<1>12. CASE Polls
  BY <1>4, <1>5, <1>12, FromSelf DEF Polls, cliVars
<1> QED
  BY <1>6, <1>7, <1>8, <1>9, <1>10, <1>11, <1>12, StepCases
\* Every step keeps, for two clients, the tours the one knows of and is still
\* to hear of equal to those the other has made.
LEMMA ToursStep ==
    ASSUME TypeInv, PhaseInv, AliveInv, BoughtInv, [Next]_vars, PhaseInv',
           NEW j \in Client, NEW q \in Client \ {j}
    PROVE  ToursOf(j, q)'
<1>1. /\ up \in [Client -> Seq(Packet)] /\ down \in [Client -> Seq(Reply)]
      /\ pos \in [Client -> Nat] /\ bought \in [Client -> [Client -> Nat]] /\ opened \in Nat
  BY TypeFacts
<1>2. ToursOf(j, q) /\ TellsOf(j) /\ TellsOf(q)
  BY DEF BoughtInv
<1>3. /\ bought[j][q] \in Nat /\ pos[q] \in Nat /\ AllTold(down[j], q) \in Nat /\ AllTold(up[q], q) \in Nat
      /\ Rounds(pos[q]) \in Nat /\ Rounds(opened) \in Nat
  <2>1. Len(down[j]) \in Nat /\ Len(up[q]) \in Nat
    BY <1>1
  <2>2. AllTold(down[j], q) \in Nat /\ AllTold(up[q], q) \in Nat
    BY <2>1, ToldNat DEF AllTold
  <2>3. \A n \in Nat : Rounds(n) \in Nat
    BY RoundsNext
  <2> QED
    BY <1>1, <2>2, <2>3
\* What neither tells client j of a tour nor gets there.
<1>4. ASSUME bought'[j][q] = bought[j][q], pos'[q] = pos[q], opened' = opened, alive'[j] => alive[j],
             down'[j] = down[j], AllTold(up'[q], q) = AllTold(up[q], q)
      PROVE  ToursOf(j, q)'
  BY <1>2, <1>4 DEF ToursOf, Tally
<1>5. \A x \in Packet : ~Tells(x, q) => AllTold(Append(up[q], x), q) = AllTold(up[q], q)
  BY <1>1, <1>3, AllToldAppend
<1>6. ASSUME NEW i \in Client, NEW o, Gives(i, o) PROVE ToursOf(j, q)'
  <2>1. CliOrders(i, o) \in Packet /\ ~Tells(CliOrders(i, o), q)
    BY <1>6 DEF Gives, CliOrders, Tells
  <2>2. AllTold(up'[q], q) = AllTold(up[q], q)
    BY <1>5, <1>6, <2>1 DEF Gives, Sends
  <2> QED
    BY <1>4, <1>6, <2>2 DEF Gives, svrVars
<1>7. ASSUME NEW i \in Client, NEW s, NEW e, GoesOn(i, s, e) PROVE ToursOf(j, q)'
  <2>1. UNCHANGED <<down, alive, opened>> /\ bought'[j][q] = bought[j][q]
    BY <1>7 DEF GoesOn, svrVars
  <2>2. CASE q # i
    BY <1>4, <1>7, <2>1, <2>2 DEF GoesOn, Asks
  <2>3. CASE q = i
    <3> DEFINE r == SyncRqst(e, i = Host)
    <3>1. s \in Seq(Packet) /\ r \in Packet /\ ~Tells(r, q) /\ up'[i] = Append(s, r)
      BY <1>7 DEF GoesOn, Asks, SyncRqst, Tells
    <3>2. AllTold(up'[i], q) = AllTold(s, q) /\ AllTold(s, q) \in Nat
      BY <3>1, AllToldAppend
    <3>3. AllTold(s, q) = AllTold(up[i], q) + (IF e = "ROUND" THEN 1 ELSE 0)
      <4>1. Inventory(i) \in Packet /\ PlayerState(view[i]) \in Packet
            /\ Tells(Inventory(i), i) /\ ~Tells(PlayerState(view[i]), i)
        BY PacketTypes DEF Inventory, PlayerState, Tells
      <4>2. AllTold(Append(up[i], Inventory(i)), q) = AllTold(up[i], q) + 1
        BY <1>1, <2>3, <4>1, AllToldAppend
      <4>3. AllTold(Append(up[i], PlayerState(view[i])), q) = AllTold(up[i], q)
        BY <1>5, <2>3, <4>1
      <4> QED
        <5>1. \/ e = "ROUND" /\ s = Append(up[i], Inventory(i))
              \/ e = "TURN" /\ s = Append(up[i], PlayerState(view[i]))
              \/ e \notin {"ROUND", "TURN"} /\ s = up[i]
          BY <1>7 DEF GoesOn, Asks
        <5>2. AllTold(up[i], q) + 0 = AllTold(up[i], q)
          BY <1>3, <2>3
        <5> QED
          BY <4>2, <4>3, <5>1, <5>2
    <3>4. Rounds(pos'[q]) = Rounds(pos[q]) + (IF e = "ROUND" THEN 1 ELSE 0)
      BY <1>3, <1>7, <2>3, RoundsNext DEF GoesOn, Asks
    <3> HIDE DEF r
    <3>5. Tally(j, q)' = Tally(j, q) + (IF e = "ROUND" THEN 1 ELSE 0) /\ Tally(j, q) \in Nat
      BY <1>3, <2>1, <2>3, <3>2, <3>3 DEF Tally
    <3>6. Tally(j, q)' <= Rounds(pos'[q]) /\ (alive[j] => Tally(j, q)' = Rounds(pos'[q]))
      BY <1>2, <1>3, <3>4, <3>5 DEF ToursOf
    <3> QED
      BY <1>2, <2>1, <3>6 DEF ToursOf
  <2> QED
    BY <2>2, <2>3
<1>8. ASSUME NEW i \in Client, Fires(i) PROVE ToursOf(j, q)'
  BY <1>4, <1>8 DEF Fires, svrVars
<1>9. ASSUME NEW i \in Client, Leaves(i) PROVE ToursOf(j, q)'
  <2>1. Disconnect \in Packet /\ ~Tells(Disconnect, q)
    BY <1>9 DEF Leaves, Disconnect, Tells
  <2>2. AllTold(up'[q], q) = AllTold(up[q], q)
    BY <1>5, <1>9, <2>1 DEF Leaves, Sends
  <2> QED
    BY <1>4, <1>9, <2>2 DEF Leaves, svrVars
<1>10. ASSUME NEW i \in Client, ClientRecv(i) PROVE ToursOf(j, q)'
  <2> DEFINE p == Head(down[i])
             one == IF Tells(p, q) THEN 1 ELSE 0
  <2>1. Gets(i) /\ UNCHANGED <<up, pos, alive, opened>>
    BY <1>10, ClientGets DEF Gets, svrVars
  <2>2. bought'[j][q] = IF j = i THEN bought[j][q] + one ELSE bought[j][q]
    <3>1. CASE p.type = "INVT" /\ RecvInventory(i, p)
      <4>1. PICK k \in Client : k = p.player
        BY <2>1, <3>1 DEF Gets, Reply
      <4>2. bought' = [bought EXCEPT ![i] = [bought[i] EXCEPT ![k] = bought[i][k] + 1]]
        BY <3>1, <4>1 DEF RecvInventory
      <4>3. Tells(p, q) <=> k = q
        BY <3>1, <4>1 DEF Tells
      <4> HIDE DEF p
      <4> QED
        BY <1>1, <4>2, <4>3, SMTT(30)
    <3>2. CASE p.type # "INVT" /\ UNCHANGED bought
      BY <1>3, <3>2 DEF Tells
    <3> QED
      BY <1>10, <3>1, <3>2 DEF ClientRecv, RecvOrders, RecvPlayerState, RecvSync
  <2>3. CASE j # i
    BY <1>4, <2>1, <2>2, <2>3 DEF Gets
  <2>4. CASE j = i
    <3>1. down[i] \in Seq(Reply) /\ down[i] # <<>> /\ down'[i] = Tail(down[i])
      BY <2>1 DEF Gets
    <3>2. AllTold(down[i], q) = AllTold(down'[i], q) + one /\ AllTold(down'[i], q) \in Nat
      BY <3>1, AllToldTail
    <3>3. Tally(j, q)' = Tally(j, q)
      BY <1>3, <2>1, <2>2, <2>4, <3>2 DEF Tally
    <3>4. ASSUME NEW a \in At(down'[i], "SYN@")
          PROVE  a + 1 \in At(down[i], "SYN@")
                 /\ bought'[j][q] + Told(down'[i], a - 1, q) = bought[j][q] + Told(down[i], (a + 1) - 1, q)
      <4>1. a + 1 \in At(down[i], "SYN@") /\ a \in 1 .. Len(down[i]) /\ a \in Nat /\ a - 1 \in Nat
        BY <3>1, <3>4, AtTail
      <4>2. Told(down[i], a, q) = Told(down'[i], a - 1, q) + one
        BY <3>1, <4>1, ToldTail
      <4>3. Told(down'[i], a - 1, q) \in Nat /\ (a + 1) - 1 = a
        BY <4>1, ToldNat
      <4>4. bought'[j][q] = bought[j][q] + one /\ one \in {0, 1}
        BY <2>2, <2>4
      <4> HIDE DEF one
      <4>5. bought'[j][q] + Told(down'[i], a - 1, q) = bought[j][q] + Told(down[i], a, q)
        BY <1>3, <4>2, <4>3, <4>4
      <4> QED
        BY <4>1, <4>3, <4>5
    <3> HIDE DEF one
    <3> QED
      BY <1>2, <2>1, <2>4, <3>3, <3>4 DEF ToursOf
  <2> QED
    BY <2>3, <2>4
<1>11. ASSUME NEW i \in Client, ServerRecv(i) PROVE ToursOf(j, q)'
  <2> DEFINE p == Head(up[i])
             one == IF Tells(p, q) THEN 1 ELSE 0
  <2>1. Takes(i) /\ p \in Packet /\ UNCHANGED <<pos, bought, alive>>
    BY <1>11, ServerCases DEF cliVars
  <2>2. p.type = "INVT" => p.player = i
    <3>1. 1 \in 1 .. Len(up[i]) /\ p = up[i][1]
      BY <2>1, AtTail DEF Takes
    <3> QED
      BY <3>1 DEF BoughtInv, TellsOf, At
  <2>3. Tells(p, q) => p.type = "INVT" /\ q = i
    BY <2>2 DEF Tells
  <2>4. AllTold(up[q], q) = AllTold(up'[q], q) + one /\ AllTold(up'[q], q) \in Nat
    <3>1. CASE q = i
      BY <2>1, <3>1, AllToldTail DEF Takes
    <3>2. CASE q # i
      BY <1>3, <2>1, <2>3, <3>2 DEF Takes
    <3> QED
      BY <3>1, <3>2
  <2>5. p.type # "INVT" => one = 0
    BY <2>3
  <2> HIDE DEF p, one
  <2>6. CASE UNCHANGED <<down, opened>> /\ p.type # "INVT"
    BY <1>3, <1>4, <2>1, <2>4, <2>5, <2>6
\* Everybody has asked: what they have told has arrived.
  <2>7. CASE Opens(i, p)
    <3> DEFINE x == Answer(svrArg', j)
    <3>1. /\ pos[q] = opened + 1 /\ opened' = opened + 1 /\ down'[j] = Append(down[j], x) /\ x \in Reply
          /\ None(down[j], "SYN@") /\ p.type # "INVT"
      BY <2>7 DEF Opens, Asking, Waiting
    <3>2. ~Tells(x, q)
      BY DEF Answer, SyncResp, SyncBogus, Tells
    <3> HIDE DEF x
    <3>3. AllTold(up'[q], q) = 0
      <4>1. TellsOf(q)'
        BY TellsStep
      <4>2. None(up'[q], "SYNC")
        <5>1. ~svrWait'[q] /\ pos'[q] = opened'
          BY <2>1, <2>7, <3>1 DEF Opens
        <5> QED
          BY <1>1, <3>1, <5>1 DEF PhaseInv, Going, Asking, Waiting, Released
      <4> QED
        BY <4>1, <4>2, ToldNone DEF TellsOf, AllTold
    <3>4. AllTold(down'[j], q) = AllTold(down[j], q)
      <4>1. down[j] \in Seq(Reply)
        BY <1>1
      <4>2. AllTold(Append(down[j], x), q) = AllTold(down[j], q) + 0
        BY <3>1, <3>2, <4>1, AllToldAppend
      <4> QED
        BY <1>3, <3>1, <4>2
    <3>5. Tally(j, q)' = Tally(j, q)
      BY <1>3, <2>1, <2>4, <2>5, <3>1, <3>4 DEF Tally
    <3>6. ASSUME NEW a \in At(down'[j], "SYN@"), alive[j]
          PROVE  bought[j][q] + Told(down'[j], a - 1, q) = Rounds(opened + 1)
      <4>1. a = Len(down[j]) + 1 /\ Len(down[j]) \in Nat
        <5>1. down[j] \in Seq(Reply) /\ At(down[j], "SYN@") = {}
          BY <1>1, <3>1 DEF None
        <5>2. \A n \in At(Append(down[j], x), "SYN@") : n = Len(down[j]) + 1
          BY <3>1, <5>1, LastOnly
        <5> QED
          BY <3>1, <3>6, <5>1, <5>2
      <4>2. Told(down'[j], a - 1, q) = AllTold(down[j], q)
        <5>1. a - 1 = Len(down[j]) /\ Len(down[j]) \in 0 .. Len(down[j])
          BY <4>1
        <5> QED
          BY <1>1, <3>1, <5>1, ToldAppend, SMTT(30) DEF AllTold
      <4>3. bought[j][q] + AllTold(down[j], q) + 0 = Rounds(pos[q])
        BY <1>2, <2>4, <2>5, <3>1, <3>3, <3>6 DEF ToursOf, Tally
      <4> QED
        BY <1>3, <3>1, <4>2, <4>3
    <3> QED
      BY <1>2, <2>1, <3>1, <3>5, <3>6 DEF ToursOf
\* A tour of q goes from its connection to that of j, unless j has left.
  <2>8. ASSUME NEW x \in Reply, x.type # "SYN@", Relays(i, x), x = p \/ (~Tells(x, q) /\ p.type # "INVT")
        PROVE  ToursOf(j, q)'
    <3>1. opened' = opened
      BY <2>8 DEF Relays, svrVars
    <3>2. one = IF Tells(x, q) THEN 1 ELSE 0
      BY <2>3, <2>8 DEF one
    <3>3. CASE down'[j] = Append(down[j], x)
      <4>1. AllTold(down'[j], q) = AllTold(down[j], q) + one
        BY <1>1, <3>2, <3>3, AllToldAppend
      <4>2. Tally(j, q)' = Tally(j, q)
        BY <1>3, <2>1, <2>4, <4>1 DEF Tally, one
      <4>3. ASSUME NEW a \in At(down'[j], "SYN@")
            PROVE  a \in At(down[j], "SYN@") /\ Told(down'[j], a - 1, q) = Told(down[j], a - 1, q)
        <5>1. a \in At(down[j], "SYN@")
          BY <1>1, <2>8, <3>3, <4>3, AtAppend, SMTT(30)
        <5>2. a - 1 \in 0 .. Len(down[j])
          <6>1. a \in 1 .. Len(down[j]) /\ Len(down[j]) \in Nat
            BY <1>1, <5>1 DEF At
          <6> QED
            BY <6>1
        <5>3. down[j] \in Seq(Reply)
          BY <1>1
        <5>4. Told(Append(down[j], x), a - 1, q) = Told(down[j], a - 1, q)
          BY <2>8, <5>2, <5>3, ToldAppend
        <5> QED
          BY <3>3, <5>1, <5>4
      <4> QED
        BY <1>2, <2>1, <3>1, <4>2, <4>3 DEF ToursOf
    <3>4. CASE down'[j] = down[j] /\ one = 0
      BY <1>3, <1>4, <2>1, <2>4, <3>1, <3>4
    <3>5. CASE down'[j] = down[j] /\ one = 1
      <4>1. ~alive[j]
        <5>1. q = i
          BY <2>3, <3>5 DEF one
        <5>2. down'[j] = IF svrQuit[j] THEN down[j] ELSE Append(down[j], x)
          BY <2>8, <5>1 DEF Relays
        <5>3. Append(down[j], x) # down[j]
          <6>1. Len(Append(down[j], x)) = Len(down[j]) + 1 /\ Len(down[j]) \in Nat
            BY <1>1, <2>8, AtAppend
          <6> QED
            BY <6>1
        <5>4. svrQuit[j]
          BY <3>5, <5>2, <5>3
        <5> QED
          BY <5>4 DEF AliveInv, AliveOf
      <4>2. Tally(j, q)' <= Tally(j, q) /\ Tally(j, q)' \in Nat /\ Tally(j, q) \in Nat
        BY <1>3, <2>1, <2>4, <3>5 DEF Tally
      <4>3. Tally(j, q)' <= Rounds(pos[q])
        BY <1>2, <1>3, <4>2 DEF ToursOf
      <4> QED
        BY <2>1, <4>1, <4>3 DEF ToursOf
    <3> QED
      BY <2>8, <3>3, <3>4, <3>5 DEF Relays, one
  <2>9. ~Tells(SvrOrders(RelayTable(p)), q) /\ SvrOrders(RelayTable(p)).type # "SYN@"
    BY DEF SvrOrders, Tells
  <2> QED
    BY <1>11, <2>6, <2>7, <2>8, <2>9, ServerCases DEF Counts, Relays, p
<1>12. CASE Polls
  BY <1>4, <1>12 DEF Polls, cliVars, svrVars
<1> QED
  BY <1>6, <1>7, <1>8, <1>9, <1>10, <1>11, <1>12, StepCases
\* Nobody has been shopping at the start.
LEMMA BoughtInit == Init => BoughtInv
<1> SUFFICES ASSUME Init, NEW i \in Client
             PROVE  TellsOf(i) /\ \A p \in Client \ {i} : ToursOf(i, p)
  BY DEF BoughtInv
<1>1. /\ \A j \in Client : up[j] = <<>> /\ down[j] = <<>> /\ pos[j] = 0
      /\ \A p \in Client : bought[i][p] = 0
      /\ opened = 0
  BY DEF Init
<1>2. TellsOf(i)
  BY <1>1, AtEmpty, ZeroEvents DEF TellsOf, Before, None
<1>3. ASSUME NEW p \in Client PROVE ToursOf(i, p)
  <2>1. AllTold(up[p], p) = 0 /\ AllTold(down[i], p) = 0
    BY <1>1, ToldEmpty DEF AllTold
  <2> QED
    BY <1>1, <2>1, AtEmpty, ZeroEvents DEF ToursOf, Tally
<1> QED
  BY <1>2, <1>3

\* Every step keeps what the clients know of each other's tours.
LEMMA BoughtStep ==
    TypeInv /\ PhaseInv /\ AliveInv /\ BoughtInv /\ [Next]_vars => BoughtInv'
<1> SUFFICES ASSUME TypeInv, PhaseInv, AliveInv, BoughtInv, [Next]_vars PROVE BoughtInv'
  OBVIOUS
<1>1. PhaseInv'
  BY PhaseStep
<1> QED
  BY <1>1, TellsStep, ToursStep DEF BoughtInv

-----------------------------------------------------------------------------
(* Volleys. *)

LEMMA UsedInit == Init => UsedInv
BY DEF Init, UsedInv, UsedOf

\* A client that has nothing to carry out has carried out all its turns; one
\* that has, misses the last.
LEMMA UsedNow ==
    ASSUME TypeInv, UsedInv, NEW i \in Client, ~wait[i]
    PROVE  /\ Len(used[i]) \in Nat /\ Turns(pos[i]) \in Nat /\ Len(used[i]) <= Turns(pos[i])
           /\ ~MustSimulate(i) => Len(used[i]) = Turns(pos[i])
           /\ MustSimulate(i) => Len(used[i]) + 1 = Turns(pos[i])
<1>1. pos[i] \in Nat /\ Len(used[i]) \in Nat
  BY TypeFacts DEF TypeInv
<1>2. UsedOf(i)
  BY DEF UsedInv
<1>3. CASE pos[i] = 0
  BY <1>1, <1>2, <1>3, ZeroEvents DEF UsedOf, MustSimulate, TurnsEnded
<1>4. CASE pos[i] # 0
  <2>1. pos[i] - 1 \in Nat /\ (pos[i] - 1) + 1 = pos[i]
    BY <1>1, <1>4
  <2>2. Turns(pos[i] - 1) \in Nat /\ Turns(pos[i]) \in Nat
        /\ (Turns(pos[i]) = Turns(pos[i] - 1) \/ Turns(pos[i]) = Turns(pos[i] - 1) + 1)
    <3>1. Turns(pos[i] - 1) \in 0 .. pos[i] - 1
      BY <2>1, TurnsNext
    <3>2. Turns((pos[i] - 1) + 1) \in Nat
          /\ Turns((pos[i] - 1) + 1) = Turns(pos[i] - 1) + (IF Script[(pos[i] - 1) + 1] = "TURN" THEN 1 ELSE 0)
      BY <2>1, TurnsNext
    <3> QED
      BY <1>1, <2>1, <3>1, <3>2
  <2> QED
    BY <1>1, <1>2, <1>4, <2>2 DEF UsedOf, MustSimulate, TurnsEnded
<1> QED
  BY <1>3, <1>4

\* Every step keeps a client at most one simulated turn ahead of its last
\* event.
LEMMA UsedStep == TypeInv /\ PhaseInv /\ UsedInv /\ [Next]_vars => UsedInv'
<1> SUFFICES ASSUME TypeInv, PhaseInv, UsedInv, [Next]_vars, NEW j \in Client PROVE UsedOf(j)'
  BY DEF UsedInv
<1>1. used[j] \in Seq(Volleys) /\ Len(used[j]) \in Nat /\ pos[j] \in Nat /\ wait \in [Client -> BOOLEAN]
  BY TypeFacts DEF TypeInv
<1>2. UsedOf(j)
  BY DEF UsedInv
<1>3. ASSUME used'[j] = used[j], pos'[j] = pos[j], wait'[j] => wait[j] PROVE UsedOf(j)'
  BY <1>2, <1>3 DEF UsedOf
<1>4. ASSUME NEW i \in Client, NEW o, Gives(i, o) PROVE UsedOf(j)'
  BY <1>3, <1>4 DEF Gives
<1>5. ASSUME NEW i \in Client, NEW s, NEW e, GoesOn(i, s, e) PROVE UsedOf(j)'
  <2>1. CASE j # i
    BY <1>1, <1>3, <1>5, <2>1 DEF GoesOn
  <2>2. CASE j = i
    <3>1. Len(used[i]) = Turns(pos[i])
      BY <1>5, UsedNow DEF GoesOn, Runs
    <3>2. pos'[i] = pos[i] + 1 /\ used'[i] = used[i] /\ pos'[i] # 0 /\ pos'[i] - 1 = pos[i]
      <4>1. pos'[i] = pos[i] + 1 /\ used'[i] = used[i]
        BY <1>5 DEF GoesOn
      <4> QED
        BY <1>1, <2>2, <4>1
    <3> QED
      BY <2>2, <3>1, <3>2 DEF UsedOf
  <2> QED
    BY <2>1, <2>2
<1>6. ASSUME NEW i \in Client, Fires(i) PROVE UsedOf(j)'
  <2>1. CASE j # i
    BY <1>3, <1>6, <2>1 DEF Fires
  <2>2. CASE j = i
    <3>1. Len(used[i]) + 1 = Turns(pos[i]) /\ ~wait[i]
      BY <1>6, UsedNow DEF Fires, Runs
    <3>2. used'[i] = Append(used[i], Volley(i)) /\ Volley(i) \in Volleys /\ UNCHANGED <<pos, wait>>
      BY <1>6 DEF Fires
    <3>3. Len(used'[i]) = Turns(pos[i])
      BY <1>1, <2>2, <3>1, <3>2
    <3>4. pos[i] # 0
      BY <1>1, <2>2, <3>1, ZeroEvents
    <3> QED
      BY <2>2, <3>1, <3>2, <3>3, <3>4 DEF UsedOf
  <2> QED
    BY <2>1, <2>2
<1>7. ASSUME NEW i \in Client, Leaves(i) PROVE UsedOf(j)'
  BY <1>3, <1>7 DEF Leaves
<1>8. ASSUME NEW i \in Client, ClientRecv(i) PROVE UsedOf(j)'
  <2>1. UNCHANGED <<used, pos>>
    BY <1>8 DEF ClientRecv
  <2>2. wait' = wait \/ wait' = [wait EXCEPT ![i] = FALSE]
    BY <1>8 DEF ClientRecv, RecvOrders, RecvPlayerState, RecvInventory, RecvSync
  <2> QED
    BY <1>1, <1>3, <2>1, <2>2
<1>9. ASSUME NEW i \in Client, ServerRecv(i) PROVE UsedOf(j)'
  BY <1>3, <1>9 DEF ServerRecv, cliVars
<1>10. CASE Polls
  BY <1>3, <1>10 DEF Polls, cliVars
<1> QED
  BY <1>4, <1>5, <1>6, <1>7, <1>8, <1>9, <1>10, StepCases

-----------------------------------------------------------------------------
(* What holds in every game. *)

GameInv == TypeInv /\ PhaseInv /\ EventInv /\ AliveInv /\ BoughtInv /\ UsedInv

\* The strengthened invariant of the synchronised game holds in every state.
LEMMA GameInvariant == Spec => []GameInv
<1>1. Init => GameInv
  BY TypeInit, PhaseInit, EventInit, AliveInit, BoughtInit, UsedInit DEF GameInv
<1>2. GameInv /\ [Next]_vars => GameInv'
  BY TypeStep, PhaseStep, EventStep, AliveStep, BoughtStep, UsedStep DEF GameInv
<1> QED
  BY <1>1, <1>2, PTL DEF Spec

\* The invariant gives the type invariant of the module.
LEMMA GameTypes == GameInv => TypeOK
<1> SUFFICES ASSUME GameInv PROVE TypeOK
  OBVIOUS
<1>1. TypeInv /\ PhaseInv /\ BoughtInv /\ UsedInv /\ Len(Script) \in Nat
  BY ScriptAssumption DEF GameInv
<1>2. /\ up \in [Client -> Seq(Packet)] /\ {alive, wait, missync, svrWait, svrQuit} \subseteq [Client -> BOOLEAN]
      /\ pos \in [Client -> 0 .. Len(Script)] /\ view \in [Client -> [Client -> Orders]]
      /\ polling \in {"idle", "client", "server"} /\ current \in Client
      /\ down \in [Client -> Seq(Reply)] /\ opened \in Nat /\ bought \in [Client -> [Client -> Nat]]
  BY <1>1 DEF TypeInv
<1>3. \A i \in Client : \A k \in 1 .. Len(down[i]) : down[i][k].type \in {"SYN@", "ORD@", "PLST", "INVT"}
  <2> TAKE i \in Client
  <2> TAKE k \in 1 .. Len(down[i])
  <2>1. down[i][k] \in Reply
    BY <1>2
  <2> QED
    BY <2>1 DEF Reply
<1>4. bought \in [Client -> [Client -> 0 .. Len(Script)]]
  <2>1. \A i, p \in Client : bought[i][p] \in 0 .. Len(Script)
    <3> TAKE i, p \in Client
    <3>1. pos[p] \in 0 .. Len(Script) /\ bought[i][p] \in Nat /\ Rounds(pos[p]) \in 0 .. pos[p]
      BY <1>1, <1>2, TypeFacts, RoundsNext
    <3>2. CASE i = p
      BY <1>1, <3>1, <3>2 DEF BoughtInv, TellsOf
    <3>3. CASE i # p
      <4>1. Tally(i, p) <= Rounds(pos[p])
        BY <1>1, <3>3 DEF BoughtInv, ToursOf
      <4>2. AllTold(down[i], p) \in Nat /\ AllTold(up[p], p) \in Nat
        <5>1. Len(down[i]) \in Nat /\ Len(up[p]) \in Nat
          BY <1>2, SMTT(30)
        <5> QED
          BY <5>1, ToldNat DEF AllTold
      <4> QED
        BY <1>1, <3>1, <4>1, <4>2 DEF Tally
    <3> QED
      BY <3>2, <3>3
  <2> QED
    BY <1>2, <2>1
<1>5. \A i \in Client : Len(used[i]) <= TurnsEnded(i)
  <2> TAKE i \in Client
  <2>1. CASE ~wait[i]
    BY <1>1, <2>1, UsedNow DEF TurnsEnded
  <2>2. CASE wait[i]
    <3>1. pos[i] \in Nat /\ UsedOf(i)
      BY <1>1, TypeFacts DEF UsedInv
    <3>2. CASE pos[i] = 0
      BY <2>2, <3>1, <3>2, ZeroEvents DEF UsedOf, TurnsEnded
    <3>3. CASE pos[i] # 0
      <4>1. Len(used[i]) = Turns(pos[i] - 1)
        BY <2>2, <3>1, <3>3 DEF UsedOf
      <4>2. PICK n \in Nat : n = pos[i] - 1 /\ n + 1 = pos[i]
        BY <3>1, <3>3
      <4>3. Turns(n) \in 0 .. n /\ Turns(n + 1) = Turns(n) + (IF Script[n + 1] = "TURN" THEN 1 ELSE 0)
        BY TurnsNext
      <4> QED
        BY <4>1, <4>2, <4>3 DEF TurnsEnded
    <3> QED
      BY <3>2, <3>3
  <2> QED
    BY <2>1, <2>2
<1>6. opened \in 0 .. Len(Script)
  <2>1. pos[Host] \in 0 .. Len(Script) /\ (pos[Host] = opened \/ pos[Host] = opened + 1)
    BY <1>1, <1>2, HostIsClient DEF PhaseInv, Going, Asking, Waiting, Released
  <2> QED
    BY <1>1, <1>2, <2>1
<1> QED
  BY <1>2, <1>3, <1>4, <1>5, <1>6 DEF TypeOK

\* The type invariant that the model checker evaluates holds for every number
\* of clients and every script.
THEOREM TypesHold == Spec => []TypeOK
BY GameInvariant, GameTypes, PTL

\* A client that is released from its shopping knows what everybody bought,
\* in either mode and whoever has left.
ToursKnown ==
    [][\A i \in Client : wait[i] /\ ~wait'[i] /\ syncarg[i] = "ROUND" =>
          \A p \in Client : bought[i][p] = bought[i][i]]_vars

\* Only the answer to its request releases a client.
LEMMA ReleasedBy ==
    ASSUME TypeInv, PhaseInv, [Next]_vars, NEW i \in Client, wait[i], ~wait'[i]
    PROVE  /\ ClientRecv(i) /\ Gets(i) /\ Head(down[i]).type = "SYN@" /\ 1 \in At(down[i], "SYN@")
           /\ Released(i)
<1>1. wait \in [Client -> BOOLEAN]
  BY DEF TypeInv
<1>2. ASSUME NEW k \in Client, ClientRecv(k) PROVE k = i /\ Head(down[i]).type = "SYN@"
  <2>1. wait' # wait
    OBVIOUS
  <2>2. Head(down[k]).type = "SYN@" /\ wait' = [wait EXCEPT ![k] = FALSE]
    BY <1>2, <2>1 DEF ClientRecv, RecvOrders, RecvPlayerState, RecvInventory, RecvSync
  <2> QED
    BY <1>1, <2>2
<1>3. ClientRecv(i) /\ Head(down[i]).type = "SYN@"
  BY <1>2, StepCases DEF Gives, GoesOn, Fires, Leaves, Polls, ServerRecv, cliVars
<1>4. Gets(i)
  BY <1>3, ClientGets
<1>5. 1 \in At(down[i], "SYN@")
  <2>1. Len(down[i]) \in Nat \ {0} /\ Head(down[i]) = down[i][1]
    BY <1>4, AtTail DEF Gets
  <2> QED
    BY <1>3, <2>1 DEF At
<1> QED
  BY <1>3, <1>4, <1>5 DEF PhaseInv, Going, Asking, Waiting, None

\* A client that is released knows as many tours of every player as it has
\* made itself.
LEMMA ToursRelease ==
    ASSUME GameInv, [Next]_vars, NEW i \in Client, wait[i], ~wait'[i], alive[i]
    PROVE  \A p \in Client : bought[i][p] = bought[i][i]
<1>1. TypeInv /\ PhaseInv /\ BoughtInv
  BY DEF GameInv
<1>2. 1 \in At(down[i], "SYN@") /\ pos[i] = opened
  BY <1>1, ReleasedBy DEF Released
<1>3. bought[i][i] = Rounds(opened)
  BY <1>1, <1>2 DEF BoughtInv, TellsOf
<1> SUFFICES ASSUME NEW p \in Client \ {i} PROVE bought[i][p] = Rounds(opened)
  BY <1>3
<1>4. bought[i][p] + Told(down[i], 1 - 1, p) = Rounds(opened)
  BY <1>1, <1>2 DEF BoughtInv, ToursOf
<1>5. Told(down[i], 1 - 1, p) = 0
  BY ToldEmpty
<1>6. bought[i][p] \in Nat
  BY <1>1, TypeFacts
<1> QED
  BY <1>4, <1>5, <1>6

\* When a client is released from an event it knows of every shopping tour
\* the others made before that event (INVT packets,
\* sc_client_send_inventory), so all of them start the round with the same
\* inventories.
THEOREM ShoppingKnown == Spec => ToursKnown
<1>1. GameInv /\ [Next]_vars =>
        [\A i \in Client : wait[i] /\ ~wait'[i] /\ syncarg[i] = "ROUND" =>
            \A p \in Client : bought[i][p] = bought[i][i]]_vars
  <2>1. ASSUME GameInv, [Next]_vars, NEW i \in Client, wait[i], ~wait'[i] PROVE alive[i]
    BY <2>1, ReleasedBy DEF GameInv, ClientRecv
  <2> QED
    BY <2>1, ToursRelease
<1> QED
  BY <1>1, GameInvariant, PTL DEF Spec, ToursKnown

-----------------------------------------------------------------------------
(* A sequential game: one player is on turn, so that all clients simulate   *)
(* with the same orders and find the same random value.                    *)

\* The simulations agree as far as they have got.
AgreeInv ==
    \A i, j \in Client : \A n \in 1 .. Len(used[i]) :
        n <= Len(used[j]) => used[i][n] = used[j][n]

\* An answer carries the random value its receiver has.
RandInv ==
    \A i \in Client : \A a \in At(down[i], "SYN@") : down[i][a].rnd = used[i]

\* The player of the turn that ended last, and the clients that have yet to
\* simulate it.
Shooter == TurnOf(Turns(opened) - 1)
Yet(i) == Len(used[i]) < Turns(opened)
Shot == [p \in {Shooter} |-> view[Shooter][Shooter]]
DoneInv ==
    \A i, j \in Client :
        Len(used[i]) = Turns(opened) /\ Yet(j) => used[i][Turns(opened)] = Shot

\* Orders on their way up are those of the player on turn, who has simulated
\* all there was; they are there before the request, the latest last.
OrderOf(i) ==
    ~None(up[i], "ORDR") =>
        /\ TurnOf(Turns(opened)) = i
        /\ Len(used[i]) = Turns(opened)
        /\ None(up[i], "SYNC") => pos[i] = opened
        /\ Before(up[i], "ORDR", "SYNC")
        /\ \A n \in At(up[i], "ORDR") : up[i][n].player = i
        /\ \A n \in At(up[i], "ORDR") :
             (\A m \in At(up[i], "ORDR") : m <= n) => up[i][n].order = view[i][i]
OrderInv == \A i \in Client : OrderOf(i)

\* Who holds v of player p will, after the first n packets of s, hold o: as
\* long as the tables say nothing new, o is what they say.
Holds(s, p, n, v, o) ==
    /\ (\A m \in 1 .. n : s[m].type = "ORD@" => s[m].table[p] = v) => v = o
    /\ \A m \in 1 .. n :
         s[m].type = "ORD@" /\ (\A l \in m + 1 .. n : s[l].type = "ORD@" => s[l].table[p] = s[m].table[p])
            => s[m].table[p] = o

\* No table after the first n packets of s says anything else than o.
Keeps(s, p, n, o) == \A m \in At(s, "ORD@") : m > n => s[m].table[p] = o

Knows(j, p, n) == Holds(down[j], p, n, view[j][p], view[p][p])

\* The orders of a player that are not on their way up are on their way down.
KnowOf(j, p) ==
    alive[j] /\ j # p /\ None(up[p], "ORDR") => Knows(j, p, Len(down[j]))
KnowInv == \A j, p \in Client : KnowOf(j, p)

\* While the server polls, its own client is not behind it.
HostInv ==
    polling = "server" =>
        \A i \in Client : ~None(up[i], "ORDR") =>
            \A n \in At(down[Host], "ORD@") : \A p \in Client \ {i} :
                down[Host][n].table[p] = view[Host][p]

\* Client j has the orders o of player s when it is released.
ShotHas(j, s, o) ==
    IF wait[j]
    THEN \A a \in At(down[j], "SYN@") :
            Holds(down[j], s, a - 1, view[j][s], o) /\ Keeps(down[j], s, a, o)
    ELSE view[j][s] = o /\ Keeps(down[j], s, 0, o)

\* Who has yet to simulate has those of the shooter.
ShotOf(j) ==
    alive[j] /\ Yet(j) /\ j # Shooter => ShotHas(j, Shooter, view[Shooter][Shooter])
ShotInv == \A j \in Client : ShotOf(j)

NoMissync == \A i \in Client : ~missync[i]

-----------------------------------------------------------------------------
(* Turns. *)

LEMMA TurnAlone ==
    ASSUME NEW a \in Nat \ {0}, TurnOf(a) = TurnOf(a - 1)
    PROVE  N = 1
<1> DEFINE q == a \div N
           r == (a - 1) \div N
<1>1. N \in Nat /\ N >= 1
  BY ClientAssumption
<1>2. q \in Int /\ r \in Int /\ a = N * q + (a % N) /\ a - 1 = N * r + ((a - 1) % N)
      /\ (a % N) \in Int
  BY <1>1, Z3
<1>3. a % N = (a - 1) % N
  BY DEF TurnOf
<1> HIDE DEF q, r
<1>4. N * (q - r) = 1
  <2>1. N * (q - r) = N * q - N * r
    BY <1>1, <1>2, Z3
  <2> QED
    BY <1>1, <1>2, <1>3, <2>1, Z3
<1>5. \A k \in Int : N * k = 1 => N = 1
  <2> SUFFICES ASSUME NEW k \in Int, N * k = 1, N # 1 PROVE FALSE
    OBVIOUS
  <2>1. k >= 1
    <3>1. CASE k <= 0
      <4>1. N * k <= 0
        BY <1>1, <3>1, Z3
      <4> QED
        BY <4>1
    <3> QED
      BY <3>1
  <2>2. N * k >= N
    BY <1>1, <2>1, Z3
  <2> QED
    BY <1>1, <2>2
<1> QED
  BY <1>1, <1>2, <1>4, <1>5

\* Once a turn has been played its player is one of the clients.
LEMMA ShooterClient ==
    ASSUME TypeInv, Turns(opened) # 0
    PROVE  Shooter \in Client /\ Turns(opened) \in Nat \ {0}
<1>1. Turns(opened) \in Nat
  BY TypeFacts, TurnsNext
<1>2. Turns(opened) - 1 \in Int /\ N \in Nat /\ N >= 1
  BY <1>1, ClientAssumption
<1> QED
  BY <1>1, <1>2 DEF Shooter, TurnOf, Client

-----------------------------------------------------------------------------
(* What a client will hold. *)

LEMMA HoldsZero == \A s, p, v, o : Holds(s, p, 0, v, o) <=> v = o
BY DEF Holds

\* A packet queued last does not matter to what the first ones say.
LEMMA HoldsPrefix ==
    ASSUME NEW S, NEW s \in Seq(S), NEW x \in S, NEW n \in 0 .. Len(s), NEW p, NEW v, NEW o
    PROVE  Holds(Append(s, x), p, n, v, o) <=> Holds(s, p, n, v, o)
<1>1. \A m \in 1 .. n : Append(s, x)[m] = s[m]
  BY AtAppend
<1>2. \A m \in 1 .. n : \A l \in m + 1 .. n : Append(s, x)[l] = s[l]
  BY <1>1
<1> QED
  BY <1>1, <1>2 DEF Holds

\* A table queued last decides what its reader will hold.
LEMMA HoldsAppend ==
    ASSUME NEW S, NEW s \in Seq(S), NEW x \in S, NEW p, NEW v, NEW o,
           IF x.type = "ORD@" THEN x.table[p] = o ELSE Holds(s, p, Len(s), v, o),
           Holds(s, p, Len(s), v, o) \/ x.type = "ORD@"
    PROVE  Holds(Append(s, x), p, Len(s) + 1, v, o)
<1> DEFINE r == Append(s, x)
           n == Len(s)
<1>1. n \in Nat /\ r[n + 1] = x /\ \A m \in 1 .. n : r[m] = s[m]
  BY AtAppend
<1> HIDE DEF r, n
<1>2. CASE x.type = "ORD@"
  <2>1. x.table[p] = o /\ n + 1 \in 1 .. n + 1
    BY <1>1, <1>2
  <2>2. (\A m \in 1 .. n + 1 : r[m].type = "ORD@" => r[m].table[p] = v) => v = o
    BY <1>1, <1>2, <2>1
  <2>3. ASSUME NEW m \in 1 .. n + 1, r[m].type = "ORD@",
               \A l \in m + 1 .. n + 1 : r[l].type = "ORD@" => r[l].table[p] = r[m].table[p]
        PROVE  r[m].table[p] = o
    <3>1. CASE m = n + 1
      BY <1>1, <2>1, <3>1
    <3>2. CASE m # n + 1
      <4>1. n + 1 \in m + 1 .. n + 1
        BY <1>1, <3>2
      <4> QED
        BY <1>1, <1>2, <2>1, <2>3, <4>1
    <3> QED
      BY <3>1, <3>2
  <2> QED
    BY <2>2, <2>3 DEF Holds, r, n
<1>3. CASE x.type # "ORD@"
  <2>1. Holds(s, p, n, v, o)
    BY <1>3 DEF n
  <2>2. (\A m \in 1 .. n + 1 : r[m].type = "ORD@" => r[m].table[p] = v) => v = o
    <3>1. SUFFICES ASSUME \A m \in 1 .. n + 1 : r[m].type = "ORD@" => r[m].table[p] = v PROVE v = o
      OBVIOUS
    <3>2. \A m \in 1 .. n : s[m].type = "ORD@" => s[m].table[p] = v
      BY <1>1, <3>1
    <3> QED
      BY <2>1, <3>2 DEF Holds
  <2>3. ASSUME NEW m \in 1 .. n + 1, r[m].type = "ORD@",
               \A l \in m + 1 .. n + 1 : r[l].type = "ORD@" => r[l].table[p] = r[m].table[p]
        PROVE  r[m].table[p] = o
    <3>1. m # n + 1
      BY <1>1, <1>3, <2>3
    <3>2. m \in 1 .. n
      BY <1>1, <3>1
    <3>3. \A l \in m + 1 .. n : s[l].type = "ORD@" => s[l].table[p] = s[m].table[p]
      BY <1>1, <2>3, <3>2
    <3> QED
      BY <1>1, <2>1, <2>3, <3>2, <3>3 DEF Holds
  <2> QED
    BY <2>2, <2>3 DEF Holds, r, n
<1> QED
  BY <1>2, <1>3

\* Handling the head packet moves what it says into the reader's table.
LEMMA HoldsTail ==
    ASSUME NEW S, NEW s \in Seq(S), s # <<>>, NEW n \in 1 .. Len(s), NEW p, NEW v, NEW o,
           Holds(s, p, n, v, o)
    PROVE  Holds(Tail(s), p, n - 1, IF Head(s).type = "ORD@" THEN Head(s).table[p] ELSE v, o)
<1> DEFINE r == Tail(s)
           w == IF Head(s).type = "ORD@" THEN Head(s).table[p] ELSE v
<1>1. /\ Head(s) = s[1] /\ n \in Nat \ {0}
      /\ \A m \in 1 .. n - 1 : r[m] = s[m + 1]
  BY AtTail
<1> HIDE DEF r
<1>2. ASSUME \A m \in 1 .. n - 1 : r[m].type = "ORD@" => r[m].table[p] = w PROVE w = o
  <2>1. \A m \in 2 .. n : s[m].type = "ORD@" => s[m].table[p] = w
    <3> TAKE m \in 2 .. n
    <3>1. m - 1 \in 1 .. n - 1 /\ (m - 1) + 1 = m
      BY <1>1
    <3> QED
      BY <1>1, <1>2, <3>1
  <2>2. CASE Head(s).type = "ORD@"
    <3>1. 1 \in 1 .. n /\ s[1].type = "ORD@" /\ s[1].table[p] = w
      BY <1>1, <2>2
    <3>2. \A l \in 1 + 1 .. n : s[l].type = "ORD@" => s[l].table[p] = s[1].table[p]
      BY <2>1, <3>1
    <3> QED
      BY <3>1, <3>2 DEF Holds
  <2>3. CASE Head(s).type # "ORD@"
    <3>1. w = v /\ \A m \in 1 .. n : m = 1 \/ m \in 2 .. n
      BY <1>1, <2>3
    <3>2. \A m \in 1 .. n : s[m].type = "ORD@" => s[m].table[p] = v
      BY <1>1, <2>1, <2>3, <3>1
    <3> QED
      BY <3>1, <3>2 DEF Holds
  <2> QED
    BY <2>2, <2>3
<1>3. ASSUME NEW m \in 1 .. n - 1, r[m].type = "ORD@",
             \A l \in m + 1 .. n - 1 : r[l].type = "ORD@" => r[l].table[p] = r[m].table[p]
      PROVE  r[m].table[p] = o
  <2>1. m + 1 \in 1 .. n /\ r[m] = s[m + 1]
    BY <1>1
  <2>2. \A l \in (m + 1) + 1 .. n : s[l].type = "ORD@" => s[l].table[p] = s[m + 1].table[p]
    <3> TAKE l \in (m + 1) + 1 .. n
    <3>1. l - 1 \in m + 1 .. n - 1 /\ (l - 1) + 1 = l /\ l - 1 \in 1 .. n - 1
      BY <1>1
    <3> QED
      BY <1>1, <1>3, <2>1, <3>1
  <2> QED
    BY <1>3, <2>1, <2>2 DEF Holds
<1> QED
  BY <1>2, <1>3 DEF Holds, r

\* A table that says the same keeps the queue saying nothing else.
LEMMA KeepsAppend ==
    ASSUME NEW S, NEW s \in Seq(S), NEW x \in S, NEW n \in Nat, NEW p, NEW o, Keeps(s, p, n, o),
           x.type = "ORD@" => x.table[p] = o
    PROVE  Keeps(Append(s, x), p, n, o)
<1>1. /\ Len(s) \in Nat /\ Len(Append(s, x)) = Len(s) + 1
      /\ Append(s, x)[Len(s) + 1] = x /\ \A m \in 1 .. Len(s) : Append(s, x)[m] = s[m]
  BY AtAppend
<1> SUFFICES ASSUME NEW m \in At(Append(s, x), "ORD@"), m > n PROVE Append(s, x)[m].table[p] = o
  BY DEF Keeps
<1>2. m \in 1 .. Len(s) + 1 /\ Append(s, x)[m].type = "ORD@"
  BY <1>1 DEF At
<1>3. CASE m = Len(s) + 1
  BY <1>1, <1>2, <1>3
<1>4. CASE m \in 1 .. Len(s)
  BY <1>1, <1>2, <1>4 DEF Keeps, At
<1> QED
  BY <1>1, <1>2, <1>3, <1>4

\* The packets behind the head say nothing else either.
LEMMA KeepsTail ==
    ASSUME NEW S, NEW s \in Seq(S), s # <<>>, NEW n \in Nat, NEW k \in Nat, NEW p, NEW o, n <= k + 1,
           Keeps(s, p, n, o)
    PROVE  /\ Keeps(Tail(s), p, k, o)
           /\ n = 0 /\ Head(s).type = "ORD@" => Head(s).table[p] = o
<1>1. /\ Head(s) = s[1] /\ Len(s) \in Nat \ {0}
      /\ \A m \in 1 .. Len(s) - 1 : Tail(s)[m] = s[m + 1]
      /\ \A m : m \in At(Tail(s), "ORD@") <=> m \in 1 .. Len(s) - 1 /\ m + 1 \in At(s, "ORD@")
  BY AtTail
<1>2. ASSUME NEW m \in At(Tail(s), "ORD@"), m > k PROVE Tail(s)[m].table[p] = o
  <2>1. m \in 1 .. Len(s) - 1 /\ m + 1 \in At(s, "ORD@") /\ Tail(s)[m] = s[m + 1]
    BY <1>1, <1>2
  <2>2. m + 1 > n
    BY <1>2, <2>1
  <2> QED
    BY <2>1, <2>2 DEF Keeps
<1>3. ASSUME n = 0, Head(s).type = "ORD@" PROVE Head(s).table[p] = o
  <2>1. 1 \in At(s, "ORD@") /\ 1 > n
    BY <1>1, <1>3 DEF At
  <2> QED
    BY <1>1, <2>1 DEF Keeps
<1> QED
  BY <1>2, <1>3 DEF Keeps
-----------------------------------------------------------------------------
(* When the barrier opens. *)

\* Everybody has simulated all there was, and is answered alike.
LEMMA OpensAnswer ==
    ASSUME GameInv, NEW i \in Client, ServerRecv(i), Opens(i, Head(up[i]))
    PROVE  \A j \in Client :
             /\ wait[j] /\ pos[j] = opened + 1 /\ Len(used[j]) = Turns(opened)
             /\ Answer(svrArg', j) = SyncResp(Script[opened + 1], used[Host])
             /\ At(down[j], "SYN@") = {}
<1> DEFINE p == Head(up[i])
<1>1. TypeInv /\ PhaseInv /\ EventInv /\ UsedInv
  BY DEF GameInv
<1>2. Takes(i) /\ opened \in Nat /\ Head(up[i]).type = "SYNC"
  BY <1>1, ServerCases, TypeFacts DEF Opens
<1>3. \A j \in Client : wait[j] /\ pos[j] = opened + 1 /\ At(down[j], "SYN@") = {} /\ (j # i => svrWait[j])
  BY DEF Opens, Asking, Waiting, None
<1>4. p.event = Script[opened + 1]
  <2>1. 1 \in At(up[i], "SYNC") /\ p = up[i][1]
    BY <1>2, AtTail DEF Takes, At
  <2> QED
    BY <1>1, <1>3, <2>1 DEF EventInv, EventOf
<1>5. \A j \in Client : svrArg'[j].event = Script[opened + 1]
  BY <1>1, <1>3, <1>4 DEF EventInv, EventOf, Opens
<1>6. \A j \in Client : Answer(svrArg', j) = SyncResp(Script[opened + 1], used[Host])
  BY <1>5, HostIsClient DEF Answer, RandPeek
<1>7. \A j \in Client : Len(used[j]) = Turns(opened)
  <2> TAKE j \in Client
  <2>1. UsedOf(j) /\ pos[j] # 0 /\ pos[j] - 1 = opened /\ wait[j]
    BY <1>1, <1>2, <1>3 DEF UsedInv
  <2> QED
    BY <2>1 DEF UsedOf
<1> QED
  BY <1>3, <1>6, <1>7

\* Nobody simulates ahead of the barrier.
LEMMA UsedBound ==
    ASSUME GameInv, NEW j \in Client
    PROVE  /\ Len(used[j]) \in Nat /\ Turns(opened) \in Nat /\ Len(used[j]) <= Turns(opened)
           /\ ~wait[j] => pos[j] = opened
           /\ ~wait[j] /\ ~MustSimulate(j) => Len(used[j]) = Turns(opened)
           /\ MustSimulate(j) /\ ~wait[j] => Len(used[j]) + 1 = Turns(opened)
<1>1. TypeInv /\ PhaseInv /\ UsedInv
  BY DEF GameInv
<1>2. /\ pos[j] \in Nat /\ opened \in Nat /\ Turns(opened) \in Nat /\ Turns(pos[j]) \in Nat
      /\ Len(used[j]) \in Nat
  <2>1. pos[j] \in Nat /\ opened \in Nat /\ Len(used[j]) \in Nat
    BY <1>1, TypeFacts DEF TypeInv
  <2>2. \A n \in Nat : Turns(n) \in Nat
    BY TurnsNext
  <2> QED
    BY <2>1, <2>2
<1>3. CASE ~wait[j]
  <2>1. pos[j] = opened
    BY <1>1, <1>3 DEF PhaseInv, Going, Asking, Waiting, Released
  <2> QED
    BY <1>1, <1>2, <1>3, <2>1, UsedNow
<1>4. CASE wait[j]
  <2>1. UsedOf(j) /\ (pos[j] = opened \/ pos[j] = opened + 1)
    BY <1>1 DEF UsedInv, PhaseInv, Going, Asking, Waiting, Released
  <2>2. CASE pos[j] = 0
    BY <1>2, <1>4, <2>1, <2>2 DEF UsedOf
  <2>3. CASE pos[j] # 0
    <3>1. Len(used[j]) = Turns(pos[j] - 1)
      BY <1>4, <2>1, <2>3 DEF UsedOf
    <3>2. CASE pos[j] = opened + 1
      BY <1>2, <1>4, <3>1, <3>2
    <3>3. CASE pos[j] = opened
      <4>1. PICK n \in Nat : n = opened - 1 /\ n + 1 = opened
        BY <1>2, <2>3, <3>3
      <4>2. Turns(n) \in 0 .. n /\ Turns(n + 1) = Turns(n) + (IF Script[n + 1] = "TURN" THEN 1 ELSE 0)
        BY TurnsNext
      <4> QED
        BY <1>2, <1>4, <3>1, <3>3, <4>1, <4>2
    <3> QED
      BY <2>1, <3>2, <3>3
  <2> QED
    BY <2>2, <2>3
<1> QED
  BY <1>3, <1>4

-----------------------------------------------------------------------------
(* The orders on their way up. *)

LEMMA OrderFrame ==
    ASSUME NEW j \in Client, OrderOf(j), NEW S, up[j] \in Seq(S),
           pos'[j] = pos[j], used'[j] = used[j], opened' = opened, view'[j][j] = view[j][j],
           up'[j] = up[j] \/ \E x \in S : x.type \notin {"ORDR", "SYNC"} /\ up'[j] = Append(up[j], x)
    PROVE  OrderOf(j)'
<1>1. /\ At(up'[j], "ORDR") = At(up[j], "ORDR") /\ At(up'[j], "SYNC") = At(up[j], "SYNC")
      /\ \A n \in At(up[j], "ORDR") : up'[j][n] = up[j][n]
  <2>1. CASE up'[j] = up[j]
    BY <2>1
  <2>2. ASSUME NEW x \in S, x.type \notin {"ORDR", "SYNC"}, up'[j] = Append(up[j], x)
        PROVE  /\ At(up'[j], "ORDR") = At(up[j], "ORDR") /\ At(up'[j], "SYNC") = At(up[j], "SYNC")
               /\ \A n \in At(up[j], "ORDR") : up'[j][n] = up[j][n]
    <3>1. \A n \in 1 .. Len(up[j]) : up'[j][n] = up[j][n]
      BY <2>2, AtAppend
    <3>2. At(up'[j], "ORDR") = At(up[j], "ORDR")
      BY <2>2, AtAppend
    <3>3. At(up'[j], "SYNC") = At(up[j], "SYNC")
      BY <2>2, AtAppend
    <3> QED
      BY <3>1, <3>2, <3>3 DEF At
  <2> QED
    BY <2>1, <2>2
<1>2. TurnOf(Turns(opened))' = TurnOf(Turns(opened))
  BY DEF TurnOf, Turns
<1> QED
  BY <1>1, <1>2 DEF OrderOf, Before, None

\* There are no orders on their way at the start.
LEMMA OrderInit == Init => OrderInv
<1> SUFFICES ASSUME Init, NEW i \in Client PROVE OrderOf(i)
  BY DEF OrderInv
<1>1. up[i] = <<>>
  BY DEF Init
<1> QED
  BY <1>1, AtEmpty DEF OrderOf, None

\* Orders given (sc_client_send_player_orders) are those of the player on
\* turn.
LEMMA OrderGives ==
    ASSUME Sequential, GameInv, OrderInv, NEW i \in Client, NEW o, Gives(i, o)
    PROVE  OrderOf(i)'
<1> DEFINE x == CliOrders(i, o)
<1>1. TypeInv /\ PhaseInv /\ up[i] \in Seq(Packet)
  BY TypeFacts DEF GameInv
<1>2. Going(i) /\ ~wait[i] /\ ~MustSimulate(i) /\ Upcoming(i) = "TURN"
  BY <1>1 DEF Gives, Runs, PhaseInv, Asking, Waiting, Released
<1>3. pos[i] = opened /\ At(up[i], "SYNC") = {} /\ Len(used[i]) = Turns(opened)
  BY <1>2, UsedBound DEF Going, None
<1>4. TurnOf(Turns(opened)) = i
  BY <1>3 DEF Gives, TurnsEnded
<1>5. x \in Packet /\ up'[i] = Append(up[i], x) /\ x.type = "ORDR" /\ x.player = i /\ x.order = o
  BY DEF Gives, Sends, CliOrders
<1>6. UNCHANGED <<opened, used, pos>> /\ view'[i][i] = o
  BY DEF Gives, svrVars
<1> HIDE DEF x
<1>7. /\ Len(up[i]) \in Nat
      /\ \A n \in 1 .. Len(up[i]) : up'[i][n] = up[i][n]
      /\ up'[i][Len(up[i]) + 1] = x
      /\ At(up'[i], "ORDR") = At(up[i], "ORDR") \union {Len(up[i]) + 1}
      /\ At(up[i], "ORDR") \subseteq 1 .. Len(up[i])
  BY <1>1, <1>5, AtAppend DEF At
<1>8. At(up'[i], "SYNC") = {}
  BY <1>1, <1>3, <1>5, AtAppend
<1>9. \A n \in At(up'[i], "ORDR") : up'[i][n].player = i
  <2>1. ASSUME NEW n \in At(up[i], "ORDR") PROVE up[i][n].player = i
    BY <2>1 DEF OrderInv, OrderOf, None
  <2> QED
    BY <1>5, <1>7, <2>1
<1>10. ASSUME NEW n \in At(up'[i], "ORDR"), \A m \in At(up'[i], "ORDR") : m <= n
       PROVE  up'[i][n].order = view'[i][i]
  <2>1. Len(up[i]) + 1 <= n
    BY <1>7, <1>10
  <2>2. n = Len(up[i]) + 1
    BY <1>7, <2>1
  <2> QED
    BY <1>5, <1>6, <1>7, <2>2
<1>11. Before(up'[i], "ORDR", "SYNC")
  BY <1>8 DEF Before
<1>12. TurnOf(Turns(opened))' = TurnOf(Turns(opened)) /\ Len(used'[i]) = Turns(opened') /\ pos'[i] = opened'
  BY <1>3, <1>6 DEF TurnOf, Turns
<1> QED
  BY <1>4, <1>9, <1>10, <1>11, <1>12 DEF OrderOf

\* A client asks to go on only behind its orders.
LEMMA OrderGoesOn ==
    ASSUME GameInv, OrderInv, NEW i \in Client, NEW s, NEW e, GoesOn(i, s, e)
    PROVE  OrderOf(i)'
<1> DEFINE r == SyncRqst(e, i = Host)
<1>1. TypeInv /\ PhaseInv /\ up[i] \in Seq(Packet) /\ OrderOf(i)
  BY TypeFacts DEF GameInv, OrderInv
<1>2. None(up[i], "SYNC")
  BY <1>1 DEF GoesOn, Runs, PhaseInv, Going, Asking, Waiting, Released
<1>3. /\ Inventory(i) \in Packet /\ PlayerState(view[i]) \in Packet
      /\ Inventory(i).type \notin {"ORDR", "SYNC"} /\ PlayerState(view[i]).type \notin {"ORDR", "SYNC"}
  BY <1>1, PacketTypes DEF Inventory, PlayerState
<1>4. /\ s \in Seq(Packet) /\ r \in Packet /\ r.type = "SYNC" /\ up'[i] = Append(s, r)
      /\ s = up[i] \/ \E x \in Packet : x.type \notin {"ORDR", "SYNC"} /\ s = Append(up[i], x)
  BY <1>3 DEF GoesOn, Asks, SyncRqst
<1> HIDE DEF r
<1>5. /\ At(s, "ORDR") = At(up[i], "ORDR") /\ At(s, "SYNC") = {}
      /\ \A n \in At(up[i], "ORDR") : s[n] = up[i][n]
  <2>1. CASE s = up[i]
    BY <1>2, <2>1 DEF None
  <2>2. ASSUME NEW x \in Packet, x.type \notin {"ORDR", "SYNC"}, s = Append(up[i], x)
        PROVE  /\ At(s, "ORDR") = At(up[i], "ORDR") /\ At(s, "SYNC") = {}
               /\ \A n \in At(up[i], "ORDR") : s[n] = up[i][n]
    <3>1. \A n \in 1 .. Len(up[i]) : s[n] = up[i][n]
      BY <1>1, <2>2, AtAppend
    <3>2. At(s, "ORDR") = At(up[i], "ORDR")
      BY <1>1, <2>2, AtAppend
    <3>3. At(s, "SYNC") = At(up[i], "SYNC")
      BY <1>1, <2>2, AtAppend
    <3> QED
      BY <1>2, <3>1, <3>2, <3>3 DEF At, None
  <2> QED
    BY <1>4, <2>1, <2>2
<1>6. /\ At(up'[i], "ORDR") = At(up[i], "ORDR")
      /\ \A n \in At(up[i], "ORDR") : up'[i][n] = up[i][n]
  <2>1. At(up'[i], "ORDR") = At(s, "ORDR")
    BY <1>4, AtAppend
  <2>2. \A n \in 1 .. Len(s) : up'[i][n] = s[n]
    BY <1>4, AtAppend
  <2> QED
    BY <1>5, <2>1, <2>2 DEF At
<1>7. Before(up'[i], "ORDR", "SYNC") /\ ~None(up'[i], "SYNC")
  <2>1. None(s, "SYNC")
    BY <1>5 DEF None
  <2>2. Before(Append(s, r), "ORDR", "SYNC")
    BY <1>4, <2>1, BeforeAsk
  <2>3. One(Append(s, r), "SYNC")
    BY <1>4, <2>1, AppendCounts
  <2> QED
    BY <1>4, <2>2, <2>3, SameSelf
<1>8. UNCHANGED <<opened, used, view>>
  BY DEF GoesOn, svrVars
<1>9. TurnOf(Turns(opened))' = TurnOf(Turns(opened)) /\ Turns(opened)' = Turns(opened)
  BY <1>8 DEF TurnOf, Turns
<1> QED
  BY <1>1, <1>6, <1>7, <1>8, <1>9 DEF OrderOf, None

\* The server takes the packet at the head of a client's queue.
LEMMA OrderTakes ==
    ASSUME GameInv, OrderInv, NEW i \in Client, Takes(i), UNCHANGED <<cliVars, opened>>
    PROVE  OrderOf(i)'
<1> DEFINE s == up[i]
           r == Tail(up[i])
<1>1. s \in Seq(Packet) /\ s # <<>> /\ up'[i] = r /\ PhaseInv /\ OrderOf(i)
  BY DEF Takes, GameInv, OrderInv
<1>2. /\ Len(s) \in Nat \ {0} /\ \A n \in 1 .. Len(s) - 1 : r[n] = s[n + 1]
      /\ \A n : n \in At(r, "ORDR") <=> n \in 1 .. Len(s) - 1 /\ n + 1 \in At(s, "ORDR")
  BY <1>1, AtTail
<1> SUFFICES ASSUME ~None(r, "ORDR") PROVE OrderOf(i)'
  BY <1>1 DEF OrderOf
<1>3. ~None(s, "ORDR")
  BY <1>2 DEF None
<1>4. Before(r, "ORDR", "SYNC") /\ Head(s).type # "SYNC"
  BY <1>1, <1>3, BeforeTail DEF OrderOf
<1>5. None(r, "SYNC") => None(s, "SYNC")
  <2>1. Same(s, r, "SYNC")
    BY <1>1, <1>4, TailCounts
  <2>2. None(s, "SYNC") \/ One(s, "SYNC")
    BY <1>1 DEF PhaseInv, Going, Asking, Waiting, Released
  <2> QED
    BY <2>1, <2>2, SameSelf DEF Same
<1>6. \A n \in At(r, "ORDR") : r[n].player = i
  BY <1>1, <1>2, <1>3 DEF OrderOf
<1>7. ASSUME NEW n \in At(r, "ORDR"), \A m \in At(r, "ORDR") : m <= n
      PROVE  r[n].order = view[i][i]
  <2>1. n \in 1 .. Len(s) - 1 /\ n + 1 \in At(s, "ORDR") /\ r[n] = s[n + 1]
    BY <1>2, <1>7
  <2>2. ASSUME NEW m \in At(s, "ORDR") PROVE m <= n + 1
    <3>1. m \in 1 .. Len(s)
      BY DEF At
    <3>2. CASE m = 1
      BY <2>1, <3>2
    <3>3. CASE m # 1
      <4>1. m - 1 \in 1 .. Len(s) - 1 /\ (m - 1) + 1 = m
        BY <1>2, <3>1, <3>3
      <4>2. m - 1 \in At(r, "ORDR")
        BY <1>2, <2>2, <4>1
      <4> QED
        BY <1>7, <2>1, <3>1, <4>2
    <3> QED
      BY <3>2, <3>3
  <2> QED
    BY <1>1, <1>3, <2>1, <2>2 DEF OrderOf
<1>8. UNCHANGED <<opened, used, view, pos>>
  BY DEF cliVars
<1>9. TurnOf(Turns(opened))' = TurnOf(Turns(opened)) /\ Turns(opened)' = Turns(opened)
  BY <1>8 DEF TurnOf, Turns
<1> HIDE DEF s, r
<1> QED
  BY <1>1, <1>3, <1>4, <1>5, <1>6, <1>7, <1>8, <1>9 DEF OrderOf, s

\* When the barrier opens, no orders are on their way.
LEMMA OrderOpens ==
    ASSUME GameInv, OrderInv, NEW i \in Client, ServerRecv(i), Opens(i, Head(up[i])), NEW j \in Client
    PROVE  None(up'[j], "ORDR")
<1>1. Takes(i) /\ TypeInv /\ PhaseInv /\ opened \in Nat
  BY ServerCases, TypeFacts DEF GameInv
<1>2. CASE j = i
  <2>1. CASE None(up[i], "ORDR")
    BY <1>1, <1>2, <2>1, FromTail, FromNone DEF Takes
  <2>2. CASE ~None(up[i], "ORDR")
    BY <1>1, <1>2, <2>2, BeforeTail DEF Takes, OrderInv, OrderOf, Opens
  <2> QED
    BY <2>1, <2>2
<1>3. CASE j # i
  <2>1. Waiting(j) /\ up'[j] = up[j]
    BY <1>1, <1>3 DEF Opens, Takes
  <2>2. None(up[j], "SYNC") /\ pos[j] # opened
    BY <1>1, <2>1 DEF Waiting
  <2> QED
    BY <2>1, <2>2 DEF OrderInv, OrderOf
<1> QED
  BY <1>2, <1>3

\* Every step keeps the orders on their way up those of the player on turn,
\* the latest last.
LEMMA OrderStep == Sequential /\ GameInv /\ OrderInv /\ [Next]_vars => OrderInv'
<1> SUFFICES ASSUME Sequential, GameInv, OrderInv, [Next]_vars, NEW j \in Client PROVE OrderOf(j)'
  BY DEF OrderInv
<1>1. TypeInv /\ PhaseInv /\ up \in [Client -> Seq(Packet)] /\ OrderOf(j) /\ view \in [Client -> [Client -> Orders]]
  BY DEF GameInv, TypeInv, OrderInv
<1>2. up[j] \in Seq(Packet)
  BY <1>1
<1>3. ASSUME NEW i \in Client, NEW o, Gives(i, o) PROVE OrderOf(j)'
  <2>1. CASE j = i
    BY <1>3, <2>1, OrderGives
  <2>2. CASE j # i
    BY <1>1, <1>2, <1>3, <2>2, OrderFrame DEF Gives, Sends, svrVars
  <2> QED
    BY <2>1, <2>2
<1>4. ASSUME NEW i \in Client, NEW s, NEW e, GoesOn(i, s, e) PROVE OrderOf(j)'
  <2>1. CASE j = i
    BY <1>4, <2>1, OrderGoesOn
  <2>2. CASE j # i
    BY <1>1, <1>2, <1>4, <2>2, OrderFrame DEF GoesOn, Asks, svrVars
  <2> QED
    BY <2>1, <2>2
<1>5. ASSUME NEW i \in Client, Fires(i) PROVE OrderOf(j)'
  <2>1. CASE j = i
    <3>1. Going(i) /\ MustSimulate(i) /\ ~wait[i]
      BY <1>1, <1>5 DEF Fires, Runs, PhaseInv, Asking, Waiting, Released
    <3>2. Len(used[i]) # Turns(opened)
      BY <3>1, UsedBound
    <3>3. None(up[i], "ORDR")
      BY <1>1, <2>1, <3>2 DEF OrderOf
    <3> QED
      BY <1>5, <2>1, <3>3 DEF Fires, OrderOf
  <2>2. CASE j # i
    BY <1>1, <1>2, <1>5, <2>2, OrderFrame DEF Fires, svrVars
  <2> QED
    BY <2>1, <2>2
<1>6. ASSUME NEW i \in Client, Leaves(i) PROVE OrderOf(j)'
  <2>1. Disconnect \in Packet /\ Disconnect.type \notin {"ORDR", "SYNC"}
    BY <1>6 DEF Leaves, Disconnect
  <2>2. up'[j] = up[j] \/ up'[j] = Append(up[j], Disconnect)
    BY <1>6 DEF Leaves, Sends
  <2> QED
    BY <1>1, <1>2, <1>6, <2>1, <2>2, OrderFrame DEF Leaves, svrVars
<1>7. ASSUME NEW i \in Client, ClientRecv(i) PROVE OrderOf(j)'
  <2>1. Gets(i)
    BY <1>1, <1>7, ClientGets
  <2>2. view'[j][j] = view[j][j]
    <3>1. CASE RecvOrders(i, Head(down[i]))
      BY <1>1, <3>1 DEF RecvOrders
    <3>2. CASE UNCHANGED view
      BY <3>2
    <3> QED
      BY <1>7, <3>1, <3>2 DEF ClientRecv, RecvPlayerState, RecvInventory, RecvSync
  <2> QED
    BY <1>1, <1>2, <2>1, <2>2, OrderFrame DEF Gets, svrVars
<1>8. ASSUME NEW i \in Client, ServerRecv(i) PROVE OrderOf(j)'
  <2>1. Takes(i) /\ UNCHANGED cliVars
    BY <1>1, <1>8, ServerCases
  <2>2. CASE Opens(i, Head(up[i]))
    BY <1>8, <2>2, OrderOpens DEF OrderOf
  <2>3. CASE opened' = opened
    <3>1. CASE j = i
      BY <2>1, <2>3, <3>1, OrderTakes
    <3>2. CASE j # i
      BY <1>1, <1>2, <2>1, <2>3, <3>2, OrderFrame DEF Takes, cliVars
    <3> QED
      BY <3>1, <3>2
  <2> QED
    BY <1>1, <1>8, <2>2, <2>3, ServerCases DEF Counts, Relays, svrVars
<1>9. CASE Polls
  BY <1>1, <1>2, <1>9, OrderFrame DEF Polls, cliVars, svrVars
<1> QED
  BY <1>1, <1>3, <1>4, <1>5, <1>6, <1>7, <1>8, <1>9, StepCases
-----------------------------------------------------------------------------
(* Simulations. *)

TurnsInv == AgreeInv /\ RandInv /\ DoneInv /\ OrderInv /\ KnowInv /\ HostInv /\ ShotInv

\* A client that simulates does so with the orders of the shooter.
LEMMA FiresShot ==
    ASSUME Sequential, GameInv, ShotInv, NEW i \in Client, Fires(i)
    PROVE  /\ Volley(i) = Shot /\ Yet(i) /\ Len(used[i]) + 1 = Turns(opened)
           /\ Len(used'[i]) = Turns(opened) /\ used'[i][Turns(opened)] = Shot
           /\ \A n \in 1 .. Len(used[i]) : used'[i][n] = used[i][n]
<1>1. ~wait[i] /\ alive[i] /\ MustSimulate(i)
  BY DEF Fires, Runs
<1>2. pos[i] = opened /\ Len(used[i]) + 1 = Turns(opened) /\ Len(used[i]) \in Nat
  BY <1>1, UsedBound
<1>3. Yet(i)
  BY <1>2 DEF Yet
<1>4. view[i][Shooter] = view[Shooter][Shooter]
  BY <1>1, <1>3 DEF ShotInv, ShotOf, ShotHas
<1>5. Volley(i) = Shot
  <2>1. TurnOf(TurnsEnded(i) - 1) = Shooter
    BY <1>2 DEF TurnsEnded, Shooter
  <2>2. Volley(i) = [p \in {Shooter} |-> view[i][p]]
    BY <2>1 DEF Volley
  <2> QED
    BY <1>4, <2>2 DEF Shot
<1>6. used'[i] = Append(used[i], Volley(i)) /\ used[i] \in Seq(Volleys) /\ Volley(i) \in Volleys
  BY DEF Fires, GameInv, TypeInv
<1> QED
  BY <1>2, <1>3, <1>5, <1>6

\* Nothing changes the shot while a client has yet to simulate it.
LEMMA ShotStays ==
    ASSUME Sequential, GameInv, [Next]_vars, opened' = opened, NEW j \in Client, Yet(j)
    PROVE  /\ Shooter \in Client /\ Turns(opened) \in Nat \ {0}
           /\ Shooter' = Shooter /\ Turns(opened)' = Turns(opened)
           /\ view'[Shooter][Shooter] = view[Shooter][Shooter] /\ Shot' = Shot
           /\ N # 1 => \A i \in Client : ~None(up[i], "ORDR") /\ OrderOf(i) => i # Shooter
           /\ N = 1 => Shooter = j
<1>1. TypeInv /\ PhaseInv
  BY DEF GameInv
<1>2. Turns(opened) # 0
  BY UsedBound DEF Yet
<1>3. Shooter \in Client /\ Turns(opened) \in Nat \ {0}
  BY <1>1, <1>2, ShooterClient
<1>4. Shooter' = Shooter /\ Turns(opened)' = Turns(opened)
  BY DEF Shooter, TurnOf, Turns
<1>5. \A i \in Client : TurnOf(Turns(opened)) = i /\ i = Shooter => N = 1
  BY <1>3, TurnAlone DEF Shooter
<1>6. N = 1 => Shooter = j
  BY <1>3, ClientAssumption DEF Client
<1>7. view'[Shooter][Shooter] = view[Shooter][Shooter]
  <2>1. ASSUME NEW i \in Client, NEW o, Gives(i, o) PROVE i # Shooter
    <3>1. ~wait[i] /\ ~MustSimulate(i) /\ TurnOf(TurnsEnded(i)) = i
      BY <2>1 DEF Gives, Runs
    <3>2. Len(used[i]) = Turns(opened) /\ pos[i] = opened
      BY <3>1, UsedBound
    <3>3. TurnOf(Turns(opened)) = i /\ ~Yet(i)
      BY <1>3, <3>1, <3>2 DEF TurnsEnded, Yet
    <3> QED
      BY <1>5, <1>6, <3>3
  <2>2. ASSUME NEW i \in Client, ClientRecv(i) PROVE view'[Shooter][Shooter] = view[Shooter][Shooter]
    <3>1. CASE RecvOrders(i, Head(down[i]))
      <4>1. view \in [Client -> [Client -> Orders]]
        BY <1>1 DEF TypeInv
      <4> QED
        BY <1>3, <3>1, <4>1 DEF RecvOrders
    <3>2. CASE UNCHANGED view
      BY <3>2
    <3> QED
      BY <2>2, <3>1, <3>2 DEF ClientRecv, RecvPlayerState, RecvInventory, RecvSync
  <2>3. ASSUME NEW i \in Client, NEW o, Gives(i, o) PROVE view'[Shooter][Shooter] = view[Shooter][Shooter]
    BY <1>3, <2>1, <2>3 DEF Gives
  <2> QED
    BY <1>1, <2>2, <2>3, StepCases DEF GoesOn, Fires, Leaves, ServerRecv, Polls, cliVars
<1>8. Shot' = Shot
  BY <1>4, <1>7 DEF Shot
<1>9. N # 1 => \A i \in Client : ~None(up[i], "ORDR") /\ OrderOf(i) => i # Shooter
  BY <1>5 DEF OrderOf
<1> QED
  BY <1>3, <1>4, <1>6, <1>7, <1>8, <1>9

\* Only Fires adds to the simulations.
LEMMA UsedSteps ==
    ASSUME TypeInv, PhaseInv, [Next]_vars
    PROVE  used' = used \/ \E i \in Client : Fires(i)
BY StepCases, ClientGets DEF Gives, GoesOn, Leaves, ServerRecv, Gets, Polls, cliVars

\* The barrier stays as it is, or opens.
LEMMA OpenSteps ==
    ASSUME TypeInv, PhaseInv, [Next]_vars
    PROVE  \/ opened' = opened
           \/ opened' = opened + 1 /\ \E i \in Client : ServerRecv(i) /\ Opens(i, Head(up[i]))
<1>1. ASSUME NEW i \in Client, ServerRecv(i)
      PROVE  opened' = opened \/ (opened' = opened + 1 /\ Opens(i, Head(up[i])))
  BY <1>1, ServerCases DEF Counts, Opens, Relays, svrVars
<1> QED
  BY <1>1, StepCases, ClientGets DEF Gives, GoesOn, Leaves, Fires, Gets, Polls, svrVars

\* Every step keeps the simulations of all clients equal as far as they have
\* got.
LEMMA AgreeStep ==
    ASSUME Sequential, GameInv, TurnsInv, [Next]_vars
    PROVE  AgreeInv'
<1>1. TypeInv /\ PhaseInv /\ AgreeInv /\ DoneInv /\ ShotInv
  BY DEF GameInv, TurnsInv
<1>2. CASE used' = used
  BY <1>1, <1>2 DEF AgreeInv
<1>3. ASSUME NEW i \in Client, Fires(i) PROVE AgreeInv'
  <2> DEFINE T == Turns(opened)
  <2>1. /\ Yet(i) /\ Len(used[i]) + 1 = T /\ Len(used'[i]) = T /\ used'[i][T] = Shot
        /\ \A n \in 1 .. Len(used[i]) : used'[i][n] = used[i][n]
    BY <1>1, <1>3, FiresShot
  <2>2. \A j \in Client : /\ Len(used[j]) \in Nat /\ T \in Nat /\ Len(used[j]) <= T
                          /\ (j # i => used'[j] = used[j])
                          /\ (j # i /\ Len(used[j]) = T => used[j][T] = Shot)
    BY <1>1, <1>3, <2>1, UsedBound DEF Fires, DoneInv
  <2> HIDE DEF T
  <2>3. ASSUME NEW j \in Client, j # i, NEW n \in 1 .. T, n <= Len(used[j])
        PROVE  used'[i][n] = used[j][n]
    <3>1. CASE n <= Len(used[i])
      <4>1. n \in 1 .. Len(used[i])
        BY <2>2, <3>1
      <4> QED
        BY <1>1, <2>1, <2>3, <4>1 DEF AgreeInv
    <3>2. CASE n > Len(used[i])
      <4>1. n = T /\ Len(used[j]) = T
        BY <2>1, <2>2, <2>3, <3>2
      <4> QED
        BY <2>1, <2>2, <2>3, <4>1
    <3> QED
      BY <2>2, <3>1, <3>2
  <2> SUFFICES ASSUME NEW j \in Client, NEW k \in Client, NEW n \in 1 .. Len(used'[j]), n <= Len(used'[k])
               PROVE  used'[j][n] = used'[k][n]
    BY DEF AgreeInv
  <2>4. CASE j = i /\ k = i
    BY <2>4
  <2>5. CASE j = i /\ k # i
    BY <2>1, <2>2, <2>3, <2>5
  <2>6. CASE j # i /\ k = i
    <3>1. n \in 1 .. T /\ n <= Len(used[j])
      BY <2>1, <2>2, <2>6
    <3> QED
      BY <2>2, <2>3, <2>6, <3>1
  <2>7. CASE j # i /\ k # i
    BY <1>1, <2>2, <2>7 DEF AgreeInv
  <2> QED
    BY <2>4, <2>5, <2>6, <2>7
<1> QED
  BY <1>1, <1>2, <1>3, UsedSteps

\* Every step keeps the simulation of the last turn, where it has been made,
\* that of the shooter's own orders.
LEMMA DoneStep ==
    ASSUME Sequential, GameInv, TurnsInv, [Next]_vars
    PROVE  DoneInv'
<1>1. TypeInv /\ PhaseInv /\ DoneInv /\ ShotInv
  BY DEF GameInv, TurnsInv
<1> SUFFICES ASSUME NEW i \in Client, NEW j \in Client, Len(used'[i]) = Turns(opened)', Yet(j)'
             PROVE  used'[i][Turns(opened)'] = Shot'
  BY DEF DoneInv
<1>2. CASE opened' = opened
  <2>1. Turns(opened)' = Turns(opened)
    BY <1>2 DEF Turns
  <2>2. Yet(j)
    <3>1. CASE used' = used
      BY <2>1, <3>1 DEF Yet
    <3>2. ASSUME NEW k \in Client, Fires(k) PROVE Yet(j)
      <4>1. j # k
        BY <1>1, <2>1, <3>2, FiresShot, UsedBound DEF Yet
      <4> QED
        BY <2>1, <3>2, <4>1 DEF Fires, Yet
    <3> QED
      BY <1>1, <3>1, <3>2, UsedSteps
  <2>3. Shot' = Shot
    BY <1>2, <2>2, ShotStays
  <2>4. CASE used' = used
    BY <1>1, <2>1, <2>2, <2>3, <2>4 DEF DoneInv
  <2>5. ASSUME NEW k \in Client, Fires(k) PROVE used'[i][Turns(opened)'] = Shot'
    <3>1. CASE i = k
      BY <1>1, <2>1, <2>3, <2>5, <3>1, FiresShot
    <3>2. CASE i # k
      BY <1>1, <2>1, <2>2, <2>3, <2>5, <3>2 DEF Fires, DoneInv
    <3> QED
      BY <3>1, <3>2
  <2> QED
    BY <1>1, <2>4, <2>5, UsedSteps
<1>3. ASSUME NEW k \in Client, opened' = opened + 1, ServerRecv(k), Opens(k, Head(up[k])) PROVE FALSE
  <2>1. Len(used[i]) = Turns(opened) /\ Len(used[j]) = Turns(opened) /\ UNCHANGED used
    BY <1>3, OpensAnswer DEF ServerRecv, cliVars
  <2>2. Len(used[j]) < Len(used[i]) /\ Len(used[i]) \in Nat
    BY <1>3, <2>1, UsedBound DEF Yet
  <2> QED
    BY <2>1, <2>2
<1> QED
  BY <1>1, <1>2, <1>3, OpenSteps

\* Every step keeps the random value in an answer that of the client it goes
\* to.
LEMMA RandStep ==
    ASSUME GameInv, TurnsInv, [Next]_vars
    PROVE  RandInv'
<1>1. TypeInv /\ PhaseInv /\ AgreeInv /\ RandInv
  BY DEF GameInv, TurnsInv
<1>2. down \in [Client -> Seq(Reply)] /\ used \in [Client -> Seq(Volleys)]
  BY <1>1 DEF TypeInv
<1> SUFFICES ASSUME NEW j \in Client PROVE \A a \in At(down'[j], "SYN@") : down'[j][a].rnd = used'[j]
  BY DEF RandInv
<1>3. ASSUME used'[j] = used[j], From(down'[j], down[j], "SYN@")
      PROVE  \A a \in At(down'[j], "SYN@") : down'[j][a].rnd = used'[j]
  BY <1>1, <1>3 DEF RandInv, From
<1>4. ASSUME NEW i \in Client, Fires(i)
      PROVE  \A a \in At(down'[j], "SYN@") : down'[j][a].rnd = used'[j]
  <2>1. CASE j = i
    <3>1. Going(i) /\ UNCHANGED down
      BY <1>1, <1>4 DEF Fires, Runs, PhaseInv, Asking, Waiting, Released
    <3> QED
      BY <2>1, <3>1 DEF Going, None
  <2>2. CASE j # i
    BY <1>3, <1>4, <2>2, FromSelf DEF Fires
  <2> QED
    BY <2>1, <2>2
<1>5. ASSUME NEW i \in Client, ClientRecv(i)
      PROVE  \A a \in At(down'[j], "SYN@") : down'[j][a].rnd = used'[j]
  <2>1. Gets(i)
    BY <1>1, <1>5, ClientGets
  <2>2. From(down'[j], down[j], "SYN@")
    BY <2>1, FromTail, FromSelf DEF Gets
  <2> QED
    BY <1>3, <2>1, <2>2 DEF Gets
<1>6. ASSUME NEW i \in Client, ServerRecv(i)
      PROVE  \A a \in At(down'[j], "SYN@") : down'[j][a].rnd = used'[j]
  <2> DEFINE p == Head(up[i])
  <2>1. UNCHANGED used
    BY <1>6 DEF ServerRecv, cliVars
  <2>2. ASSUME NEW x \in Reply, x.type # "SYN@", Relays(i, x)
        PROVE  \A a \in At(down'[j], "SYN@") : down'[j][a].rnd = used'[j]
    BY <1>2, <1>3, <2>1, <2>2, FromAppend, FromSelf DEF Relays
  <2>3. CASE Opens(i, p)
    <3>1. PICK x \in Reply : x = Answer(svrArg', j) /\ down'[j] = Append(down[j], x)
      BY <2>3 DEF Opens
    <3>2. /\ At(down[j], "SYN@") = {} /\ x.rnd = used[Host]
          /\ Len(used[j]) = Len(used[Host])
      <4>1. \A k \in Client :
              /\ Len(used[k]) = Turns(opened) /\ At(down[k], "SYN@") = {}
              /\ Answer(svrArg', k) = SyncResp(Script[opened + 1], used[Host])
        BY <1>6, <2>3, OpensAnswer
      <4>2. x = SyncResp(Script[opened + 1], used[Host])
        BY <3>1, <4>1
      <4>3. x.rnd = used[Host]
        BY <4>2 DEF SyncResp
      <4>4. Len(used[j]) = Turns(opened) /\ Len(used[Host]) = Turns(opened)
        BY <4>1, HostIsClient
      <4> QED
        BY <4>1, <4>3, <4>4
    <3>3. used[j] = used[Host]
      <4>1. \A n \in 1 .. Len(used[j]) : used[j][n] = used[Host][n]
        BY <1>1, <1>2, <3>2, HostIsClient DEF AgreeInv
      <4>2. used[j] \in Seq(Volleys) /\ used[Host] \in Seq(Volleys)
        BY <1>2, HostIsClient
      <4> QED
        BY <3>2, <4>1, <4>2, SeqEqual
    <3>4. down[j] \in Seq(Reply)
      BY <1>2
    <3> QED
      BY <2>1, <3>1, <3>2, <3>3, <3>4, LastOnly
  <2>4. CASE UNCHANGED down
    BY <1>3, <2>1, <2>4, FromSelf
  <2>5. CASE p.type = "ORDR" /\ Relays(i, SvrOrders(RelayTable(p)))
    BY <2>2, <2>5 DEF Relays, SvrOrders
  <2>6. CASE p.type \in {"PLST", "INVT"} /\ Relays(i, p)
    BY <2>2, <2>6 DEF Relays
  <2> QED
    BY <1>1, <1>6, <2>3, <2>4, <2>5, <2>6, ServerCases DEF Counts
<1>7. ASSUME UNCHANGED <<used, down>>
      PROVE  \A a \in At(down'[j], "SYN@") : down'[j][a].rnd = used'[j]
  BY <1>3, <1>7, FromSelf
<1> QED
  BY <1>1, <1>4, <1>5, <1>6, <1>7, StepCases DEF Gives, GoesOn, Leaves, Polls, cliVars
\* While the server polls, its own client knows the orders of all players but
\* of one whose orders are on their way up.
LEMMA HostKnows ==
    ASSUME GameInv, OrderInv, KnowInv, HostInv, polling = "server",
           NEW i \in Client, ~None(up[i], "ORDR"), NEW q \in Client, q # i
    PROVE  view[Host][q] = view[q][q]
<1> SUFFICES ASSUME q # Host PROVE view[Host][q] = view[q][q]
  OBVIOUS
<1>1. None(up[q], "ORDR")
  BY DEF OrderInv, OrderOf
<1>2. alive[Host]
  BY HostIsClient DEF GameInv, AliveInv, AliveOf
<1>3. Holds(down[Host], q, Len(down[Host]), view[Host][q], view[q][q])
  BY <1>1, <1>2, HostIsClient DEF KnowInv, KnowOf, Knows
<1>4. \A m \in 1 .. Len(down[Host]) :
        down[Host][m].type = "ORD@" => down[Host][m].table[q] = view[Host][q]
  BY DEF HostInv, At
<1> QED
  BY <1>3, <1>4 DEF Holds

\* The table the server sends on for i: it is what every player believes of
\* himself, but for i if more orders of i are to come.
LEMMA TableSent ==
    ASSUME GameInv, OrderInv, KnowInv, HostInv, NEW i \in Client, ServerRecv(i),
           Head(up[i]).type = "ORDR"
    PROVE  LET x == SvrOrders(RelayTable(Head(up[i])))
           IN  /\ x.type = "ORD@"
               /\ \A q \in Client \ {i} : x.table[q] = view[Host][q] /\ view[Host][q] = view[q][q]
               /\ None(up'[i], "ORDR") => x.table[i] = view[i][i]
<1> DEFINE h == Head(up[i])
           x == SvrOrders(RelayTable(h))
<1>1. /\ TypeInv /\ PhaseInv /\ polling = "server" /\ Takes(i) /\ view \in [Client -> [Client -> Orders]]
      /\ OrderOf(i)
  BY ServerCases DEF GameInv, TypeInv, OrderInv
<1>2. /\ h = up[i][1] /\ Len(up[i]) \in Nat \ {0}
      /\ \A n : n \in At(Tail(up[i]), "ORDR") <=> n \in 1 .. Len(up[i]) - 1 /\ n + 1 \in At(up[i], "ORDR")
  BY <1>1, AtTail DEF Takes
<1>3. 1 \in At(up[i], "ORDR") /\ ~None(up[i], "ORDR")
  BY <1>2 DEF At, None
<1>4. h.player = i
  BY <1>1, <1>2, <1>3 DEF OrderOf
<1>5. x.type = "ORD@" /\ x.table = [view[Host] EXCEPT ![i] = h.order]
  BY <1>4 DEF SvrOrders, RelayTable
<1>6. view[Host] \in [Client -> Orders]
  BY <1>1, HostIsClient
<1>7. \A q \in Client \ {i} : x.table[q] = view[Host][q] /\ view[Host][q] = view[q][q]
  BY <1>1, <1>3, <1>5, <1>6, HostKnows
<1>8. ASSUME None(up'[i], "ORDR") PROVE x.table[i] = view[i][i]
  <2>1. \A m \in At(up[i], "ORDR") : m <= 1
    <3>1. ASSUME NEW m \in At(up[i], "ORDR"), m > 1 PROVE FALSE
      <4>1. m - 1 \in 1 .. Len(up[i]) - 1 /\ (m - 1) + 1 = m
        BY <1>2, <3>1 DEF At
      <4>2. m - 1 \in At(Tail(up[i]), "ORDR")
        BY <1>2, <3>1, <4>1
      <4> QED
        BY <1>1, <1>8, <4>2 DEF Takes, None
    <3> QED
      BY <1>2, <3>1 DEF At
  <2>2. h.order = view[i][i]
    BY <1>1, <1>2, <1>3, <2>1 DEF OrderOf
  <2> QED
    BY <1>5, <1>6, <2>2
<1> QED
  BY <1>5, <1>7, <1>8

\* A client that takes a packet still will hold what it held to be.
LEMMA TakesHolds ==
    ASSUME TypeInv, NEW j \in Client, ClientRecv(j), NEW p \in Client, p # j,
           NEW n \in 1 .. Len(down[j]), NEW o, Holds(down[j], p, n, view[j][p], o)
    PROVE  Holds(down'[j], p, n - 1, view'[j][p], o)
<1>1. Gets(j) /\ view \in [Client -> [Client -> Orders]]
  BY ClientGets DEF TypeInv
<1>2. view'[j][p] = IF Head(down[j]).type = "ORD@" THEN Head(down[j]).table[p] ELSE view[j][p]
  BY <1>1 DEF ClientRecv, RecvOrders, RecvPlayerState, RecvInventory, RecvSync
<1>3. Holds(Tail(down[j]), p, n - 1,
            IF Head(down[j]).type = "ORD@" THEN Head(down[j]).table[p] ELSE view[j][p], o)
  BY <1>1, HoldsTail DEF Gets
<1> QED
  BY <1>1, <1>2, <1>3 DEF Gets

\* Of what the others believe, a client only takes what it is told.
LEMMA RecvViews ==
    ASSUME TypeInv, NEW i \in Client, ClientRecv(i)
    PROVE  /\ \A p \in Client : view'[p][p] = view[p][p]
           /\ \A j, p \in Client : j # i => view'[j][p] = view[j][p]
<1>1. view \in [Client -> [Client -> Orders]]
  BY DEF TypeInv
<1>2. CASE RecvOrders(i, Head(down[i]))
  BY <1>1, <1>2 DEF RecvOrders
<1>3. CASE UNCHANGED view
  BY <1>3
<1> QED
  BY <1>2, <1>3 DEF ClientRecv, RecvPlayerState, RecvInventory, RecvSync
\* What is queued stays queued, but for the packet at the head.
LEMMA NoneLeft ==
    ASSUME NEW S, NEW s \in Seq(S), NEW t
    PROVE  /\ \A x \in S : None(Append(s, x), t) => None(s, t)
           /\ s # <<>> /\ Head(s).type # t /\ None(Tail(s), t) => None(s, t)
<1>1. ASSUME NEW x \in S, None(Append(s, x), t) PROVE None(s, t)
  <2>1. \A n \in 1 .. Len(s) : n \in 1 .. Len(Append(s, x)) /\ Append(s, x)[n] = s[n]
    BY AtAppend
  <2> QED
    BY <1>1, <2>1 DEF None, At
<1>2. ASSUME s # <<>>, Head(s).type # t, None(Tail(s), t) PROVE None(s, t)
  <2>1. /\ Head(s) = s[1] /\ Len(s) \in Nat \ {0}
        /\ \A n : n \in At(Tail(s), t) <=> n \in 1 .. Len(s) - 1 /\ n + 1 \in At(s, t)
    BY <1>2, AtTail
  <2> SUFFICES ASSUME NEW n \in At(s, t) PROVE FALSE
    BY DEF None
  <2>2. n \in 1 .. Len(s) /\ n # 1
    BY <1>2, <2>1 DEF At
  <2>3. n - 1 \in 1 .. Len(s) - 1 /\ (n - 1) + 1 = n
    BY <2>1, <2>2
  <2> QED
    BY <1>2, <2>1, <2>3 DEF None
<1> QED
  BY <1>1, <1>2

\* Only the server takes orders off a connection.
LEMMA OrdersLeft ==
    ASSUME TypeInv, PhaseInv, [Next]_vars, NEW p \in Client, None(up'[p], "ORDR"), ~None(up[p], "ORDR")
    PROVE  ServerRecv(p) /\ Head(up[p]).type = "ORDR"
<1>1. up \in [Client -> Seq(Packet)] /\ up[p] \in Seq(Packet)
  BY DEF TypeInv
<1>2. ASSUME NEW i \in Client, NEW s, NEW e, GoesOn(i, s, e) PROVE FALSE
  <2>1. i = p
    BY <1>2 DEF GoesOn, Asks
  <2>2. None(s, "ORDR")
    BY <1>2, <2>1, NoneLeft DEF GoesOn, Asks
  <2>3. s = up[p] \/ \E x \in Packet : s = Append(up[p], x)
    <3>1. Inventory(p) \in Packet /\ PlayerState(view[p]) \in Packet
      BY PacketTypes
    <3> QED
      BY <1>2, <2>1, <3>1 DEF GoesOn, Asks
  <2>4. None(up[p], "ORDR")
    <3>1. CASE s = up[p]
      BY <2>2, <3>1
    <3>2. ASSUME NEW x \in Packet, s = Append(up[p], x) PROVE None(up[p], "ORDR")
      <4>1. None(Append(up[p], x), "ORDR")
        BY <2>2, <3>2
      <4> QED
        BY <1>1, <4>1, NoneLeft
    <3> QED
      BY <2>3, <3>1, <3>2
  <2> QED
    BY <2>4
<1>3. ASSUME NEW i \in Client, NEW x \in Packet, Sends(i, x) PROVE FALSE
  BY <1>1, <1>3, NoneLeft DEF Sends
<1>4. ASSUME NEW i \in Client, ServerRecv(i) PROVE i = p /\ Head(up[p]).type = "ORDR"
  <2>1. Takes(i)
    BY <1>4, ServerCases
  <2> QED
    BY <1>1, <2>1, NoneLeft DEF Takes
<1>5. UNCHANGED up => FALSE
  OBVIOUS
<1> QED
  BY <1>2, <1>3, <1>4, <1>5, StepCases, ClientGets DEF Gives, Leaves, Fires, Gets, Polls

\* A step that sends no orders and no table leaves what one client knows of
\* another's orders as it was.
LEMMA KnowFrame ==
    ASSUME NEW j \in Client, NEW p \in Client, KnowOf(j, p), alive'[j] => alive[j],
           None(up'[p], "ORDR") => None(up[p], "ORDR"),
           view'[j][p] = view[j][p], view'[p][p] = view[p][p],
           NEW S, down[j] \in Seq(S),
           down'[j] = down[j] \/ \E x \in S : x.type # "ORD@" /\ down'[j] = Append(down[j], x)
    PROVE  KnowOf(j, p)'
<1> SUFFICES ASSUME alive'[j], j # p, None(up'[p], "ORDR")
             PROVE  Holds(down'[j], p, Len(down'[j]), view'[j][p], view'[p][p])
  BY DEF KnowOf, Knows
<1>1. Holds(down[j], p, Len(down[j]), view[j][p], view[p][p])
  BY DEF KnowOf, Knows
<1>2. ASSUME NEW x \in S, x.type # "ORD@", down'[j] = Append(down[j], x)
      PROVE  Holds(down'[j], p, Len(down'[j]), view'[j][p], view'[p][p])
  <2>1. Holds(Append(down[j], x), p, Len(down[j]) + 1, view[j][p], view[p][p])
    BY <1>1, <1>2, HoldsAppend
  <2>2. Len(Append(down[j], x)) = Len(down[j]) + 1
    BY AtAppend
  <2> QED
    BY <1>2, <2>1, <2>2
<1> QED
  BY <1>1, <1>2

\* Every step keeps the orders of a player on their way to every client that
\* has not got them yet.
LEMMA KnowStep ==
    ASSUME Sequential, GameInv, TurnsInv, [Next]_vars
    PROVE  KnowInv'
<1>1. TypeInv /\ PhaseInv /\ KnowInv /\ OrderInv /\ HostInv
  BY DEF GameInv, TurnsInv
<1>2. /\ up \in [Client -> Seq(Packet)] /\ down \in [Client -> Seq(Reply)]
      /\ view \in [Client -> [Client -> Orders]]
  BY <1>1 DEF TypeInv
<1> SUFFICES ASSUME NEW j \in Client, NEW p \in Client, j # p PROVE KnowOf(j, p)'
  BY DEF KnowInv, KnowOf
<1>3. KnowOf(j, p) /\ down[j] \in Seq(Reply)
  BY <1>1, <1>2 DEF KnowInv
<1>4. ASSUME NEW i \in Client, NEW o, Gives(i, o) PROVE KnowOf(j, p)'
  <2>1. CASE p = i
    <3>1. CliOrders(i, o) \in Packet /\ CliOrders(i, o).type = "ORDR" /\ up'[i] = Append(up[i], CliOrders(i, o))
      BY <1>4 DEF Gives, Sends, CliOrders
    <3>2. Len(up[i]) + 1 \in At(up'[i], "ORDR")
      <4>1. up[i] \in Seq(Packet)
        BY <1>2
      <4>2. /\ Len(up'[i]) = Len(up[i]) + 1 /\ Len(up[i]) \in Nat
            /\ up'[i][Len(up[i]) + 1] = CliOrders(i, o)
        BY <3>1, <4>1
      <4> QED
        BY <3>1, <4>2 DEF At
    <3> QED
      BY <2>1, <3>2 DEF KnowOf, None
  <2>2. CASE p # i
    <3>1. up'[p] = up[p] /\ view'[j][p] = view[j][p] /\ view'[p][p] = view[p][p] /\ UNCHANGED <<down, alive>>
      BY <1>4, <2>2 DEF Gives, Sends
    <3> QED
      BY <1>3, <3>1, KnowFrame
  <2> QED
    BY <2>1, <2>2
<1>5. ASSUME UNCHANGED <<down, view>>, alive'[j] => alive[j], None(up'[p], "ORDR") => None(up[p], "ORDR")
      PROVE  KnowOf(j, p)'
  BY <1>3, <1>5, KnowFrame
<1>6. ASSUME NEW i \in Client, ClientRecv(i) PROVE KnowOf(j, p)'
  <2>1. Gets(i) /\ \A q \in Client : view'[q][q] = view[q][q]
    BY <1>1, <1>6, ClientGets, RecvViews
  <2>2. CASE i = j
    <3> SUFFICES ASSUME alive'[j], None(up'[p], "ORDR")
                 PROVE  Holds(down'[j], p, Len(down'[j]), view'[j][p], view'[p][p])
      BY DEF KnowOf, Knows
    <3>1. Holds(down[j], p, Len(down[j]), view[j][p], view[p][p])
      BY <1>3, <2>1 DEF KnowOf, Knows, Gets
    <3>2. Len(down[j]) \in Nat \ {0} /\ Len(down'[j]) = Len(down[j]) - 1
      BY <1>3, <2>1, <2>2, AtTail DEF Gets
    <3>3. Len(down[j]) \in 1 .. Len(down[j])
      BY <3>2
    <3>4. Holds(down'[j], p, Len(down[j]) - 1, view'[j][p], view[p][p])
      BY <1>1, <1>6, <2>2, <3>1, <3>3, TakesHolds
    <3> QED
      BY <2>1, <3>2, <3>4
  <2>3. CASE i # j
    <3>1. view'[j][p] = view[j][p] /\ down'[j] = down[j] /\ UNCHANGED <<alive, up>>
      BY <1>1, <1>6, <2>1, <2>3, RecvViews DEF Gets
    <3> QED
      BY <1>3, <2>1, <3>1, KnowFrame
  <2> QED
    BY <2>2, <2>3
<1>7. ASSUME NEW i \in Client, ServerRecv(i) PROVE KnowOf(j, p)'
  <2> DEFINE h == Head(up[i])
  <2>1. Takes(i) /\ UNCHANGED <<alive, view>>
    BY <1>1, <1>7, ServerCases DEF cliVars
  <2>2. CASE h.type = "ORDR"
    <3> DEFINE x == SvrOrders(RelayTable(h))
    <3>1. Relays(i, x) /\ x \in Reply
      BY <1>1, <1>7, <2>2, ServerCases DEF Counts, Opens, Relays
    <3>2. /\ x.type = "ORD@"
          /\ \A q \in Client \ {i} : x.table[q] = view[q][q]
          /\ None(up'[i], "ORDR") => x.table[i] = view[i][i]
      BY <1>1, <1>7, <2>2, TableSent
    <3> HIDE DEF x
    <3>3. CASE j = i \/ svrQuit[j]
      <4>1. down'[j] = down[j]
        BY <3>1, <3>3 DEF Relays
      <4>2. CASE j = i
        <5>1. up'[p] = up[p]
          BY <2>1, <4>2 DEF Takes
        <5> QED
          BY <1>3, <2>1, <4>1, <5>1, KnowFrame
      <4>3. CASE svrQuit[j]
        BY <2>1, <4>3 DEF GameInv, AliveInv, AliveOf, KnowOf
      <4> QED
        BY <3>3, <4>2, <4>3
    <3>4. CASE ~(j = i \/ svrQuit[j])
      <4> SUFFICES ASSUME None(up'[p], "ORDR")
                   PROVE  Holds(down'[j], p, Len(down'[j]), view'[j][p], view'[p][p])
        BY DEF KnowOf, Knows
      <4>1. down'[j] = Append(down[j], x)
        BY <3>1, <3>4 DEF Relays
      <4>2. x.table[p] = view[p][p]
        BY <3>2
      <4>3. Holds(Append(down[j], x), p, Len(down[j]) + 1, view[j][p], view[p][p])
        BY <1>3, <3>1, <3>2, <4>2, HoldsAppend
      <4>4. Len(Append(down[j], x)) = Len(down[j]) + 1
        BY <1>3, <3>1, AtAppend
      <4> QED
        BY <2>1, <4>1, <4>3, <4>4
    <3> QED
      BY <3>3, <3>4
  <2>3. CASE h.type # "ORDR"
    <3>1. None(up'[p], "ORDR") => None(up[p], "ORDR")
      BY <1>1, <1>2, <2>1, <2>3, NoneLeft DEF Takes
    <3>2. down'[j] = down[j] \/ \E x \in Reply : x.type # "ORD@" /\ down'[j] = Append(down[j], x)
      <4>1. CASE Opens(i, h)
        <5>1. Answer(svrArg', j).type = "SYN@"
          BY DEF Answer, SyncResp, SyncBogus
        <5> QED
          BY <4>1, <5>1 DEF Opens
      <4>2. CASE h.type \in {"PLST", "INVT"} /\ Relays(i, h)
        BY <4>2 DEF Relays
      <4> QED
        BY <1>1, <1>7, <2>3, <4>1, <4>2, ServerCases DEF Counts
    <3> QED
      BY <1>3, <2>1, <3>1, <3>2, KnowFrame
  <2> QED
    BY <2>2, <2>3
<1>8. ASSUME ~\E i \in Client : ServerRecv(i) PROVE None(up'[p], "ORDR") => None(up[p], "ORDR")
  BY <1>1, <1>8, OrdersLeft
<1>9. ASSUME NEW i \in Client, ~\E k \in Client : ServerRecv(k),
             Fires(i) \/ Leaves(i) \/ \E s, e : GoesOn(i, s, e)
      PROVE  KnowOf(j, p)'
  BY <1>5, <1>8, <1>9 DEF Fires, Leaves, GoesOn
<1>10. CASE Polls
  BY <1>5, <1>10 DEF Polls, cliVars
<1> QED
  BY <1>1, <1>4, <1>6, <1>7, <1>9, <1>10, StepCases
\* Before the server polls, its own client has taken all there was; while it
\* polls, only the tables with the orders of the player on turn arrive.
LEMMA HostStep ==
    ASSUME Sequential, GameInv, TurnsInv, [Next]_vars
    PROVE  HostInv'
<1>1. TypeInv /\ PhaseInv /\ HostInv /\ OrderInv /\ KnowInv
  BY DEF GameInv, TurnsInv
<1>2. down[Host] \in Seq(Reply) /\ Host \in Client
  BY <1>1, HostIsClient, TypeFacts
<1> SUFFICES ASSUME polling' = "server", NEW i \in Client, ~None(up'[i], "ORDR"),
                    NEW n \in At(down'[Host], "ORD@"), NEW p \in Client \ {i}
             PROVE  down'[Host][n].table[p] = view'[Host][p]
  BY DEF HostInv
<1>3. ASSUME polling = "server", ~None(up[i], "ORDR"), view'[Host] = view[Host],
             n \in At(down[Host], "ORD@"), down'[Host][n] = down[Host][n]
      PROVE  down'[Host][n].table[p] = view'[Host][p]
  BY <1>1, <1>3 DEF HostInv
<1>4. CASE Polls
  <2>1. UNCHANGED <<up, down, view>>
    BY <1>4 DEF Polls, cliVars
  <2>2. CASE polling = "server"
    BY <1>3, <2>1, <2>2
  <2>3. CASE down[Host] = <<>>
    BY <2>1, <2>3, AtEmpty
  <2> QED
    BY <1>4, <2>2, <2>3 DEF Polls
<1>5. ASSUME NEW k \in Client, ClientRecv(k) PROVE FALSE
  <2>1. polling # "server" /\ UNCHANGED polling
    BY <1>5 DEF ClientRecv, pollVars
  <2> QED
    BY <2>1
<1>6. ASSUME NEW k \in Client, Fires(k) \/ Leaves(k) \/ (\E o : Gives(k, o)) \/ \E s, e : GoesOn(k, s, e)
      PROVE  FALSE
  <2>1. polling = "idle" /\ UNCHANGED polling
    BY <1>6 DEF Fires, Leaves, Gives, GoesOn, Runs, pollVars
  <2> QED
    BY <2>1
<1>7. ASSUME NEW k \in Client, ServerRecv(k)
      PROVE  down'[Host][n].table[p] = view'[Host][p]
  <2> DEFINE h == Head(up[k])
  <2>1. Takes(k) /\ UNCHANGED view /\ polling = "server"
    BY <1>1, <1>7, ServerCases DEF cliVars
  <2>2. ~None(up[i], "ORDR")
    BY <1>1, <2>1, FromTail, FromNone DEF Takes
  <2>3. ASSUME NEW x \in Reply, down'[Host] = Append(down[Host], x),
               x.type = "ORD@" => x.table[p] = view[Host][p]
        PROVE  down'[Host][n].table[p] = view'[Host][p]
    <3>1. /\ Len(Append(down[Host], x)) = Len(down[Host]) + 1 /\ Append(down[Host], x)[Len(down[Host]) + 1] = x
          /\ \A m \in 1 .. Len(down[Host]) : Append(down[Host], x)[m] = down[Host][m]
          /\ Len(down[Host]) \in Nat
      BY <1>2, AtAppend
    <3>2. n \in 1 .. Len(down[Host]) + 1 /\ down'[Host][n].type = "ORD@"
      BY <2>3, <3>1 DEF At
    <3>3. CASE n = Len(down[Host]) + 1
      BY <2>1, <2>3, <3>1, <3>2, <3>3
    <3>4. CASE n # Len(down[Host]) + 1
      <4>1. n \in 1 .. Len(down[Host]) /\ down'[Host][n] = down[Host][n]
        BY <2>3, <3>1, <3>2, <3>4
      <4>2. n \in At(down[Host], "ORD@")
        BY <3>2, <4>1 DEF At
      <4> QED
        BY <1>3, <2>1, <2>2, <4>1, <4>2
    <3> QED
      BY <3>3, <3>4
  <2>4. CASE h.type = "ORDR"
    <3> DEFINE x == SvrOrders(RelayTable(h))
    <3>1. Relays(k, x) /\ x \in Reply
      BY <1>1, <1>7, <2>4, ServerCases DEF Counts, Opens, Relays
    <3>2. \A q \in Client \ {k} : x.table[q] = view[Host][q]
      BY <1>1, <1>7, <2>4, TableSent
    <3> HIDE DEF x
    <3>3. k = i
      <4>1. ~None(up[k], "ORDR")
        BY <1>1, <2>1, <2>4, TailCounts DEF Takes
      <4> QED
        BY <1>1, <2>2, <4>1 DEF OrderInv, OrderOf
    <3>4. CASE down'[Host] = down[Host]
      BY <1>3, <2>1, <2>2, <3>4
    <3>5. CASE down'[Host] = Append(down[Host], x)
      BY <2>3, <3>1, <3>2, <3>3, <3>5
    <3> QED
      BY <1>2, <3>1, <3>4, <3>5 DEF Relays
  <2>5. CASE h.type # "ORDR"
    <3>1. down'[Host] = down[Host] \/ \E x \in Reply : x.type # "ORD@" /\ down'[Host] = Append(down[Host], x)
      <4>1. CASE Opens(k, h)
        <5>1. Answer(svrArg', Host).type = "SYN@"
          BY DEF Answer, SyncResp, SyncBogus
        <5> QED
          BY <1>2, <4>1, <5>1 DEF Opens
      <4>2. CASE h.type \in {"PLST", "INVT"} /\ Relays(k, h)
        BY <1>2, <4>2 DEF Relays
      <4> QED
        BY <1>1, <1>7, <2>5, <4>1, <4>2, ServerCases DEF Counts
    <3>2. CASE down'[Host] = down[Host]
      BY <1>3, <2>1, <2>2, <3>2
    <3> QED
      BY <2>3, <3>1, <3>2
  <2> QED
    BY <2>4, <2>5
<1> QED
  BY <1>1, <1>4, <1>5, <1>6, <1>7, StepCases
-----------------------------------------------------------------------------
(* The orders of the shooter. *)

LEMMA ShotFrame ==
    ASSUME NEW j \in Client, NEW s, NEW o, ShotHas(j, s, o),
           wait'[j] = wait[j], down'[j] = down[j], view'[j][s] = view[j][s]
    PROVE  ShotHas(j, s, o)'
BY DEF ShotHas

\* A packet arrives that is not an answer and says nothing else of s.
LEMMA ShotAppend ==
    ASSUME NEW j \in Client, NEW s, NEW o, ShotHas(j, s, o), wait'[j] = wait[j], view'[j][s] = view[j][s],
           NEW S, down[j] \in Seq(S), NEW x \in S, down'[j] = Append(down[j], x),
           x.type # "SYN@", x.type = "ORD@" => x.table[s] = o
    PROVE  ShotHas(j, s, o)'
<1> DEFINE d == down[j]
<1>1. d \in Seq(S) /\ Len(d) \in Nat /\ At(Append(d, x), "SYN@") = At(d, "SYN@")
      /\ At(d, "SYN@") \subseteq 1 .. Len(d)
  BY AtAppend DEF At
<1> HIDE DEF d
<1>2. ASSUME NEW n \in Nat, Keeps(d, s, n, o) PROVE Keeps(Append(d, x), s, n, o)
  BY <1>1, <1>2, KeepsAppend
<1>3. CASE wait[j]
  <2> SUFFICES ASSUME NEW a \in At(d, "SYN@")
               PROVE  Holds(Append(d, x), s, a - 1, view[j][s], o) /\ Keeps(Append(d, x), s, a, o)
    BY <1>1, <1>3 DEF ShotHas, d
  <2>1. Holds(d, s, a - 1, view[j][s], o) /\ Keeps(d, s, a, o)
    BY <1>3 DEF ShotHas, d
  <2>2. a - 1 \in 0 .. Len(d) /\ a \in Nat
    BY <1>1
  <2>3. Holds(Append(d, x), s, a - 1, view[j][s], o)
    BY <1>1, <2>1, <2>2, HoldsPrefix
  <2> QED
    BY <1>2, <2>1, <2>2, <2>3
<1>4. CASE ~wait[j]
  <2>1. view[j][s] = o /\ Keeps(d, s, 0, o)
    BY <1>4 DEF ShotHas, d
  <2>2. Keeps(Append(d, x), s, 0, o)
    BY <1>2, <2>1
  <2> QED
    BY <1>4, <2>1, <2>2 DEF ShotHas, d
<1> QED
  BY <1>3, <1>4

\* The client takes a packet; when it is the answer, it has the orders.
LEMMA ShotTakes ==
    ASSUME TypeInv, PhaseInv, NEW j \in Client, ClientRecv(j), NEW s \in Client, s # j, NEW o,
           ShotHas(j, s, o)
    PROVE  ShotHas(j, s, o)'
<1> DEFINE d == down[j]
           h == Head(d)
<1>1. Gets(j) /\ d \in Seq(Reply) /\ d # <<>> /\ down'[j] = Tail(d)
      /\ view \in [Client -> [Client -> Orders]] /\ wait \in [Client -> BOOLEAN]
  BY ClientGets DEF TypeInv, Gets
<1>2. /\ h = d[1] /\ Len(d) \in Nat \ {0}
      /\ \A n : n \in At(Tail(d), "SYN@") <=> n \in 1 .. Len(d) - 1 /\ n + 1 \in At(d, "SYN@")
  BY <1>1, AtTail
<1>3. wait'[j] = (wait[j] /\ h.type # "SYN@")
  BY <1>1 DEF ClientRecv, RecvOrders, RecvPlayerState, RecvInventory, RecvSync
<1>4. view'[j][s] = IF h.type = "ORD@" THEN h.table[s] ELSE view[j][s]
  BY <1>1 DEF ClientRecv, RecvOrders, RecvPlayerState, RecvInventory, RecvSync
<1>5. CASE h.type = "SYN@"
  <2>1. 1 \in At(d, "SYN@")
    BY <1>2, <1>5 DEF At
  <2>2. wait[j]
    BY <2>1 DEF PhaseInv, Going, Asking, Waiting, Released, None
  <2>3. Holds(d, s, 1 - 1, view[j][s], o) /\ Keeps(d, s, 1, o)
    BY <2>1, <2>2 DEF ShotHas
  <2>4. view[j][s] = o
    BY <2>3, HoldsZero
  <2>5. Keeps(Tail(d), s, 0, o)
    BY <1>1, <2>3, KeepsTail
  <2> QED
    BY <1>1, <1>3, <1>4, <1>5, <2>4, <2>5 DEF ShotHas
<1>6. CASE h.type # "SYN@" /\ wait[j]
  <2> SUFFICES ASSUME NEW a \in At(Tail(d), "SYN@")
               PROVE  Holds(Tail(d), s, a - 1, view'[j][s], o) /\ Keeps(Tail(d), s, a, o)
    BY <1>1, <1>3, <1>6 DEF ShotHas
  <2>1. a \in 1 .. Len(d) /\ a + 1 \in At(d, "SYN@") /\ (a + 1) - 1 = a /\ a \in Nat /\ a + 1 \in Nat
    BY <1>2
  <2>2. Holds(d, s, (a + 1) - 1, view[j][s], o) /\ Keeps(d, s, a + 1, o)
    BY <1>6, <2>1 DEF ShotHas
  <2>3. Holds(d, s, a, view[j][s], o)
    BY <2>1, <2>2
  <2>4. Holds(down'[j], s, a - 1, view'[j][s], o)
    BY <2>1, <2>3, TakesHolds
  <2>5. Keeps(Tail(d), s, a, o)
    BY <1>1, <2>1, <2>2, KeepsTail
  <2> QED
    BY <1>1, <2>4, <2>5
<1>7. CASE h.type # "SYN@" /\ ~wait[j]
  <2>1. view[j][s] = o /\ Keeps(d, s, 0, o)
    BY <1>7 DEF ShotHas
  <2>2. Keeps(Tail(d), s, 0, o) /\ (h.type = "ORD@" => h.table[s] = o)
    BY <1>1, <2>1, KeepsTail
  <2> QED
    BY <1>1, <1>3, <1>4, <1>7, <2>1, <2>2 DEF ShotHas
<1> QED
  BY <1>5, <1>6, <1>7

\* When the barrier opens, the orders of everybody are on their way.
LEMMA ShotOpens ==
    ASSUME Sequential, GameInv, TurnsInv, [Next]_vars, NEW i \in Client, ServerRecv(i),
           Opens(i, Head(up[i])), NEW j \in Client, alive[j], NEW s \in Client, s # j
    PROVE  ShotHas(j, s, view[s][s])' /\ view'[s][s] = view[s][s]
<1>1. TypeInv /\ PhaseInv /\ OrderInv /\ KnowInv /\ UNCHANGED <<view, wait>>
  BY DEF GameInv, TurnsInv, ServerRecv, cliVars
<1>2. wait[j] /\ At(down[j], "SYN@") = {} /\ down[j] \in Seq(Reply)
  BY <1>1, OpensAnswer, TypeFacts
<1>3. None(up[s], "ORDR")
  <2>1. Head(up[i]).type = "SYNC"
    BY DEF Opens
  <2>2. ASSUME ServerRecv(s) PROVE s = i
    BY <2>2 DEF ServerRecv
  <2> QED
    BY <1>1, <2>1, <2>2, OrderOpens, OrdersLeft
<1>4. Holds(down[j], s, Len(down[j]), view[j][s], view[s][s])
  BY <1>1, <1>3 DEF KnowInv, KnowOf, Knows
<1>5. PICK x \in Reply : x = Answer(svrArg', j) /\ down'[j] = Append(down[j], x)
  BY DEF Opens
<1>6. \A a \in At(Append(down[j], x), "SYN@") : a = Len(down[j]) + 1
  BY <1>2, LastOnly
<1>7. Len(down[j]) \in 0 .. Len(down[j]) /\ (Len(down[j]) + 1) - 1 = Len(down[j])
      /\ Len(Append(down[j], x)) = Len(down[j]) + 1 /\ Len(down[j]) \in Nat
  BY <1>2, AtAppend
<1>8. Holds(Append(down[j], x), s, Len(down[j]), view[j][s], view[s][s])
  BY <1>2, <1>4, <1>7, HoldsPrefix
<1>9. Keeps(Append(down[j], x), s, Len(down[j]) + 1, view[s][s])
  BY <1>7 DEF Keeps, At
<1> QED
  BY <1>1, <1>2, <1>5, <1>6, <1>7, <1>8, <1>9 DEF ShotHas
\* The player on turn is one of the clients.
LEMMA TurnOfClient == \A n \in Int : TurnOf(n) \in Client
<1>1. N \in Nat /\ N >= 1
  BY ClientAssumption
<1> QED
  BY <1>1 DEF TurnOf, Client

\* Every step keeps the shooter's orders in the hands of each client that has
\* yet to simulate the turn.
LEMMA ShotStep ==
    ASSUME Sequential, GameInv, TurnsInv, [Next]_vars
    PROVE  ShotInv'
<1>1. TypeInv /\ PhaseInv /\ OrderInv /\ KnowInv /\ HostInv /\ ShotInv
  BY DEF GameInv, TurnsInv
<1> SUFFICES ASSUME NEW j \in Client, alive'[j], Yet(j)', j # Shooter'
             PROVE  ShotHas(j, Shooter, view[Shooter][Shooter])'
  BY DEF ShotInv, ShotOf
<1>2. down[j] \in Seq(Reply)
  BY <1>1, TypeFacts
<1>3. alive[j]
  <2>1. ASSUME NEW i \in Client, Leaves(i) PROVE alive[j]
    BY <2>1 DEF Leaves
  <2> QED
    BY <1>1, <2>1, StepCases, ClientGets DEF Gives, GoesOn, Fires, Gets, ServerRecv, Polls, cliVars
<1>4. CASE opened' = opened
  <2>1. Turns(opened)' = Turns(opened)
    BY <1>4 DEF Turns
  <2>2. Yet(j) /\ ~Fires(j)
    <3>1. ASSUME NEW k \in Client, Fires(k) PROVE Yet(j) /\ j # k
      <4>1. j # k
        BY <1>1, <2>1, <3>1, FiresShot, UsedBound DEF Yet
      <4> QED
        BY <2>1, <3>1, <4>1 DEF Fires, Yet
    <3>2. used' = used => Yet(j)
      BY <2>1 DEF Yet
    <3> QED
      BY <1>1, <3>1, <3>2, UsedSteps
  <2>3. PICK s \in Client : s = Shooter
    BY <1>4, <2>2, ShotStays
  <2>4. Shooter' = s /\ view'[s][s] = view[s][s] /\ N # 1
        /\ \A i \in Client : ~None(up[i], "ORDR") => i # s
    BY <1>1, <1>4, <2>2, <2>3, ShotStays DEF OrderInv
  <2>5. PICK o : o = view[s][s]
    OBVIOUS
  <2>6. ShotHas(j, s, o) /\ j # s
    BY <1>1, <1>3, <2>2, <2>3, <2>4, <2>5 DEF ShotInv, ShotOf
  <2> SUFFICES ShotHas(j, s, o)'
    BY <2>4, <2>5
  <2>7. ASSUME NEW i \in Client, NEW x, Gives(i, x) PROVE ShotHas(j, s, o)'
    <3>1. wait'[j] = wait[j] /\ down'[j] = down[j] /\ view'[j][s] = view[j][s]
      BY <2>6, <2>7 DEF Gives
    <3> QED
      BY <2>6, <3>1, ShotFrame
  <2>8. ASSUME NEW i \in Client, NEW q, NEW e, GoesOn(i, q, e) PROVE ShotHas(j, s, o)'
    <3>1. i # j
      BY <2>2, <2>8, UsedBound DEF GoesOn, Runs, Yet
    <3>2. wait \in [Client -> BOOLEAN]
      BY <1>1 DEF TypeInv
    <3>3. wait'[j] = wait[j] /\ down'[j] = down[j] /\ view'[j][s] = view[j][s]
      BY <2>8, <3>1, <3>2 DEF GoesOn
    <3> QED
      BY <2>6, <3>3, ShotFrame
  <2>9. ASSUME UNCHANGED <<wait, down, view>> PROVE ShotHas(j, s, o)'
    BY <2>6, <2>9, ShotFrame
  <2>10. ASSUME NEW i \in Client, ClientRecv(i) PROVE ShotHas(j, s, o)'
    <3>1. CASE i = j
      BY <1>1, <2>6, <2>10, <3>1, ShotTakes
    <3>2. CASE i # j
      <4>1. down'[j] = down[j] /\ view'[j][s] = view[j][s]
        BY <1>1, <2>10, <3>2, ClientGets, RecvViews DEF Gets
      <4>2. wait'[j] = wait[j]
        <5>1. wait \in [Client -> BOOLEAN]
          BY <1>1 DEF TypeInv
        <5> QED
          BY <2>10, <3>2, <5>1 DEF ClientRecv, RecvOrders, RecvPlayerState, RecvInventory, RecvSync
      <4> QED
        BY <2>6, <4>1, <4>2, ShotFrame
    <3> QED
      BY <3>1, <3>2
  <2>11. ASSUME NEW i \in Client, ServerRecv(i) PROVE ShotHas(j, s, o)'
    <3> DEFINE h == Head(up[i])
    <3>1. Takes(i) /\ UNCHANGED <<wait, view>> /\ opened \in Nat
      BY <1>1, <2>11, ServerCases, TypeFacts DEF cliVars
    <3>2. ~Opens(i, h)
      BY <1>4, <3>1 DEF Opens
    <3>3. ASSUME NEW x \in Reply, x.type # "SYN@", x.type = "ORD@" => x.table[s] = o, Relays(i, x)
          PROVE  ShotHas(j, s, o)'
      <4>1. CASE down'[j] = down[j]
        BY <2>6, <3>1, <4>1, ShotFrame
      <4>2. CASE down'[j] = Append(down[j], x)
        BY <1>2, <2>6, <3>1, <3>3, <4>2, ShotAppend
      <4> QED
        BY <3>3, <4>1, <4>2 DEF Relays
    <3>4. CASE h.type = "ORDR"
      <4> DEFINE x == SvrOrders(RelayTable(h))
      <4>1. Relays(i, x) /\ x \in Reply
        BY <1>1, <2>11, <3>4, ServerCases DEF Counts, Opens, Relays
      <4>2. x.type = "ORD@" /\ \A q \in Client \ {i} : x.table[q] = view[q][q]
        BY <1>1, <2>11, <3>4, TableSent
      <4>3. ~None(up[i], "ORDR")
        BY <1>1, <3>1, <3>4, TailCounts DEF Takes
      <4>4. x.table[s] = o
        BY <2>4, <2>5, <4>2, <4>3
      <4> QED
        BY <3>3, <4>1, <4>2, <4>4
    <3>5. CASE h.type \in {"PLST", "INVT"} /\ Relays(i, h)
      BY <3>3, <3>5 DEF Relays
    <3>6. CASE UNCHANGED down
      BY <2>9, <3>1, <3>6
    <3> QED
      BY <1>1, <2>11, <3>2, <3>4, <3>5, <3>6, ServerCases DEF Counts
  <2> QED
    BY <1>1, <2>7, <2>8, <2>9, <2>10, <2>11, StepCases DEF Fires, Leaves, Polls, cliVars
<1>5. ASSUME NEW i \in Client, opened' = opened + 1, ServerRecv(i), Opens(i, Head(up[i]))
      PROVE  ShotHas(j, Shooter, view[Shooter][Shooter])'
  <2>1. opened + 1 \in Nat /\ opened \in Nat
    BY <1>1, TypeFacts
  <2>2. Turns(opened + 1) \in Nat
    BY <2>1, TurnsNext
  <2>3. Shooter' = TurnOf(Turns(opened + 1) - 1)
    BY <1>5 DEF Shooter, TurnOf, Turns
  <2>4. TurnOf(Turns(opened + 1) - 1) \in Client
    BY <2>2, TurnOfClient
  <2>5. PICK s \in Client : s = TurnOf(Turns(opened + 1) - 1)
    BY <2>4
  <2>6. ShotHas(j, s, view[s][s])'
    BY <1>3, <1>5, <2>3, <2>5, ShotOpens
  <2>7. Shooter' = s
    BY <2>3, <2>5
  <2> QED
    BY <2>6, <2>7
<1> QED
  BY <1>1, <1>4, <1>5, OpenSteps
-----------------------------------------------------------------------------
(* The invariant holds. *)

LEMMA TurnsInit == Init => TurnsInv
<1> SUFFICES ASSUME Init PROVE TurnsInv
  OBVIOUS
<1>1. \A i \in Client : up[i] = <<>> /\ down[i] = <<>> /\ used[i] = <<>> /\ ~wait[i] /\ polling = "idle"
  BY DEF Init
<1>2. Turns(opened) = 0
  BY ZeroEvents DEF Init
<1>3. AgreeInv /\ DoneInv
  BY <1>1, <1>2 DEF AgreeInv, DoneInv, Yet
<1>4. RandInv
  BY <1>1, AtEmpty DEF RandInv
<1>5. KnowInv
  <2> SUFFICES ASSUME NEW j \in Client, NEW p \in Client PROVE Knows(j, p, Len(down[j]))
    BY DEF KnowInv, KnowOf
  <2>1. Len(down[j]) = 0 /\ view[j][p] = view[p][p]
    BY DEF Init
  <2> QED
    BY <2>1, HoldsZero DEF Knows
<1>6. HostInv
  BY DEF Init, HostInv
<1>7. ShotInv
  BY <1>1, <1>2 DEF ShotInv, ShotOf, Yet
<1> QED
  BY <1>3, <1>4, <1>5, <1>6, <1>7, OrderInit DEF TurnsInv

\* Every step keeps the whole invariant of the sequential game.
LEMMA TurnsStep == Sequential /\ GameInv /\ TurnsInv /\ [Next]_vars => TurnsInv'
<1> SUFFICES ASSUME Sequential, GameInv, TurnsInv, [Next]_vars PROVE TurnsInv'
  OBVIOUS
<1>1. OrderInv'
  BY OrderStep DEF TurnsInv
<1> QED
  BY <1>1, AgreeStep, RandStep, DoneStep, KnowStep, HostStep, ShotStep DEF TurnsInv

\* What a client is released with is what it expects.
LEMMA MissyncStep ==
    ASSUME GameInv, TurnsInv, NoMissync, [Next]_vars
    PROVE  NoMissync'
<1>1. TypeInv /\ PhaseInv /\ EventInv /\ RandInv /\ missync \in [Client -> BOOLEAN]
  BY DEF GameInv, TurnsInv, TypeInv
<1>2. ASSUME NEW i \in Client, ClientRecv(i) PROVE NoMissync'
  <2> DEFINE p == Head(down[i])
  <2>1. CASE UNCHANGED missync
    BY <2>1 DEF NoMissync
  <2>2. CASE p.type = "SYN@" /\ RecvSync(i, p)
    <3>1. 1 \in At(down[i], "SYN@") /\ p = down[i][1]
      BY <1>1, <1>2, <2>2, ClientGets, AtTail DEF Gets, At
    <3>2. wait[i]
      BY <1>1, <3>1 DEF PhaseInv, Going, Asking, Waiting, Released, None
    <3>3. p.event = syncarg[i] /\ ~p.bogus
      BY <1>1, <3>1, <3>2 DEF EventInv, EventOf
    <3>4. p.rnd = RandPeek(i)
      BY <1>1, <3>1 DEF RandInv, RandPeek
    <3>5. \A j \in Client : missync'[j] => missync[j]
      BY <1>1, <2>2, <3>3, <3>4 DEF RecvSync
    <3> QED
      BY <3>5 DEF NoMissync
  <2> QED
    BY <1>2, <2>1, <2>2 DEF ClientRecv, RecvOrders, RecvPlayerState, RecvInventory
<1>3. ASSUME UNCHANGED missync PROVE NoMissync'
  BY <1>3 DEF NoMissync
<1> QED
  BY <1>1, <1>2, <1>3, StepCases DEF Gives, GoesOn, Fires, Leaves, ServerRecv, Polls, cliVars

\* The invariant of the sequential game holds in every state.
LEMMA TurnsInvariant ==
    ASSUME Sequential
    PROVE  Spec => [](GameInv /\ TurnsInv /\ NoMissync)
<1>1. Init => GameInv
  BY TypeInit, PhaseInit, EventInit, AliveInit, BoughtInit, UsedInit DEF GameInv
<1>2. Init => NoMissync
  BY DEF Init, NoMissync
<1>3. GameInv /\ [Next]_vars => GameInv'
  BY TypeStep, PhaseStep, EventStep, AliveStep, BoughtStep, UsedStep DEF GameInv
<1>4. GameInv /\ TurnsInv /\ NoMissync /\ [Next]_vars => TurnsInv' /\ NoMissync'
  BY TurnsStep, MissyncStep
<1> QED
  BY <1>1, <1>2, <1>3, <1>4, TurnsInit, PTL DEF Spec

-----------------------------------------------------------------------------
\* In a sequential game no client ever finds the random value of the server to
\* be another than its own (sc_net_client_run, SC_NET_SVR_SYNC).
THEOREM RandomHolds == Sequential => (Spec => []RandomAgrees)
<1>1. GameInv /\ NoMissync => RandomAgrees
  BY GameTypes DEF RandomAgrees, NoMissync
<1> SUFFICES ASSUME Sequential PROVE Spec => []RandomAgrees
  OBVIOUS
<1> QED
  BY <1>1, TurnsInvariant, PTL

\* A client that is released from a turn has the orders of the player whose
\* turn it was.
LEMMA TurnRelease ==
    ASSUME Sequential, GameInv, TurnsInv, [Next]_vars, NEW i \in Client, wait[i], ~wait'[i],
           syncarg[i] = "TURN", NEW p \in DOMAIN Volley(i)
    PROVE  view[i][p] = view[p][p]
<1>1. TypeInv /\ PhaseInv /\ EventInv /\ UsedInv /\ ShotInv
  BY DEF GameInv, TurnsInv
<1>2. 1 \in At(down[i], "SYN@") /\ pos[i] = opened /\ alive[i]
  BY <1>1, ReleasedBy DEF Released, ClientRecv
<1>3. pos[i] \in Nat /\ pos[i] >= 1 /\ Script[pos[i]] = "TURN"
  BY <1>1, TypeFacts DEF EventInv, EventOf
<1>4. PICK n \in Nat : n + 1 = pos[i] /\ n = pos[i] - 1
  BY <1>3
<1>5. Turns(opened) = Turns(n) + 1 /\ Turns(n) \in Nat
  BY <1>2, <1>3, <1>4, TurnsNext
<1>6. Len(used[i]) = Turns(n)
  BY <1>1, <1>3, <1>4 DEF UsedInv, UsedOf
<1>7. Yet(i)
  BY <1>5, <1>6 DEF Yet
<1>8. p = Shooter
  BY <1>2 DEF Volley, Shooter, TurnsEnded
<1> SUFFICES ASSUME i # Shooter PROVE view[i][Shooter] = view[Shooter][Shooter]
  BY <1>8
<1>9. Holds(down[i], Shooter, 1 - 1, view[i][Shooter], view[Shooter][Shooter])
  BY <1>1, <1>2, <1>7 DEF ShotInv, ShotOf, ShotHas
<1> QED
  BY <1>9, HoldsZero

\* In a sequential game a client is released from a turn with the orders the
\* player on turn ended it with, and from the shopping knowing what everybody
\* bought: the server relays them before it answers (sc_net_server_run).
THEOREM ReleaseKnows == Sequential => (Spec => KnownAtRelease)
<1> SUFFICES ASSUME Sequential PROVE Spec => KnownAtRelease
  OBVIOUS
<1>1. GameInv /\ TurnsInv /\ [Next]_vars =>
        [\A i \in Client : wait[i] /\ ~wait'[i] =>
            /\ syncarg[i] = "TURN" =>
                 \A p \in DOMAIN Volley(i) : StillWaits(p) => view[i][p] = view[p][p]
            /\ syncarg[i] = "ROUND" =>
                 \A p \in Client : bought[i][p] = bought[i][i]]_vars
  <2>1. ASSUME GameInv, [Next]_vars, NEW i \in Client, wait[i], ~wait'[i] PROVE alive[i]
    BY <2>1, ReleasedBy DEF GameInv, ClientRecv
  <2> QED
    BY <2>1, ToursRelease, TurnRelease
<1> QED
  BY <1>1, TurnsInvariant, PTL DEF Spec, KnownAtRelease
=============================================================================
