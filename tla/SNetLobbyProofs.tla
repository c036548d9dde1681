--------------------------- MODULE SNetLobbyProofs ---------------------------
(***************************************************************************)
(* The lobby, for every number of machines and players: connections and    *)
(* players match, nobody is let in before everybody has begun, and who is  *)
(* let in has the server's game.  A poll of the server handles many        *)
(* packets; the invariant is one that each of them keeps.                  *)
(***************************************************************************)
EXTENDS SNetLobby, SequenceTheorems, WellFoundedInduction, TLAPS

-----------------------------------------------------------------------------
(* Types. *)

Known == Machine \union {Local, NetworkPlayer}
Counts == (0 .. MaxPlayers) \union {2}

Mac == [client : {"none", "open", "freed"}, flags : SUBSET Flag, cut : BOOLEAN,
        roles : [Slot -> Role], names : [Slot -> Known], num : Counts, seed : Nat,
        game : {"menu", "GAME_BEGIN", "INVENTORY_BEGIN", "playing"},
        ready : Counts, missync : BOOLEAN]
Srv == [up : BOOLEAN, pending : Seq(Machine), clients : Seq(Machine),
        flags : Seq(SUBSET Flag), seeds : Nat]

ConfigPacket == [type : {"CONFIG"}, seed : Nat, num : Counts]
PlayersPacket == [type : {"PLAYERS"}, roles : [Slot -> Role], names : [Slot -> Known]]
Upward ==
    [type : {"CONNECT"}, ok : BOOLEAN] \union [type : {"NAME"}, name : Machine]
      \union [type : {"SYNC", "DISC"}]
Downward ==
    [type : {"ACCEPTED", "REJECTED", "QUIT"}] \union ConfigPacket
      \union PlayersPacket \union [type : {"SYN@"}, rnd : Nat]

Worlds == [srv : Srv, mac : [Machine -> Mac], up : [Machine -> Seq(Upward)],
           down : [Machine -> Seq(Downward)]]

-----------------------------------------------------------------------------
(* Packets on their way. *)

Has(s, type) == \E n \in 1 .. Len(s) : s[n].type = type
AtMostOne(s, type) == \A i, j \in 1 .. Len(s) : s[i].type = type /\ s[j].type = type => i = j

\* Every packet of a type, or the last one, if there is any, is in a set.
Each(s, type, good) == \A n \in 1 .. Len(s) : s[n].type = type => s[n] \in good
EndsIn(s, type, good) ==
    \A n \in 1 .. Len(s) :
        s[n].type = type /\ (\A i \in n + 1 .. Len(s) : s[i].type # type) => s[n] \in good

\* A client sends its request first, its name before it asks to go on, and
\* says good-bye last.
UpOrder(m, u) ==
    \A n \in 1 .. Len(u) :
        /\ u[n].type = "NAME" => u[n].name = m /\ \A i \in 1 .. n : u[i].type # "SYNC"
        /\ u[n].type = "CONNECT" => n = 1
        /\ u[n].type = "DISC" => n = Len(u)

\* It is accepted once, and told nothing new after it has been let in.
DownOrder(d) ==
    /\ AtMostOne(d, "ACCEPTED")
    /\ \A n, i \in 1 .. Len(d) :
          d[n].type = "SYN@" /\ d[i].type \in {"CONFIG", "PLAYERS"} => i < n

-----------------------------------------------------------------------------
(* One machine m with its state c, what it has sent (u) and been sent (d). *)

Unaccepted(c) == "NEED_ACCEPT" \in c.flags
Begun(c) == c.game \in {"INVENTORY_BEGIN", "playing"}
LetIn(c) ==
    /\ c.client = "open"
    /\ c.game = "playing" \/ (c.game = "INVENTORY_BEGIN" /\ "WAIT_SYNC" \notin c.flags)

UpPath(m, c, u) ==
    /\ c.client = "none" => u = <<>> /\ c.flags = {}
    /\ c.client = "open" /\ Begun(c) => ~Unaccepted(c)
    /\ Has(u, "NAME") \/ Has(u, "SYNC") => ~Unaccepted(c)
    /\ Has(u, "SYNC") => Begun(c)
    /\ Has(u, "DISC") => c.client = "freed"
    /\ UpOrder(m, u)

DownPath(c, d) ==
    /\ c.client # "open" => d = <<>>
    /\ Has(d, "ACCEPTED") => Unaccepted(c)
    /\ LetIn(c) => ~Has(d, "CONFIG") /\ ~Has(d, "PLAYERS")
    /\ DownOrder(d)

\* Its connection has the flags f, and is known to the server by a name.
ConnPath(m, c, u, f, name) ==
    /\ c.client # "none"
    /\ IsDead(f) => u = <<>> /\ c.client = "freed"
    /\ "WAIT_SYNC" \in f =>
          Begun(c) /\ ~Unaccepted(c) /\ ~Has(u, "NAME") /\ "NEED_ACCEPT" \notin f
    /\ "NEED_ACCEPT" \notin f /\ ~Unaccepted(c) /\ ~Has(u, "NAME") => name = m

\* Everything it has to do before the game is done.
ReadyPath(c, u, f) ==
    Begun(c) /\ ~Unaccepted(c) /\ ~Has(u, "NAME") /\ "NEED_ACCEPT" \notin f

\* What it will hold in the end is the configuration conf and players in good.
Latest(c, d, conf, good) ==
    /\ EndsIn(d, "CONFIG", {conf}) /\ EndsIn(d, "PLAYERS", good)
    /\ ~Has(d, "CONFIG") => ConfigData(c.seed, c.num) = conf
    /\ ~Has(d, "PLAYERS") => PlayerData(c.roles, c.names) \in good

-----------------------------------------------------------------------------
(* All machines.  Connection k is the one numbered k - 1 by the server; the *)
(* server knows the players by the given names.                             *)

Numbers(w) == 1 .. Len(w.srv.clients)
Admitted(w, m) ==
    \E k \in Numbers(w) : w.srv.clients[k] = m /\ "NEED_ACCEPT" \notin w.srv.flags[k]
Speaks(c, u, d) ==
    \/ c.client # "none" /\ ~Unaccepted(c)
    \/ Has(u, "NAME") \/ Has(u, "SYNC") \/ Has(d, "ACCEPTED")

MachineInv(w) ==
    \A m \in Machine :
        /\ UpPath(m, w.mac[m], w.up[m]) /\ DownPath(w.mac[m], w.down[m])
        /\ Speaks(w.mac[m], w.up[m], w.down[m]) => Admitted(w, m)
        /\ Has(w.up[m], "CONNECT") => ~Admitted(w, m)

\* Connections are made once, the first one by the host.
Distinct(q) == \A i, j \in 1 .. Len(q) : q[i] = q[j] => i = j
QueueInv(w) ==
    LET q == w.srv.clients
        p == w.srv.pending
    IN  /\ Len(w.srv.flags) = Len(q) /\ Len(q) <= MaxPlayers
        /\ Distinct(q) /\ Distinct(p)
        /\ \A i \in 1 .. Len(q), j \in 1 .. Len(p) : q[i] # p[j]
        /\ \A i \in 1 .. Len(p) : w.mac[p[i]].client # "none"
        /\ q # <<>> => q[1] = Host
        /\ q = <<>> /\ p # <<>> => p[1] = Host
        /\ w.srv.up /\ q = <<>> =>
              p # <<>> /\ w.mac[Host].num = 0 /\ w.mac[Host].game = "menu"
        /\ w.mac[Host].client = "none" => ~w.srv.up /\ q = <<>> /\ p = <<>>

ConnInv(w, names) ==
    \A k \in Numbers(w) :
        ConnPath(w.srv.clients[k], w.mac[w.srv.clients[k]], w.up[w.srv.clients[k]],
                 w.srv.flags[k], names[k - 1])

Before(seeds) == {p \in ConfigPacket : p.seed <= seeds}
SeedInv(w) ==
    \A m \in Machine :
        w.mac[m].seed <= w.srv.seeds /\ Each(w.down[m], "CONFIG", Before(w.srv.seeds))

\* Nobody is let in, or about to be, before all are ready.
Started(c, d) == Has(d, "SYN@") \/ LetIn(c)
AllReady(w) ==
    /\ w.srv.clients # <<>>
    /\ \A k \in Numbers(w) :
          ReadyPath(w.mac[w.srv.clients[k]], w.up[w.srv.clients[k]], w.srv.flags[k])
StartInv(w) == (\E m \in Machine : Started(w.mac[m], w.down[m])) => AllReady(w)

\* The players that the host's own client holds, and is sent, are as many as
\* there are connections.
SomeRoles(count, roles) == \A s \in 0 .. count - 1 : roles[s] \in {"human", "network"}
Counting(count) == {p \in ConfigPacket : p.num = count}
Assigning(count) == {p \in PlayersPacket : SomeRoles(count, p.roles)}
HostPath(c, d, count) ==
    /\ c.num = count /\ SomeRoles(count, c.roles)
    /\ Begun(c) => c.ready = count
    /\ Each(d, "CONFIG", Counting(count)) /\ Each(d, "PLAYERS", Assigning(count))
HostInv(w) == w.srv.up => HostPath(w.mac[Host], w.down[Host], Len(w.srv.clients))

CoreInv(w, names) ==
    /\ QueueInv(w) /\ MachineInv(w) /\ ConnInv(w, names)
    /\ SeedInv(w) /\ StartInv(w) /\ HostInv(w)

\* The last configuration that was sent is that of the server, unless it is
\* about to accept somebody.
AllAdmitted(w) == \A k \in Numbers(w) : "NEED_ACCEPT" \notin w.srv.flags[k]
ToldConfig(w) == ConfigData(w.srv.seeds, Len(w.srv.clients))
ToldPlayers(count, names, id) ==
    {p \in PlayersPacket :
        /\ p.names = names
        /\ \A s \in 0 .. count - 1 : p.roles[s] = IF s = id THEN "human" ELSE "network"}
LatestInv(w, names) ==
    AllAdmitted(w) =>
        \A k \in Numbers(w) :
            LET m == w.srv.clients[k]
            IN  w.mac[m].client = "open" =>
                  Latest(w.mac[m], w.down[m], ToldConfig(w),
                         ToldPlayers(Len(w.srv.clients), names, k - 1))

\* What the host's own client has been told overwrites the names with what
\* they are.
Naming(names) == {p \in PlayersPacket : p.names = names}
NamesPath(c, d, names) ==
    EndsIn(d, "PLAYERS", Naming(names)) /\ (~Has(d, "PLAYERS") => c.names = names)
NamesInv(w, names) == NamesPath(w.mac[Host], w.down[Host], names)

WorldInv(w, names) == CoreInv(w, names) /\ LatestInv(w, names) /\ NamesInv(w, names)

LobbyInv ==
    /\ World \in Worlds /\ events \in Nat
    /\ WorldInv(World, mac[Host].names)

-----------------------------------------------------------------------------
(* Packets that are taken from the front and put at the end.               *)

LEMMA TailParts ==
    ASSUME NEW S, NEW s \in Seq(S), s # <<>>
    PROVE  /\ Tail(s) \in Seq(S) /\ Head(s) \in S /\ Head(s) = s[1]
           /\ Len(Tail(s)) = Len(s) - 1 /\ Len(s) \in Nat \ {0}
           /\ \A n \in 1 .. Len(s) - 1 : Tail(s)[n] = s[n + 1]
OBVIOUS

\* A queue with one packet more.
LEMMA AppendParts ==
    ASSUME NEW S, NEW s \in Seq(S), NEW x \in S
    PROVE  /\ Append(s, x) \in Seq(S) /\ Append(s, x) # <<>>
           /\ Len(Append(s, x)) = Len(s) + 1 /\ Len(s) \in Nat
           /\ \A n \in 1 .. Len(s) : Append(s, x)[n] = s[n]
           /\ Append(s, x)[Len(s) + 1] = x
OBVIOUS

\* Nothing is on its way in an empty queue.
LEMMA HasNone == ASSUME NEW type PROVE ~Has(<<>>, type)
BY DEF Has

\* Which types are left when the first packet is taken.
LEMMA HasTail ==
    ASSUME NEW S, NEW s \in Seq(S), s # <<>>, NEW type
    PROVE  /\ Has(Tail(s), type) => Has(s, type)
           /\ Has(s, type) => Has(Tail(s), type) \/ Head(s).type = type
           /\ Head(s).type = type => Has(s, type)
<1>1. Has(Tail(s), type) => Has(s, type)
  <2>1. ASSUME NEW n \in 1 .. Len(Tail(s)), Tail(s)[n].type = type
        PROVE  n + 1 \in 1 .. Len(s) /\ s[n + 1].type = type
    BY <2>1, TailParts
  <2> QED
    BY <2>1 DEF Has
<1>2. Has(s, type) => Has(Tail(s), type) \/ Head(s).type = type
  <2>1. ASSUME NEW n \in 1 .. Len(s), s[n].type = type, n # 1
        PROVE  n - 1 \in 1 .. Len(Tail(s)) /\ Tail(s)[n - 1].type = type
    BY <2>1, TailParts
  <2> QED
    BY <2>1, TailParts DEF Has
<1>3. Head(s).type = type => Has(s, type)
  BY TailParts DEF Has
<1> QED
  BY <1>1, <1>2, <1>3

\* Which types there are when a packet is put at the end.
LEMMA HasAppend ==
    ASSUME NEW S, NEW s \in Seq(S), NEW x \in S, NEW type
    PROVE  Has(Append(s, x), type) <=> Has(s, type) \/ x.type = type
<1>1. ASSUME NEW n \in 1 .. Len(s)
      PROVE  n \in 1 .. Len(Append(s, x)) /\ Append(s, x)[n] = s[n]
  BY AppendParts
<1>2. Len(s) + 1 \in 1 .. Len(Append(s, x)) /\ Append(s, x)[Len(s) + 1] = x
  BY AppendParts
<1>3. \A n \in 1 .. Len(Append(s, x)) : n \in 1 .. Len(s) \/ n = Len(s) + 1
  BY AppendParts
<1> HIDE DEF Has
<1>4. Has(s, type) => Has(Append(s, x), type)
  BY <1>1 DEF Has
<1>5. x.type = type => Has(Append(s, x), type)
  BY <1>2 DEF Has
<1>6. Has(Append(s, x), type) => Has(s, type) \/ x.type = type
  BY <1>1, <1>2, <1>3 DEF Has
<1> QED
  BY <1>4, <1>5, <1>6

\* What holds of every packet of a type holds of those behind the first.
LEMMA EachTail ==
    ASSUME NEW S, NEW s \in Seq(S), s # <<>>, NEW type, NEW good, Each(s, type, good)
    PROVE  Each(Tail(s), type, good) /\ (Head(s).type = type => Head(s) \in good)
<1>1. ASSUME NEW n \in 1 .. Len(Tail(s))
      PROVE  n + 1 \in 1 .. Len(s) /\ Tail(s)[n] = s[n + 1]
  BY TailParts
<1>2. 1 \in 1 .. Len(s)
  BY TailParts
<1> QED
  BY <1>1, <1>2, TailParts DEF Each

\* What holds of every packet of a type and of the new one holds of all.
LEMMA EachAppend ==
    ASSUME NEW S, NEW s \in Seq(S), NEW x \in S, NEW type, NEW good, NEW better,
           Each(s, type, good), good \subseteq better, x.type = type => x \in better
    PROVE  Each(Append(s, x), type, better)
<1>1. \A n \in 1 .. Len(Append(s, x)) :
          (n \in 1 .. Len(s) /\ Append(s, x)[n] = s[n]) \/ Append(s, x)[n] = x
  BY AppendParts
<1> QED
  BY <1>1 DEF Each

\* The last packet of a type stays the last one when the first packet is
\* taken.
LEMMA EndsInTail ==
    ASSUME NEW S, NEW s \in Seq(S), s # <<>>, NEW type, NEW good, EndsIn(s, type, good)
    PROVE  /\ EndsIn(Tail(s), type, good)
           /\ Head(s).type = type /\ ~Has(Tail(s), type) => Head(s) \in good
<1>1. ASSUME NEW n \in 1 .. Len(Tail(s)), Tail(s)[n].type = type,
             \A i \in n + 1 .. Len(Tail(s)) : Tail(s)[i].type # type
      PROVE  Tail(s)[n] \in good
  <2>1. n + 1 \in 1 .. Len(s) /\ Tail(s)[n] = s[n + 1]
    BY TailParts
  <2>2. ASSUME NEW i \in (n + 1) + 1 .. Len(s) PROVE s[i].type # type
    <3>1. i - 1 \in n + 1 .. Len(Tail(s)) /\ Tail(s)[i - 1] = s[i]
      BY TailParts
    <3> QED
      BY <3>1, <1>1
  <2> QED
    BY <2>1, <2>2, <1>1 DEF EndsIn
<1>2. ASSUME Head(s).type = type, ~Has(Tail(s), type) PROVE Head(s) \in good
  <2>1. 1 \in 1 .. Len(s) /\ Head(s) = s[1]
    BY TailParts
  <2>2. ASSUME NEW i \in 1 + 1 .. Len(s) PROVE s[i].type # type
    <3>1. i - 1 \in 1 .. Len(Tail(s)) /\ Tail(s)[i - 1] = s[i]
      BY TailParts
    <3> QED
      BY <3>1, <1>2 DEF Has
  <2> QED
    BY <2>1, <2>2, <1>2 DEF EndsIn
<1> QED
  BY <1>1, <1>2 DEF EndsIn

\* The last packet of a type is the new one, or the one it was.
LEMMA EndsInAppend ==
    ASSUME NEW S, NEW s \in Seq(S), NEW x \in S, NEW type, NEW good,
           IF x.type = type THEN x \in good ELSE EndsIn(s, type, good)
    PROVE  EndsIn(Append(s, x), type, good)
<1> DEFINE a == Append(s, x)
<1>1. /\ Len(a) = Len(s) + 1 /\ a[Len(a)] = x /\ Len(s) \in Nat
      /\ \A n \in 1 .. Len(s) : a[n] = s[n]
  BY AppendParts
<1> HIDE DEF a
<1>2. ASSUME NEW n \in 1 .. Len(a), a[n].type = type,
             \A i \in n + 1 .. Len(a) : a[i].type # type
      PROVE  a[n] \in good
  <2>1. CASE n = Len(a)
    BY <1>1, <1>2, <2>1
  <2>2. CASE n # Len(a)
    <3>1. Len(a) \in n + 1 .. Len(a)
      BY <1>1, <2>2
    <3>2. x.type # type
      BY <3>1, <1>1, <1>2
    <3>3. n \in 1 .. Len(s) /\ s[n].type = type /\ a[n] = s[n]
      BY <1>1, <1>2, <2>2
    <3>4. ASSUME NEW i \in n + 1 .. Len(s) PROVE s[i].type # type
      <4>1. i \in n + 1 .. Len(a) /\ a[i] = s[i]
        BY <1>1
      <4> QED
        BY <4>1, <1>2
    <3> QED
      BY <3>2, <3>3, <3>4 DEF EndsIn
  <2> QED
    BY <2>1, <2>2
<1> QED
  BY <1>2 DEF EndsIn, a

\* Without packets of a type there is no last one.
LEMMA EndsInNone ==
    ASSUME NEW s, NEW type, NEW good, ~Has(s, type)
    PROVE  EndsIn(s, type, good) /\ Each(s, type, good)
BY DEF Has, EndsIn, Each

\* The order of a client's packets is kept when the server takes the first.
LEMMA UpOrderTail ==
    ASSUME NEW m, NEW S, NEW u \in Seq(S), u # <<>>, UpOrder(m, u)
    PROVE  /\ UpOrder(m, Tail(u)) /\ ~Has(Tail(u), "CONNECT")
           /\ Head(u).type = "DISC" => Tail(u) = <<>>
           /\ Head(u).type = "SYNC" => ~Has(u, "NAME")
           /\ Head(u).type = "NAME" => Head(u).name = m
<1>1. \A n \in 1 .. Len(Tail(u)) : n + 1 \in 1 .. Len(u) /\ Tail(u)[n] = u[n + 1]
  BY TailParts
<1>2. 1 \in 1 .. Len(u) /\ Head(u) = u[1] /\ Len(Tail(u)) = Len(u) - 1 /\ Len(u) \in Nat
      /\ Tail(u) \in Seq(S)
  BY TailParts
<1>3. ASSUME NEW n \in 1 .. Len(Tail(u))
      PROVE  /\ Tail(u)[n].type = "NAME" =>
                    Tail(u)[n].name = m /\ \A i \in 1 .. n : Tail(u)[i].type # "SYNC"
             /\ Tail(u)[n].type # "CONNECT"
             /\ Tail(u)[n].type = "DISC" => n = Len(Tail(u))
  <2>1. n + 1 \in 1 .. Len(u) /\ Tail(u)[n] = u[n + 1] /\ n + 1 # 1
    BY <1>1
  <2>2. ASSUME NEW i \in 1 .. n, u[n + 1].type = "NAME" PROVE Tail(u)[i].type # "SYNC"
    <3>1. i + 1 \in 1 .. n + 1 /\ Tail(u)[i] = u[i + 1]
      BY <1>1, <1>2
    <3> QED
      BY <2>1, <2>2, <3>1 DEF UpOrder
  <2>3. u[n + 1].type = "DISC" => n + 1 = Len(u)
    BY <2>1 DEF UpOrder
  <2>4. u[n + 1].type = "NAME" => u[n + 1].name = m
    BY <2>1 DEF UpOrder
  <2>5. u[n + 1].type # "CONNECT"
    BY <2>1 DEF UpOrder
  <2>6. n + 1 = Len(u) => n = Len(Tail(u))
    <3> DEFINE k == Len(u)
               j == Len(Tail(u))
    <3>1. n \in Nat /\ j = k - 1 /\ k \in Nat
      BY <1>2
    <3> HIDE DEF k, j
    <3>2. n + 1 = k => n = j
      BY <3>1
    <3> QED
      BY <3>2 DEF k, j
  <2>7. Tail(u)[n].type = "NAME" => \A i \in 1 .. n : Tail(u)[i].type # "SYNC"
    BY <2>1, <2>2
  <2> HIDE DEF UpOrder
  <2> QED
    BY <2>1, <2>3, <2>4, <2>5, <2>6, <2>7
<1>4. UpOrder(m, Tail(u)) /\ ~Has(Tail(u), "CONNECT")
  BY <1>3 DEF UpOrder, Has
<1>5. ASSUME Head(u).type = "DISC" PROVE Tail(u) = <<>>
  <2>1. 1 = Len(u)
    BY <1>5, <1>2 DEF UpOrder
  <2>2. Len(Tail(u)) = 0
    BY <2>1, <1>2
  <2> QED
    BY <2>2, <1>2
<1>6. ASSUME Head(u).type = "SYNC", Has(u, "NAME") PROVE FALSE
  <2>1. PICK n \in 1 .. Len(u) : u[n].type = "NAME"
    BY <1>6 DEF Has
  <2>2. 1 \in 1 .. n
    BY <2>1
  <2> QED
    BY <1>2, <1>6, <2>1, <2>2 DEF UpOrder
<1>7. Head(u).type = "NAME" => Head(u).name = m
  BY <1>2 DEF UpOrder
<1> QED
  BY <1>4, <1>5, <1>6, <1>7

\* The order is kept by a name before the first request to go on, by such a
\* request and by a good-bye, as long as no good-bye was sent before.
LEMMA UpOrderAppend ==
    ASSUME NEW m, NEW S, NEW u \in Seq(S), NEW x \in S, UpOrder(m, u), ~Has(u, "DISC"),
           x.type = "NAME" => x.name = m /\ ~Has(u, "SYNC"), x.type # "CONNECT"
    PROVE  UpOrder(m, Append(u, x))
<1> DEFINE a == Append(u, x)
<1>1. /\ Len(a) = Len(u) + 1 /\ Len(u) \in Nat /\ a[Len(u) + 1] = x
      /\ \A n \in 1 .. Len(u) : a[n] = u[n]
  BY AppendParts
<1> HIDE DEF a
<1> SUFFICES ASSUME NEW n \in 1 .. Len(a)
             PROVE  /\ a[n].type = "NAME" =>
                           a[n].name = m /\ \A i \in 1 .. n : a[i].type # "SYNC"
                    /\ a[n].type = "CONNECT" => n = 1
                    /\ a[n].type = "DISC" => n = Len(a)
  BY DEF UpOrder, a
<1>2. CASE n \in 1 .. Len(u)
  <2>1. a[n] = u[n] /\ \A i \in 1 .. n : a[i] = u[i]
    BY <1>1, <1>2
  <2>2. /\ u[n].type = "NAME" => u[n].name = m /\ \A i \in 1 .. n : u[i].type # "SYNC"
        /\ u[n].type = "CONNECT" => n = 1
    BY <1>2 DEF UpOrder
  <2>3. u[n].type # "DISC"
    BY <1>2 DEF Has
  <2> QED
    BY <2>1, <2>2, <2>3
<1>3. CASE n = Len(u) + 1
  <2>1. ASSUME a[n].type = "NAME", NEW i \in 1 .. n PROVE a[i].type # "SYNC"
    BY <1>1, <1>3, <2>1 DEF Has
  <2> QED
    BY <1>1, <1>3, <2>1
<1> QED
  BY <1>1, <1>2, <1>3

\* The order of the server's packets is kept when the client takes the first.
LEMMA DownOrderTail ==
    ASSUME NEW S, NEW d \in Seq(S), d # <<>>, DownOrder(d)
    PROVE  /\ DownOrder(Tail(d))
           /\ Head(d).type = "ACCEPTED" => ~Has(Tail(d), "ACCEPTED")
           /\ Head(d).type = "SYN@" => ~Has(Tail(d), "CONFIG") /\ ~Has(Tail(d), "PLAYERS")
<1>1. \A n \in 1 .. Len(Tail(d)) : n + 1 \in 1 .. Len(d) /\ Tail(d)[n] = d[n + 1]
  BY TailParts
<1>2. 1 \in 1 .. Len(d) /\ Head(d) = d[1] /\ Len(Tail(d)) = Len(d) - 1 /\ Len(d) \in Nat
  BY TailParts
<1>3. AtMostOne(Tail(d), "ACCEPTED")
  <2>1. ASSUME NEW i \in 1 .. Len(Tail(d)), NEW j \in 1 .. Len(Tail(d)),
               Tail(d)[i].type = "ACCEPTED", Tail(d)[j].type = "ACCEPTED"
        PROVE  i = j
    <3>1. i + 1 = j + 1
      BY <1>1, <2>1 DEF DownOrder, AtMostOne
    <3> QED
      BY <3>1
  <2> QED
    BY <2>1 DEF AtMostOne
<1>4. ASSUME NEW n \in 1 .. Len(Tail(d)), NEW i \in 1 .. Len(Tail(d)),
             Tail(d)[n].type = "SYN@", Tail(d)[i].type \in {"CONFIG", "PLAYERS"}
      PROVE  i < n
  <2>1. i + 1 < n + 1
    BY <1>1, <1>4 DEF DownOrder
  <2> QED
    BY <2>1
<1>5. ASSUME Head(d).type = "ACCEPTED", NEW i \in 1 .. Len(Tail(d)),
             Tail(d)[i].type = "ACCEPTED"
      PROVE  FALSE
  <2>1. i + 1 = 1
    BY <1>1, <1>2, <1>5 DEF DownOrder, AtMostOne
  <2> QED
    BY <2>1
<1>6. ASSUME Head(d).type = "SYN@", NEW i \in 1 .. Len(Tail(d)),
             Tail(d)[i].type \in {"CONFIG", "PLAYERS"}
      PROVE  FALSE
  <2>1. i + 1 < 1
    BY <1>1, <1>2, <1>6 DEF DownOrder
  <2> QED
    BY <2>1
<1>7. DownOrder(Tail(d))
  BY <1>3, <1>4 DEF DownOrder
<1> QED
  BY <1>5, <1>6, <1>7 DEF Has

\* The order is kept by a first acceptance, and by a configuration when
\* nobody has been told to go on.
LEMMA DownOrderAppend ==
    ASSUME NEW S, NEW d \in Seq(S), NEW x \in S, DownOrder(d),
           x.type = "ACCEPTED" => ~Has(d, "ACCEPTED"),
           x.type \in {"CONFIG", "PLAYERS"} => ~Has(d, "SYN@")
    PROVE  DownOrder(Append(d, x))
<1> DEFINE a == Append(d, x)
<1>1. /\ Len(a) = Len(d) + 1 /\ Len(d) \in Nat /\ a[Len(d) + 1] = x
      /\ \A n \in 1 .. Len(d) : a[n] = d[n]
  BY AppendParts
<1> HIDE DEF a
<1>2. ASSUME NEW i \in 1 .. Len(a), NEW j \in 1 .. Len(a),
             a[i].type = "ACCEPTED", a[j].type = "ACCEPTED"
      PROVE  i = j
  <2>1. CASE i \in 1 .. Len(d) /\ j \in 1 .. Len(d)
    BY <1>1, <1>2, <2>1 DEF DownOrder, AtMostOne
  <2>2. CASE i = Len(d) + 1 /\ j \in 1 .. Len(d)
    BY <1>1, <1>2, <2>2 DEF Has
  <2>3. CASE j = Len(d) + 1 /\ i \in 1 .. Len(d)
    BY <1>1, <1>2, <2>3 DEF Has
  <2> QED
    BY <1>1, <2>1, <2>2, <2>3
<1>3. ASSUME NEW n \in 1 .. Len(a), NEW i \in 1 .. Len(a),
             a[n].type = "SYN@", a[i].type \in {"CONFIG", "PLAYERS"}
      PROVE  i < n
  <2>1. CASE n \in 1 .. Len(d) /\ i \in 1 .. Len(d)
    BY <1>1, <1>3, <2>1 DEF DownOrder
  <2>2. CASE i = Len(d) + 1 /\ n \in 1 .. Len(d)
    BY <1>1, <1>3, <2>2 DEF Has
  <2>3. CASE n = Len(d) + 1 /\ i \in 1 .. Len(d)
    BY <1>1, <2>3
  <2>4. CASE n = Len(d) + 1 /\ i = Len(d) + 1
    BY <1>1, <1>3, <2>4
  <2> QED
    BY <1>1, <2>1, <2>2, <2>3, <2>4
<1> QED
  BY <1>2, <1>3 DEF DownOrder, AtMostOne, a
-----------------------------------------------------------------------------
(* A step of one machine: what the rest of the world needs of it.          *)

Only(w, v, m) ==
    /\ v.srv = w.srv
    /\ \A j \in Machine \ {m} :
          v.mac[j] = w.mac[j] /\ v.up[j] = w.up[j] /\ v.down[j] = w.down[j]

Follows(m, c, u, d, c2, u2, d2) ==
    /\ UpPath(m, c2, u2) /\ DownPath(c2, d2)
    /\ Speaks(c2, u2, d2) => Speaks(c, u, d)
    /\ Has(u2, "CONNECT") => Has(u, "CONNECT")
    /\ c.client # "none" <=> c2.client # "none"
    /\ c2.client = "open" => c.client = "open"
    /\ c.num = 0 /\ c.game = "menu" => c2.game = "menu"
    /\ Started(c2, d2) => Started(c, d)
    /\ \A f, name : ConnPath(m, c, u, f, name) => ConnPath(m, c2, u2, f, name)
    /\ \A f : ReadyPath(c, u, f) => ReadyPath(c2, u2, f)
    /\ \A count : HostPath(c, d, count) => HostPath(c2, d2, count)
    /\ \A s : c.seed <= s /\ Each(d, "CONFIG", Before(s)) =>
                 c2.seed <= s /\ Each(d2, "CONFIG", Before(s))
    /\ \A conf, good :
          c2.client = "open" /\ Latest(c, d, conf, good) => Latest(c2, d2, conf, good)

\* There is a machine for the server and a slot for its player.
LEMMA Hosts == Host \in Machine /\ 0 \in Slot
BY MachineAssumption DEF Host, Machine, Slot

\* The types of the parts of a world.
LEMMA WorldParts ==
    ASSUME NEW w \in Worlds
    PROVE  /\ w.srv.clients \in Seq(Machine) /\ w.srv.pending \in Seq(Machine)
           /\ w.srv.flags \in Seq(SUBSET Flag) /\ w.srv.seeds \in Nat /\ w.srv.up \in BOOLEAN
           /\ Len(w.srv.clients) \in Nat
           /\ \A k \in Numbers(w) : w.srv.clients[k] \in Machine
           /\ \A k \in 1 .. Len(w.srv.pending) : w.srv.pending[k] \in Machine
           /\ \A m \in Machine : /\ w.mac[m] \in Mac /\ w.up[m] \in Seq(Upward)
                                 /\ w.down[m] \in Seq(Downward)
<1>1. w.srv \in Srv /\ w.mac \in [Machine -> Mac] /\ w.up \in [Machine -> Seq(Upward)]
      /\ w.down \in [Machine -> Seq(Downward)]
  BY DEF Worlds
<1>2. /\ w.srv.clients \in Seq(Machine) /\ w.srv.pending \in Seq(Machine)
      /\ w.srv.flags \in Seq(SUBSET Flag) /\ w.srv.seeds \in Nat /\ w.srv.up \in BOOLEAN
  BY <1>1 DEF Srv
<1>3. /\ Len(w.srv.clients) \in Nat
      /\ \A k \in 1 .. Len(w.srv.clients) : w.srv.clients[k] \in Machine
      /\ \A k \in 1 .. Len(w.srv.pending) : w.srv.pending[k] \in Machine
  BY <1>2
<1> QED
  BY <1>1, <1>2, <1>3 DEF Numbers

\* A step of one machine that follows from what it holds keeps the invariant
\* of all machines.
LEMMA OneMachine ==
    ASSUME NEW w \in Worlds, NEW v \in Worlds, NEW m \in Machine, NEW names,
           CoreInv(w, names), LatestInv(w, names), Only(w, v, m),
           Follows(m, w.mac[m], w.up[m], w.down[m], v.mac[m], v.up[m], v.down[m])
    PROVE  CoreInv(v, names) /\ LatestInv(v, names)
<1> DEFINE Step(j) ==
               \/ v.mac[j] = w.mac[j] /\ v.up[j] = w.up[j] /\ v.down[j] = w.down[j]
               \/ Follows(j, w.mac[j], w.up[j], w.down[j], v.mac[j], v.up[j], v.down[j])
<1>1. \A j \in Machine : Step(j)
  BY DEF Only
<1>2. v.srv = w.srv /\ Numbers(v) = Numbers(w) /\ \A j : Admitted(v, j) <=> Admitted(w, j)
  BY DEF Only, Numbers, Admitted
<1>3. /\ QueueInv(w) /\ MachineInv(w) /\ ConnInv(w, names)
      /\ SeedInv(w) /\ StartInv(w) /\ HostInv(w)
  BY DEF CoreInv
<1>4. /\ \A k \in Numbers(w) : w.srv.clients[k] \in Machine
      /\ \A k \in 1 .. Len(w.srv.pending) : w.srv.pending[k] \in Machine
  BY WorldParts
<1> HIDE DEF Step
<1>5. QueueInv(v)
  <2>1. \A j \in Machine : v.mac[j].client # "none" <=> w.mac[j].client # "none"
    BY <1>1, Zenon DEF Step, Follows
  <2>2. ASSUME w.srv.up, w.srv.clients = <<>>, w.mac[Host].num = 0, w.mac[Host].game = "menu"
        PROVE  v.mac[Host].num = 0 /\ v.mac[Host].game = "menu"
    <3>1. HostPath(w.mac[Host], w.down[Host], Len(w.srv.clients))
      BY <1>3, <2>2 DEF HostInv
    <3>2. Len(w.srv.clients) = 0
      BY <2>2
    <3>3. Step(Host)
      BY <1>1, Hosts
    <3>4. CASE v.mac[Host] = w.mac[Host]
      BY <2>2, <3>4
    <3>5. CASE Follows(Host, w.mac[Host], w.up[Host], w.down[Host],
                       v.mac[Host], v.up[Host], v.down[Host])
      <4>1. HostPath(v.mac[Host], v.down[Host], Len(w.srv.clients))
        BY <3>1, <3>5, Zenon DEF Follows
      <4>2. v.mac[Host].num = Len(w.srv.clients)
        BY <4>1 DEF HostPath
      <4>3. v.mac[Host].game = "menu"
        BY <2>2, <3>5, Zenon DEF Follows
      <4> QED
        BY <4>2, <4>3, <3>2
    <3> QED
      BY <3>3, <3>4, <3>5 DEF Step
  <2> QED
    BY <1>2, <1>3, <1>4, <2>1, <2>2, Hosts DEF QueueInv
<1>6. MachineInv(v)
  <2> SUFFICES ASSUME NEW j \in Machine
               PROVE  /\ UpPath(j, v.mac[j], v.up[j]) /\ DownPath(v.mac[j], v.down[j])
                      /\ Speaks(v.mac[j], v.up[j], v.down[j]) => Admitted(v, j)
                      /\ Has(v.up[j], "CONNECT") => ~Admitted(v, j)
    BY Zenon DEF MachineInv
  <2>1. /\ UpPath(j, w.mac[j], w.up[j]) /\ DownPath(w.mac[j], w.down[j])
        /\ Speaks(w.mac[j], w.up[j], w.down[j]) => Admitted(w, j)
        /\ Has(w.up[j], "CONNECT") => ~Admitted(w, j)
    BY <1>3, Zenon DEF MachineInv
  <2>2. Step(j)
    BY <1>1
  <2>3. CASE v.mac[j] = w.mac[j] /\ v.up[j] = w.up[j] /\ v.down[j] = w.down[j]
    BY <2>1, <2>3, <1>2, Zenon
  <2>4. CASE Follows(j, w.mac[j], w.up[j], w.down[j], v.mac[j], v.up[j], v.down[j])
    BY <2>1, <2>4, <1>2, Zenon DEF Follows
  <2> QED
    BY <2>2, <2>3, <2>4, Zenon DEF Step
<1>7. ConnInv(v, names)
  <2> SUFFICES ASSUME NEW k \in Numbers(w)
               PROVE  ConnPath(w.srv.clients[k], v.mac[w.srv.clients[k]],
                               v.up[w.srv.clients[k]], w.srv.flags[k], names[k - 1])
    BY <1>2 DEF ConnInv
  <2>1. ConnPath(w.srv.clients[k], w.mac[w.srv.clients[k]], w.up[w.srv.clients[k]],
                 w.srv.flags[k], names[k - 1])
    BY <1>3, Zenon DEF ConnInv
  <2>2. Step(w.srv.clients[k])
    BY <1>1, <1>4
  <2> DEFINE j == w.srv.clients[k]
  <2> HIDE DEF j
  <2>3. ConnPath(j, w.mac[j], w.up[j], w.srv.flags[k], names[k - 1]) /\ Step(j)
    BY <2>1, <2>2 DEF j
  <2>4. ConnPath(j, v.mac[j], v.up[j], w.srv.flags[k], names[k - 1])
    BY <2>3, Zenon DEF Step, Follows
  <2> QED
    BY <2>4 DEF j
<1>8. SeedInv(v)
  <2> SUFFICES ASSUME NEW j \in Machine
               PROVE  /\ v.mac[j].seed <= w.srv.seeds
                      /\ Each(v.down[j], "CONFIG", Before(w.srv.seeds))
    BY <1>2 DEF SeedInv
  <2>1. w.mac[j].seed <= w.srv.seeds /\ Each(w.down[j], "CONFIG", Before(w.srv.seeds))
    BY <1>3 DEF SeedInv
  <2>2. Step(j)
    BY <1>1
  <2> QED
    BY <2>1, <2>2, Zenon DEF Step, Follows
<1>9. StartInv(v)
  <2> SUFFICES ASSUME NEW i \in Machine, Started(v.mac[i], v.down[i]) PROVE AllReady(v)
    BY DEF StartInv
  <2>1. Step(i)
    BY <1>1
  <2>2. Started(w.mac[i], w.down[i])
    BY <2>1, Zenon DEF Step, Follows
  <2>3. AllReady(w)
    BY <2>2, <1>3 DEF StartInv
  <2>4. ASSUME NEW k \in Numbers(w)
        PROVE  ReadyPath(v.mac[w.srv.clients[k]], v.up[w.srv.clients[k]], w.srv.flags[k])
    <3> DEFINE j == w.srv.clients[k]
    <3>1. Step(j) /\ ReadyPath(w.mac[j], w.up[j], w.srv.flags[k])
      BY <1>1, <1>4, <2>3 DEF AllReady
    <3> HIDE DEF j
    <3>2. ReadyPath(v.mac[j], v.up[j], w.srv.flags[k])
      BY <3>1, Zenon DEF Step, Follows
    <3> QED
      BY <3>2 DEF j
  <2> QED
    BY <2>3, <2>4, <1>2 DEF AllReady
<1>10. HostInv(v)
  <2>1. Step(Host)
    BY <1>1, Hosts
  <2> QED
    BY <1>2, <1>3, <2>1, Zenon DEF HostInv, Step, Follows
<1>11. LatestInv(v, names)
  <2>1. AllAdmitted(v) <=> AllAdmitted(w)
    BY <1>2 DEF AllAdmitted
  <2>2. ToldConfig(v) = ToldConfig(w)
    BY <1>2 DEF ToldConfig
  <2> SUFFICES ASSUME AllAdmitted(w), NEW k \in Numbers(w),
                      v.mac[w.srv.clients[k]].client = "open"
               PROVE  Latest(v.mac[w.srv.clients[k]], v.down[w.srv.clients[k]], ToldConfig(w),
                             ToldPlayers(Len(w.srv.clients), names, k - 1))
    BY <1>2, <2>1, <2>2 DEF LatestInv
  <2> DEFINE j == w.srv.clients[k]
             good == ToldPlayers(Len(w.srv.clients), names, k - 1)
  <2>3. w.mac[j].client = "open" => Latest(w.mac[j], w.down[j], ToldConfig(w), good)
    BY DEF LatestInv
  <2>4. Step(j) /\ v.mac[j].client = "open"
    BY <1>1, <1>4
  <2> HIDE DEF j, good
  <2>5. Latest(v.mac[j], v.down[j], ToldConfig(w), good)
    BY <2>3, <2>4, Zenon DEF Step, Follows
  <2> QED
    BY <2>5 DEF j, good
<1> QED
  BY <1>5, <1>6, <1>7, <1>8, <1>9, <1>10, <1>11 DEF CoreInv
-----------------------------------------------------------------------------
(* The steps of a client follow from what it holds.                        *)

ClientStep(m, c, u, d, p, c2, u2) ==
    \/ /\ p.type = "ACCEPTED"
       /\ c2 = [c EXCEPT !.flags = @ \ {"NEED_ACCEPT"}] /\ u2 = Append(u, PlayerName(m))
    \/ /\ p.type = "CONFIG" /\ u2 = u
       /\ c2 = [c EXCEPT !.seed = p.seed, !.num = p.num, !.flags = @ \ {"NEED_CONFIG"}]
    \/ /\ p.type = "PLAYERS" /\ u2 = u
       /\ c2 = [c EXCEPT !.roles = p.roles, !.names = p.names, !.flags = @ \ {"NEED_PLAYERS"}]
    \/ /\ p.type = "SYN@" /\ u2 = u
       /\ c2 = [c EXCEPT !.flags = @ \ {"WAIT_SYNC"}, !.missync = @ \/ p.rnd # c.seed]
    \/ /\ p.type \in {"REJECTED", "QUIT"} /\ u2 = u
       /\ c2 = [c EXCEPT !.flags = @ \union {p.type}]

\* Every packet of the server has one of six types, and its contents.
LEMMA PacketTypes ==
    /\ \A p \in Downward :
          /\ p.type \in {"ACCEPTED", "REJECTED", "QUIT", "CONFIG", "PLAYERS", "SYN@"}
          /\ p.type = "CONFIG" => p \in ConfigPacket
          /\ p.type = "PLAYERS" => p \in PlayersPacket
          /\ p.type = "SYN@" => p.rnd \in Nat
    /\ \A p \in Upward :
          /\ p.type \in {"CONNECT", "NAME", "SYNC", "DISC"}
          /\ p.type = "NAME" => p.name \in Machine
          /\ p.type = "CONNECT" => p.ok \in BOOLEAN
BY DEF Downward, ConfigPacket, PlayersPacket, Upward

\* What a client holds and has sent after a packet is of the right types.
LEMMA ClientStepTypes ==
    ASSUME NEW m \in Machine, NEW c \in Mac, NEW u \in Seq(Upward), NEW d \in Seq(Downward),
           d # <<>>, NEW c2, NEW u2, ClientStep(m, c, u, d, Head(d), c2, u2)
    PROVE  c2 \in Mac /\ u2 \in Seq(Upward)
<1>1. Head(d) \in Downward
  BY TailParts
<1> DEFINE p == Head(d)
<1>2. /\ p.type = "CONFIG" => p.seed \in Nat /\ p.num \in Counts
      /\ p.type = "PLAYERS" => p.roles \in [Slot -> Role] /\ p.names \in [Slot -> Known]
  BY <1>1, PacketTypes DEF ConfigPacket, PlayersPacket
<1> HIDE DEF p
<1>3. u2 = Append(u, PlayerName(m)) => u2 \in Seq(Upward)
  BY DEF PlayerName, Upward
<1>4. c.flags \in SUBSET Flag
  BY DEF Mac
<1>5. CASE p.type = "ACCEPTED" /\ c2 = [c EXCEPT !.flags = @ \ {"NEED_ACCEPT"}]
           /\ u2 = Append(u, PlayerName(m))
  BY <1>3, <1>4, <1>5 DEF Mac
<1>6. CASE p.type = "CONFIG" /\ u2 = u
         /\ c2 = [c EXCEPT !.seed = p.seed, !.num = p.num, !.flags = @ \ {"NEED_CONFIG"}]
  BY <1>2, <1>4, <1>6 DEF Mac
<1>7. CASE p.type = "PLAYERS" /\ u2 = u
       /\ c2 = [c EXCEPT !.roles = p.roles, !.names = p.names, !.flags = @ \ {"NEED_PLAYERS"}]
  BY <1>2, <1>4, <1>7 DEF Mac
<1>8. CASE p.type = "SYN@" /\ u2 = u
       /\ c2 = [c EXCEPT !.flags = @ \ {"WAIT_SYNC"}, !.missync = @ \/ p.rnd # c.seed]
  BY <1>4, <1>8 DEF Mac
<1>9. CASE p.type \in {"REJECTED", "QUIT"} /\ u2 = u
       /\ c2 = [c EXCEPT !.flags = @ \union {p.type}]
  <2>1. c.flags \union {p.type} \in SUBSET Flag
    BY <1>4, <1>9 DEF Flag, Dead
  <2> QED
    BY <2>1, <1>9 DEF Mac
<1> QED
  BY <1>5, <1>6, <1>7, <1>8, <1>9 DEF ClientStep, p

\* Taking the next packet, of whatever type, is a step that follows.
LEMMA TakeFollows ==
    ASSUME NEW m \in Machine, NEW c \in Mac, NEW u \in Seq(Upward), NEW d \in Seq(Downward),
           d # <<>>, NEW c2, NEW u2, ClientStep(m, c, u, d, Head(d), c2, u2),
           c.client = "open", UpPath(m, c, u), DownPath(c, d)
    PROVE  /\ Follows(m, c, u, d, c2, u2, Tail(d))
           /\ \A names : NamesPath(c, d, names) => NamesPath(c2, Tail(d), names)
<1> DEFINE p == Head(d)
           e == Tail(d)
<1>1. p \in Downward /\ e \in Seq(Downward)
  BY TailParts
<1>2. \A type : /\ Has(e, type) => Has(d, type)
                /\ Has(d, type) => Has(e, type) \/ p.type = type
                /\ p.type = type => Has(d, type)
  BY HasTail, Zenon
<1>3. /\ DownOrder(e)
      /\ p.type = "ACCEPTED" => ~Has(e, "ACCEPTED")
      /\ p.type = "SYN@" => ~Has(e, "CONFIG") /\ ~Has(e, "PLAYERS")
  BY DownOrderTail DEF DownPath
<1>4. \A type, good : Each(d, type, good) =>
          Each(e, type, good) /\ (p.type = type => p \in good)
  BY EachTail, Zenon
<1>5. \A type, good : EndsIn(d, type, good) =>
          EndsIn(e, type, good) /\ (p.type = type /\ ~Has(e, type) => p \in good)
  BY EndsInTail, Zenon
<1>6. /\ p.type \in {"ACCEPTED", "REJECTED", "QUIT", "CONFIG", "PLAYERS", "SYN@"}
      /\ p.type = "CONFIG" => p \in ConfigPacket
      /\ p.type = "PLAYERS" => p \in PlayersPacket
  BY <1>1, PacketTypes
<1> HIDE DEF p, e
<1>7. /\ c2.client = c.client /\ c2.game = c.game /\ c2.ready = c.ready
      /\ c2 \in Mac /\ u2 \in Seq(Upward)
  <2>1. c2.client = c.client /\ c2.game = c.game /\ c2.ready = c.ready
    BY DEF ClientStep, Mac
  <2> QED
    BY <2>1, ClientStepTypes
<1>8. /\ Unaccepted(c2) <=> Unaccepted(c) /\ p.type # "ACCEPTED"
      /\ Begun(c2) <=> Begun(c)
      /\ "WAIT_SYNC" \in c2.flags <=> "WAIT_SYNC" \in c.flags /\ p.type # "SYN@"
  <2>1. Begun(c2) <=> Begun(c)
    BY <1>7 DEF Begun
  <2>2. c.flags \subseteq Flag
    BY DEF Mac
  <2>3. /\ p.type = "ACCEPTED" => c2.flags = c.flags \ {"NEED_ACCEPT"}
        /\ p.type = "CONFIG" => c2.flags = c.flags \ {"NEED_CONFIG"}
        /\ p.type = "PLAYERS" => c2.flags = c.flags \ {"NEED_PLAYERS"}
        /\ p.type = "SYN@" => c2.flags = c.flags \ {"WAIT_SYNC"}
        /\ p.type \in {"REJECTED", "QUIT"} => c2.flags = c.flags \union {p.type}
    BY DEF ClientStep, p, Mac
  <2>4. "NEED_ACCEPT" \in c2.flags <=> "NEED_ACCEPT" \in c.flags /\ p.type # "ACCEPTED"
    BY <1>6, <2>3
  <2>5. "WAIT_SYNC" \in c2.flags <=> "WAIT_SYNC" \in c.flags /\ p.type # "SYN@"
    BY <1>6, <2>3
  <2> QED
    BY <2>1, <2>4, <2>5 DEF Unaccepted
<1>9. /\ p.type # "ACCEPTED" => u2 = u
      /\ p.type = "ACCEPTED" => u2 = Append(u, PlayerName(m))
  BY DEF ClientStep, p
<1>10. /\ p.type # "CONFIG" => c2.seed = c.seed /\ c2.num = c.num
       /\ p.type # "PLAYERS" => c2.roles = c.roles /\ c2.names = c.names
       /\ p.type = "CONFIG" => c2.seed = p.seed /\ c2.num = p.num
       /\ p.type = "PLAYERS" => c2.roles = p.roles /\ c2.names = p.names
  BY DEF ClientStep, p, Mac
<1>11. p.type = "ACCEPTED" => /\ Unaccepted(c) /\ ~Has(u, "NAME") /\ ~Has(u, "SYNC")
                              /\ ~Begun(c)
  BY <1>2 DEF UpPath, DownPath
<1>12. ~Has(u, "DISC")
  BY DEF UpPath
<1>13. \A type : Has(u2, type) <=> Has(u, type) \/ (p.type = "ACCEPTED" /\ type = "NAME")
  <2>1. ASSUME p.type = "ACCEPTED", NEW type
        PROVE  Has(u2, type) <=> Has(u, type) \/ "NAME" = type
    <3>1. PlayerName(m) \in Upward /\ PlayerName(m).type = "NAME"
      BY DEF PlayerName, Upward
    <3>2. Has(Append(u, PlayerName(m)), type) <=> Has(u, type) \/ PlayerName(m).type = type
      BY <3>1, HasAppend
    <3> QED
      BY <3>1, <3>2, <2>1, <1>9, Zenon
  <2> QED
    BY <2>1, <1>9
<1>14. UpOrder(m, u2)
  <2>1. CASE p.type = "ACCEPTED"
    <3>1. PlayerName(m) \in Upward /\ PlayerName(m).type = "NAME" /\ PlayerName(m).name = m
      BY DEF PlayerName, Upward
    <3>2. UpOrder(m, Append(u, PlayerName(m)))
      BY <3>1, <2>1, <1>11, <1>12, UpOrderAppend DEF UpPath
    <3> QED
      BY <3>2, <2>1, <1>9
  <2>2. CASE p.type # "ACCEPTED"
    BY <2>2, <1>9 DEF UpPath
  <2> QED
    BY <2>1, <2>2
<1>15. UpPath(m, c2, u2)
  BY <1>7, <1>8, <1>11, <1>13, <1>14 DEF UpPath
<1>16. LetIn(c2) => LetIn(c) \/ p.type = "SYN@"
  BY <1>7, <1>8 DEF LetIn
<1>17. DownPath(c2, e)
  BY <1>2, <1>3, <1>7, <1>8, <1>11, <1>16 DEF DownPath, LetIn, Begun
<1>18. Speaks(c2, u2, e) => Speaks(c, u, d)
  BY <1>2, <1>7, <1>8, <1>13 DEF Speaks
<1>19. Started(c2, e) => Started(c, d)
  BY <1>2, <1>16 DEF Started
<1>20. ASSUME NEW f, NEW name, ConnPath(m, c, u, f, name) PROVE ConnPath(m, c2, u2, f, name)
  BY <1>7, <1>8, <1>11, <1>13, <1>20 DEF ConnPath
<1>21. ASSUME NEW f, ReadyPath(c, u, f) PROVE ReadyPath(c2, u2, f)
  BY <1>8, <1>11, <1>13, <1>21 DEF ReadyPath
<1>22. ASSUME NEW count, HostPath(c, d, count) PROVE HostPath(c2, e, count)
  <2>1. Each(e, "CONFIG", Counting(count)) /\ Each(e, "PLAYERS", Assigning(count))
    BY <1>4, <1>22 DEF HostPath
  <2>2. /\ p.type = "CONFIG" => p.num = count
        /\ p.type = "PLAYERS" => SomeRoles(count, p.roles)
    BY <1>4, <1>22 DEF HostPath, Counting, Assigning
  <2>3. c2.num = count /\ SomeRoles(count, c2.roles)
    BY <2>2, <1>10, <1>22, Zenon DEF HostPath
  <2> QED
    BY <2>1, <2>3, <1>7, <1>8, <1>22 DEF HostPath
<1>23. ASSUME NEW s, c.seed <= s, Each(d, "CONFIG", Before(s))
       PROVE  c2.seed <= s /\ Each(e, "CONFIG", Before(s))
  <2>1. p.type = "CONFIG" => p.seed <= s
    BY <1>4, <1>23 DEF Before
  <2>2. c2.seed <= s
    BY <2>1, <1>10, <1>23, Zenon
  <2> QED
    BY <2>2, <1>4, <1>23
<1>24. ASSUME NEW conf, NEW good, Latest(c, d, conf, good) PROVE Latest(c2, e, conf, good)
  <2>1. EndsIn(e, "CONFIG", {conf}) /\ EndsIn(e, "PLAYERS", good)
    BY <1>5, <1>24 DEF Latest
  <2>2. ASSUME ~Has(e, "CONFIG") PROVE ConfigData(c2.seed, c2.num) = conf
    <3>1. CASE p.type = "CONFIG"
      <4>1. p = conf
        BY <3>1, <2>2, <1>5, <1>24 DEF Latest
      <4>2. p = ConfigData(p.seed, p.num)
        BY <3>1, <1>6 DEF ConfigPacket, ConfigData
      <4> QED
        BY <4>1, <4>2, <3>1, <1>10
    <3>2. CASE p.type # "CONFIG"
      BY <3>2, <2>2, <1>2, <1>10, <1>24, Zenon DEF Latest
    <3> QED
      BY <3>1, <3>2
  <2>3. ASSUME ~Has(e, "PLAYERS") PROVE PlayerData(c2.roles, c2.names) \in good
    <3>1. CASE p.type = "PLAYERS"
      <4>1. p \in good
        BY <3>1, <2>3, <1>5, <1>24 DEF Latest
      <4>2. p = PlayerData(p.roles, p.names)
        BY <3>1, <1>6 DEF PlayersPacket, PlayerData
      <4> QED
        BY <4>1, <4>2, <3>1, <1>10
    <3>2. CASE p.type # "PLAYERS"
      BY <3>2, <2>3, <1>2, <1>10, <1>24, Zenon DEF Latest
    <3> QED
      BY <3>1, <3>2
  <2> QED
    BY <2>1, <2>2, <2>3 DEF Latest
<1>25. ASSUME NEW names, NamesPath(c, d, names) PROVE NamesPath(c2, e, names)
  <2>1. EndsIn(e, "PLAYERS", Naming(names))
    BY <1>5, <1>25 DEF NamesPath
  <2>2. ASSUME ~Has(e, "PLAYERS") PROVE c2.names = names
    <3>1. CASE p.type = "PLAYERS"
      <4>1. p \in Naming(names)
        BY <3>1, <2>2, <1>5, <1>25 DEF NamesPath
      <4> QED
        BY <4>1, <3>1, <1>10 DEF Naming
    <3>2. CASE p.type # "PLAYERS"
      BY <3>2, <2>2, <1>2, <1>10, <1>25, Zenon DEF NamesPath
    <3> QED
      BY <3>1, <3>2
  <2> QED
    BY <2>1, <2>2 DEF NamesPath
<1>26. Has(u2, "CONNECT") => Has(u, "CONNECT")
  BY <1>13
<1>27. Follows(m, c, u, d, c2, u2, e)
  BY <1>7, <1>15, <1>17, <1>18, <1>19, <1>20, <1>21, <1>22, <1>23, <1>24, <1>26, Zenon
     DEF Follows
<1> QED
  BY <1>25, <1>27 DEF e

\* So is a step that changes only flags and states nobody waits for.
LEMMA SameFollows ==
    ASSUME NEW m, NEW c, NEW u, NEW d, NEW c2, UpPath(m, c, u), DownPath(c, d),
           c2.client = c.client, c2.num = c.num, c2.seed = c.seed, c2.roles = c.roles,
           c2.names = c.names, c2.ready = c.ready, Unaccepted(c2) <=> Unaccepted(c),
           Begun(c2) <=> Begun(c), LetIn(c2) => LetIn(c),
           c.num = 0 /\ c.game = "menu" => c2.game = "menu",
           c.client = "none" => c2.flags = c.flags
    PROVE  Follows(m, c, u, d, c2, u, d)
<1>1. UpPath(m, c2, u) /\ DownPath(c2, d)
  BY DEF UpPath, DownPath
<1>2. Speaks(c2, u, d) => Speaks(c, u, d)
  BY DEF Speaks
<1>3. Started(c2, d) => Started(c, d)
  BY DEF Started
<1>4. \A f, name : ConnPath(m, c, u, f, name) => ConnPath(m, c2, u, f, name)
  BY DEF ConnPath
<1>5. \A f : ReadyPath(c, u, f) => ReadyPath(c2, u, f)
  BY DEF ReadyPath
<1>6. \A count : HostPath(c, d, count) => HostPath(c2, d, count)
  BY DEF HostPath
<1>7. \A conf, good : Latest(c, d, conf, good) => Latest(c2, d, conf, good)
  BY Zenon DEF Latest
<1>8. \A s : c.seed <= s /\ Each(d, "CONFIG", Before(s)) =>
                 c2.seed <= s /\ Each(d, "CONFIG", Before(s))
  OBVIOUS
<1> QED
  BY <1>1, <1>2, <1>3, <1>4, <1>5, <1>6, <1>7, <1>8, Zenon DEF Follows

\* So is the end of a client, with or without a good-bye.
LEMMA FreedFollows ==
    ASSUME NEW m, NEW c \in Mac, NEW u \in Seq(Upward), NEW d, NEW c2, NEW u2,
           UpPath(m, c, u), c.client = "open",
           c2 = [c EXCEPT !.client = "freed"], u2 \in {u, Append(u, Disconnect)}
    PROVE  Follows(m, c, u, d, c2, u2, <<>>)
<1>1. /\ c2.client = "freed" /\ c2.num = c.num /\ c2.seed = c.seed /\ c2.roles = c.roles
      /\ c2.names = c.names /\ c2.ready = c.ready /\ c2.game = c.game /\ c2.flags = c.flags
  BY DEF Mac
<1>2. Disconnect \in Upward /\ Disconnect.type = "DISC"
  BY DEF Disconnect, Upward
<1>3. ~Has(u, "DISC") /\ UpOrder(m, u)
  BY DEF UpPath
<1>4. \A type : Has(Append(u, Disconnect), type) <=> Has(u, type) \/ Disconnect.type = type
  BY HasAppend, <1>2, Zenon
<1>5. \A type : type # "DISC" => (Has(u2, type) <=> Has(u, type))
  BY <1>2, <1>4
<1>6. UpOrder(m, u2)
  <2>1. UpOrder(m, Append(u, Disconnect))
    BY <1>2, <1>3, UpOrderAppend
  <2> QED
    BY <1>3, <2>1
<1>7. \A type : ~Has(<<>>, type)
  BY HasNone
<1>8. /\ Unaccepted(c2) <=> Unaccepted(c)
      /\ Begun(c2) <=> Begun(c)
      /\ ~LetIn(c2)
  BY <1>1 DEF Unaccepted, Begun, LetIn
<1>9. UpPath(m, c2, u2)
  BY <1>1, <1>5, <1>6, <1>8 DEF UpPath
<1>10. DownPath(c2, <<>>)
  BY <1>7, <1>8 DEF DownPath, DownOrder, AtMostOne
<1>11. Speaks(c2, u2, <<>>) => Speaks(c, u, d)
  BY <1>1, <1>5, <1>7, <1>8 DEF Speaks
<1>12. ~Started(c2, <<>>)
  BY <1>7, <1>8 DEF Started
<1>13. ASSUME NEW f, NEW name, ConnPath(m, c, u, f, name) PROVE ConnPath(m, c2, u2, f, name)
  <2>1. ~IsDead(f)
    BY <1>13 DEF ConnPath
  <2> QED
    BY <2>1, <1>1, <1>5, <1>8, <1>13 DEF ConnPath
<1>14. \A f : ReadyPath(c, u, f) => ReadyPath(c2, u2, f)
  BY <1>5, <1>8 DEF ReadyPath
<1>15. \A type, good : Each(<<>>, type, good)
  BY DEF Each
<1>16. \A count : HostPath(c, d, count) => HostPath(c2, <<>>, count)
  BY <1>1, <1>8, <1>15 DEF HostPath
<1>17. Has(u2, "CONNECT") => Has(u, "CONNECT")
  BY <1>5
<1>18. \A s : c.seed <= s /\ Each(d, "CONFIG", Before(s)) =>
                 c2.seed <= s /\ Each(<<>>, "CONFIG", Before(s))
  BY <1>1, <1>15
<1> QED
  BY <1>1, <1>9, <1>10, <1>11, <1>12, <1>13, <1>14, <1>16, <1>17, <1>18 DEF Follows

\* So is GAME_BEGIN, with the request to go on.
LEMMA BeginFollows ==
    ASSUME NEW m, NEW c \in Mac, NEW u \in Seq(Upward), NEW d, NEW c2, NEW u2,
           UpPath(m, c, u), DownPath(c, d), c.game = "GAME_BEGIN",
           c.client = "open" => c.flags = {},
           c2 = [c EXCEPT !.game = "INVENTORY_BEGIN", !.ready = c.num,
                          !.flags = IF c.client = "open" THEN {"WAIT_SYNC"} ELSE @],
           u2 = IF c.client = "open" THEN Append(u, SyncRqst) ELSE u
    PROVE  Follows(m, c, u, d, c2, u2, d)
<1>1. /\ c2.client = c.client /\ c2.num = c.num /\ c2.seed = c.seed /\ c2.roles = c.roles
      /\ c2.names = c.names /\ c2.ready = c.num /\ c2.game = "INVENTORY_BEGIN"
      /\ c2.flags = IF c.client = "open" THEN {"WAIT_SYNC"} ELSE c.flags
  BY DEF Mac
<1>2. SyncRqst \in Upward /\ SyncRqst.type = "SYNC"
  BY DEF SyncRqst, Upward
<1>3. UpOrder(m, u) /\ (c.client = "open" => ~Has(u, "DISC"))
  BY DEF UpPath
<1>4. \A type : Has(Append(u, SyncRqst), type) <=> Has(u, type) \/ SyncRqst.type = type
  BY HasAppend, <1>2, Zenon
<1>5. \A type : type # "SYNC" => (Has(u2, type) <=> Has(u, type))
  BY <1>2, <1>4
<1>6. Has(u2, "SYNC") => Has(u, "SYNC") \/ c.client = "open"
  BY <1>2, <1>4
<1>7. UpOrder(m, u2)
  <2>1. CASE c.client = "open"
    <3>1. UpOrder(m, Append(u, SyncRqst))
      BY <1>2, <1>3, <2>1, UpOrderAppend
    <3> QED
      BY <2>1, <3>1
  <2> QED
    BY <1>3, <2>1
<1>8. /\ Unaccepted(c2) <=> Unaccepted(c)
      /\ Begun(c2) /\ ~Begun(c) /\ ~LetIn(c2)
      /\ c.client = "open" => ~Unaccepted(c)
  BY <1>1 DEF Unaccepted, Begun, LetIn
<1>9. UpPath(m, c2, u2)
  <2>1. c2.client = "none" => u2 = <<>> /\ c2.flags = {}
    BY <1>1 DEF UpPath
  <2>2. Has(u2, "NAME") \/ Has(u2, "SYNC") => ~Unaccepted(c2)
    BY <1>5, <1>6, <1>8 DEF UpPath
  <2>3. Has(u2, "DISC") => c2.client = "freed"
    BY <1>1, <1>5 DEF UpPath
  <2> QED
    BY <2>1, <2>2, <2>3, <1>1, <1>7, <1>8, Zenon DEF UpPath
<1>10. DownPath(c2, d)
  BY <1>1, <1>8 DEF DownPath
<1>11. Speaks(c2, u2, d) => Speaks(c, u, d)
  BY <1>1, <1>5, <1>6, <1>8 DEF Speaks
<1>12. Started(c2, d) => Started(c, d)
  BY <1>8 DEF Started
<1>13. ASSUME NEW f, NEW name, ConnPath(m, c, u, f, name) PROVE ConnPath(m, c2, u2, f, name)
  BY <1>1, <1>5, <1>8, <1>13 DEF ConnPath
<1>14. \A f : ReadyPath(c, u, f) => ReadyPath(c2, u2, f)
  BY <1>8 DEF ReadyPath
<1>15. \A count : HostPath(c, d, count) => HostPath(c2, d, count)
  BY <1>1, <1>8 DEF HostPath
<1>16. Has(u2, "CONNECT") => Has(u, "CONNECT")
  BY <1>5
<1>17. \A conf, good : Latest(c, d, conf, good) => Latest(c2, d, conf, good)
  BY <1>1, Zenon DEF Latest
<1>18. \A s : c.seed <= s /\ Each(d, "CONFIG", Before(s)) =>
                 c2.seed <= s /\ Each(d, "CONFIG", Before(s))
  BY <1>1
<1> QED
  BY <1>1, <1>9, <1>10, <1>11, <1>12, <1>13, <1>14, <1>15, <1>16, <1>17, <1>18 DEF Follows
-----------------------------------------------------------------------------
(* What the server does with a packet: it takes it and notes something     *)
(* about the connection, and then tells its clients.                       *)

Alike(c, c2) ==
    /\ c2.client = c.client /\ c2.num = c.num /\ c2.seed = c.seed /\ c2.roles = c.roles
    /\ c2.ready = c.ready /\ c2.game = c.game /\ c2.flags = c.flags

\* What is required of a machine does not depend on names and the cut.
LEMMA AlikePaths ==
    ASSUME NEW c, NEW c2, Alike(c, c2)
    PROVE  /\ Unaccepted(c2) <=> Unaccepted(c)
           /\ Begun(c2) <=> Begun(c)
           /\ LetIn(c2) <=> LetIn(c)
           /\ \A d : DownPath(c, d) => DownPath(c2, d)
           /\ \A d : Started(c2, d) => Started(c, d)
           /\ \A d, count : HostPath(c, d, count) => HostPath(c2, d, count)
<1>1. /\ Unaccepted(c2) <=> Unaccepted(c)
      /\ Begun(c2) <=> Begun(c)
      /\ LetIn(c2) <=> LetIn(c)
  BY DEF Alike, Unaccepted, Begun, LetIn
<1>2. \A d : DownPath(c, d) => DownPath(c2, d)
  BY <1>1 DEF DownPath, Alike
<1>3. \A d : Started(c2, d) => Started(c, d)
  BY <1>1 DEF Started
<1>4. \A d, count : HostPath(c, d, count) => HostPath(c2, d, count)
  BY <1>1 DEF HostPath, Alike
<1> QED
  BY <1>1, <1>2, <1>3, <1>4

Taken(u, u2) == u2 = u \/ (u # <<>> /\ u2 = Tail(u))

\* Nor does taking one of its packets break what is required of it.
LEMMA TakenPaths ==
    ASSUME NEW m, NEW c, NEW c2, Alike(c, c2), NEW u \in Seq(Upward), NEW u2, Taken(u, u2),
           UpPath(m, c, u)
    PROVE  /\ \A type : Has(u2, type) => Has(u, type)
           /\ UpPath(m, c2, u2)
           /\ \A d : Speaks(c2, u2, d) => Speaks(c, u, d)
<1>1. \A type : Has(u2, type) => Has(u, type)
  BY HasTail, Zenon DEF Taken
<1>2. UpOrder(m, u2)
  BY UpOrderTail DEF Taken, UpPath
<1>3. /\ Unaccepted(c2) <=> Unaccepted(c)
      /\ Begun(c2) <=> Begun(c)
  BY AlikePaths
<1>4. u = <<>> => u2 = <<>>
  BY DEF Taken
<1>5. UpPath(m, c2, u2)
  BY <1>1, <1>2, <1>3, <1>4, Zenon DEF UpPath, Alike
<1>6. \A d : Speaks(c2, u2, d) => Speaks(c, u, d)
  BY <1>1, <1>3 DEF Speaks, Alike
<1> QED
  BY <1>1, <1>5, <1>6

\* A machine that is ready stays so when one of its packets is taken.
LEMMA TakenReady ==
    ASSUME NEW m, NEW c, NEW c2, Alike(c, c2), NEW u \in Seq(Upward), NEW u2, Taken(u, u2),
           UpPath(m, c, u), NEW f, NEW f2, ReadyPath(c, u, f),
           "NEED_ACCEPT" \in f2 => "NEED_ACCEPT" \in f
    PROVE  ReadyPath(c2, u2, f2)
BY TakenPaths, AlikePaths DEF ReadyPath

SameQueue(w, v) ==
    /\ v.srv.clients = w.srv.clients /\ v.srv.pending = w.srv.pending
    /\ v.srv.up = w.srv.up /\ Len(v.srv.flags) = Len(w.srv.flags)
    /\ w.srv.seeds <= v.srv.seeds

\* The server takes packets and changes its flags: what is left to show is
\* that each connection still fits its flags and name.
LEMMA Noted ==
    ASSUME NEW w \in Worlds, NEW v \in Worlds, NEW names, NEW names2,
           CoreInv(w, names), SameQueue(w, v), v.srv.seeds = w.srv.seeds, v.down = w.down,
           \A j \in Machine : Alike(w.mac[j], v.mac[j]) /\ Taken(w.up[j], v.up[j]),
           \A k \in Numbers(w) :
               /\ "NEED_ACCEPT" \in v.srv.flags[k] => "NEED_ACCEPT" \in w.srv.flags[k]
               /\ "NEED_ACCEPT" \in v.srv.flags[k] \/ "NEED_ACCEPT" \notin w.srv.flags[k]
                    \/ ~Has(v.up[w.srv.clients[k]], "CONNECT"),
           ConnInv(v, names2)
    PROVE  CoreInv(v, names2)
<1>1. /\ QueueInv(w) /\ MachineInv(w) /\ SeedInv(w) /\ StartInv(w) /\ HostInv(w)
  BY DEF CoreInv
<1>2. \A k \in Numbers(w) : w.srv.clients[k] \in Machine
  BY WorldParts
<1>3. v.srv.clients = w.srv.clients /\ Numbers(v) = Numbers(w) /\ v.srv.up = w.srv.up
  BY DEF SameQueue, Numbers
<1>4. QueueInv(v)
  <2>1. \A j \in Machine : /\ v.mac[j].client = w.mac[j].client /\ v.mac[j].num = w.mac[j].num
                           /\ v.mac[j].game = w.mac[j].game
    BY DEF Alike
  <2>2. \A k \in 1 .. Len(w.srv.pending) : w.srv.pending[k] \in Machine
    BY WorldParts
  <2> QED
    BY <1>1, <2>1, <2>2, Hosts DEF QueueInv, SameQueue
<1>5. \A j \in Machine : Admitted(w, j) => Admitted(v, j)
  BY <1>3 DEF Admitted
<1>6. MachineInv(v)
  <2> SUFFICES ASSUME NEW j \in Machine
               PROVE  /\ UpPath(j, v.mac[j], v.up[j]) /\ DownPath(v.mac[j], v.down[j])
                      /\ Speaks(v.mac[j], v.up[j], v.down[j]) => Admitted(v, j)
                      /\ Has(v.up[j], "CONNECT") => ~Admitted(v, j)
    BY Zenon DEF MachineInv
  <2>1. /\ UpPath(j, w.mac[j], w.up[j]) /\ DownPath(w.mac[j], w.down[j])
        /\ Speaks(w.mac[j], w.up[j], w.down[j]) => Admitted(w, j)
        /\ Has(w.up[j], "CONNECT") => ~Admitted(w, j)
    BY <1>1, Zenon DEF MachineInv
  <2>2. Alike(w.mac[j], v.mac[j]) /\ Taken(w.up[j], v.up[j]) /\ w.up[j] \in Seq(Upward)
    BY WorldParts
  <2>3. UpPath(j, v.mac[j], v.up[j]) /\ (Has(v.up[j], "CONNECT") => Has(w.up[j], "CONNECT"))
        /\ (Speaks(v.mac[j], v.up[j], w.down[j]) => Speaks(w.mac[j], w.up[j], w.down[j]))
    BY ONLY <2>1, <2>2, TakenPaths
  <2>4. DownPath(v.mac[j], v.down[j])
    BY <2>1, <2>2, AlikePaths
  <2>5. ASSUME Has(v.up[j], "CONNECT"), Admitted(v, j) PROVE FALSE
    <3>1. PICK k \in Numbers(w) : w.srv.clients[k] = j /\ "NEED_ACCEPT" \notin v.srv.flags[k]
      BY <2>5, <1>3 DEF Admitted
    <3>2. "NEED_ACCEPT" \notin w.srv.flags[k]
      BY <3>1, <2>5
    <3> QED
      BY <3>1, <3>2, <2>1, <2>3, <2>5 DEF Admitted
  <2> QED
    BY <2>1, <2>3, <2>4, <2>5, <1>5
<1>7. SeedInv(v)
  <2>1. \A j \in Machine : v.mac[j].seed = w.mac[j].seed
    BY DEF Alike
  <2> QED
    BY <1>1, <2>1 DEF SeedInv
<1>8. StartInv(v)
  <2> SUFFICES ASSUME NEW i \in Machine, Started(v.mac[i], v.down[i]) PROVE AllReady(v)
    BY DEF StartInv
  <2>1. Started(w.mac[i], w.down[i])
    BY AlikePaths
  <2>2. AllReady(w)
    BY <2>1, <1>1 DEF StartInv
  <2>3. ASSUME NEW k \in Numbers(w)
        PROVE  ReadyPath(v.mac[w.srv.clients[k]], v.up[w.srv.clients[k]], v.srv.flags[k])
    <3> DEFINE j == w.srv.clients[k]
    <3>1. j \in Machine /\ ReadyPath(w.mac[j], w.up[j], w.srv.flags[k])
      BY <1>2, <2>2 DEF AllReady
    <3> HIDE DEF j
    <3>2. UpPath(j, w.mac[j], w.up[j])
      BY <1>1, <3>1, Zenon DEF MachineInv
    <3>3. Alike(w.mac[j], v.mac[j]) /\ Taken(w.up[j], v.up[j]) /\ w.up[j] \in Seq(Upward)
      BY <3>1, WorldParts
    <3>4. "NEED_ACCEPT" \in v.srv.flags[k] => "NEED_ACCEPT" \in w.srv.flags[k]
      OBVIOUS
    <3>5. ReadyPath(v.mac[j], v.up[j], v.srv.flags[k])
      BY ONLY <3>1, <3>2, <3>3, <3>4, TakenReady
    <3> QED
      BY <3>5 DEF j
  <2> QED
    BY <2>2, <2>3, <1>3 DEF AllReady
<1>9. HostInv(v)
  <2>1. Alike(w.mac[Host], v.mac[Host])
    BY Hosts
  <2> QED
    BY <2>1, <1>1, <1>3, AlikePaths DEF HostInv
<1> QED
  BY <1>4, <1>6, <1>7, <1>8, <1>9 DEF CoreInv

\* Some of the clients, J, are sent a packet each, all of one type.
Tells(w, v, J, X, type) ==
    /\ v.mac = w.mac /\ v.up = w.up /\ SameQueue(w, v) /\ v.srv.flags = w.srv.flags
    /\ J \subseteq Machine
    /\ \A j \in Machine : v.down[j] = IF j \in J THEN Append(w.down[j], X[j]) ELSE w.down[j]
    /\ \A j \in J : X[j] \in Downward /\ X[j].type = type /\ w.mac[j].client = "open"

\* Packets are sent to some of the clients: what is left to show is that
\* their type may be sent now, with these contents.
LEMMA Told ==
    ASSUME NEW w \in Worlds, NEW v \in Worlds, NEW names, NEW J, NEW X, NEW type,
           CoreInv(w, names), Tells(w, v, J, X, type),
           type = "ACCEPTED" => \A j \in J : /\ Unaccepted(w.mac[j]) /\ Admitted(w, j)
                                             /\ ~Has(w.down[j], "ACCEPTED"),
           type \in {"CONFIG", "PLAYERS"} =>
               \A j \in Machine : ~Started(w.mac[j], w.down[j]),
           type = "CONFIG" =>
               \A j \in J : X[j].seed <= v.srv.seeds /\ X[j].num = Len(w.srv.clients),
           type = "PLAYERS" =>
               (Host \in J => SomeRoles(Len(w.srv.clients), X[Host].roles)),
           type = "SYN@" => AllReady(w)
    PROVE  CoreInv(v, names)
<1>1. /\ QueueInv(w) /\ MachineInv(w) /\ ConnInv(w, names) /\ SeedInv(w) /\ StartInv(w)
      /\ HostInv(w)
  BY DEF CoreInv
<1>2. /\ v.srv.clients = w.srv.clients /\ Numbers(v) = Numbers(w) /\ v.srv.up = w.srv.up
      /\ v.mac = w.mac /\ v.up = w.up /\ v.srv.flags = w.srv.flags
      /\ v.srv.pending = w.srv.pending /\ w.srv.seeds <= v.srv.seeds
      /\ w.srv.seeds \in Nat /\ v.srv.seeds \in Nat
      /\ J \subseteq Machine
  BY WorldParts DEF Tells, SameQueue, Numbers
<1>3. QueueInv(v) /\ ConnInv(v, names)
  BY <1>1, <1>2 DEF QueueInv, ConnInv
<1>4. \A j \in Machine : Admitted(v, j) <=> Admitted(w, j)
  BY <1>2 DEF Admitted
<1>5. AllReady(v) <=> AllReady(w)
  BY <1>2 DEF AllReady
<1>6. \A j \in Machine : w.down[j] \in Seq(Downward)
  BY WorldParts
<1>7. \A j \in J : /\ v.down[j] = Append(w.down[j], X[j]) /\ w.mac[j].client = "open"
                   /\ X[j] \in Downward /\ X[j].type = type /\ j \in Machine
  BY <1>2 DEF Tells
<1>8. \A j \in Machine \ J : v.down[j] = w.down[j]
  BY DEF Tells
<1>9. ASSUME NEW j \in J, NEW t
      PROVE  Has(v.down[j], t) <=> Has(w.down[j], t) \/ t = type
  <2>1. Has(Append(w.down[j], X[j]), t) <=> Has(w.down[j], t) \/ X[j].type = t
    BY <1>6, <1>7, HasAppend
  <2> QED
    BY <2>1, <1>7, Zenon
<1>10. MachineInv(v)
  <2> SUFFICES ASSUME NEW j \in Machine
               PROVE  /\ UpPath(j, w.mac[j], w.up[j]) /\ DownPath(w.mac[j], v.down[j])
                      /\ Speaks(w.mac[j], w.up[j], v.down[j]) => Admitted(w, j)
                      /\ Has(w.up[j], "CONNECT") => ~Admitted(w, j)
    BY <1>2, <1>4, Zenon DEF MachineInv
  <2>1. /\ UpPath(j, w.mac[j], w.up[j]) /\ DownPath(w.mac[j], w.down[j])
        /\ Speaks(w.mac[j], w.up[j], w.down[j]) => Admitted(w, j)
        /\ Has(w.up[j], "CONNECT") => ~Admitted(w, j)
    BY <1>1, Zenon DEF MachineInv
  <2>2. CASE j \notin J
    BY <2>1, <2>2, <1>8
  <2>3. CASE j \in J
    <3>1. DownOrder(v.down[j])
      <4>1. DownOrder(w.down[j])
        BY <2>1 DEF DownPath
      <4>2. type \in {"CONFIG", "PLAYERS"} => ~Has(w.down[j], "SYN@")
        BY DEF Started
      <4>3. DownOrder(Append(w.down[j], X[j]))
        BY <4>1, <4>2, <2>3, <1>6, <1>7, DownOrderAppend
      <4> QED
        BY <4>3, <2>3, <1>7
    <3>2. /\ Has(v.down[j], "ACCEPTED") <=> Has(w.down[j], "ACCEPTED") \/ type = "ACCEPTED"
          /\ Has(v.down[j], "CONFIG") <=> Has(w.down[j], "CONFIG") \/ type = "CONFIG"
          /\ Has(v.down[j], "PLAYERS") <=> Has(w.down[j], "PLAYERS") \/ type = "PLAYERS"
      BY <1>9, <2>3
    <3>3. type \in {"CONFIG", "PLAYERS"} => ~LetIn(w.mac[j])
      BY DEF Started
    <3>4. DownPath(w.mac[j], v.down[j])
      BY <3>1, <3>2, <3>3, <2>1, <2>3, <1>7 DEF DownPath
    <3>5. Speaks(w.mac[j], w.up[j], v.down[j]) => Admitted(w, j)
      BY <3>2, <2>1, <2>3 DEF Speaks
    <3> QED
      BY <3>4, <3>5, <2>1
  <2> QED
    BY <2>2, <2>3
<1>11. SeedInv(v)
  <2> SUFFICES ASSUME NEW j \in Machine
               PROVE  /\ w.mac[j].seed <= v.srv.seeds
                      /\ Each(v.down[j], "CONFIG", Before(v.srv.seeds))
    BY <1>2 DEF SeedInv
  <2>1. w.mac[j].seed <= w.srv.seeds /\ Each(w.down[j], "CONFIG", Before(w.srv.seeds))
    BY <1>1 DEF SeedInv
  <2>2. w.mac[j].seed \in Nat
    BY WorldParts DEF Mac
  <2>3. Before(w.srv.seeds) \subseteq Before(v.srv.seeds)
    BY <1>2 DEF Before, ConfigPacket
  <2>4. Each(v.down[j], "CONFIG", Before(v.srv.seeds))
    <3>1. CASE j \notin J
      BY <3>1, <2>1, <2>3, <1>8 DEF Each
    <3>2. CASE j \in J
      <4>1. X[j].type = "CONFIG" => X[j] \in Before(v.srv.seeds)
        BY <3>2, <1>7, PacketTypes DEF Before
      <4>2. Each(Append(w.down[j], X[j]), "CONFIG", Before(v.srv.seeds))
        BY <4>1, <3>2, <2>1, <2>3, <1>6, <1>7, EachAppend
      <4> QED
        BY <4>2, <3>2, <1>7
    <3> QED
      BY <3>1, <3>2
  <2> QED
    BY <2>1, <2>2, <2>4, <1>2
<1>12. StartInv(v)
  <2> SUFFICES ASSUME NEW j \in Machine, Started(w.mac[j], v.down[j]) PROVE AllReady(w)
    BY <1>2, <1>5 DEF StartInv
  <2>1. CASE type = "SYN@"
    BY <2>1
  <2>2. CASE type # "SYN@"
    <3>1. Has(v.down[j], "SYN@") => Has(w.down[j], "SYN@")
      BY <2>2, <1>8, <1>9
    <3>2. Started(w.mac[j], w.down[j])
      BY <3>1 DEF Started
    <3> QED
      BY <3>2, <1>1 DEF StartInv
  <2> QED
    BY <2>1, <2>2
<1>13. HostInv(v)
  <2> DEFINE count == Len(w.srv.clients)
             d == w.down[Host]
  <2> SUFFICES ASSUME w.srv.up PROVE HostPath(w.mac[Host], v.down[Host], count)
    BY <1>2 DEF HostInv
  <2>1. HostPath(w.mac[Host], d, count)
    BY <1>1 DEF HostInv
  <2>2. CASE Host \notin J
    BY <2>1, <2>2, <1>8, Hosts
  <2>3. CASE Host \in J
    <3>1. X[Host].type = "CONFIG" => X[Host] \in Counting(count)
      BY <2>3, <1>7, PacketTypes DEF Counting
    <3>2. X[Host].type = "PLAYERS" => X[Host] \in Assigning(count)
      BY <2>3, <1>7, PacketTypes DEF Assigning
    <3>3. Each(d, "CONFIG", Counting(count)) /\ Each(d, "PLAYERS", Assigning(count))
      BY <2>1 DEF HostPath
    <3>4. d \in Seq(Downward) /\ X[Host] \in Downward /\ v.down[Host] = Append(d, X[Host])
      BY <2>3, <1>6, <1>7
    <3> HIDE DEF d, count
    <3>5. Each(v.down[Host], "CONFIG", Counting(count))
      BY <3>1, <3>3, <3>4, EachAppend
    <3>6. Each(v.down[Host], "PLAYERS", Assigning(count))
      BY <3>2, <3>3, <3>4, EachAppend
    <3> QED
      BY <3>5, <3>6, <2>1 DEF HostPath
  <2> QED
    BY <2>2, <2>3
<1> QED
  BY <1>3, <1>10, <1>11, <1>12, <1>13 DEF CoreInv
-----------------------------------------------------------------------------
(* The configuration, sent to everyone.                                    *)

LEMMA Identified ==
    ASSUME NEW w \in Worlds, QueueInv(w)
    PROVE  /\ Connections(w) = {w.srv.clients[k] : k \in Numbers(w)}
           /\ \A k \in Numbers(w) :
                 /\ k - 1 \in Ids(w) /\ k - 1 \in Slot /\ MachineOf(w, k - 1) = w.srv.clients[k]
                 /\ IdOf(w, w.srv.clients[k]) = k - 1
           /\ \A id \in Ids(w) : id + 1 \in Numbers(w) /\ id \in Slot
<1> DEFINE q == w.srv.clients
<1>1. q \in Seq(Machine) /\ Len(q) \in Nat /\ Numbers(w) = DOMAIN q
  BY WorldParts DEF Numbers
<1>2. Connections(w) = {q[k] : k \in Numbers(w)}
  BY <1>1 DEF Connections, Range
<1>3. Len(q) <= MaxPlayers /\ Distinct(q)
  BY DEF QueueInv
<1> HIDE DEF q
<1>4. Ids(w) = 0 .. Len(q) - 1 /\ Numbers(w) = 1 .. Len(q)
  BY DEF Ids, Numbers, q
<1>5. ASSUME NEW k \in Numbers(w)
      PROVE  k - 1 \in Ids(w) /\ k - 1 \in Slot /\ MachineOf(w, k - 1) = q[k]
  <2>1. k - 1 \in 0 .. Len(q) - 1 /\ k - 1 \in Slot /\ (k - 1) + 1 = k
    BY <1>1, <1>3, <1>4, MachineAssumption DEF Slot
  <2> QED
    BY <2>1, <1>4 DEF MachineOf, q
<1>6. ASSUME NEW id \in Ids(w) PROVE id + 1 \in Numbers(w) /\ id \in Slot
  BY <1>1, <1>3, <1>4, MachineAssumption DEF Slot
<1>7. ASSUME NEW k \in Numbers(w) PROVE IdOf(w, q[k]) = k - 1
  <2>1. ASSUME NEW id \in Ids(w), MachineOf(w, id) = q[k] PROVE id = k - 1
    <3>1. id + 1 \in Numbers(w) /\ q[id + 1] = q[k]
      BY <2>1, <1>6 DEF MachineOf, q
    <3>2. id + 1 = k
      BY <3>1, <1>3, <1>4 DEF Distinct
    <3> QED
      BY <3>2, <1>4
  <2> QED
    BY <1>5, <2>1 DEF IdOf
<1> QED
  BY <1>2, <1>5, <1>6, <1>7 DEF q

\* The clients that can be sent something, and what they are sent.
Listening(w) == {m \in Connections(w) : w.mac[m].client = "open"}
NewConfig(w) == ConfigData(w.srv.seeds + 1, w.mac[Host].num)
NewPlayers(w, m) ==
    PlayerData([s \in Slot |-> RoleFor(IdOf(w, m), s, w.mac[Host].roles)], w.mac[Host].names)

Informs(w, v) ==
    /\ v.mac = w.mac /\ v.up = w.up /\ SameQueue(w, v) /\ v.srv.flags = w.srv.flags
    /\ v.srv.seeds = w.srv.seeds + 1
    /\ \A j \in Machine :
          v.down[j] = IF j \in Listening(w)
                      THEN Append(Append(w.down[j], NewConfig(w)), NewPlayers(w, j))
                      ELSE w.down[j]

\* The packets of a configuration are of the right types.
LEMMA NewPackets ==
    ASSUME NEW w \in Worlds
    PROVE  /\ NewConfig(w) \in ConfigPacket /\ NewConfig(w) \in Downward
           /\ \A m : NewPlayers(w, m) \in PlayersPacket /\ NewPlayers(w, m) \in Downward
<1>1. w.mac[Host] \in Mac /\ w.srv.seeds + 1 \in Nat
  BY WorldParts, Hosts
<1>2. w.mac[Host].num \in Counts /\ w.mac[Host].roles \in [Slot -> Role]
      /\ w.mac[Host].names \in [Slot -> Known]
  BY <1>1 DEF Mac
<1>3. NewConfig(w) \in ConfigPacket
  BY <1>1, <1>2 DEF NewConfig, ConfigData, ConfigPacket
<1>4. ASSUME NEW m PROVE NewPlayers(w, m) \in PlayersPacket
  <2>1. \A id, s : s \in Slot => RoleFor(id, s, w.mac[Host].roles) \in Role
    BY <1>2 DEF RoleFor, Role
  <2>2. [s \in Slot |-> RoleFor(IdOf(w, m), s, w.mac[Host].roles)] \in [Slot -> Role]
    BY <2>1
  <2> QED
    BY <2>2, <1>2 DEF NewPlayers, PlayerData, PlayersPacket
<1> QED
  BY <1>3, <1>4 DEF Downward

\* A new configuration, sent while nobody has been let in, is the last one
\* everybody has been told.
LEMMA Informed ==
    ASSUME NEW w \in Worlds, NEW v \in Worlds, CoreInv(w, w.mac[Host].names), w.srv.up,
           \A j \in Machine : ~Started(w.mac[j], w.down[j]), Informs(w, v)
    PROVE  /\ CoreInv(v, w.mac[Host].names) /\ LatestInv(v, w.mac[Host].names)
           /\ w.srv.clients # <<>> \/ NamesInv(w, w.mac[Host].names) =>
                  NamesInv(v, w.mac[Host].names)
<1> DEFINE J == Listening(w)
           names == w.mac[Host].names
           q == w.srv.clients
           C == NewConfig(w)
           P == [j \in Machine |-> NewPlayers(w, j)]
           X == [j \in Machine |-> C]
           x == [srv |-> v.srv, mac |-> w.mac, up |-> w.up,
                 down |-> [j \in Machine |-> IF j \in J THEN Append(w.down[j], C)
                                             ELSE w.down[j]]]
<1>1. QueueInv(w) /\ MachineInv(w) /\ HostInv(w)
  BY DEF CoreInv
<1>2. /\ C \in ConfigPacket /\ C \in Downward /\ C.type = "CONFIG"
      /\ C.seed = w.srv.seeds + 1 /\ C.num = w.mac[Host].num
  BY NewPackets DEF ConfigPacket, NewConfig, ConfigData
<1>3. \A j \in Machine : /\ P[j] \in PlayersPacket /\ P[j] \in Downward /\ P[j].type = "PLAYERS"
                         /\ P[j].names = names
                         /\ P[j].roles = [s \in Slot |-> RoleFor(IdOf(w, j), s, w.mac[Host].roles)]
  BY NewPackets DEF PlayersPacket, NewPlayers, PlayerData
<1>4. w.mac[Host].num = Len(q) /\ SomeRoles(Len(q), w.mac[Host].roles)
  BY <1>1 DEF HostInv, HostPath
<1>5. J \subseteq Machine /\ \A j \in J : w.mac[j].client = "open"
  <2>1. \A k \in Numbers(w) : q[k] \in Machine
    BY WorldParts
  <2> QED
    BY <2>1, <1>1, Identified DEF Listening
<1>6. /\ v.mac = w.mac /\ v.up = w.up /\ SameQueue(w, v) /\ v.srv.flags = w.srv.flags
      /\ v.srv.seeds = w.srv.seeds + 1
      /\ \A j \in Machine : v.down[j] = IF j \in J THEN Append(Append(w.down[j], C), P[j])
                                        ELSE w.down[j]
  BY DEF Informs
<1>7. \A j \in Machine : w.down[j] \in Seq(Downward)
  BY WorldParts
<1>8. x \in Worlds
  <2>1. \A j \in Machine : x.down[j] \in Seq(Downward)
    BY <1>2, <1>7
  <2>2. x.down \in [Machine -> Seq(Downward)]
    BY <2>1
  <2>3. v.srv \in Srv /\ w.mac \in [Machine -> Mac] /\ w.up \in [Machine -> Seq(Upward)]
    BY DEF Worlds
  <2> QED
    BY <2>2, <2>3 DEF Worlds
<1>9. \A j \in J : X[j] = C
  BY <1>5
<1>10. /\ x.srv = v.srv /\ x.mac = w.mac /\ x.up = w.up
       /\ \A j \in Machine : x.down[j] = IF j \in J THEN Append(w.down[j], C) ELSE w.down[j]
  OBVIOUS
<1> HIDE DEF J, C, P, X, x, names, q
<1>11. Tells(w, x, J, X, "CONFIG")
  <2>1. SameQueue(w, x)
    BY <1>6, <1>10 DEF SameQueue
  <2>2. \A j \in J : X[j] \in Downward /\ X[j].type = "CONFIG" /\ w.mac[j].client = "open"
    BY <1>2, <1>5, <1>9
  <2>3. \A j \in Machine : x.down[j] = IF j \in J THEN Append(w.down[j], X[j]) ELSE w.down[j]
    BY <1>9, <1>10
  <2> QED
    BY <2>1, <2>2, <2>3, <1>5, <1>6, <1>10 DEF Tells
<1>12. CoreInv(x, names)
  <2>1. \A j \in J : X[j].seed <= x.srv.seeds /\ X[j].num = Len(w.srv.clients)
    <3>1. w.srv.seeds + 1 \in Nat
      BY WorldParts
    <3> QED
      BY <3>1, <1>2, <1>4, <1>6, <1>9, <1>10 DEF q
  <2> QED
    BY <2>1, <1>8, <1>11, Told DEF names
<1>13. \A j \in Machine : x.down[j] \in Seq(Downward)
  BY <1>8, WorldParts
<1>14. ASSUME NEW j \in J, NEW type
       PROVE  Has(x.down[j], type) <=> Has(w.down[j], type) \/ type = "CONFIG"
  <2>1. Has(Append(w.down[j], C), type) <=> Has(w.down[j], type) \/ C.type = type
    BY <1>2, <1>5, <1>7, HasAppend
  <2> QED
    BY <2>1, <1>2, <1>5, <1>10
<1>15. \A j \in Machine : ~Started(x.mac[j], x.down[j])
  <2> SUFFICES ASSUME NEW j \in Machine, Has(x.down[j], "SYN@") PROVE Has(w.down[j], "SYN@")
    BY <1>10 DEF Started
  <2> QED
    BY <1>10, <1>14
<1>16. Tells(x, v, J, P, "PLAYERS")
  <2>1. SameQueue(x, v)
    <3>1. v.srv.seeds <= v.srv.seeds
      BY WorldParts
    <3> QED
      BY <3>1, <1>10 DEF SameQueue
  <2>2. \A j \in J : P[j] \in Downward /\ P[j].type = "PLAYERS" /\ x.mac[j].client = "open"
    BY <1>3, <1>5, <1>10
  <2>3. \A j \in Machine : v.down[j] = IF j \in J THEN Append(x.down[j], P[j]) ELSE x.down[j]
    BY <1>6, <1>10
  <2> QED
    BY <2>1, <2>2, <2>3, <1>5, <1>6, <1>10 DEF Tells
<1>17. CoreInv(v, names)
  <2>1. Host \in J => SomeRoles(Len(x.srv.clients), P[Host].roles)
    <3>1. x.srv.clients = q
      BY <1>6, <1>10 DEF SameQueue, q
    <3>2. Len(q) \in Nat /\ Len(q) <= MaxPlayers
      BY <1>1, WorldParts DEF QueueInv, q
    <3>3. \A s \in 0 .. Len(q) - 1 : s \in Slot
      BY <3>2, MachineAssumption DEF Slot
    <3>4. \A id, s :
             s \in 0 .. Len(q) - 1 =>
                RoleFor(id, s, w.mac[Host].roles) \in {"human", "network"}
      BY <1>4 DEF RoleFor, SomeRoles
    <3>5. P[Host].roles = [s \in Slot |-> RoleFor(IdOf(w, Host), s, w.mac[Host].roles)]
      BY <1>3, Hosts
    <3>6. ASSUME NEW s \in 0 .. Len(q) - 1 PROVE P[Host].roles[s] \in {"human", "network"}
      <4>1. P[Host].roles[s] = RoleFor(IdOf(w, Host), s, w.mac[Host].roles)
        BY <3>3, <3>5
      <4> QED
        BY <3>4, <4>1
    <3>7. SomeRoles(Len(q), P[Host].roles)
      BY <3>6 DEF SomeRoles
    <3> QED
      BY <3>1, <3>7
  <2> QED
    BY <2>1, <1>8, <1>12, <1>15, <1>16, Told
<1>18. ASSUME NEW j \in J
       PROVE  /\ v.down[j] = Append(x.down[j], P[j]) /\ x.down[j] = Append(w.down[j], C)
              /\ w.down[j] \in Seq(Downward) /\ x.down[j] \in Seq(Downward)
              /\ P[j] \in PlayersPacket /\ P[j] \in Downward /\ P[j].type = "PLAYERS"
              /\ j \in Machine
  BY <1>3, <1>5, <1>6, <1>7, <1>10, <1>13
<1>19. ASSUME NEW j \in J
       PROVE  Has(v.down[j], "CONFIG") /\ Has(v.down[j], "PLAYERS")
  <2>1. Has(x.down[j], "CONFIG")
    BY <1>14
  <2>2. x.down[j] \in Seq(Downward) /\ P[j] \in Downward /\ P[j].type = "PLAYERS"
        /\ v.down[j] = Append(x.down[j], P[j])
    BY <1>18
  <2>3. Has(Append(x.down[j], P[j]), "CONFIG")
    BY ONLY <2>1, <2>2, HasAppend
  <2>4. Has(Append(x.down[j], P[j]), "PLAYERS")
    BY ONLY <2>2, HasAppend
  <2> QED
    BY <2>2, <2>3, <2>4
<1>20. ASSUME NEW j \in J, NEW good, P[j] \in good
       PROVE  EndsIn(v.down[j], "CONFIG", {C}) /\ EndsIn(v.down[j], "PLAYERS", good)
  <2>1. EndsIn(x.down[j], "CONFIG", {C})
    <3>1. w.down[j] \in Seq(Downward) /\ x.down[j] = Append(w.down[j], C)
      BY <1>18
    <3>2. C \in Downward /\ C.type = "CONFIG" /\ C \in {C}
      BY <1>2
    <3>3. EndsIn(Append(w.down[j], C), "CONFIG", {C})
      BY ONLY <3>1, <3>2, EndsInAppend
    <3> QED
      BY <3>1, <3>3
  <2>2. EndsIn(Append(x.down[j], P[j]), "CONFIG", {C})
    BY <2>1, <1>18, EndsInAppend
  <2>3. EndsIn(Append(x.down[j], P[j]), "PLAYERS", good)
    BY <1>18, <1>20, EndsInAppend
  <2> QED
    BY <2>2, <2>3, <1>18
<1>21. LatestInv(v, names)
  <2>1. v.srv.clients = q /\ Numbers(v) = Numbers(w)
    BY <1>6 DEF SameQueue, q, Numbers
  <2>2. ToldConfig(v) = C
    BY <2>1, <1>4, <1>6 DEF ToldConfig, C, NewConfig
  <2> SUFFICES ASSUME NEW k \in Numbers(w), w.mac[q[k]].client = "open"
               PROVE  Latest(w.mac[q[k]], v.down[q[k]], C, ToldPlayers(Len(q), names, k - 1))
    BY <2>1, <2>2, <1>6 DEF LatestInv
  <2>3. q[k] \in J /\ IdOf(w, q[k]) = k - 1
    BY <1>1, Identified DEF J, Listening, q
  <2>4. P[q[k]] \in ToldPlayers(Len(q), names, k - 1)
    <3>1. P[q[k]] \in PlayersPacket /\ P[q[k]].names = names
          /\ P[q[k]].roles = [s \in Slot |-> RoleFor(k - 1, s, w.mac[Host].roles)]
      BY <2>3, <1>3, <1>5
    <3>2. Len(q) \in Nat /\ Len(q) <= MaxPlayers
      BY <1>1, WorldParts DEF QueueInv, q
    <3>3. \A s \in 0 .. Len(q) - 1 : s \in Slot
      BY <3>2, MachineAssumption DEF Slot
    <3>4. \A s \in 0 .. Len(q) - 1 : RoleFor(k - 1, s, w.mac[Host].roles)
                                       = IF s = k - 1 THEN "human" ELSE "network"
      BY <1>4 DEF RoleFor, SomeRoles
    <3>5. \A s \in 0 .. Len(q) - 1 : P[q[k]].roles[s] = IF s = k - 1 THEN "human" ELSE "network"
      BY <3>1, <3>3, <3>4
    <3> QED
      BY <3>1, <3>5 DEF ToldPlayers
  <2> QED
    BY <2>3, <2>4, <1>19, <1>20 DEF Latest
<1>22. ASSUME w.srv.clients # <<>> \/ NamesInv(w, names) PROVE NamesInv(v, names)
  <2>1. CASE Host \in J
    <3>1. P[Host] \in Naming(names)
      BY <1>3, Hosts DEF Naming
    <3> QED
      BY <2>1, <3>1, <1>19, <1>20 DEF NamesInv, NamesPath
  <2>2. CASE Host \notin J
    <3>1. v.down[Host] = w.down[Host] /\ v.mac[Host] = w.mac[Host]
      BY <2>2, <1>6, Hosts
    <3>2. CASE NamesInv(w, names)
      BY <3>1, <3>2 DEF NamesInv
    <3>3. CASE w.srv.clients # <<>>
      <4>1. 1 \in Numbers(w) /\ w.srv.clients[1] = Host
        BY <3>3, <1>1, WorldParts DEF QueueInv, Numbers
      <4>2. w.mac[Host].client # "open"
        BY <4>1, <2>2, <1>1, Identified DEF J, Listening
      <4>3. v.down[Host] = <<>>
        BY <4>2, <3>1, <1>1, Hosts DEF MachineInv, DownPath
      <4> QED
        BY <4>3, <3>1, HasNone, EndsInNone DEF NamesInv, NamesPath, names
    <3> QED
      BY <3>2, <3>3, <1>22
  <2> QED
    BY <2>1, <2>2
<1> QED
  BY <1>17, <1>21, <1>22 DEF names

\* A sequence of one packet at the end is that packet appended.
LEMMA OneMore ==
    ASSUME NEW S, NEW s \in Seq(S), NEW x \in S PROVE s \o <<x>> = Append(s, x)
OBVIOUS

\* So are two packets, one after the other.
LEMMA TwoMore ==
    ASSUME NEW S, NEW s \in Seq(S), NEW x \in S, NEW y \in S
    PROVE  s \o <<x, y>> = Append(Append(s, x), y)
<1>1. <<x, y>> = <<x>> \o <<y>>
  <2> DEFINE a == <<x>>
             b == <<y>>
             t == <<x, y>>
  <2>1. /\ a \in Seq(S) /\ b \in Seq(S) /\ t \in Seq(S)
        /\ Len(a) = 1 /\ Len(b) = 1 /\ Len(t) = 2
        /\ a[1] = x /\ b[1] = y /\ t[1] = x /\ t[2] = y
    OBVIOUS
  <2> HIDE DEF a, b, t
  <2>2. a \o b \in Seq(S) /\ Len(a \o b) = 2 /\ (a \o b)[1] = x /\ (a \o b)[2] = y
    <3>1. /\ a \o b \in Seq(S) /\ Len(a \o b) = Len(a) + Len(b)
          /\ \A i \in 1 .. Len(a) + Len(b) :
                (a \o b)[i] = IF i <= Len(a) THEN a[i] ELSE b[i - Len(a)]
      BY ONLY <2>1, ConcatProperties
    <3>2. \A i \in 1 .. 2 : (a \o b)[i] = IF i <= 1 THEN a[i] ELSE b[i - 1]
      BY <2>1, <3>1
    <3> QED
      BY <2>1, <3>1, <3>2
  <2>3. ASSUME NEW i \in 1 .. 2 PROVE (a \o b)[i] = t[i]
    BY <2>1, <2>2
  <2>4. a \o b = t
    BY <2>1, <2>2, <2>3, SeqEqual
  <2> QED
    BY <2>4 DEF a, b, t
<1>2. s \o (<<x>> \o <<y>>) = (s \o <<x>>) \o <<y>>
  <2>1. <<x>> \in Seq(S) /\ <<y>> \in Seq(S)
    OBVIOUS
  <2> QED
    BY <2>1, ConcatAssociative
<1>3. s \o <<x>> = Append(s, x) /\ Append(s, x) \in Seq(S)
  BY OneMore
<1>4. Append(s, x) \o <<y>> = Append(Append(s, x), y)
  BY <1>3, OneMore
<1> QED
  BY <1>1, <1>2, <1>3, <1>4

\* Who is sent what, by the numbers of the connections.
LEMMA SentParts ==
    ASSUME NEW w \in Worlds, QueueInv(w), NEW packets
    PROVE  /\ \A m \in Machine :
                 Sent(w, packets)[m] = IF m \in Listening(w)
                                       THEN w.down[m] \o packets[IdOf(w, m)] ELSE w.down[m]
           /\ \A m \in Listening(w) : m \in Machine /\ IdOf(w, m) \in Ids(w)
<1>1. \A k \in Numbers(w) : w.srv.clients[k] \in Machine
  BY WorldParts
<1> QED
  BY <1>1, Identified DEF Sent, Listening

\* A world whose machines are sent other packets.
LEMMA WithDown ==
    ASSUME NEW w \in Worlds, NEW v, NEW s \in Srv, NEW D,
           v = [srv |-> s, mac |-> w.mac, up |-> w.up, down |-> D],
           D = [m \in Machine |-> D[m]], \A m \in Machine : D[m] \in Seq(Downward)
    PROVE  v \in Worlds
<1>1. D \in [Machine -> Seq(Downward)]
  OBVIOUS
<1>2. w.mac \in [Machine -> Mac] /\ w.up \in [Machine -> Seq(Upward)]
  BY DEF Worlds
<1> QED
  BY <1>1, <1>2 DEF Worlds

\* sc_net_svr_send_config sends everybody who listens the configuration and
\* then the players.
LEMMA SendConfigInforms ==
    ASSUME NEW w \in Worlds, QueueInv(w)
    PROVE  SendConfig(w) \in Worlds /\ Informs(w, SendConfig(w))
<1> DEFINE host == w.mac[Host]
           data(id) == <<ConfigData(w.srv.seeds + 1, host.num),
                         PlayerData([s \in Slot |-> RoleFor(id, s, host.roles)], host.names)>>
           packets == [id \in Ids(w) |-> data(id)]
           D == Sent(w, packets)
           v == SendConfig(w)
           s == [w.srv EXCEPT !.seeds = @ + 1]
<1>1. v = [w EXCEPT !.srv.seeds = @ + 1, !.down = D]
  BY DEF SendConfig
<1>2. w.srv \in Srv /\ w.srv.seeds \in Nat
  BY WorldParts DEF Worlds
<1>3. w = [srv |-> w.srv, mac |-> w.mac, up |-> w.up, down |-> w.down]
  BY DEF Worlds
<1> HIDE DEF v, D
<1>4. v = [srv |-> s, mac |-> w.mac, up |-> w.up, down |-> D]
  BY <1>1, <1>3
<1>5. /\ s \in Srv /\ s.clients = w.srv.clients /\ s.pending = w.srv.pending
      /\ s.up = w.srv.up /\ s.flags = w.srv.flags /\ s.seeds = w.srv.seeds + 1
  BY <1>2 DEF Srv
<1>6. \A m \in Listening(w) : m \in Machine /\ IdOf(w, m) \in Ids(w)
  BY SentParts
<1>7. \A m \in Machine : w.down[m] \in Seq(Downward)
  BY WorldParts
<1>8. ASSUME NEW m \in Listening(w)
      PROVE  D[m] = Append(Append(w.down[m], NewConfig(w)), NewPlayers(w, m))
  <2>1. packets[IdOf(w, m)] = <<NewConfig(w), NewPlayers(w, m)>>
    BY <1>6 DEF NewConfig, NewPlayers
  <2> HIDE DEF packets
  <2>2. D[m] = w.down[m] \o packets[IdOf(w, m)]
    BY <1>6, SentParts DEF D
  <2>3. /\ NewConfig(w) \in Downward /\ NewPlayers(w, m) \in Downward
        /\ w.down[m] \in Seq(Downward)
    BY <1>6, <1>7, NewPackets
  <2> DEFINE a == NewConfig(w)
             b == NewPlayers(w, m)
             d == w.down[m]
  <2> HIDE DEF a, b, d
  <2>4. d \o <<a, b>> = Append(Append(d, a), b)
    <3>1. a \in Downward /\ b \in Downward /\ d \in Seq(Downward)
      BY <2>3 DEF a, b, d
    <3> QED
      BY ONLY <3>1, TwoMore
  <2> QED
    BY <2>1, <2>2, <2>4 DEF a, b, d
<1>9. \A m \in Machine \ Listening(w) : D[m] = w.down[m]
  BY SentParts DEF D
<1>10. ASSUME NEW m \in Machine PROVE D[m] \in Seq(Downward)
  <2>1. CASE m \in Listening(w)
    <3>1. /\ NewConfig(w) \in Downward /\ NewPlayers(w, m) \in Downward
          /\ w.down[m] \in Seq(Downward)
      BY <1>7, NewPackets
    <3>2. Append(w.down[m], NewConfig(w)) \in Seq(Downward)
      BY ONLY <3>1, AppendParts
    <3>3. Append(Append(w.down[m], NewConfig(w)), NewPlayers(w, m)) \in Seq(Downward)
      BY ONLY <3>1, <3>2, AppendParts
    <3> QED
      BY <2>1, <3>3, <1>8
  <2>2. CASE m \notin Listening(w)
    BY <2>2, <1>7, <1>9
  <2> QED
    BY <2>1, <2>2
<1>11. v \in Worlds
  <2>1. D = [m \in Machine |-> D[m]]
    BY DEF D, Sent
  <2> QED
    BY <2>1, <1>4, <1>5, <1>10, WithDown
<1>12. Informs(w, v)
  <2>1. v.srv = s /\ v.mac = w.mac /\ v.up = w.up /\ v.down = D
    BY <1>4
  <2>2. SameQueue(w, v)
    BY <2>1, <1>2, <1>5 DEF SameQueue
  <2>3. \A j \in Machine :
          v.down[j] = IF j \in Listening(w)
                      THEN Append(Append(w.down[j], NewConfig(w)), NewPlayers(w, j))
                      ELSE w.down[j]
    BY <2>1, <1>8, <1>9
  <2> QED
    BY <2>1, <2>2, <2>3, <1>5 DEF Informs
<1> QED
  BY <1>11, <1>12 DEF v
-----------------------------------------------------------------------------
(* The server takes a packet.                                              *)

\* Packets of other types change nothing about the last configuration.
LEMMA Quiet ==
    ASSUME NEW w \in Worlds, NEW v \in Worlds, NEW names, LatestInv(w, names),
           NamesInv(w, names), SameQueue(w, v), v.srv.seeds = w.srv.seeds, v.mac = w.mac,
           AllAdmitted(v) => AllAdmitted(w),
           \A j \in Machine :
               \/ v.down[j] = w.down[j]
               \/ \E x \in Downward : /\ x.type \notin {"CONFIG", "PLAYERS"}
                                      /\ v.down[j] = Append(w.down[j], x)
    PROVE  LatestInv(v, names) /\ NamesInv(v, names)
<1>1. ASSUME NEW j \in Machine, NEW type \in {"CONFIG", "PLAYERS"}
      PROVE  /\ Has(v.down[j], type) <=> Has(w.down[j], type)
             /\ \A good : EndsIn(w.down[j], type, good) => EndsIn(v.down[j], type, good)
  <2>1. w.down[j] \in Seq(Downward)
    BY WorldParts
  <2>2. CASE v.down[j] = w.down[j]
    BY <2>2
  <2>3. ASSUME NEW x \in Downward, x.type \notin {"CONFIG", "PLAYERS"},
               v.down[j] = Append(w.down[j], x)
        PROVE  /\ Has(v.down[j], type) <=> Has(w.down[j], type)
               /\ \A good : EndsIn(w.down[j], type, good) => EndsIn(v.down[j], type, good)
    <3>1. x.type # type
      BY <2>3
    <3>2. Has(Append(w.down[j], x), type) <=> Has(w.down[j], type)
      BY <2>1, <3>1, HasAppend
    <3>3. ASSUME NEW good, EndsIn(w.down[j], type, good)
          PROVE  EndsIn(Append(w.down[j], x), type, good)
      BY <2>1, <3>1, <3>3, EndsInAppend
    <3> QED
      BY <2>3, <3>2, <3>3
  <2> QED
    BY <2>2, <2>3
<1>2. /\ v.srv.clients = w.srv.clients /\ Numbers(v) = Numbers(w)
      /\ ToldConfig(v) = ToldConfig(w)
  BY DEF SameQueue, Numbers, ToldConfig
<1>3. LatestInv(v, names)
  <2> SUFFICES ASSUME AllAdmitted(w), NEW k \in Numbers(w),
                      w.mac[w.srv.clients[k]].client = "open"
               PROVE  Latest(w.mac[w.srv.clients[k]], v.down[w.srv.clients[k]], ToldConfig(w),
                             ToldPlayers(Len(w.srv.clients), names, k - 1))
    BY <1>2 DEF LatestInv
  <2> DEFINE j == w.srv.clients[k]
             good == ToldPlayers(Len(w.srv.clients), names, k - 1)
  <2>1. Latest(w.mac[j], w.down[j], ToldConfig(w), good)
    BY DEF LatestInv
  <2>2. j \in Machine
    BY WorldParts
  <2> HIDE DEF j, good
  <2>3. Latest(w.mac[j], v.down[j], ToldConfig(w), good)
    BY <2>1, <2>2, <1>1 DEF Latest
  <2> QED
    BY <2>3 DEF j, good
<1>4. NamesInv(v, names)
  <2>1. EndsIn(w.down[Host], "PLAYERS", Naming(names))
        /\ (~Has(w.down[Host], "PLAYERS") => w.mac[Host].names = names)
    BY DEF NamesInv, NamesPath
  <2>2. /\ Has(v.down[Host], "PLAYERS") <=> Has(w.down[Host], "PLAYERS")
        /\ EndsIn(v.down[Host], "PLAYERS", Naming(names))
    BY <2>1, <1>1, Hosts
  <2> QED
    BY <2>1, <2>2 DEF NamesInv, NamesPath
<1> QED
  BY <1>3, <1>4

\* The first packet of connection k has been taken, and its flags are now g.
IsNoted(w, x, k, g) ==
    /\ SameQueue(w, x) /\ x.srv.seeds = w.srv.seeds /\ x.down = w.down
    /\ \A j \in Numbers(w) : x.srv.flags[j] = IF j = k THEN g ELSE w.srv.flags[j]
    /\ \A j \in Machine :
          x.up[j] = IF j = w.srv.clients[k] THEN Tail(w.up[j]) ELSE w.up[j]

\* A packet of connection k is taken and its flags are noted.
LEMMA Notes ==
    ASSUME NEW w \in Worlds, NEW x \in Worlds, NEW names, NEW names2,
           NEW k \in Numbers(w), NEW g,
           CoreInv(w, names), IsNoted(w, x, k, g), w.up[w.srv.clients[k]] # <<>>,
           \A j \in Machine : Alike(w.mac[j], x.mac[j]),
           "NEED_ACCEPT" \in g => "NEED_ACCEPT" \in w.srv.flags[k],
           ConnPath(w.srv.clients[k], w.mac[w.srv.clients[k]], Tail(w.up[w.srv.clients[k]]), g,
                    names2[k - 1]),
           \A j \in Numbers(w) \ {k} : names2[j - 1] = names[j - 1]
    PROVE  CoreInv(x, names2)
<1> DEFINE q == w.srv.clients
           m == q[k]
<1>1. QueueInv(w) /\ MachineInv(w) /\ ConnInv(w, names)
  BY DEF CoreInv
<1>2. SameQueue(w, x) /\ x.srv.seeds = w.srv.seeds /\ x.down = w.down
  BY DEF IsNoted
<1>3. m \in Machine /\ w.up[m] \in Seq(Upward)
  BY WorldParts
<1>4. /\ \A j \in Numbers(w) : x.srv.flags[j] = IF j = k THEN g ELSE w.srv.flags[j]
      /\ \A j \in Machine : x.up[j] = IF j = m THEN Tail(w.up[j]) ELSE w.up[j]
  BY DEF IsNoted
<1>5. \A j \in Machine : Alike(w.mac[j], x.mac[j]) /\ Taken(w.up[j], x.up[j])
  BY <1>4 DEF Taken
<1>6. ~Has(x.up[m], "CONNECT")
  <2>1. UpOrder(m, w.up[m])
    BY <1>1, <1>3 DEF MachineInv, UpPath
  <2>2. ~Has(Tail(w.up[m]), "CONNECT")
    BY <2>1, <1>3, UpOrderTail
  <2> QED
    BY <2>2, <1>3, <1>4
<1>7. \A j \in Numbers(w) :
          /\ "NEED_ACCEPT" \in x.srv.flags[j] => "NEED_ACCEPT" \in w.srv.flags[j]
          /\ "NEED_ACCEPT" \in x.srv.flags[j] \/ "NEED_ACCEPT" \notin w.srv.flags[j]
               \/ ~Has(x.up[q[j]], "CONNECT")
  BY <1>4, <1>6
<1>8. ConnInv(x, names2)
  <2>1. Numbers(x) = Numbers(w) /\ x.srv.clients = q
    BY <1>2 DEF SameQueue, Numbers
  <2> SUFFICES ASSUME NEW j \in Numbers(w)
               PROVE  ConnPath(q[j], x.mac[q[j]], x.up[q[j]], x.srv.flags[j], names2[j - 1])
    BY <2>1 DEF ConnInv
  <2>2. q[j] \in Machine
    BY WorldParts
  <2>3. \A u, f, name : ConnPath(q[j], w.mac[q[j]], u, f, name) =>
                            ConnPath(q[j], x.mac[q[j]], u, f, name)
    BY <2>2, AlikePaths DEF ConnPath, Alike
  <2>4. CASE j = k
    <3>1. x.up[q[j]] = Tail(w.up[q[j]]) /\ x.srv.flags[j] = g
      BY <2>2, <2>4, <1>4
    <3>2. ConnPath(q[j], w.mac[q[j]], Tail(w.up[q[j]]), g, names2[j - 1])
      BY <2>4
    <3> QED
      BY <3>1, <3>2, <2>3
  <2>5. CASE j # k
    <3>1. q[j] # q[k]
      BY <2>5, <1>1 DEF QueueInv, Distinct, Numbers
    <3>2. x.up[q[j]] = w.up[q[j]] /\ x.srv.flags[j] = w.srv.flags[j]
      BY <3>1, <2>2, <2>5, <1>4
    <3>3. ConnPath(q[j], w.mac[q[j]], w.up[q[j]], w.srv.flags[j], names2[j - 1])
      BY <2>5, <1>1 DEF ConnInv
    <3> QED
      BY <3>2, <3>3, <2>3
  <2> QED
    BY <2>4, <2>5
<1> HIDE DEF m
<1> QED
  BY <1>2, <1>5, <1>7, <1>8, Noted DEF q

\* What the invariant says of the next packet of connection k.
PacketFacts(w, names, k) ==
    LET m == w.srv.clients[k]
        c == w.mac[m]
        f == w.srv.flags[k]
        p == Head(w.up[m])
        e == Tail(w.up[m])
    IN  /\ ~IsDead(f) /\ p \in Upward
        /\ "NEED_ACCEPT" \in f =>
              /\ Unaccepted(c) /\ ~Admitted(w, m) /\ ~AllReady(w) /\ ~AllAdmitted(w)
              /\ ~Has(w.down[m], "ACCEPTED")
              /\ \A name : /\ ConnPath(m, c, e, f, name)
                           /\ ConnPath(m, c, e, f \ {"NEED_ACCEPT"}, name)
        /\ "NEED_ACCEPT" \notin f =>
              /\ p.type # "CONNECT"
              /\ p.type = "NAME" => p.name = m /\ ~AllReady(w) /\ ConnPath(m, c, e, f, m)
              /\ p.type = "SYNC" => ConnPath(m, c, e, f \union {"WAIT_SYNC"}, names[k - 1])
              /\ p.type = "DISC" => ConnPath(m, c, e, f \union {"QUIT"}, names[k - 1])

\* The next packet of a connection that is not dead: before it is accepted,
\* whatever it sends leaves it fit to be accepted or not; afterwards its name
\* is its own and comes before everybody is ready.
LEMMA Packet ==
    ASSUME NEW w \in Worlds, NEW names, CoreInv(w, names), NEW k \in Numbers(w),
           w.up[w.srv.clients[k]] # <<>>
    PROVE  PacketFacts(w, names, k)
<1> DEFINE m == w.srv.clients[k]
           u == w.up[m]
           c == w.mac[m]
           f == w.srv.flags[k]
           p == Head(u)
           e == Tail(u)
<1>1. m \in Machine /\ u \in Seq(Upward)
  BY WorldParts
<1>2. p \in Upward /\ p.type \in {"CONNECT", "NAME", "SYNC", "DISC"}
  BY <1>1, TailParts, PacketTypes
<1>3. QueueInv(w) /\ MachineInv(w) /\ ConnInv(w, names)
  BY DEF CoreInv
<1>4. /\ UpPath(m, c, u) /\ DownPath(c, w.down[m])
      /\ Speaks(c, u, w.down[m]) => Admitted(w, m)
      /\ Has(u, "CONNECT") => ~Admitted(w, m)
  BY <1>1, <1>3, Zenon DEF MachineInv
<1>5. ConnPath(m, c, u, f, names[k - 1])
  BY <1>3 DEF ConnInv
<1>6. ~IsDead(f) /\ c.client # "none"
  BY <1>5 DEF ConnPath
<1>7. \A type : /\ Has(e, type) => Has(u, type)
                /\ Has(u, type) => Has(e, type) \/ p.type = type
                /\ p.type = type => Has(u, type)
  <2>1. u \in Seq(Upward) /\ u # <<>> /\ p = Head(u) /\ e = Tail(u)
    BY <1>1
  <2> HIDE DEF u, p, e
  <2> QED
    BY ONLY <2>1, HasTail
<1>8. UpOrder(m, u)
  BY <1>4 DEF UpPath
<1>9. /\ p.type = "DISC" => e = <<>>
      /\ p.type = "SYNC" => ~Has(u, "NAME")
      /\ p.type = "NAME" => p.name = m
  <2>1. u \in Seq(Upward) /\ u # <<>> /\ p = Head(u) /\ e = Tail(u)
    BY <1>1
  <2> HIDE DEF u, p, e
  <2> QED
    BY ONLY <2>1, <1>8, UpOrderTail
<1> HIDE DEF p, e, u, c
<1>10. "NEED_ACCEPT" \in f <=> ~Admitted(w, m)
  BY <1>3 DEF Admitted, QueueInv, Distinct, Numbers
<1>11. ASSUME "NEED_ACCEPT" \in f
       PROVE  /\ Unaccepted(c) /\ ~Admitted(w, m) /\ ~AllReady(w) /\ ~AllAdmitted(w)
              /\ ~Has(w.down[m], "ACCEPTED")
              /\ \A name : /\ ConnPath(m, c, e, f, name)
                           /\ ConnPath(m, c, e, f \ {"NEED_ACCEPT"}, name)
  <2>1. ~Speaks(c, u, w.down[m])
    BY <1>4, <1>10, <1>11
  <2>2. Unaccepted(c) /\ ~Has(w.down[m], "ACCEPTED")
    BY <2>1, <1>6 DEF Speaks
  <2>3. "WAIT_SYNC" \notin f
    BY <1>5, <1>11 DEF ConnPath
  <2>4. \A name : ConnPath(m, c, e, f, name)
    BY <2>2, <2>3, <1>6 DEF ConnPath
  <2>5. ~IsDead(f \ {"NEED_ACCEPT"})
    BY <1>6 DEF IsDead
  <2>6. \A name : ConnPath(m, c, e, f \ {"NEED_ACCEPT"}, name)
    BY <2>2, <2>3, <2>5, <1>6 DEF ConnPath
  <2>7. ~AllReady(w) /\ ~AllAdmitted(w)
    BY <1>11 DEF AllReady, ReadyPath, AllAdmitted
  <2> QED
    BY <2>2, <2>4, <2>6, <2>7, <1>10, <1>11
<1>12. ASSUME "NEED_ACCEPT" \notin f
       PROVE  /\ p.type # "CONNECT"
              /\ p.type = "NAME" => /\ p.name = m /\ ~AllReady(w)
                                    /\ ConnPath(m, c, e, f, m)
              /\ p.type = "SYNC" =>
                    ConnPath(m, c, e, f \union {"WAIT_SYNC"}, names[k - 1])
              /\ p.type = "DISC" =>
                    ConnPath(m, c, e, f \union {"QUIT"}, names[k - 1])
  <2>1. p.type # "CONNECT"
    BY <1>4, <1>7, <1>10, <1>12
  <2>2. ASSUME p.type = "NAME"
        PROVE  p.name = m /\ ~AllReady(w) /\ ConnPath(m, c, e, f, m)
    <3>1. Has(u, "NAME")
      BY <2>2, <1>7
    <3>2. "WAIT_SYNC" \notin f
      BY <3>1, <1>5 DEF ConnPath
    <3>3. ~AllReady(w)
      BY <3>1 DEF AllReady, ReadyPath, u
    <3> QED
      BY <2>2, <3>2, <3>3, <1>6, <1>9 DEF ConnPath
  <2>3. ASSUME p.type = "SYNC"
        PROVE  ConnPath(m, c, e, f \union {"WAIT_SYNC"}, names[k - 1])
    <3>1. Begun(c) /\ ~Unaccepted(c)
      BY <2>3, <1>4, <1>7 DEF UpPath
    <3>2. ~Has(u, "NAME") /\ ~Has(e, "NAME")
      BY <2>3, <1>7, <1>9
    <3>3. names[k - 1] = m
      BY <3>1, <3>2, <1>5, <1>12 DEF ConnPath
    <3>4. ~IsDead(f \union {"WAIT_SYNC"})
      BY <1>6 DEF IsDead, Dead
    <3> QED
      BY <3>1, <3>2, <3>3, <3>4, <1>6, <1>12 DEF ConnPath
  <2>4. ASSUME p.type = "DISC"
        PROVE  ConnPath(m, c, e, f \union {"QUIT"}, names[k - 1])
    <3>1. e = <<>> /\ c.client = "freed"
      BY <2>4, <1>4, <1>7, <1>9 DEF UpPath
    <3>2. ~Has(e, "NAME") /\ ~Has(u, "NAME")
      BY <3>1, <2>4, <1>7, HasNone
    <3>3. "WAIT_SYNC" \in f \union {"QUIT"} <=> "WAIT_SYNC" \in f
      OBVIOUS
    <3> QED
      BY <3>1, <3>2, <3>3, <1>5, <1>12 DEF ConnPath
  <2> QED
    BY <2>1, <2>2, <2>3, <2>4
<1> QED
  BY <1>2, <1>6, <1>11, <1>12 DEF PacketFacts, p, e, m, u, c, f

Note(w, k, g) == [w EXCEPT !.up[w.srv.clients[k]] = Tail(@), !.srv.flags[k] = g]

\* Such a world, part by part.
LEMMA NoteParts ==
    ASSUME NEW w \in Worlds, QueueInv(w), NEW k \in Numbers(w), w.up[w.srv.clients[k]] # <<>>,
           NEW g \in SUBSET Flag
    PROVE  /\ Note(w, k, g) \in Worlds /\ IsNoted(w, Note(w, k, g), k, g)
           /\ Note(w, k, g).mac = w.mac /\ Note(w, k, g).down = w.down
           /\ Note(w, k, g).srv = [w.srv EXCEPT !.flags = [@ EXCEPT ![k] = g]]
           /\ Note(w, k, g).up = [w.up EXCEPT ![w.srv.clients[k]] = Tail(@)]
<1> DEFINE x == Note(w, k, g)
           m == w.srv.clients[k]
           s == [w.srv EXCEPT !.flags = [@ EXCEPT ![k] = g]]
           U == [w.up EXCEPT ![m] = Tail(@)]
<1>1. w = [srv |-> w.srv, mac |-> w.mac, up |-> w.up, down |-> w.down]
  BY DEF Worlds
<1>2. x = [srv |-> s, mac |-> w.mac, up |-> U, down |-> w.down]
  <2> DEFINE s1 == w.srv
             m1 == w.mac
             u1 == w.up
             d1 == w.down
             y == [w EXCEPT !.up[m] = Tail(@), !.srv.flags[k] = g]
  <2> HIDE DEF s1, m1, u1, d1, m
  <2>1. w = [srv |-> s1, mac |-> m1, up |-> u1, down |-> d1]
    BY <1>1 DEF s1, m1, u1, d1
  <2>2. y = [srv |-> [s1 EXCEPT !.flags = [@ EXCEPT ![k] = g]], mac |-> m1,
             up |-> [u1 EXCEPT ![m] = Tail(@)], down |-> d1]
    <3> DEFINE s2 == [s1 EXCEPT !.flags = [@ EXCEPT ![k] = g]]
               u2 == [u1 EXCEPT ![m] = Tail(@)]
    <3>1. w.srv = s1 /\ w.up = u1 /\ w.mac = m1 /\ w.down = d1
      BY DEF s1, m1, u1, d1
    <3>2. y = [w EXCEPT !.up = u2, !.srv = s2]
      BY <3>1
    <3> HIDE DEF u2, s2, y
    <3>3. y = [srv |-> s2, mac |-> m1, up |-> u2, down |-> d1]
      BY ONLY <3>2, <2>1
    <3> QED
      BY <3>3 DEF u2, s2
  <2>3. x = y
    BY DEF Note, m
  <2> QED
    BY <2>2, <2>3 DEF s1, m1, u1, d1
<1>3. m \in Machine /\ w.up[m] \in Seq(Upward) /\ w.srv.flags \in Seq(SUBSET Flag)
  BY WorldParts
<1>4. k \in 1 .. Len(w.srv.flags)
  BY DEF QueueInv, Numbers
<1>5. /\ [w.srv.flags EXCEPT ![k] = g] \in Seq(SUBSET Flag)
      /\ Len([w.srv.flags EXCEPT ![k] = g]) = Len(w.srv.flags)
      /\ \A j \in 1 .. Len(w.srv.flags) :
            [w.srv.flags EXCEPT ![k] = g][j] = IF j = k THEN g ELSE w.srv.flags[j]
  BY ONLY <1>3, <1>4, ExceptSeq, g \in SUBSET Flag
<1>6. w.srv \in Srv
  BY DEF Worlds
<1>7. /\ s.clients = w.srv.clients /\ s.pending = w.srv.pending /\ s.up = w.srv.up
      /\ s.seeds = w.srv.seeds /\ s.flags = [w.srv.flags EXCEPT ![k] = g] /\ s \in Srv
  BY <1>5, <1>6 DEF Srv
<1>8. w.up \in [Machine -> Seq(Upward)] /\ w.mac \in [Machine -> Mac]
      /\ w.down \in [Machine -> Seq(Downward)]
  BY DEF Worlds
<1>9. U \in [Machine -> Seq(Upward)]
      /\ \A j \in Machine : U[j] = IF j = m THEN Tail(w.up[j]) ELSE w.up[j]
  <2>1. Tail(w.up[m]) \in Seq(Upward)
    BY <1>3, TailParts
  <2> QED
    BY <2>1, <1>3, <1>8
<1> HIDE DEF s, U, m, x
<1>10. x.srv = s /\ x.mac = w.mac /\ x.up = U /\ x.down = w.down
  BY <1>2
<1>11. x \in Worlds
  BY <1>2, <1>7, <1>8, <1>9 DEF Worlds
<1>12. SameQueue(w, x)
  <2>1. w.srv.seeds <= w.srv.seeds
    BY WorldParts
  <2> QED
    BY <2>1, <1>5, <1>7, <1>10 DEF SameQueue
<1>13. \A j \in Numbers(w) : x.srv.flags[j] = IF j = k THEN g ELSE w.srv.flags[j]
  <2>1. Numbers(w) = 1 .. Len(w.srv.flags)
    BY DEF QueueInv, Numbers
  <2> QED
    BY <2>1, <1>5, <1>7, <1>10
<1>14. IsNoted(w, x, k, g)
  BY <1>7, <1>9, <1>10, <1>12, <1>13 DEF IsNoted, m
<1> QED
  BY <1>10, <1>11, <1>14 DEF x, s, U, m

\* One connection is sent a packet.
Replies(w, k, p) ==
    [w EXCEPT !.down = Sent(w, [Nothing(w) EXCEPT ![k - 1] = <<p>>])]

\* What the server does with the next packet of connection k.
TakesFacts(w, k) ==
    LET m == w.srv.clients[k]
        f == w.srv.flags[k]
        p == Head(w.up[m])
        n == Note(w, k, f)
        v == ServerTakes(w, k - 1)
    IN  /\ "NEED_ACCEPT" \in f /\ p.type # "CONNECT" => v = n
        /\ "NEED_ACCEPT" \in f /\ p.type = "CONNECT" /\ ~p.ok => v = Replies(n, k, Rejected)
        /\ "NEED_ACCEPT" \in f /\ p.type = "CONNECT" /\ p.ok =>
              v = [SendConfig(Replies(n, k, Accepted))
                     EXCEPT !.srv.flags[k] = @ \ {"NEED_ACCEPT"}]
        /\ "NEED_ACCEPT" \notin f /\ p.type = "NAME" =>
              v = SendConfig([n EXCEPT !.mac[Host].names[k - 1] = p.name])
        /\ "NEED_ACCEPT" \notin f /\ p.type = "SYNC" =>
              v = SyncAll(Note(w, k, f \union {"WAIT_SYNC"}))
        /\ "NEED_ACCEPT" \notin f /\ p.type = "DISC" =>
              v = Note(w, k, f \union {"QUIT"})

\* The handler of each state and type, as the world it makes of the one in
\* which the packet has been noted.
LEMMA TakesCases ==
    ASSUME NEW w \in Worlds, NEW names, CoreInv(w, names), NEW k \in Numbers(w),
           w.up[w.srv.clients[k]] # <<>>
    PROVE  TakesFacts(w, k)
<1> DEFINE m == w.srv.clients[k]
           f == w.srv.flags[k]
           p == Head(w.up[m])
           v == ServerTakes(w, k - 1)
<1>0. /\ m = w.srv.clients[k] /\ w.up[m] # <<>> /\ f = w.srv.flags[k]
      /\ p = Head(w.up[m]) /\ v = ServerTakes(w, k - 1)
  OBVIOUS
<1> HIDE DEF m, f, p, v
<1> USE <1>0
<1> DEFINE n == Note(w, k, f)
           x == [w EXCEPT !.up[m] = Tail(@)]
           flagged(flag) == [x EXCEPT !.srv.flags[(k - 1) + 1] = @ \union {flag}]
<1>1. QueueInv(w) /\ (k - 1) + 1 = k /\ k \in 1 .. Len(w.srv.flags)
  <2>1. QueueInv(w)
    BY DEF CoreInv
  <2> QED
    BY <2>1, WorldParts DEF QueueInv, Numbers
<1>2. f \in SUBSET Flag /\ w.srv.flags \in Seq(SUBSET Flag)
  BY <1>1, WorldParts
<1>3. MachineOf(w, k - 1) = m
  BY <1>1, Identified
<1>4. w = [srv |-> w.srv, mac |-> w.mac, up |-> w.up, down |-> w.down] /\ w.srv \in Srv
  BY DEF Worlds
<1>5. x = n
  <2>1. [w.srv.flags EXCEPT ![k] = f] = w.srv.flags
    BY <1>1, <1>2
  <2>2. [w.srv EXCEPT !.flags = [@ EXCEPT ![k] = f]] = w.srv
    BY <2>1, <1>4 DEF Srv
  <2>3. n = [w EXCEPT !.up[m] = Tail(@)]
    <3>1. n = [srv |-> w.srv, mac |-> w.mac, up |-> [w.up EXCEPT ![m] = Tail(@)],
               down |-> w.down]
      <4>1. /\ n.srv = w.srv /\ n.mac = w.mac /\ n.down = w.down
            /\ n.up = [w.up EXCEPT ![m] = Tail(@)] /\ n \in Worlds
        <5>1. w.up[w.srv.clients[k]] # <<>> /\ QueueInv(w) /\ f \in SUBSET Flag
          BY <1>1, <1>2
        <5>2. /\ Note(w, k, f) \in Worlds
              /\ Note(w, k, f).mac = w.mac /\ Note(w, k, f).down = w.down
              /\ Note(w, k, f).srv = [w.srv EXCEPT !.flags = [@ EXCEPT ![k] = f]]
              /\ Note(w, k, f).up = [w.up EXCEPT ![w.srv.clients[k]] = Tail(@)]
          BY ONLY <5>1, NoteParts, w \in Worlds, k \in Numbers(w)
        <5> HIDE DEF n
        <5> QED
          BY <2>2, <5>2 DEF n
      <4> HIDE DEF n
      <4>2. n = [srv |-> n.srv, mac |-> n.mac, up |-> n.up, down |-> n.down]
        BY <4>1 DEF Worlds
      <4> QED
        BY <4>1, <4>2, Zenon
    <3> HIDE DEF n
    <3> DEFINE U == [w.up EXCEPT ![m] = Tail(@)]
    <3>2. x = [w EXCEPT !.up = U]
      OBVIOUS
    <3> HIDE DEF U, x
    <3>3. x = [srv |-> w.srv, mac |-> w.mac, up |-> U, down |-> w.down]
      BY <3>2, <1>4
    <3> QED
      BY <3>1, <3>3 DEF U, x
  <2> QED
    BY <2>3
<1>6. ASSUME NEW flag PROVE flagged(flag) = Note(w, k, f \union {flag})
  <2>1. x.srv = w.srv
    BY <1>4
  <2>2. flagged(flag) = [x EXCEPT !.srv.flags[k] = f \union {flag}]
    BY <2>1, <1>1
  <2>3. [x EXCEPT !.srv.flags[k] = f \union {flag}] = Note(w, k, f \union {flag})
    BY <2>1, <1>4 DEF Note
  <2> QED
    BY <2>2, <2>3
<1>7. v = ServerHandles(n, k - 1, p)
  BY <1>3, <1>5 DEF ServerTakes
<1>8. n.srv.flags[(k - 1) + 1] = f
  <2>1. x.srv = w.srv
    BY <1>4
  <2> QED
    BY <2>1, <1>1, <1>5
<1>9. ~IsDead(f)
  <2>1. ConnPath(m, w.mac[m], w.up[m], f, names[k - 1])
    BY DEF CoreInv, ConnInv
  <2> QED
    BY <2>1 DEF ConnPath
<1> HIDE DEF n, x
<1>10. ASSUME "NEED_ACCEPT" \in f
       PROVE  /\ v = ConnectRequest(n, k - 1, p)
  BY <1>7, <1>8, <1>9, <1>10 DEF ServerHandles
<1>11. ConnectRequest(n, k - 1, p) =
         IF p.type # "CONNECT" THEN n
         ELSE IF ~p.ok THEN Replies(n, k, Rejected)
         ELSE [SendConfig(Replies(n, k, Accepted)) EXCEPT !.srv.flags[k] = @ \ {"NEED_ACCEPT"}]
  BY <1>1 DEF ConnectRequest, Replies
<1>12. ASSUME "NEED_ACCEPT" \notin f
       PROVE  v = CASE p.type = "NAME" -> SendConfig([n EXCEPT !.mac[Host].names[k - 1] = p.name])
                    [] p.type = "SYNC" -> SyncAll(flagged("WAIT_SYNC"))
                    [] p.type = "DISC" -> flagged("QUIT")
  BY <1>5, <1>7, <1>8, <1>9, <1>12 DEF ServerHandles
<1> HIDE DEF flagged
<1>13. /\ "NEED_ACCEPT" \in f /\ p.type # "CONNECT" => v = n
       /\ "NEED_ACCEPT" \in f /\ p.type = "CONNECT" /\ ~p.ok => v = Replies(n, k, Rejected)
       /\ "NEED_ACCEPT" \in f /\ p.type = "CONNECT" /\ p.ok =>
             v = [SendConfig(Replies(n, k, Accepted))
                    EXCEPT !.srv.flags[k] = @ \ {"NEED_ACCEPT"}]
       /\ "NEED_ACCEPT" \notin f /\ p.type = "NAME" =>
             v = SendConfig([n EXCEPT !.mac[Host].names[k - 1] = p.name])
       /\ "NEED_ACCEPT" \notin f /\ p.type = "SYNC" =>
             v = SyncAll(Note(w, k, f \union {"WAIT_SYNC"}))
       /\ "NEED_ACCEPT" \notin f /\ p.type = "DISC" =>
             v = Note(w, k, f \union {"QUIT"})
  BY <1>6, <1>10, <1>11, <1>12
<1> QED
  BY <1>13 DEF TakesFacts, m, f, p, v, n

\* A reply tells the one client it is for, if that can still be told.
LEMMA RepliesTells ==
    ASSUME NEW w \in Worlds, QueueInv(w), NEW k \in Numbers(w), NEW p \in Downward
    PROVE  /\ Replies(w, k, p) \in Worlds
           /\ Tells(w, Replies(w, k, p), {w.srv.clients[k]} \intersect Listening(w),
                    [j \in Machine |-> p], p.type)
<1> DEFINE packets == [Nothing(w) EXCEPT ![k - 1] = <<p>>]
           D == Sent(w, packets)
           v == Replies(w, k, p)
           J == {w.srv.clients[k]} \intersect Listening(w)
           X == [j \in Machine |-> p]
<1>1. /\ \A i \in Numbers(w) : IdOf(w, w.srv.clients[i]) = i - 1 /\ i - 1 \in Ids(w)
      /\ Connections(w) = {w.srv.clients[i] : i \in Numbers(w)}
  BY Identified
<1>2. /\ \A m \in Machine :
            D[m] = IF m \in Listening(w) THEN w.down[m] \o packets[IdOf(w, m)] ELSE w.down[m]
      /\ \A m \in Listening(w) : m \in Machine /\ IdOf(w, m) \in Ids(w)
  <2> HIDE DEF packets
  <2> QED
    BY SentParts
<1>3. \A m \in Machine : w.down[m] \in Seq(Downward)
  BY WorldParts
<1>4. \A m \in J : X[m] \in Downward /\ X[m].type = p.type /\ w.mac[m].client = "open"
                   /\ m \in Machine
  BY <1>2 DEF Listening
<1>5. \A m \in Machine : D[m] = IF m \in J THEN Append(w.down[m], X[m]) ELSE w.down[m]
  <2> SUFFICES ASSUME NEW m \in Machine
               PROVE  D[m] = IF m \in J THEN Append(w.down[m], X[m]) ELSE w.down[m]
    OBVIOUS
  <2>1. CASE m \notin Listening(w)
    BY <2>1, <1>2
  <2>2. CASE m \in Listening(w) /\ m = w.srv.clients[k]
    <3>1. packets[IdOf(w, m)] = <<p>>
      BY <2>2, <1>1 DEF Nothing
    <3> HIDE DEF packets, D
    <3>2. D[m] = w.down[m] \o <<p>>
      BY <3>1, <2>2, <1>2
    <3>3. w.down[m] \o <<p>> = Append(w.down[m], p)
      BY <1>3, OneMore
    <3> QED
      BY <2>2, <3>2, <3>3
  <2>3. CASE m \in Listening(w) /\ m # w.srv.clients[k]
    <3>1. PICK i \in Numbers(w) : m = w.srv.clients[i]
      BY <2>3, <1>1 DEF Listening
    <3>2. IdOf(w, m) # k - 1 /\ IdOf(w, m) \in Ids(w)
      BY <2>3, <3>1, <1>1 DEF Numbers
    <3>3. packets[IdOf(w, m)] = <<>>
      BY <3>2 DEF Nothing
    <3> HIDE DEF packets, D
    <3>4. D[m] = w.down[m] \o <<>>
      BY <3>3, <2>3, <1>2
    <3>5. w.down[m] \o <<>> = w.down[m]
      BY <1>3, ConcatEmptySeq
    <3> QED
      BY <2>3, <3>4, <3>5
  <2> QED
    BY <2>1, <2>2, <2>3
<1>6. w = [srv |-> w.srv, mac |-> w.mac, up |-> w.up, down |-> w.down] /\ w.srv \in Srv
  BY DEF Worlds
<1>7. v = [w EXCEPT !.down = D]
  BY DEF Replies
<1>8. D = [m \in Machine |-> D[m]]
  BY DEF Sent
<1>9. \A m \in Machine : D[m] \in Seq(Downward)
  <2> SUFFICES ASSUME NEW m \in Machine PROVE D[m] \in Seq(Downward)
    OBVIOUS
  <2>1. Append(w.down[m], p) \in Seq(Downward)
    BY <1>3, AppendParts
  <2> HIDE DEF D
  <2> QED
    BY <2>1, <1>3, <1>4, <1>5
<1> HIDE DEF D, v, J, X
<1>10. v = [srv |-> w.srv, mac |-> w.mac, up |-> w.up, down |-> D]
  BY <1>6, <1>7
<1>11. v \in Worlds
  BY <1>6, <1>8, <1>9, <1>10, WithDown
<1>12. v.srv = w.srv /\ v.mac = w.mac /\ v.up = w.up /\ v.down = D
  BY <1>10
<1>13. SameQueue(w, v)
  <2>1. w.srv.seeds <= w.srv.seeds
    BY WorldParts
  <2> QED
    BY <2>1, <1>12 DEF SameQueue
<1>14. Tells(w, v, J, X, p.type)
  BY <1>4, <1>5, <1>12, <1>13 DEF Tells
<1> QED
  BY <1>11, <1>14 DEF v, J, X

\* A packet is taken and only flags are noted, which fit the connection: the
\* invariant is kept.
LEMMA NoteKeeps ==
    ASSUME NEW w \in Worlds, NEW names, WorldInv(w, names), NEW k \in Numbers(w),
           w.up[w.srv.clients[k]] # <<>>, NEW g \in SUBSET Flag,
           "NEED_ACCEPT" \in g <=> "NEED_ACCEPT" \in w.srv.flags[k],
           ConnPath(w.srv.clients[k], w.mac[w.srv.clients[k]], Tail(w.up[w.srv.clients[k]]), g,
                    names[k - 1])
    PROVE  WorldInv(Note(w, k, g), names)
<1> DEFINE x == Note(w, k, g)
<1>1. CoreInv(w, names) /\ LatestInv(w, names) /\ NamesInv(w, names) /\ QueueInv(w)
  BY DEF WorldInv, CoreInv
<1>2. x \in Worlds /\ IsNoted(w, x, k, g) /\ x.mac = w.mac
  BY <1>1, NoteParts
<1> HIDE DEF x
<1>3. CoreInv(x, names)
  <2>1. \A j \in Machine : Alike(w.mac[j], x.mac[j])
    BY <1>2 DEF Alike
  <2> QED
    BY <1>1, <1>2, <2>1, Notes
<1>4. AllAdmitted(x) => AllAdmitted(w)
  BY <1>2 DEF AllAdmitted, IsNoted, SameQueue, Numbers
<1>5. LatestInv(x, names) /\ NamesInv(x, names)
  BY <1>1, <1>2, <1>4, Quiet DEF IsNoted
<1> QED
  BY <1>3, <1>5 DEF WorldInv, x

\* What a connection's packet leaves as it was.
Served(w, v, k) ==
    /\ v \in Worlds /\ WorldInv(v, v.mac[Host].names) /\ SameQueue(w, v)
    /\ \A j \in Machine :
          v.up[j] = IF j = w.srv.clients[k] THEN Tail(w.up[j]) ELSE w.up[j]

\* A packet that is ignored, or ends the connection.
LEMMA TakesNoted ==
    ASSUME NEW w \in Worlds, WorldInv(w, w.mac[Host].names), NEW k \in Numbers(w),
           w.up[w.srv.clients[k]] # <<>>, NEW g \in SUBSET Flag,
           "NEED_ACCEPT" \in g <=> "NEED_ACCEPT" \in w.srv.flags[k],
           ConnPath(w.srv.clients[k], w.mac[w.srv.clients[k]], Tail(w.up[w.srv.clients[k]]), g,
                    w.mac[Host].names[k - 1])
    PROVE  Served(w, Note(w, k, g), k)
<1> DEFINE names == w.mac[Host].names
           x == Note(w, k, g)
<1>1. QueueInv(w)
  BY DEF WorldInv, CoreInv
<1>2. x \in Worlds /\ IsNoted(w, x, k, g) /\ x.mac = w.mac
  BY <1>1, NoteParts
<1> HIDE DEF names
<1>3. WorldInv(x, names)
  BY NoteKeeps DEF names
<1> HIDE DEF x
<1>4. WorldInv(x, x.mac[Host].names)
  BY <1>2, <1>3 DEF names
<1> QED
  BY <1>2, <1>4 DEF Served, IsNoted, x

\* A rejected connection keeps waiting to be accepted.
LEMMA TakesRejected ==
    ASSUME NEW w \in Worlds, WorldInv(w, w.mac[Host].names), NEW k \in Numbers(w),
           w.up[w.srv.clients[k]] # <<>>, "NEED_ACCEPT" \in w.srv.flags[k]
    PROVE  Served(w, Replies(Note(w, k, w.srv.flags[k]), k, Rejected), k)
<1> DEFINE names == w.mac[Host].names
           f == w.srv.flags[k]
           n == Note(w, k, f)
           v == Replies(n, k, Rejected)
           J == {n.srv.clients[k]} \intersect Listening(n)
           X == [j \in Machine |-> Rejected]
<1>1. CoreInv(w, names) /\ QueueInv(w) /\ f \in SUBSET Flag
  BY WorldParts DEF WorldInv, CoreInv, QueueInv, Numbers
<1>2. PacketFacts(w, names, k)
  BY <1>1, Packet
<1>3. Served(w, n, k) /\ IsNoted(w, n, k, f) /\ n.mac = w.mac
  <2>1. ConnPath(w.srv.clients[k], w.mac[w.srv.clients[k]], Tail(w.up[w.srv.clients[k]]), f,
                 names[k - 1])
    BY <1>2 DEF PacketFacts
  <2> HIDE DEF f
  <2>2. Served(w, n, k)
    BY <1>1, <2>1, TakesNoted DEF f
  <2>3. IsNoted(w, n, k, f) /\ n.mac = w.mac
    BY <1>1, NoteParts, ZenonT(30) DEF f
  <2> QED
    BY <2>2, <2>3
<1> HIDE DEF n, f
<1>4. n \in Worlds /\ WorldInv(n, names) /\ CoreInv(n, names) /\ LatestInv(n, names)
      /\ NamesInv(n, names) /\ QueueInv(n)
  BY <1>3 DEF Served, WorldInv, CoreInv
<1>5. Rejected \in Downward /\ Rejected.type = "REJECTED"
  BY DEF Rejected, Downward
<1>6. n.srv.clients = w.srv.clients /\ Numbers(n) = Numbers(w)
  BY <1>3 DEF IsNoted, SameQueue, Numbers
<1>7. v \in Worlds /\ Tells(n, v, J, X, "REJECTED")
  BY <1>4, <1>5, <1>6, RepliesTells
<1> HIDE DEF v, X, J
<1>8. CoreInv(v, names)
  BY <1>4, <1>7, Told
<1>9. ~AllAdmitted(v)
  <2>1. "NEED_ACCEPT" \in n.srv.flags[k]
    BY <1>3 DEF IsNoted, f
  <2>2. v.srv.flags = n.srv.flags /\ Numbers(v) = Numbers(w)
    BY <1>6, <1>7 DEF Tells, SameQueue, Numbers
  <2> QED
    BY <2>1, <2>2 DEF AllAdmitted
<1>10. LatestInv(v, names) /\ NamesInv(v, names)
  <2>1. \A j \in Machine :
               \/ v.down[j] = n.down[j]
               \/ \E x \in Downward : /\ x.type \notin {"CONFIG", "PLAYERS"}
                                      /\ v.down[j] = Append(n.down[j], x)
    <3> SUFFICES ASSUME NEW j \in J, j \in Machine
                 PROVE  /\ X[j] \in Downward /\ X[j].type \notin {"CONFIG", "PLAYERS"}
                        /\ v.down[j] = Append(n.down[j], X[j])
      BY <1>7 DEF Tells
    <3> QED
      BY <1>7 DEF Tells
  <2>2. SameQueue(n, v) /\ v.mac = n.mac
    BY <1>7 DEF Tells
  <2>3. LatestInv(v, names)
    BY <1>9 DEF LatestInv
  <2>4. v.srv.seeds = n.srv.seeds
    BY DEF v, Replies
  <2> QED
    BY <2>1, <2>2, <2>4, <1>4, <1>7, <1>9, Quiet
<1>11. v.mac = w.mac /\ v.up = n.up
  BY <1>3, <1>7 DEF Tells
<1>12. SameQueue(w, v)
  <2>1. SameQueue(w, n) /\ SameQueue(n, v)
    BY <1>3, <1>7 DEF IsNoted, Tells
  <2>2. w.srv.seeds \in Nat /\ n.srv.seeds \in Nat /\ v.srv.seeds \in Nat
    BY <1>4, <1>7, WorldParts
  <2> QED
    BY <2>1, <2>2 DEF SameQueue
<1>13. \A j \in Machine : v.up[j] = IF j = w.srv.clients[k] THEN Tail(w.up[j]) ELSE w.up[j]
  BY <1>3, <1>11 DEF IsNoted
<1>14. WorldInv(v, v.mac[Host].names)
  BY <1>8, <1>10, <1>11 DEF WorldInv, names
<1> QED
  BY <1>7, <1>12, <1>13, <1>14 DEF Served, v, n, f

\* A name: everybody is told the configuration again.
LEMMA TakesName ==
    ASSUME NEW w \in Worlds, WorldInv(w, w.mac[Host].names), NEW k \in Numbers(w), w.srv.up,
           w.up[w.srv.clients[k]] # <<>>, "NEED_ACCEPT" \notin w.srv.flags[k],
           NEW p, p = Head(w.up[w.srv.clients[k]]), p.type = "NAME"
    PROVE  Served(w, SendConfig([Note(w, k, w.srv.flags[k])
                                   EXCEPT !.mac[Host].names[k - 1] = p.name]), k)
<1> DEFINE names == w.mac[Host].names
           m == w.srv.clients[k]
           f == w.srv.flags[k]
           n == Note(w, k, f)
           x == [n EXCEPT !.mac[Host].names[k - 1] = p.name]
           names2 == [names EXCEPT ![k - 1] = p.name]
           v == SendConfig(x)
<1>1. CoreInv(w, names) /\ QueueInv(w) /\ f \in SUBSET Flag
  BY WorldParts DEF WorldInv, CoreInv, QueueInv, Numbers
<1>2. PacketFacts(w, names, k)
  BY <1>1, Packet
<1>3. p.name = m /\ ~AllReady(w) /\ ConnPath(m, w.mac[m], Tail(w.up[m]), f, m)
  BY <1>2 DEF PacketFacts
<1>4. n \in Worlds /\ IsNoted(w, n, k, f) /\ n.mac = w.mac /\ n.down = w.down
  BY <1>1, NoteParts
<1>5. k - 1 \in Slot /\ m \in Machine
  BY <1>1, Identified, WorldParts
<1>6. w.mac \in [Machine -> Mac] /\ names \in [Slot -> Known] /\ w.mac[Host] \in Mac
  BY Hosts, WorldParts DEF Worlds, Mac
<1> DEFINE c2 == [w.mac[Host] EXCEPT !.names = names2]
           M == [w.mac EXCEPT ![Host] = c2]
<1>7. names2 \in [Slot -> Known] /\ names2[k - 1] = m
      /\ \A i \in Slot \ {k - 1} : names2[i] = names[i]
  BY <1>3, <1>5, <1>6 DEF Known
<1>8. c2 \in Mac /\ Alike(w.mac[Host], c2) /\ c2.names = names2
  BY <1>6, <1>7 DEF Mac, Alike
<1>9. M \in [Machine -> Mac] /\ M[Host] = c2 /\ \A j \in Machine \ {Host} : M[j] = w.mac[j]
  BY <1>6, <1>8, Hosts
<1>10. x = [srv |-> n.srv, mac |-> M, up |-> n.up, down |-> n.down]
  <2> HIDE DEF n
  <2>1. n = [srv |-> n.srv, mac |-> w.mac, up |-> n.up, down |-> n.down]
    BY <1>4 DEF Worlds
  <2>2. x = [n EXCEPT !.mac = M]
    BY <1>4
  <2> HIDE DEF x, M
  <2> QED
    BY <2>1, <2>2
<1> HIDE DEF n, x, M, c2, names2, names, v
<1>11. x.srv = n.srv /\ x.mac = M /\ x.up = n.up /\ x.down = n.down
  BY <1>10
<1>12. x \in Worlds
  BY <1>4, <1>9, <1>10 DEF Worlds
<1>13. \A j \in Machine : Alike(w.mac[j], x.mac[j])
  BY <1>8, <1>9, <1>11 DEF Alike
<1>14. IsNoted(w, x, k, f)
  BY ONLY <1>4, <1>11 DEF IsNoted, SameQueue, Numbers
<1>15. CoreInv(x, names2)
  <2>1. \A j \in Numbers(w) \ {k} : names2[j - 1] = names[j - 1]
    <3>1. \A j \in Numbers(w) \ {k} : j - 1 \in Slot /\ j - 1 # k - 1
      BY <1>1, Identified DEF Numbers
    <3> QED
      BY <3>1, <1>7
  <2>2. "NEED_ACCEPT" \in f => "NEED_ACCEPT" \in w.srv.flags[k]
    OBVIOUS
  <2>3. ConnPath(w.srv.clients[k], w.mac[w.srv.clients[k]], Tail(w.up[w.srv.clients[k]]), f,
                 names2[k - 1])
    BY <1>3, <1>7
  <2> HIDE DEF f, m
  <2> QED
    BY <2>1, <2>2, <2>3, <1>1, <1>12, <1>13, <1>14, Notes, ZenonT(30)
<1>16. \A j \in Machine : ~Started(x.mac[j], x.down[j])
  <2>1. StartInv(w)
    BY <1>1 DEF CoreInv
  <2>2. x.down = w.down
    BY <1>4, <1>11
  <2> QED
    BY <2>1, <2>2, <1>3, <1>13, AlikePaths DEF StartInv
<1>17. x.mac[Host].names = names2
  BY <1>8, <1>9, <1>11
<1>18. QueueInv(x) /\ SameQueue(w, x)
  BY <1>14, <1>15 DEF CoreInv, IsNoted
<1>19. v \in Worlds /\ Informs(x, v)
  BY <1>12, <1>18, SendConfigInforms DEF v
<1>20. x.srv.up /\ x.srv.clients # <<>>
  <2>1. w.srv.clients # <<>>
    BY WorldParts DEF Numbers
  <2> QED
    BY <2>1, <1>18 DEF SameQueue
<1>21. WorldInv(v, names2)
  BY <1>12, <1>15, <1>16, <1>17, <1>19, <1>20, Informed DEF WorldInv
<1>22. v.mac = x.mac /\ v.up = x.up /\ SameQueue(x, v)
  BY <1>19 DEF Informs
<1>23. SameQueue(w, v)
  <2>1. w.srv.seeds \in Nat /\ x.srv.seeds \in Nat /\ v.srv.seeds \in Nat
    BY <1>12, <1>19, WorldParts
  <2> QED
    BY <2>1, <1>18, <1>22 DEF SameQueue
<1>24. \A j \in Machine : v.up[j] = IF j = m THEN Tail(w.up[j]) ELSE w.up[j]
  BY <1>14, <1>22 DEF IsNoted
<1>25. WorldInv(v, v.mac[Host].names)
  BY <1>17, <1>21, <1>22
<1>26. Served(w, v, k)
  BY <1>19, <1>23, <1>24, <1>25 DEF Served
<1> QED
  BY <1>26 DEF v, x, n

\* A connection that is accepted: it is told so, and everybody is told the
\* configuration.
LEMMA TakesAccepted ==
    ASSUME NEW w \in Worlds, WorldInv(w, w.mac[Host].names), NEW k \in Numbers(w), w.srv.up,
           w.up[w.srv.clients[k]] # <<>>, "NEED_ACCEPT" \in w.srv.flags[k]
    PROVE  Served(w, [SendConfig(Replies(Note(w, k, w.srv.flags[k]), k, Accepted))
                        EXCEPT !.srv.flags[k] = @ \ {"NEED_ACCEPT"}], k)
<1> DEFINE names == w.mac[Host].names
           m == w.srv.clients[k]
           f == w.srv.flags[k]
           g == f \ {"NEED_ACCEPT"}
           n == Note(w, k, f)
           r == Replies(n, k, Accepted)
           s == SendConfig(r)
           v == [s EXCEPT !.srv.flags[k] = @ \ {"NEED_ACCEPT"}]
           x == Note(w, k, g)
           y == [srv |-> x.srv, mac |-> x.mac, up |-> x.up, down |-> r.down]
           J == {m} \intersect Listening(w)
           X == [j \in Machine |-> Accepted]
<1>1. CoreInv(w, names) /\ QueueInv(w) /\ f \in SUBSET Flag /\ g \in SUBSET Flag
  BY WorldParts DEF WorldInv, CoreInv, QueueInv, Numbers
<1>2. PacketFacts(w, names, k)
  BY <1>1, Packet
<1>3. /\ Unaccepted(w.mac[m]) /\ ~AllReady(w) /\ ~Has(w.down[m], "ACCEPTED")
      /\ ConnPath(m, w.mac[m], Tail(w.up[m]), g, names[k - 1])
  BY <1>2 DEF PacketFacts
<1>4. m \in Machine /\ w.srv.flags \in Seq(SUBSET Flag) /\ k \in 1 .. Len(w.srv.flags)
      /\ Numbers(w) = 1 .. Len(w.srv.clients)
  BY <1>1, WorldParts DEF QueueInv, Numbers
<1>5. /\ n \in Worlds /\ n.mac = w.mac /\ n.down = w.down /\ IsNoted(w, n, k, f)
      /\ n.srv = [w.srv EXCEPT !.flags = [@ EXCEPT ![k] = f]]
      /\ n.up = [w.up EXCEPT ![m] = Tail(@)]
  BY <1>1, NoteParts
<1>6. /\ x \in Worlds /\ x.mac = w.mac /\ x.down = w.down /\ IsNoted(w, x, k, g)
      /\ x.srv = [w.srv EXCEPT !.flags = [@ EXCEPT ![k] = g]]
      /\ x.up = [w.up EXCEPT ![m] = Tail(@)]
  <2> HIDE DEF g
  <2> QED
    BY <1>1, NoteParts
<1> HIDE DEF n, x
<1>7. n.srv.clients = w.srv.clients /\ Numbers(n) = Numbers(w) /\ QueueInv(n)
      /\ n.srv.seeds = w.srv.seeds /\ n.srv.pending = w.srv.pending /\ n.srv.up = w.srv.up
      /\ n.srv.flags \in Seq(SUBSET Flag) /\ Len(n.srv.flags) = Len(w.srv.flags)
  <2>1. n.srv.clients = w.srv.clients /\ n.srv.seeds = w.srv.seeds
        /\ n.srv.pending = w.srv.pending /\ n.srv.up = w.srv.up
        /\ Len(n.srv.flags) = Len(w.srv.flags)
    BY <1>5 DEF IsNoted, SameQueue
  <2>2. n.srv.flags \in Seq(SUBSET Flag)
    BY <1>5, WorldParts
  <2> QED
    BY <2>1, <2>2, <1>1, <1>5 DEF QueueInv, Numbers
<1>8. Accepted \in Downward /\ Accepted.type = "ACCEPTED"
  BY DEF Accepted, Downward
<1>9. /\ r \in Worlds /\ r.mac = w.mac /\ r.up = n.up /\ r.srv = n.srv
      /\ \A j \in Machine : r.down[j] = IF j \in J THEN Append(w.down[j], X[j]) ELSE w.down[j]
      /\ J \subseteq Machine
      /\ \A j \in J : X[j] \in Downward /\ X[j].type = "ACCEPTED" /\ w.mac[j].client = "open"
  <2>0. n \in Worlds /\ QueueInv(n) /\ k \in Numbers(n) /\ Accepted \in Downward
    BY <1>5, <1>7, <1>8
  <2>1. /\ Replies(n, k, Accepted) \in Worlds
        /\ Tells(n, Replies(n, k, Accepted), {n.srv.clients[k]} \intersect Listening(n),
                 [j \in Machine |-> Accepted], Accepted.type)
    BY ONLY <2>0, RepliesTells
  <2>2. Listening(n) = Listening(w)
    BY <1>5, <1>7 DEF Listening, Connections
  <2>3. r.srv = n.srv
    BY <1>5 DEF Replies, Worlds
  <2>4. r \in Worlds /\ Tells(n, r, J, X, "ACCEPTED")
    BY <2>1, <2>2, <1>7, <1>8
  <2>5. J \subseteq Machine /\ \A j \in J : X[j] \in Downward /\ X[j].type = "ACCEPTED"
    BY <1>4, <1>8
  <2> HIDE DEF r, J, X
  <2> QED
    BY <2>4, <2>5, <2>3, <1>5, <1>7 DEF Tells
<1> HIDE DEF r, J, X
<1>10. y \in Worlds
  BY <1>6, <1>9 DEF Worlds
<1>11. y.srv = x.srv /\ y.mac = w.mac /\ y.up = x.up /\ y.down = r.down
  BY <1>6
<1> HIDE DEF y, g
<1>12. CoreInv(x, names)
  <2>1. \A j \in Machine : Alike(w.mac[j], x.mac[j])
    BY <1>6 DEF Alike
  <2>2. "NEED_ACCEPT" \in g => "NEED_ACCEPT" \in f
    BY DEF g
  <2> QED
    BY <2>1, <2>2, <1>1, <1>3, <1>6, Notes
<1>13. /\ x.srv.clients = w.srv.clients /\ x.srv.seeds = w.srv.seeds
       /\ x.srv.pending = w.srv.pending /\ x.srv.up = w.srv.up /\ Numbers(x) = Numbers(w)
       /\ Len(x.srv.flags) = Len(w.srv.flags) /\ x.srv.flags[k] = g
  BY <1>6 DEF IsNoted, SameQueue, Numbers
<1>14. Tells(x, y, J, X, "ACCEPTED")
  <2>1. SameQueue(x, y)
    <3>1. x.srv.seeds <= x.srv.seeds
      BY <1>6, WorldParts
    <3> QED
      BY <3>1, <1>11 DEF SameQueue
  <2> QED
    BY <2>1, <1>6, <1>9, <1>11 DEF Tells
<1>15. CoreInv(y, names)
  <2>1. Admitted(x, m)
    <3>1. "NEED_ACCEPT" \notin x.srv.flags[k] /\ x.srv.clients[k] = m /\ k \in Numbers(x)
      BY <1>13 DEF g
    <3> QED
      BY <3>1 DEF Admitted
  <2>2. \A j \in J : Unaccepted(x.mac[j]) /\ Admitted(x, j) /\ ~Has(x.down[j], "ACCEPTED")
    BY <2>1, <1>3, <1>6 DEF J
  <2> QED
    BY <2>2, <1>6, <1>10, <1>12, <1>14, Told
<1>16. \A j \in Machine : ~Started(y.mac[j], y.down[j])
  <2> SUFFICES ASSUME NEW j \in Machine, Started(w.mac[j], r.down[j]) PROVE FALSE
    BY <1>11
  <2>1. Has(r.down[j], "SYN@") => Has(w.down[j], "SYN@")
    <3>1. CASE j \in J
      <4>1. w.down[j] \in Seq(Downward)
        BY WorldParts
      <4>2. X[j] \in Downward /\ X[j].type = "ACCEPTED" /\ r.down[j] = Append(w.down[j], X[j])
        BY <3>1, <1>9
      <4>3. Has(Append(w.down[j], X[j]), "SYN@") => Has(w.down[j], "SYN@")
        BY <4>1, <4>2, HasAppend
      <4> QED
        BY <4>2, <4>3
    <3>2. CASE j \notin J
      BY <3>2, <1>9
    <3> QED
      BY <3>1, <3>2
  <2>2. Started(w.mac[j], w.down[j])
    BY <2>1 DEF Started
  <2> QED
    BY <2>2, <1>1, <1>3 DEF CoreInv, StartInv
<1>17. s \in Worlds /\ Informs(r, s)
  <2>1. QueueInv(r)
    <3>1. r.srv = n.srv /\ r.mac = n.mac /\ QueueInv(n)
      BY <1>5, <1>7, <1>9
    <3> QED
      BY ONLY <3>1 DEF QueueInv
  <2> QED
    BY <2>1, <1>9, SendConfigInforms
<1> HIDE DEF s
<1>18. /\ s.mac = w.mac /\ s.up = n.up /\ s.srv.flags = n.srv.flags
       /\ s.srv.seeds = w.srv.seeds + 1 /\ s.srv.clients = w.srv.clients
       /\ s.srv.pending = w.srv.pending /\ s.srv.up = w.srv.up
  BY <1>7, <1>9, <1>17 DEF Informs, SameQueue
<1>19. n.srv.flags[k] = f /\ [n.srv.flags EXCEPT ![k] = g] = [w.srv.flags EXCEPT ![k] = g]
  <2>1. n.srv.flags = [w.srv.flags EXCEPT ![k] = f] /\ f = w.srv.flags[k]
    BY <1>5 DEF Worlds, Srv
  <2> QED
    BY <2>1, <1>4
<1> DEFINE S == [s.srv EXCEPT !.flags = [@ EXCEPT ![k] = g]]
<1>20. v = [srv |-> S, mac |-> s.mac, up |-> s.up, down |-> s.down]
  <2>1. s.srv.flags[k] \ {"NEED_ACCEPT"} = g
    BY <1>18, <1>19 DEF g
  <2>2. v = [s EXCEPT !.srv = S]
    BY <2>1
  <2>3. s = [srv |-> s.srv, mac |-> s.mac, up |-> s.up, down |-> s.down]
    BY <1>17 DEF Worlds
  <2> HIDE DEF S, v
  <2> QED
    BY <2>2, <2>3
<1>21. /\ S \in Srv /\ S.clients = w.srv.clients /\ S.pending = w.srv.pending
       /\ S.up = w.srv.up /\ S.seeds = w.srv.seeds + 1 /\ S.flags = x.srv.flags
  <2>1. [w.srv.flags EXCEPT ![k] = g] = x.srv.flags
    BY <1>6 DEF Worlds, Srv
  <2>2. s.srv \in Srv
    BY <1>17 DEF Worlds
  <2>3. x.srv.flags \in Seq(SUBSET Flag)
    BY <1>6, WorldParts
  <2>4. S = [s.srv EXCEPT !.flags = x.srv.flags]
    BY <2>1, <1>18, <1>19
  <2> HIDE DEF S
  <2> QED
    BY <2>2, <2>3, <2>4, <1>18 DEF Srv
<1> HIDE DEF S, v
<1>22. v.srv = S /\ v.mac = w.mac /\ v.up = n.up /\ v.down = s.down
  BY <1>18, <1>20
<1>23. v \in Worlds
  BY <1>17, <1>20, <1>21 DEF Worlds
<1>24. Informs(y, v)
  <2>1. n.up = x.up
    BY <1>5, <1>6
  <2>2. SameQueue(y, v)
    <3>1. w.srv.seeds <= w.srv.seeds + 1
      BY WorldParts
    <3> QED
      BY <3>1, <1>11, <1>13, <1>21, <1>22 DEF SameQueue
  <2>3. y.srv.clients = r.srv.clients /\ y.srv.seeds = r.srv.seeds /\ y.mac = r.mac
        /\ y.down = r.down
    BY <1>7, <1>9, <1>11, <1>13
  <2>4. Listening(y) = Listening(r) /\ NewConfig(y) = NewConfig(r)
        /\ \A j : NewPlayers(y, j) = NewPlayers(r, j)
    BY <2>3 DEF Listening, Connections, NewConfig, NewPlayers, IdOf, Ids, MachineOf
  <2>5. \A j \in Machine :
          s.down[j] = IF j \in Listening(r)
                      THEN Append(Append(r.down[j], NewConfig(r)), NewPlayers(r, j))
                      ELSE r.down[j]
    BY <1>17 DEF Informs
  <2> QED
    BY <2>1, <2>2, <2>3, <2>4, <2>5, <1>11, <1>13, <1>21, <1>22 DEF Informs
<1>25. y.srv.up /\ y.srv.clients # <<>> /\ y.mac[Host].names = names
  <2>1. w.srv.clients # <<>>
    BY WorldParts DEF Numbers
  <2> QED
    BY <2>1, <1>11, <1>13
<1> HIDE DEF names
<1>26. WorldInv(v, names)
  BY <1>10, <1>15, <1>16, <1>23, <1>24, <1>25, Informed DEF WorldInv
<1>27. SameQueue(w, v)
  <2>1. w.srv.seeds <= w.srv.seeds + 1
    BY WorldParts
  <2> QED
    BY <2>1, <1>13, <1>21, <1>22 DEF SameQueue
<1>28. \A j \in Machine : v.up[j] = IF j = m THEN Tail(w.up[j]) ELSE w.up[j]
  BY <1>5, <1>22 DEF IsNoted
<1>29. WorldInv(v, v.mac[Host].names)
  BY <1>22, <1>26 DEF names
<1>30. Served(w, v, k)
  BY <1>23, <1>27, <1>28, <1>29 DEF Served
<1> QED
  BY <1>30 DEF v, s, r, n

\* Everybody who can be sent something is sent the same packet.
LEMMA SentAll ==
    ASSUME NEW w \in Worlds, QueueInv(w), NEW p \in Downward
    PROVE  LET y == [srv |-> w.srv, mac |-> w.mac, up |-> w.up,
                     down |-> Sent(w, [id \in Ids(w) |-> <<p>>])]
           IN  y \in Worlds /\ Tells(w, y, Listening(w), [j \in Machine |-> p], p.type)
<1> DEFINE packets == [id \in Ids(w) |-> <<p>>]
           D == Sent(w, packets)
           y == [srv |-> w.srv, mac |-> w.mac, up |-> w.up, down |-> D]
           J == Listening(w)
           X == [j \in Machine |-> p]
<1>1. w.srv \in Srv /\ w.srv.seeds <= w.srv.seeds
  BY WorldParts DEF Worlds
<1>2. /\ \A m \in Machine :
            D[m] = IF m \in Listening(w) THEN w.down[m] \o packets[IdOf(w, m)] ELSE w.down[m]
      /\ \A m \in Listening(w) : m \in Machine /\ IdOf(w, m) \in Ids(w)
  <2> HIDE DEF packets
  <2> QED
    BY SentParts
<1>3. \A m \in Machine : D[m] = IF m \in J THEN Append(w.down[m], X[m]) ELSE w.down[m]
  <2> SUFFICES ASSUME NEW m \in Machine, m \in Listening(w)
               PROVE  D[m] = Append(w.down[m], p)
    BY <1>2
  <2>1. packets[IdOf(w, m)] = <<p>>
    BY <1>2
  <2> HIDE DEF packets, D
  <2>2. D[m] = w.down[m] \o <<p>>
    BY <2>1, <1>2
  <2>3. w.down[m] \in Seq(Downward) /\ p \in Downward
    BY WorldParts
  <2> QED
    BY ONLY <2>2, <2>3, OneMore
<1>4. \A m \in Machine : D[m] \in Seq(Downward)
  <2> SUFFICES ASSUME NEW m \in Machine PROVE D[m] \in Seq(Downward)
    OBVIOUS
  <2>1. w.down[m] \in Seq(Downward)
    BY WorldParts
  <2>2. Append(w.down[m], p) \in Seq(Downward)
    BY <2>1, AppendParts
  <2> HIDE DEF D
  <2> QED
    BY <2>1, <2>2, <1>3
<1>5. D = [m \in Machine |-> D[m]]
  BY DEF Sent
<1>6. J \subseteq Machine /\ \A j \in J : X[j] \in Downward /\ X[j].type = p.type
                                          /\ w.mac[j].client = "open"
  BY <1>2 DEF Listening
<1>7. y \in Worlds /\ y.srv = w.srv /\ y.mac = w.mac /\ y.up = w.up /\ y.down = D
  <2> HIDE DEF D
  <2> QED
    BY <1>1, <1>4, <1>5, WithDown
<1> HIDE DEF D, J, X, y
<1>8. Tells(w, y, J, X, p.type)
  <2>1. SameQueue(w, y)
    BY <1>1, <1>7 DEF SameQueue
  <2> QED
    BY <2>1, <1>3, <1>6, <1>7 DEF Tells
<1> QED
  BY <1>7, <1>8 DEF y, D, J, X

\* Everybody is answered at once, and goes on.
LEMMA SyncKeeps ==
    ASSUME NEW w \in Worlds, WorldInv(w, w.mac[Host].names), w.srv.clients # <<>>
    PROVE  /\ SyncAll(w) \in Worlds /\ WorldInv(SyncAll(w), SyncAll(w).mac[Host].names)
           /\ SameQueue(w, SyncAll(w)) /\ SyncAll(w).up = w.up
<1> DEFINE names == w.mac[Host].names
           r == SyncResp(w.mac[Host].seed)
           packets == [id \in Ids(w) |-> <<r>>]
           F == [k \in DOMAIN w.srv.flags |-> w.srv.flags[k] \ {"WAIT_SYNC"}]
           D == Sent(w, packets)
           s == [w.srv EXCEPT !.flags = F]
           waiting == \A k \in DOMAIN w.srv.flags : "WAIT_SYNC" \in w.srv.flags[k]
           y == [srv |-> w.srv, mac |-> w.mac, up |-> w.up, down |-> D]
           z == [srv |-> s, mac |-> w.mac, up |-> w.up, down |-> D]
           J == Listening(w)
           X == [j \in Machine |-> r]
<1>1. CoreInv(w, names) /\ LatestInv(w, names) /\ NamesInv(w, names) /\ QueueInv(w)
  BY DEF WorldInv, CoreInv
<1>2. /\ w = [srv |-> w.srv, mac |-> w.mac, up |-> w.up, down |-> w.down] /\ w.srv \in Srv
      /\ w.srv.flags \in Seq(SUBSET Flag) /\ DOMAIN w.srv.flags = Numbers(w)
      /\ Len(w.srv.flags) = Len(w.srv.clients) /\ Len(w.srv.clients) \in Nat
      /\ w.srv.seeds <= w.srv.seeds
  <2>1. w.srv.flags \in Seq(SUBSET Flag) /\ Len(w.srv.flags) = Len(w.srv.clients)
        /\ w.srv.seeds <= w.srv.seeds
    BY <1>1, WorldParts DEF QueueInv
  <2>2. DOMAIN w.srv.flags = Numbers(w)
    BY <2>1 DEF Numbers
  <2> QED
    BY <2>1, <2>2, WorldParts DEF Worlds
<1>3. waiting => SyncAll(w) = z
  <2> SUFFICES ASSUME waiting PROVE [w EXCEPT !.down = D, !.srv.flags = F] = z
    BY DEF SyncAll
  <2> HIDE DEF D, F
  <2>1. [w EXCEPT !.down = D, !.srv.flags = F] = [w EXCEPT !.down = D, !.srv = s]
    OBVIOUS
  <2> DEFINE s1 == w.srv
             m1 == w.mac
             u1 == w.up
             d1 == w.down
  <2>2. w = [srv |-> s1, mac |-> m1, up |-> u1, down |-> d1]
    BY <1>2
  <2>3. m1 = w.mac /\ u1 = w.up
    OBVIOUS
  <2> DEFINE q == [w EXCEPT !.down = D, !.srv = s]
  <2> HIDE DEF s
  <2>4. q = [w EXCEPT !.down = D, !.srv = s]
    OBVIOUS
  <2> HIDE DEF s1, m1, u1, d1, q
  <2>5. q = [srv |-> s, mac |-> m1, up |-> u1, down |-> D]
    BY ONLY <2>2, <2>4
  <2> QED
    BY <2>1, <2>3, <2>4, <2>5
<1>4. ~waiting => SyncAll(w) = w
  BY DEF SyncAll
<1> SUFFICES ASSUME waiting
             PROVE  z \in Worlds /\ WorldInv(z, names) /\ SameQueue(w, z)
  <2>1. z.mac = w.mac /\ z.up = w.up
    OBVIOUS
  <2>2. SameQueue(w, w)
    BY <1>2 DEF SameQueue
  <2> HIDE DEF z, waiting
  <2> QED
    BY <2>1, <2>2, <1>3, <1>4
<1>5. r \in Downward /\ r.type = "SYN@"
  <2>1. w.mac[Host].seed \in Nat
    BY WorldParts, Hosts DEF Mac
  <2> QED
    BY <2>1 DEF SyncResp, Downward
<1> HIDE DEF r
<1>6. y \in Worlds /\ Tells(w, y, J, X, "SYN@")
  BY <1>1, <1>5, SentAll
<1>7. y.srv = w.srv /\ y.mac = w.mac /\ y.up = w.up /\ y.down = D
  OBVIOUS
<1>8. D \in [Machine -> Seq(Downward)]
  BY <1>6, <1>7 DEF Worlds
<1>12. /\ F \in Seq(SUBSET Flag) /\ Len(F) = Len(w.srv.flags)
       /\ \A k \in Numbers(w) : F[k] = w.srv.flags[k] \ {"WAIT_SYNC"}
  <2>1. F = [k \in 1 .. Len(w.srv.flags) |-> w.srv.flags[k] \ {"WAIT_SYNC"}]
    BY <1>2
  <2>2. \A k \in 1 .. Len(w.srv.flags) : w.srv.flags[k] \ {"WAIT_SYNC"} \in SUBSET Flag
    BY <1>2
  <2> QED
    BY <2>1, <2>2, <1>2
<1> HIDE DEF D, J, X, y, F
<1>14. AllReady(w)
  <2> SUFFICES ASSUME NEW k \in Numbers(w)
               PROVE  ReadyPath(w.mac[w.srv.clients[k]], w.up[w.srv.clients[k]], w.srv.flags[k])
    BY DEF AllReady
  <2>1. "WAIT_SYNC" \in w.srv.flags[k]
    BY <1>2
  <2> QED
    BY <2>1, <1>1 DEF CoreInv, ConnInv, ConnPath, ReadyPath
<1>15. CoreInv(y, names)
  BY <1>1, <1>6, <1>14, Told
<1>16. LatestInv(y, names) /\ NamesInv(y, names)
  <2>1. \A j \in Machine :
               \/ y.down[j] = w.down[j]
               \/ \E x \in Downward : /\ x.type \notin {"CONFIG", "PLAYERS"}
                                      /\ y.down[j] = Append(w.down[j], x)
    <3> SUFFICES ASSUME NEW j \in J, j \in Machine
                 PROVE  /\ X[j] \in Downward /\ X[j].type \notin {"CONFIG", "PLAYERS"}
                        /\ y.down[j] = Append(w.down[j], X[j])
      BY <1>6 DEF Tells
    <3> QED
      BY <1>6 DEF Tells
  <2>2. SameQueue(w, y)
    BY <1>6 DEF Tells
  <2>3. AllAdmitted(y) => AllAdmitted(w)
    BY <1>7 DEF AllAdmitted, Numbers
  <2> QED
    BY <2>1, <2>2, <2>3, <1>1, <1>6, <1>7, Quiet
<1>17. /\ s \in Srv /\ s.clients = w.srv.clients /\ s.pending = w.srv.pending
       /\ s.up = w.srv.up /\ s.seeds = w.srv.seeds /\ s.flags = F
  BY <1>2, <1>12 DEF Srv
<1> HIDE DEF s
<1>18. z.srv = s /\ z.mac = w.mac /\ z.up = w.up /\ z.down = D
  OBVIOUS
<1>19. z \in Worlds
  <2>1. w.mac \in [Machine -> Mac] /\ w.up \in [Machine -> Seq(Upward)]
    BY DEF Worlds
  <2> QED
    BY <2>1, <1>8, <1>17 DEF Worlds
<1> HIDE DEF z
<1>20. SameQueue(y, z) /\ SameQueue(w, z) /\ Numbers(y) = Numbers(w) /\ Numbers(z) = Numbers(w)
       /\ z.srv.seeds = y.srv.seeds /\ z.down = y.down
  BY <1>2, <1>7, <1>12, <1>17, <1>18 DEF SameQueue, Numbers
<1>21. \A k \in Numbers(y) : z.srv.flags[k] = y.srv.flags[k] \ {"WAIT_SYNC"}
  BY <1>7, <1>12, <1>17, <1>18, <1>20
<1>22. ConnInv(z, names)
  <2> SUFFICES ASSUME NEW k \in Numbers(w)
               PROVE  ConnPath(z.srv.clients[k], z.mac[z.srv.clients[k]],
                               z.up[z.srv.clients[k]], z.srv.flags[k], names[k - 1])
    BY <1>20 DEF ConnInv
  <2>1. ConnPath(w.srv.clients[k], w.mac[w.srv.clients[k]], w.up[w.srv.clients[k]],
                 w.srv.flags[k], names[k - 1])
    BY <1>1 DEF CoreInv, ConnInv
  <2>2. z.srv.flags[k] = w.srv.flags[k] \ {"WAIT_SYNC"} /\ z.srv.clients = w.srv.clients
        /\ z.mac = w.mac /\ z.up = w.up
    BY <1>7, <1>17, <1>18, <1>20, <1>21
  <2>3. IsDead(z.srv.flags[k]) => IsDead(w.srv.flags[k])
    BY <2>2 DEF IsDead
  <2> QED
    BY <2>1, <2>2, <2>3 DEF ConnPath
<1>23. CoreInv(z, names)
  <2>1. \A j \in Machine : Alike(y.mac[j], z.mac[j]) /\ Taken(y.up[j], z.up[j])
    BY <1>7, <1>18 DEF Alike, Taken
  <2>2. \A k \in Numbers(y) :
               /\ "NEED_ACCEPT" \in z.srv.flags[k] => "NEED_ACCEPT" \in y.srv.flags[k]
               /\ "NEED_ACCEPT" \in z.srv.flags[k] \/ "NEED_ACCEPT" \notin y.srv.flags[k]
    BY <1>21
  <2> QED
    BY <2>1, <2>2, <1>6, <1>7, <1>15, <1>19, <1>20, <1>22, Noted
<1>24. LatestInv(z, names) /\ NamesInv(z, names)
  <2>1. AllAdmitted(z) => AllAdmitted(y)
    BY <1>20, <1>21 DEF AllAdmitted
  <2> QED
    BY <2>1, <1>6, <1>7, <1>16, <1>18, <1>19, <1>20, Quiet
<1> QED
  BY <1>19, <1>20, <1>23, <1>24 DEF WorldInv

\* A request to go on: it is noted, and when it is the last one everybody is
\* let in.
LEMMA TakesSync ==
    ASSUME NEW w \in Worlds, WorldInv(w, w.mac[Host].names), NEW k \in Numbers(w),
           w.up[w.srv.clients[k]] # <<>>, "NEED_ACCEPT" \notin w.srv.flags[k],
           Head(w.up[w.srv.clients[k]]).type = "SYNC"
    PROVE  Served(w, SyncAll(Note(w, k, w.srv.flags[k] \union {"WAIT_SYNC"})), k)
<1> DEFINE names == w.mac[Host].names
           g == w.srv.flags[k] \union {"WAIT_SYNC"}
           x == Note(w, k, g)
           v == SyncAll(x)
<1>1. CoreInv(w, names) /\ w.srv.flags[k] \in SUBSET Flag
  BY WorldParts DEF WorldInv, CoreInv, QueueInv, Numbers
<1>2. g \in SUBSET Flag /\ ("NEED_ACCEPT" \in g <=> "NEED_ACCEPT" \in w.srv.flags[k])
  BY <1>1 DEF Flag
<1>3. PacketFacts(w, names, k)
  BY <1>1, Packet
<1>4. ConnPath(w.srv.clients[k], w.mac[w.srv.clients[k]], Tail(w.up[w.srv.clients[k]]), g,
               names[k - 1])
  BY <1>3 DEF PacketFacts
<1> HIDE DEF g
<1>5. Served(w, x, k)
  BY <1>2, <1>4, TakesNoted
<1> HIDE DEF x
<1>6. x \in Worlds /\ WorldInv(x, x.mac[Host].names) /\ SameQueue(w, x)
  BY <1>5 DEF Served
<1>7. x.srv.clients # <<>>
  <2>1. w.srv.clients # <<>>
    BY WorldParts DEF Numbers
  <2> QED
    BY <2>1, <1>6 DEF SameQueue
<1>8. v \in Worlds /\ WorldInv(v, v.mac[Host].names) /\ SameQueue(x, v) /\ v.up = x.up
  BY <1>6, <1>7, SyncKeeps
<1> HIDE DEF v
<1>9. SameQueue(w, v)
  <2>1. w.srv.seeds \in Nat /\ x.srv.seeds \in Nat /\ v.srv.seeds \in Nat
    BY <1>6, <1>8, WorldParts
  <2> QED
    BY <2>1, <1>6, <1>8 DEF SameQueue
<1>10. Served(w, v, k)
  BY <1>5, <1>8, <1>9 DEF Served
<1> QED
  BY <1>10 DEF v, x, g

\* The server takes any packet.
LEMMA Takes ==
    ASSUME NEW w \in Worlds, WorldInv(w, w.mac[Host].names), NEW k \in Numbers(w), w.srv.up,
           w.up[w.srv.clients[k]] # <<>>
    PROVE  Served(w, ServerTakes(w, k - 1), k)
<1> DEFINE names == w.mac[Host].names
           m == w.srv.clients[k]
           f == w.srv.flags[k]
           p == Head(w.up[m])
           e == Tail(w.up[m])
           n == Note(w, k, f)
           v == ServerTakes(w, k - 1)
<1>1. CoreInv(w, names) /\ f \in SUBSET Flag
  BY WorldParts DEF WorldInv, CoreInv, QueueInv, Numbers
<1>2. PacketFacts(w, names, k)
  BY <1>1, Packet
<1>3. /\ "NEED_ACCEPT" \in f /\ p.type # "CONNECT" => v = n
      /\ "NEED_ACCEPT" \in f /\ p.type = "CONNECT" /\ ~p.ok => v = Replies(n, k, Rejected)
      /\ "NEED_ACCEPT" \in f /\ p.type = "CONNECT" /\ p.ok =>
            v = [SendConfig(Replies(n, k, Accepted)) EXCEPT !.srv.flags[k] = @ \ {"NEED_ACCEPT"}]
      /\ "NEED_ACCEPT" \notin f /\ p.type = "NAME" =>
            v = SendConfig([n EXCEPT !.mac[Host].names[k - 1] = p.name])
      /\ "NEED_ACCEPT" \notin f /\ p.type = "SYNC" =>
            v = SyncAll(Note(w, k, f \union {"WAIT_SYNC"}))
      /\ "NEED_ACCEPT" \notin f /\ p.type = "DISC" => v = Note(w, k, f \union {"QUIT"})
  BY <1>1, TakesCases DEF TakesFacts
<1>4. p.type \in {"CONNECT", "NAME", "SYNC", "DISC"} /\ (p.type = "CONNECT" => p.ok \in BOOLEAN)
  BY <1>2, PacketTypes DEF PacketFacts
<1> SUFFICES Served(w, v, k)
  OBVIOUS
<1> HIDE DEF v
<1>5. CASE "NEED_ACCEPT" \in f /\ p.type # "CONNECT"
  <2>1. ConnPath(m, w.mac[m], e, f, names[k - 1])
    BY <1>2, <1>5 DEF PacketFacts
  <2>2. Served(w, n, k)
    BY <2>1, <1>1, TakesNoted
  <2> QED
    BY <2>2, <1>3, <1>5
<1>6. CASE "NEED_ACCEPT" \in f /\ p.type = "CONNECT" /\ ~p.ok
  <2>1. v = Replies(n, k, Rejected)
    BY <1>3, <1>6
  <2> QED
    BY <2>1, <1>6, TakesRejected
<1>7. CASE "NEED_ACCEPT" \in f /\ p.type = "CONNECT" /\ p.ok
  <2>1. v = [SendConfig(Replies(n, k, Accepted)) EXCEPT !.srv.flags[k] = @ \ {"NEED_ACCEPT"}]
    BY <1>3, <1>7
  <2> QED
    BY <2>1, <1>7, TakesAccepted
<1>8. CASE "NEED_ACCEPT" \notin f /\ p.type = "NAME"
  <2>1. v = SendConfig([n EXCEPT !.mac[Host].names[k - 1] = p.name])
    BY <1>3, <1>8
  <2> QED
    BY <2>1, <1>8, TakesName
<1>9. CASE "NEED_ACCEPT" \notin f /\ p.type = "SYNC"
  <2>1. v = SyncAll(Note(w, k, f \union {"WAIT_SYNC"}))
    BY <1>3, <1>9
  <2> QED
    BY <2>1, <1>9, TakesSync
<1>10. CASE "NEED_ACCEPT" \notin f /\ p.type = "DISC"
  <2> DEFINE g == f \union {"QUIT"}
  <2>1. v = Note(w, k, g)
    BY <1>3, <1>10
  <2>2. ConnPath(m, w.mac[m], e, g, names[k - 1])
    BY <1>2, <1>10 DEF PacketFacts
  <2>3. g \in SUBSET Flag /\ ("NEED_ACCEPT" \in g <=> "NEED_ACCEPT" \in f)
    BY <1>1, <1>10 DEF Flag, Dead
  <2> HIDE DEF g
  <2> QED
    BY <2>1, <2>2, <2>3, TakesNoted
<1>11. CASE "NEED_ACCEPT" \notin f /\ p.type = "CONNECT"
  BY <1>2, <1>11 DEF PacketFacts
<1> QED
  BY <1>4, <1>5, <1>6, <1>7, <1>8, <1>9, <1>10, <1>11
-----------------------------------------------------------------------------
(* The loops of a poll.                                                    *)

LEMMA Induction ==
    ASSUME NEW S, 0 \in S, \A n \in Nat : n \in S => n + 1 \in S
    PROVE  Nat \subseteq S
<1> DEFINE R == OpToRel(<, Nat)
<1>1. \A i, j \in Nat : i < j => <<i, j>> \in R
  BY DEF OpToRel
<1>2. IsWellFoundedOn(R, Nat)
  BY NatLessThanWellFounded
<1> HIDE DEF R
<1> SUFFICES ASSUME Nat \ S # {} PROVE FALSE
  OBVIOUS
<1>3. PICK x \in Nat \ S : \A y \in Nat \ S : ~ (<<y, x>> \in R)
  BY <1>2, WFMin
<1>4. x - 1 \in Nat /\ x - 1 < x
  BY <1>3
<1>5. x - 1 \in S
  BY <1>1, <1>3, <1>4
<1> QED
  BY <1>3, <1>4, <1>5

\* Step k of each of the loops, for the connection or the packets in d.
Due(w, x, k, arrived) ==
    LET m == MachineOf(w, k - 1) IN IF m = Host THEN Len(x.up[m]) ELSE arrived[m]
Step(loop, x, k, d) ==
    CASE loop = "OwnClient" -> ClientTakes(x, Host)
      [] loop = "Accepts" -> Incoming(x)
      [] loop = "Serves" -> ServerTakes(x, d)
      [] loop = "ServesAll" -> Serves(x, k - 1, Due(d[1], x, k, d[2]))

IsRun(loop, w, d, n, f) ==
    f = [k \in 0 .. n |-> IF k = 0 THEN w ELSE Step(loop, f[k - 1], k, d)]

\* The recursive functions they are written with exist.
LEMMA Loops ==
    ASSUME NEW loop, NEW w, NEW d, NEW n \in Nat
    PROVE  \E f : IsRun(loop, w, d, n, f)
<1> DEFINE R(i, f) == f = [k \in 0 .. i |-> IF k = 0 THEN w ELSE Step(loop, f[k - 1], k, d)]
           S == {i \in Nat : \E f : R(i, f)}
<1>1. 0 \in S
  <2> DEFINE f == [k \in 0 .. 0 |-> w]
  <2>1. R(0, f)
    OBVIOUS
  <2> QED
    BY <2>1
<1>2. ASSUME NEW i \in Nat, i \in S PROVE i + 1 \in S
  <2>1. PICK f : R(i, f)
    BY <1>2
  <2> DEFINE g == [k \in 0 .. i + 1 |-> IF k = i + 1 THEN Step(loop, f[i], k, d) ELSE f[k]]
             h == [k \in 0 .. i + 1 |-> IF k = 0 THEN w ELSE Step(loop, g[k - 1], k, d)]
  <2>2. ASSUME NEW k \in 0 .. i + 1 PROVE g[k] = h[k]
    <3>1. CASE k = 0
      BY <2>1, <3>1
    <3>2. CASE k = i + 1
      <4>1. g[k] = Step(loop, f[i], k, d) /\ k # 0
        BY <3>2
      <4>2. k - 1 \in 0 .. i + 1 /\ k - 1 # i + 1 /\ k - 1 = i
        BY <3>2
      <4> QED
        BY <4>1, <4>2
    <3>3. CASE k \in 1 .. i
      <4>1. f[k] = Step(loop, f[k - 1], k, d) /\ g[k] = f[k]
        BY <2>1, <3>3
      <4>2. k - 1 \in 0 .. i + 1 /\ k - 1 # i + 1
        BY <3>3
      <4>3. g[k - 1] = f[k - 1] /\ k # 0
        BY <4>2, <3>3
      <4> QED
        BY <4>1, <4>3
    <3> QED
      BY <3>1, <3>2, <3>3
  <2>3. g = h
    BY <2>2
  <2>4. R(i + 1, g)
    BY <2>3
  <2> HIDE DEF g
  <2> QED
    BY <2>4
<1>3. Nat \subseteq S
  <2> HIDE DEF S
  <2> QED
    BY <1>1, <1>2, Induction
<1> QED
  BY <1>3 DEF IsRun

ServesBy(w, id, n, f) ==
    /\ f[0] = w /\ \A k \in 1 .. n : f[k] = ServerTakes(f[k - 1], id)
    /\ Serves(w, id, n) = Lost(f[n], id)

\* Serves is a run over the packets of one connection.
LEMMA ServesRun ==
    ASSUME NEW w, NEW id, NEW n \in Nat
    PROVE  \E f : ServesBy(w, id, n, f)
<1> DEFINE run[k \in 0 .. n] == IF k = 0 THEN w ELSE ServerTakes(run[k - 1], id)
<1>1. \E f : f = [k \in 0 .. n |-> IF k = 0 THEN w ELSE ServerTakes(f[k - 1], id)]
  <2>1. PICK f : IsRun("Serves", w, id, n, f)
    BY Loops
  <2>2. f = [k \in 0 .. n |-> IF k = 0 THEN w ELSE ServerTakes(f[k - 1], id)]
    BY <2>1 DEF IsRun, Step
  <2> QED
    BY <2>2
<1>2. run = [k \in 0 .. n |-> IF k = 0 THEN w ELSE ServerTakes(run[k - 1], id)]
  BY <1>1
<1>3. Serves(w, id, n) = Lost(run[n], id)
  BY DEF Serves
<1> HIDE DEF run
<1> QED
  BY <1>2, <1>3 DEF ServesBy

\* What serving connection k keeps.
Serving(w, v, k) ==
    /\ v \in Worlds /\ WorldInv(v, v.mac[Host].names) /\ SameQueue(w, v)
    /\ \A j \in Machine : j # w.srv.clients[k] => v.up[j] = w.up[j]

\* A connection is given up once everything that was sent has been taken.
LEMMA LostKeeps ==
    ASSUME NEW w \in Worlds, WorldInv(w, w.mac[Host].names), NEW k \in Numbers(w)
    PROVE  Serving(w, Lost(w, k - 1), k)
<1> DEFINE names == w.mac[Host].names
           m == w.srv.clients[k]
           gone == /\ w.up[m] = <<>> /\ w.mac[m].client = "freed"
                   /\ ~IsDead(w.srv.flags[k])
           g == w.srv.flags[k] \union {"LOCAL_ERROR"}
           F == [w.srv.flags EXCEPT ![k] = g]
           s == [w.srv EXCEPT !.flags = F]
           v == [srv |-> s, mac |-> w.mac, up |-> w.up, down |-> w.down]
<1>1. CoreInv(w, names) /\ LatestInv(w, names) /\ NamesInv(w, names) /\ QueueInv(w)
  BY DEF WorldInv, CoreInv
<1>2. /\ w = [srv |-> w.srv, mac |-> w.mac, up |-> w.up, down |-> w.down] /\ w.srv \in Srv
      /\ w.srv.flags \in Seq(SUBSET Flag) /\ w.srv.seeds <= w.srv.seeds
      /\ k \in 1 .. Len(w.srv.flags) /\ Numbers(w) = 1 .. Len(w.srv.flags)
  <2>1. w.srv.flags \in Seq(SUBSET Flag) /\ w.srv.seeds <= w.srv.seeds
    BY WorldParts
  <2>2. Numbers(w) = 1 .. Len(w.srv.flags)
    BY <1>1 DEF QueueInv, Numbers
  <2> QED
    BY <2>1, <2>2 DEF Worlds
<1>3. MachineOf(w, k - 1) = m /\ (k - 1) + 1 = k
  BY <1>1, <1>2, Identified
<1>4. Lost(w, k - 1) = IF gone THEN [w EXCEPT !.srv.flags[k] = @ \union {"LOCAL_ERROR"}] ELSE w
  BY <1>3 DEF Lost
<1>5. [w EXCEPT !.srv.flags[k] = @ \union {"LOCAL_ERROR"}] = v
  <2> DEFINE s1 == w.srv
             m1 == w.mac
             u1 == w.up
             d1 == w.down
             q == [w EXCEPT !.srv = s]
  <2>1. [w EXCEPT !.srv.flags[k] = @ \union {"LOCAL_ERROR"}] = q
    OBVIOUS
  <2>2. w = [srv |-> s1, mac |-> m1, up |-> u1, down |-> d1]
    BY <1>2
  <2>3. m1 = w.mac /\ u1 = w.up /\ d1 = w.down
    OBVIOUS
  <2> HIDE DEF s
  <2>4. q = [w EXCEPT !.srv = s]
    OBVIOUS
  <2> HIDE DEF s1, m1, u1, d1, q
  <2>5. q = [srv |-> s, mac |-> m1, up |-> u1, down |-> d1]
    BY ONLY <2>2, <2>4
  <2> QED
    BY <2>1, <2>3, <2>5
<1>6. SameQueue(w, w)
  BY <1>2 DEF SameQueue
<1>7. Serving(w, w, k)
  BY <1>6 DEF Serving
<1> SUFFICES ASSUME gone PROVE Serving(w, v, k)
  <2> HIDE DEF v, gone
  <2> QED
    BY <1>4, <1>5, <1>7
<1>8. /\ F \in Seq(SUBSET Flag) /\ Len(F) = Len(w.srv.flags)
      /\ \A j \in Numbers(w) : F[j] = IF j = k THEN g ELSE w.srv.flags[j]
  <2>1. g \in SUBSET Flag
    BY <1>2 DEF Flag, Dead
  <2>2. /\ F \in Seq(SUBSET Flag) /\ Len(F) = Len(w.srv.flags)
        /\ \A j \in 1 .. Len(w.srv.flags) : F[j] = IF j = k THEN g ELSE w.srv.flags[j]
    <3> HIDE DEF g
    <3> QED
      BY ONLY <2>1, <1>2, ExceptSeq
  <2> HIDE DEF F
  <2> QED
    BY <2>2, <1>2
<1> HIDE DEF F, g
<1>9. /\ s \in Srv /\ s.clients = w.srv.clients /\ s.pending = w.srv.pending
      /\ s.up = w.srv.up /\ s.seeds = w.srv.seeds /\ s.flags = F
  BY <1>2, <1>8 DEF Srv
<1> HIDE DEF s
<1>10. v.srv = s /\ v.mac = w.mac /\ v.up = w.up /\ v.down = w.down /\ v \in Worlds
  BY <1>9 DEF Worlds
<1> HIDE DEF v
<1>11. SameQueue(w, v) /\ Numbers(v) = Numbers(w) /\ v.srv.seeds = w.srv.seeds
  BY <1>2, <1>8, <1>9, <1>10 DEF SameQueue, Numbers
<1>12. \A j \in Numbers(w) : v.srv.flags[j] = IF j = k THEN g ELSE w.srv.flags[j]
  BY <1>8, <1>9, <1>10
<1>13. ConnInv(v, names)
  <2> SUFFICES ASSUME NEW j \in Numbers(w)
               PROVE  ConnPath(w.srv.clients[j], w.mac[w.srv.clients[j]],
                               w.up[w.srv.clients[j]], v.srv.flags[j], names[j - 1])
    BY <1>9, <1>10, <1>11 DEF ConnInv
  <2>1. ConnPath(w.srv.clients[j], w.mac[w.srv.clients[j]], w.up[w.srv.clients[j]],
                 w.srv.flags[j], names[j - 1])
    BY <1>1 DEF CoreInv, ConnInv
  <2>2. CASE j # k
    BY <2>1, <2>2, <1>12
  <2>3. CASE j = k
    <3>1. v.srv.flags[j] = w.srv.flags[j] \union {"LOCAL_ERROR"}
      BY <2>3, <1>12 DEF g
    <3> QED
      BY <2>1, <2>3, <3>1 DEF ConnPath
  <2> QED
    BY <2>2, <2>3
<1>14. CoreInv(v, names)
  <2>1. \A j \in Machine : Alike(w.mac[j], v.mac[j]) /\ Taken(w.up[j], v.up[j])
    BY <1>10 DEF Alike, Taken
  <2>2. \A j \in Numbers(w) :
           "NEED_ACCEPT" \in v.srv.flags[j] <=> "NEED_ACCEPT" \in w.srv.flags[j]
    BY <1>12 DEF g
  <2> QED
    BY <2>1, <2>2, <1>1, <1>10, <1>11, <1>13, Noted
<1>15. LatestInv(v, names) /\ NamesInv(v, names)
  <2>1. AllAdmitted(v) => AllAdmitted(w)
    BY <1>11, <1>12 DEF AllAdmitted, g
  <2> QED
    BY <2>1, <1>1, <1>10, <1>11, Quiet
<1>16. WorldInv(v, v.mac[Host].names)
  BY <1>10, <1>14, <1>15 DEF WorldInv
<1> QED
  BY <1>10, <1>11, <1>16 DEF Serving

\* A connection is served: it has sent at least n packets.
LEMMA ServesKeeps ==
    ASSUME NEW w \in Worlds, WorldInv(w, w.mac[Host].names), w.srv.up, NEW k \in Numbers(w),
           NEW n \in Nat, n <= Len(w.up[w.srv.clients[k]])
    PROVE  Serving(w, Serves(w, k - 1, n), k)
<1> DEFINE m == w.srv.clients[k]
<1>0. PICK f : ServesBy(w, k - 1, n, f)
  BY ServesRun
<1>1. /\ f[0] = w /\ \A i \in 1 .. n : f[i] = ServerTakes(f[i - 1], k - 1)
      /\ Serves(w, k - 1, n) = Lost(f[n], k - 1)
  BY <1>0 DEF ServesBy
<1> DEFINE P(i) == i <= n => Serving(w, f[i], k) /\ Len(f[i].up[m]) = Len(w.up[m]) - i
           S == {i \in Nat : P(i)}
<1>2. m \in Machine /\ w.up[m] \in Seq(Upward)
  BY WorldParts
<1>3. 0 \in S
  <2>1. SameQueue(w, w)
    <3>1. w.srv.seeds <= w.srv.seeds
      BY WorldParts
    <3> QED
      BY <3>1 DEF SameQueue
  <2>2. Len(w.up[m]) \in Nat
    BY <1>2
  <2>3. Serving(w, w, k) /\ Len(w.up[m]) = Len(w.up[m]) - 0
    BY <2>1, <2>2 DEF Serving
  <2>4. P(0)
    BY <2>3, <1>1
  <2> HIDE DEF P
  <2> QED
    BY <2>4
<1>4. ASSUME NEW i \in Nat, i \in S PROVE i + 1 \in S
  <2> SUFFICES ASSUME i + 1 <= n
               PROVE  Serving(w, f[i + 1], k) /\ Len(f[i + 1].up[m]) = Len(w.up[m]) - (i + 1)
    OBVIOUS
  <2> DEFINE x == f[i]
             v == ServerTakes(x, k - 1)
  <2>1. P(i) /\ i <= n /\ i + 1 \in 1 .. n /\ (i + 1) - 1 = i
    BY <1>4
  <2>2. f[i + 1] = v
    BY <1>1, <2>1
  <2>3. Serving(w, x, k) /\ Len(x.up[m]) = Len(w.up[m]) - i
    BY <2>1
  <2>4. x \in Worlds /\ WorldInv(x, x.mac[Host].names) /\ SameQueue(w, x)
        /\ x.srv.clients[k] = m /\ k \in Numbers(x) /\ x.srv.up
    BY <2>3 DEF Serving, SameQueue, Numbers
  <2> HIDE DEF x, v, m, P
  <2>5. x.up[m] \in Seq(Upward)
    BY <1>2, <2>4, WorldParts
  <2>6. x.up[m] # <<>>
    <3>1. Len(w.up[m]) \in Nat /\ n <= Len(w.up[m])
      BY <1>2, SMTT(30) DEF m
    <3>2. Len(x.up[m]) # 0
      BY <3>1, <2>1, <2>3
    <3> QED
      BY <3>2, <2>5
  <2>7. Served(x, v, k)
    BY <2>4, <2>6, Takes DEF v
  <2>8. \A j \in Machine : v.up[j] = IF j = m THEN Tail(x.up[j]) ELSE x.up[j]
    BY <2>4, <2>7 DEF Served
  <2>9. v \in Worlds /\ WorldInv(v, v.mac[Host].names) /\ SameQueue(x, v)
    BY <2>7 DEF Served
  <2>10. SameQueue(w, v)
    <3>1. w.srv.seeds \in Nat /\ x.srv.seeds \in Nat /\ v.srv.seeds \in Nat
      BY <2>4, <2>9, WorldParts
    <3> QED
      BY <3>1, <2>4, <2>9 DEF SameQueue
  <2>11. Serving(w, v, k)
    BY <2>3, <2>8, <2>9, <2>10 DEF Serving, m
  <2>12. Len(v.up[m]) = Len(w.up[m]) - (i + 1)
    <3>1. Len(Tail(x.up[m])) = Len(x.up[m]) - 1 /\ Len(x.up[m]) \in Nat
      BY <2>5, <2>6, TailParts
    <3>2. Len(v.up[m]) = Len(x.up[m]) - 1
      BY <3>1, <2>8, <1>2
    <3>3. Len(w.up[m]) \in Nat
      BY <1>2
    <3> QED
      BY <3>1, <3>2, <3>3, <2>3
  <2> QED
    BY <2>2, <2>11, <2>12 DEF m
<1>5. P(n)
  <2>1. Nat \subseteq S
    <3> HIDE DEF S
    <3> QED
      BY <1>3, <1>4, Induction
  <2> QED
    BY <2>1
<1> DEFINE x == f[n]
           v == Lost(x, k - 1)
<1>6. Serving(w, x, k)
  BY <1>5
<1> HIDE DEF x
<1>7. x \in Worlds /\ WorldInv(x, x.mac[Host].names) /\ SameQueue(w, x)
      /\ x.srv.clients[k] = w.srv.clients[k] /\ k \in Numbers(x)
  BY <1>6 DEF Serving, SameQueue, Numbers
<1>8. Serving(x, v, k)
  BY <1>7, LostKeeps
<1> HIDE DEF v
<1>9. SameQueue(w, v)
  <2>1. v \in Worlds /\ SameQueue(x, v)
    BY <1>8 DEF Serving
  <2>2. w.srv.seeds \in Nat /\ x.srv.seeds \in Nat /\ v.srv.seeds \in Nat
    BY <1>7, <2>1, WorldParts
  <2> QED
    BY <2>1, <2>2, <1>7 DEF SameQueue
<1>10. Serving(w, v, k)
  BY <1>6, <1>7, <1>8, <1>9 DEF Serving
<1> QED
  BY <1>1, <1>10 DEF v, x
ServesAllBy(w, arrived, n, f) ==
    /\ f[0] = w
    /\ \A k \in 1 .. n : f[k] = Serves(f[k - 1], k - 1, Due(w, f[k - 1], k, arrived))
    /\ ServesAll(w, arrived) = f[n]

\* ServesAll is a run over the connections.
LEMMA ServesAllRun ==
    ASSUME NEW w \in Worlds, NEW arrived
    PROVE  \E f : ServesAllBy(w, arrived, Len(w.srv.clients), f)
<1> DEFINE n == Len(w.srv.clients)
           number(x, m) == IF m = Host THEN Len(x.up[m]) ELSE arrived[m]
           run[k \in 0 .. n] ==
               IF k = 0 THEN w
               ELSE Serves(run[k - 1], k - 1, number(run[k - 1], MachineOf(w, k - 1)))
<1>0. n \in Nat
  BY WorldParts
<1>1. \E f : f = [k \in 0 .. n |->
                    IF k = 0 THEN w
                    ELSE Serves(f[k - 1], k - 1, number(f[k - 1], MachineOf(w, k - 1)))]
  <2> HIDE DEF n
  <2> DEFINE d == <<w, arrived>>
  <2> HIDE DEF d
  <2>1. PICK f : IsRun("ServesAll", w, d, n, f)
    BY <1>0, Loops
  <2>2. d[1] = w /\ d[2] = arrived
    BY DEF d
  <2>3. \A x, k : Step("ServesAll", x, k, d)
                    = Serves(x, k - 1, number(x, MachineOf(w, k - 1)))
    BY <2>2 DEF Step, Due
  <2> HIDE DEF number
  <2>4. f = [k \in 0 .. n |->
               IF k = 0 THEN w
               ELSE Serves(f[k - 1], k - 1, number(f[k - 1], MachineOf(w, k - 1)))]
    BY <2>1, <2>3 DEF IsRun
  <2> QED
    BY <2>4
<1>2. run = [k \in 0 .. n |->
               IF k = 0 THEN w
               ELSE Serves(run[k - 1], k - 1, number(run[k - 1], MachineOf(w, k - 1)))]
  BY <1>1
<1>3. ServesAll(w, arrived) = run[n]
  BY DEF ServesAll
<1> HIDE DEF run, n
<1>4. ServesAllBy(w, arrived, n, run)
  <2>1. run[0] = w
    BY <1>0, <1>2
  <2>2. \A k \in 1 .. n :
           run[k] = Serves(run[k - 1], k - 1, number(run[k - 1], MachineOf(w, k - 1)))
    <3> HIDE DEF number
    <3> QED
      BY <1>0, <1>2
  <2>3. \A x, k : number(x, MachineOf(w, k - 1)) = Due(w, x, k, arrived)
    BY DEF Due
  <2> HIDE DEF number
  <2> QED
    BY <2>1, <2>2, <2>3, <1>3 DEF ServesAllBy
<1> QED
  BY <1>4 DEF n

\* The connections are served one after the other.
LEMMA ServesAllKeeps ==
    ASSUME NEW w \in Worlds, WorldInv(w, w.mac[Host].names), w.srv.up, NEW arrived,
           \A m \in Machine \ {Host} : arrived[m] \in Nat /\ arrived[m] <= Len(w.up[m])
    PROVE  LET v == ServesAll(w, arrived) IN v \in Worlds /\ WorldInv(v, v.mac[Host].names)
<1> DEFINE n == Len(w.srv.clients)
           q == w.srv.clients
<1>1. PICK f : ServesAllBy(w, arrived, n, f)
  BY ServesAllRun
<1>2. /\ f[0] = w /\ ServesAll(w, arrived) = f[n]
      /\ \A k \in 1 .. n : f[k] = Serves(f[k - 1], k - 1, Due(w, f[k - 1], k, arrived))
  BY <1>1 DEF ServesAllBy
<1>3. n \in Nat /\ QueueInv(w) /\ w.srv.seeds \in Nat
  BY WorldParts DEF WorldInv, CoreInv
<1>4. \A k \in 1 .. n : q[k] \in Machine /\ MachineOf(w, k - 1) = q[k]
  BY <1>3, WorldParts, Identified DEF Numbers
<1>5. \A i, k \in 1 .. n : q[i] = q[k] => i = k
  BY <1>3 DEF QueueInv, Distinct
<1> DEFINE Good(i, x) ==
               /\ x \in Worlds /\ WorldInv(x, x.mac[Host].names) /\ SameQueue(w, x)
               /\ \A k \in i + 1 .. n : x.up[q[k]] = w.up[q[k]]
           P(i) == i <= n => Good(i, f[i])
           S == {i \in Nat : P(i)}
<1>6. 0 \in S
  <2>1. SameQueue(w, w)
    BY <1>3 DEF SameQueue
  <2>2. Good(0, w)
    BY <2>1
  <2> QED
    BY <2>2, <1>2
<1>7. ASSUME NEW i \in Nat, i \in S PROVE i + 1 \in S
  <2> SUFFICES ASSUME i + 1 <= n PROVE Good(i + 1, f[i + 1])
    OBVIOUS
  <2> DEFINE x == f[i]
             k == i + 1
             d == Due(w, x, k, arrived)
             v == Serves(x, k - 1, d)
  <2>1. k \in 1 .. n /\ k - 1 = i /\ i <= n
    BY <1>3
  <2>2. Good(i, x)
    BY <1>7, <2>1
  <2>3. f[k] = v
    BY <1>2, <2>1
  <2> HIDE DEF x, v, k, S, P
  <2>4. x \in Worlds /\ WorldInv(x, x.mac[Host].names) /\ SameQueue(w, x) /\ x.srv.up
        /\ x.srv.clients = q /\ Numbers(x) = 1 .. n
    BY <2>2 DEF SameQueue, Numbers
  <2>5. q[k] \in Machine /\ x.up[q[k]] = w.up[q[k]]
    <3>1. k \in i + 1 .. n
      BY <2>1, <1>3 DEF k
    <3> QED
      BY <3>1, <2>1, <2>2, <1>4
  <2>6. d \in Nat /\ d <= Len(x.up[q[k]])
    <3>1. d = IF q[k] = Host THEN Len(x.up[q[k]]) ELSE arrived[q[k]]
      BY <2>1, <1>4 DEF Due
    <3>2. x.up[q[k]] \in Seq(Upward)
      BY <2>4, <2>5, WorldParts
    <3>3. Len(x.up[q[k]]) \in Nat
      BY <3>2, SMTT(30)
    <3>4. q[k] # Host => arrived[q[k]] \in Nat /\ arrived[q[k]] <= Len(x.up[q[k]])
      BY <2>5
    <3> QED
      BY <3>1, <3>3, <3>4
  <2> HIDE DEF d
  <2>7. Serving(x, v, k)
    BY <2>1, <2>4, <2>6, ServesKeeps DEF v
  <2>8. v \in Worlds /\ WorldInv(v, v.mac[Host].names) /\ SameQueue(x, v)
    BY <2>7 DEF Serving
  <2>9. SameQueue(w, v)
    <3>1. x.srv.seeds \in Nat /\ v.srv.seeds \in Nat
      BY <2>4, <2>8, WorldParts
    <3> QED
      BY <3>1, <1>3, <2>4, <2>8 DEF SameQueue
  <2>10. ASSUME NEW j \in k + 1 .. n PROVE v.up[q[j]] = w.up[q[j]]
    <3>1. j \in 1 .. n /\ j # k /\ j \in i + 1 .. n
      BY <1>3, <2>1
    <3>2. q[j] \in Machine /\ q[j] # q[k]
      BY <3>1, <2>1, <1>4, <1>5
    <3>3. v.up[q[j]] = x.up[q[j]]
      BY <3>2, <2>4, <2>7 DEF Serving
    <3> QED
      BY <3>1, <3>3, <2>2
  <2>11. Good(k, v)
    BY <2>8, <2>9, <2>10
  <2> QED
    BY <2>3, <2>11 DEF k
<1>8. Good(n, f[n])
  <2>1. Nat \subseteq S
    <3> HIDE DEF S
    <3> QED
      BY <1>6, <1>7, Induction
  <2>2. P(n)
    BY <2>1, <1>3
  <2> QED
    BY <2>2, <1>3
<1> QED
  BY <1>2, <1>8

\* What Incoming is, as records.
LEMMA IncomingParts ==
    ASSUME NEW w \in Worlds
    PROVE  LET m    == Head(w.srv.pending)
               host == w.mac[Host]
               s    == [w.srv EXCEPT !.pending = Tail(@)]
               M    == [w.mac EXCEPT ![m] = [@ EXCEPT !.cut = TRUE]]
               s2   == [s EXCEPT !.clients = Append(@, m), !.flags = Append(@, {"NEED_ACCEPT"})]
               h    == [host EXCEPT !.roles = [@ EXCEPT ![host.num] = "network"],
                                    !.names = [@ EXCEPT ![host.num] = NetworkPlayer],
                                    !.num = @ + 1]
               M2   == [w.mac EXCEPT ![Host] = h]
           IN  Incoming(w) =
                 IF Refused(w) THEN [srv |-> s, mac |-> M, up |-> w.up, down |-> w.down]
                 ELSE [srv |-> s2, mac |-> M2, up |-> w.up, down |-> w.down]
<1> DEFINE m    == Head(w.srv.pending)
           host == w.mac[Host]
           s    == [w.srv EXCEPT !.pending = Tail(@)]
           M    == [w.mac EXCEPT ![m] = [@ EXCEPT !.cut = TRUE]]
           s2   == [s EXCEPT !.clients = Append(@, m), !.flags = Append(@, {"NEED_ACCEPT"})]
           h    == [host EXCEPT !.roles = [@ EXCEPT ![host.num] = "network"],
                                !.names = [@ EXCEPT ![host.num] = NetworkPlayer],
                                !.num = @ + 1]
           M2   == [w.mac EXCEPT ![Host] = h]
           v    == [w EXCEPT !.srv.pending = Tail(@)]
<1>1. /\ w = [srv |-> w.srv, mac |-> w.mac, up |-> w.up, down |-> w.down]
      /\ w.srv \in Srv /\ w.mac \in [Machine -> Mac] /\ w.mac[Host] \in Mac
  BY Hosts DEF Worlds
<1>2. v = [srv |-> s, mac |-> w.mac, up |-> w.up, down |-> w.down]
  <2> DEFINE s1 == w.srv
             m1 == w.mac
             u1 == w.up
             d1 == w.down
  <2>1. v = [w EXCEPT !.srv = s]
    OBVIOUS
  <2>2. w = [srv |-> s1, mac |-> m1, up |-> u1, down |-> d1]
    BY <1>1
  <2>3. m1 = w.mac /\ u1 = w.up /\ d1 = w.down
    OBVIOUS
  <2> HIDE DEF s, v, s1, m1, u1, d1
  <2>4. v = [srv |-> s, mac |-> m1, up |-> u1, down |-> d1]
    BY ONLY <2>1, <2>2
  <2> QED
    BY <2>3, <2>4
<1>3. v.srv = s /\ v.mac = w.mac
  BY <1>2
<1>4. [v EXCEPT !.mac[m].cut = TRUE]
        = [srv |-> s, mac |-> M, up |-> w.up, down |-> w.down]
  <2> DEFINE q == [v EXCEPT !.mac[m].cut = TRUE]
  <2> HIDE DEF v
  <2>1. q = [v EXCEPT !.mac = M]
    BY <1>3
  <2> HIDE DEF q, M, s
  <2> QED
    BY <2>1, <1>2 DEF q
<1>5. [v EXCEPT !.srv.clients = Append(@, m),
                !.srv.flags = Append(@, {"NEED_ACCEPT"}),
                !.mac[Host].roles[host.num] = "network",
                !.mac[Host].names[host.num] = NetworkPlayer,
                !.mac[Host].num = @ + 1]
        = [srv |-> s2, mac |-> M2, up |-> w.up, down |-> w.down]
  <2> DEFINE v1 == [v EXCEPT !.srv.clients = Append(@, m),
                             !.srv.flags = Append(@, {"NEED_ACCEPT"})]
             v2 == [v1 EXCEPT !.mac[Host].roles[host.num] = "network",
                              !.mac[Host].names[host.num] = NetworkPlayer,
                              !.mac[Host].num = @ + 1]
  <2> HIDE DEF v
  <2>1. v1 = [v EXCEPT !.srv = s2]
    BY <1>3
  <2>2. v1 = [srv |-> s2, mac |-> w.mac, up |-> w.up, down |-> w.down]
    <3> HIDE DEF v1, s2, s
    <3> QED
      BY <2>1, <1>2
  <2>3. v2 = [v1 EXCEPT !.mac = M2]
    <3>1. v1.mac = w.mac
      BY <2>2
    <3> HIDE DEF v1
    <3> DEFINE m1 == w.mac
               n == host.num
               M3 == [m1 EXCEPT ![Host].roles[n] = "network", ![Host].names[n] = NetworkPlayer,
                                ![Host].num = @ + 1]
    <3>2. v2 = [v1 EXCEPT !.mac = M3]
      <4> DEFINE b1 == [m1 EXCEPT ![Host].roles[n] = "network"]
                 b2 == [b1 EXCEPT ![Host].names[n] = NetworkPlayer]
                 a1 == [v1 EXCEPT !.mac[Host].roles[n] = "network"]
                 a2 == [a1 EXCEPT !.mac[Host].names[n] = NetworkPlayer]
                 r(x) == [srv |-> s2, mac |-> x, up |-> w.up, down |-> w.down]
      <4>1. v1 = r(m1)
        BY <2>2
      <4> HIDE DEF h, M2, s2
      <4>2. a1 = r(b1)
        <5>1. a1 = [v1 EXCEPT !.mac = b1]
          BY <3>1
        <5> HIDE DEF a1, b1, m1
        <5> QED
          BY <4>1, <5>1
      <4>3. a2 = r(b2)
        <5>1. a1.mac = b1
          BY <4>2
        <5> HIDE DEF a1, b1
        <5>2. a2 = [a1 EXCEPT !.mac = b2]
          BY <5>1
        <5> HIDE DEF a2, b2
        <5> QED
          BY <4>2, <5>2
      <4>4. v2 = r(M3)
        <5>1. a2.mac = b2
          BY <4>3
        <5>2. v2 = [a2 EXCEPT !.mac[Host].num = @ + 1]
          BY ZenonT(30)
        <5>3. M3 = [b2 EXCEPT ![Host].num = @ + 1]
          OBVIOUS
        <5> HIDE DEF a2, b2, v2, M3
        <5>4. v2 = [a2 EXCEPT !.mac = M3]
          BY <5>1, <5>2, <5>3
        <5> QED
          BY <4>3, <5>4
      <4>5. [v1 EXCEPT !.mac = M3] = r(M3)
        <5> HIDE DEF M3, m1
        <5> QED
          BY <4>1
      <4> QED
        BY <4>4, <4>5
    <3>3. M3 = M2
      <4>1. m1 \in [Machine -> Mac] /\ m1[Host] = host /\ Host \in Machine
        BY <1>1, Hosts
      <4>2. h = [host EXCEPT !.roles = [@ EXCEPT ![n] = "network"],
                             !.names = [@ EXCEPT ![n] = NetworkPlayer], !.num = @ + 1]
        OBVIOUS
      <4>3. M2 = [m1 EXCEPT ![Host] = h]
        OBVIOUS
      <4> HIDE DEF m1, n, host, h, M2
      <4>4. [m1 EXCEPT ![Host].roles[n] = "network"]
              = [m1 EXCEPT ![Host] = [host EXCEPT !.roles = [@ EXCEPT ![n] = "network"]]]
        BY <4>1
      <4> DEFINE h1 == [host EXCEPT !.roles = [@ EXCEPT ![n] = "network"]]
                 h2 == [h1 EXCEPT !.names = [@ EXCEPT ![n] = NetworkPlayer]]
                 h3 == [h2 EXCEPT !.num = @ + 1]
                 k1 == [m1 EXCEPT ![Host] = h1]
                 k2 == [m1 EXCEPT ![Host] = h2]
      <4>5. k1[Host] = h1 /\ k2[Host] = h2 /\ k1 \in [Machine -> Mac \union {h1}]
            /\ k2 \in [Machine -> Mac \union {h2}]
        BY <4>1
      <4>6. [k1 EXCEPT ![Host].names[n] = NetworkPlayer] = k2
        <5>1. [k1 EXCEPT ![Host].names[n] = NetworkPlayer] = [k1 EXCEPT ![Host] = h2]
          BY <4>5
        <5> HIDE DEF h1, h2
        <5> QED
          BY <4>1, <5>1
      <4>7. [k2 EXCEPT ![Host].num = @ + 1] = [m1 EXCEPT ![Host] = h3]
        <5>1. [k2 EXCEPT ![Host].num = @ + 1] = [k2 EXCEPT ![Host] = h3]
          BY <4>5
        <5> HIDE DEF h1, h2, h3
        <5> QED
          BY <4>1, <5>1
      <4>8. h = h3
        BY <4>2
      <4> HIDE DEF h1, h2, h3, k1, k2
      <4>9. M3 = [[[m1 EXCEPT ![Host].roles[n] = "network"]
                      EXCEPT ![Host].names[n] = NetworkPlayer] EXCEPT ![Host].num = @ + 1]
        OBVIOUS
      <4> HIDE DEF M3
      <4>10. k1 = [m1 EXCEPT ![Host].roles[n] = "network"]
        BY <4>4 DEF k1, h1
      <4> QED
        BY <4>3, <4>6, <4>7, <4>8, <4>9, <4>10
    <3> QED
      BY <3>2, <3>3
  <2>4. v2 = [srv |-> s2, mac |-> M2, up |-> w.up, down |-> w.down]
    <3> HIDE DEF v1, v2, s2, M2
    <3> QED
      BY <2>2, <2>3
  <2> QED
    BY <2>4
<1> HIDE DEF s, s2, M, M2
<1>6. Incoming(w) =
        IF Refused(w) THEN [srv |-> s, mac |-> M, up |-> w.up, down |-> w.down]
        ELSE [srv |-> s2, mac |-> M2, up |-> w.up, down |-> w.down]
  BY <1>4, <1>5 DEF Incoming
<1> QED
  BY <1>6 DEF s, s2, M, M2

\* A connection that is refused was none of the server's.
LEMMA RefusedKeeps ==
    ASSUME NEW w \in Worlds, NEW v \in Worlds, NEW names, WorldInv(w, names), QueueInv(v),
           v.srv.clients = w.srv.clients, v.srv.flags = w.srv.flags,
           v.srv.seeds = w.srv.seeds, v.srv.up => w.srv.up, v.up = w.up, v.down = w.down,
           \A j \in Machine :
               Alike(w.mac[j], v.mac[j]) /\ v.mac[j].names = w.mac[j].names
    PROVE  WorldInv(v, names)
<1>1. CoreInv(w, names) /\ LatestInv(w, names) /\ NamesInv(w, names) /\ Numbers(v) = Numbers(w)
  BY DEF WorldInv, Numbers
<1>2. \A k \in Numbers(w) : w.srv.clients[k] \in Machine
  BY WorldParts
<1>3. \A j \in Machine : /\ w.up[j] \in Seq(Upward) /\ Taken(w.up[j], v.up[j])
                         /\ UpPath(j, w.mac[j], w.up[j]) /\ DownPath(w.mac[j], w.down[j])
  BY <1>1, WorldParts DEF CoreInv, MachineInv, Taken
<1>4. MachineInv(v)
  <2> SUFFICES ASSUME NEW m \in Machine
               PROVE  /\ UpPath(m, v.mac[m], v.up[m]) /\ DownPath(v.mac[m], v.down[m])
                      /\ Speaks(v.mac[m], v.up[m], v.down[m]) => Admitted(v, m)
                      /\ Has(v.up[m], "CONNECT") => ~Admitted(v, m)
    BY DEF MachineInv
  <2>1. Admitted(v, m) <=> Admitted(w, m)
    BY <1>1 DEF Admitted
  <2>2. /\ Speaks(w.mac[m], w.up[m], w.down[m]) => Admitted(w, m)
        /\ Has(w.up[m], "CONNECT") => ~Admitted(w, m)
    BY <1>1 DEF CoreInv, MachineInv
  <2>3. UpPath(m, v.mac[m], v.up[m]) /\ DownPath(v.mac[m], v.down[m])
        /\ (Speaks(v.mac[m], v.up[m], v.down[m]) => Speaks(w.mac[m], w.up[m], w.down[m]))
    <3> DEFINE c == w.mac[m]
               c2 == v.mac[m]
               u == w.up[m]
               u2 == v.up[m]
    <3>1. /\ Alike(c, c2) /\ u \in Seq(Upward) /\ Taken(u, u2) /\ UpPath(m, c, u)
          /\ DownPath(c, w.down[m]) /\ v.down[m] = w.down[m]
      BY <1>3
    <3> HIDE DEF c, c2, u, u2
    <3>2. UpPath(m, c2, u2) /\ \A d : Speaks(c2, u2, d) => Speaks(c, u, d)
      BY <3>1, TakenPaths
    <3>3. DownPath(c2, v.down[m])
      BY <3>1, AlikePaths
    <3>4. Speaks(c2, u2, v.down[m]) => Speaks(c, u, w.down[m])
      BY <3>1, <3>2
    <3> QED
      BY <3>2, <3>3, <3>4 DEF c, c2, u, u2
  <2> QED
    BY <2>1, <2>2, <2>3
<1>5. ConnInv(v, names)
  <2> SUFFICES ASSUME NEW k \in Numbers(w)
               PROVE  ConnPath(v.srv.clients[k], v.mac[v.srv.clients[k]],
                               v.up[v.srv.clients[k]], v.srv.flags[k], names[k - 1])
    BY <1>1 DEF ConnInv
  <2>1. ConnPath(w.srv.clients[k], w.mac[w.srv.clients[k]], w.up[w.srv.clients[k]],
                 w.srv.flags[k], names[k - 1])
    BY <1>1 DEF CoreInv, ConnInv
  <2>2. Alike(w.mac[w.srv.clients[k]], v.mac[w.srv.clients[k]])
    BY <1>2
  <2> QED
    BY <2>1, <2>2, ZenonT(30) DEF ConnPath, Alike, Begun, Unaccepted
<1>6. SeedInv(v)
  BY <1>1 DEF CoreInv, SeedInv, Alike
<1>7. StartInv(v)
  <2>1. (\E m \in Machine : Started(v.mac[m], v.down[m])) =>
           \E m \in Machine : Started(w.mac[m], w.down[m])
    BY AlikePaths
  <2>2. AllReady(w) => AllReady(v)
    <3> SUFFICES ASSUME AllReady(w), NEW k \in Numbers(w)
                 PROVE  ReadyPath(v.mac[w.srv.clients[k]], v.up[w.srv.clients[k]],
                                  v.srv.flags[k])
      BY <1>1 DEF AllReady
    <3>1. ReadyPath(w.mac[w.srv.clients[k]], w.up[w.srv.clients[k]], w.srv.flags[k])
      BY DEF AllReady
    <3>2. Alike(w.mac[w.srv.clients[k]], v.mac[w.srv.clients[k]])
      BY <1>2
    <3> QED
      BY <3>1, <3>2 DEF ReadyPath, Alike, Begun, Unaccepted
  <2> QED
    BY <2>1, <2>2, <1>1 DEF CoreInv, StartInv
<1>8. HostInv(v)
  BY <1>1, Hosts, AlikePaths DEF CoreInv, HostInv
<1>9. LatestInv(v, names)
  <2> SUFFICES ASSUME AllAdmitted(w), NEW k \in Numbers(w),
                      v.mac[w.srv.clients[k]].client = "open"
               PROVE  Latest(v.mac[w.srv.clients[k]], v.down[w.srv.clients[k]], ToldConfig(v),
                             ToldPlayers(Len(v.srv.clients), names, k - 1))
    BY <1>1 DEF LatestInv, AllAdmitted
  <2>1. Alike(w.mac[w.srv.clients[k]], v.mac[w.srv.clients[k]])
        /\ v.mac[w.srv.clients[k]].names = w.mac[w.srv.clients[k]].names
    BY <1>2
  <2>2. Latest(w.mac[w.srv.clients[k]], w.down[w.srv.clients[k]], ToldConfig(w),
               ToldPlayers(Len(w.srv.clients), names, k - 1))
    BY <2>1, <1>1 DEF LatestInv, Alike
  <2>3. ToldConfig(v) = ToldConfig(w)
    BY DEF ToldConfig
  <2> QED
    BY <2>1, <2>2, <2>3 DEF Latest, Alike
<1>10. NamesInv(v, names)
  BY <1>1, Hosts DEF NamesInv, NamesPath
<1> QED
  BY <1>4, <1>5, <1>6, <1>7, <1>8, <1>9, <1>10 DEF WorldInv, CoreInv

\* What a machine does or has been sent keeps, when one is accepted.
Accepting(w, v) ==
    /\ v \in Worlds /\ WorldInv(v, v.mac[Host].names) /\ v.srv.up = w.srv.up
    /\ v.up = w.up /\ v.down = w.down /\ v.srv.pending = Tail(w.srv.pending)

\* A connection that is refused: its machine finds its socket closed.
LEMMA IncomingRefused ==
    ASSUME NEW w \in Worlds, WorldInv(w, w.mac[Host].names), w.srv.up,
           w.srv.pending # <<>>, Refused(w)
    PROVE  Accepting(w, Incoming(w))
<1> DEFINE m == Head(w.srv.pending)
           p == w.srv.pending
           q == w.srv.clients
           s == [w.srv EXCEPT !.pending = Tail(@)]
           M == [w.mac EXCEPT ![m] = [@ EXCEPT !.cut = TRUE]]
           v == [srv |-> s, mac |-> M, up |-> w.up, down |-> w.down]
<1>1. Incoming(w) = v
  BY IncomingParts
<1>2. CoreInv(w, w.mac[Host].names) /\ QueueInv(w)
  BY DEF WorldInv, CoreInv
<1>3. p \in Seq(Machine) /\ q \in Seq(Machine) /\ Len(q) \in Nat
  BY WorldParts
<1>4. m \in Machine /\ Tail(p) \in Seq(Machine) /\ Len(Tail(p)) = Len(p) - 1
      /\ Len(p) \in Nat
      /\ \A i \in 1 .. Len(Tail(p)) : i + 1 \in 1 .. Len(p) /\ Tail(p)[i] = p[i + 1]
  BY <1>3, TailParts
<1>5. w.mac \in [Machine -> Mac] /\ w.srv \in Srv /\ w.up \in [Machine -> Seq(Upward)]
      /\ w.down \in [Machine -> Seq(Downward)]
  BY DEF Worlds
<1>6. /\ s \in Srv /\ s.clients = q /\ s.pending = Tail(p) /\ s.up = w.srv.up
      /\ s.seeds = w.srv.seeds /\ s.flags = w.srv.flags
  BY <1>4, <1>5 DEF Srv
<1>7. /\ M \in [Machine -> Mac]
      /\ \A j \in Machine : /\ Alike(w.mac[j], M[j]) /\ M[j].names = w.mac[j].names
  <2>1. [w.mac[m] EXCEPT !.cut = TRUE] \in Mac
        /\ Alike(w.mac[m], [w.mac[m] EXCEPT !.cut = TRUE])
        /\ [w.mac[m] EXCEPT !.cut = TRUE].names = w.mac[m].names
    <3>1. w.mac[m] \in Mac
      BY <1>4, <1>5
    <3> HIDE DEF m
    <3> QED
      BY <3>1 DEF Mac, Alike
  <2>2. \A c : Alike(c, c)
    BY DEF Alike
  <2>3. \A j \in Machine : M[j] = IF j = m THEN [w.mac[m] EXCEPT !.cut = TRUE] ELSE w.mac[j]
    BY <1>5
  <2>4. M \in [Machine -> Mac]
    BY <2>1, <1>5
  <2> HIDE DEF M, m
  <2> QED
    BY <2>1, <2>2, <2>3, <2>4
<1> HIDE DEF s, M
<1>8. v \in Worlds /\ v.srv = s /\ v.mac = M /\ v.up = w.up /\ v.down = w.down
  BY <1>5, <1>6, <1>7 DEF Worlds
<1> HIDE DEF v, m
<1>9. q # <<>>
  <2>1. CASE q = <<>>
    <3>1. Len(q) = 0 /\ w.mac[Host].game = "menu"
      BY <2>1, <1>2 DEF QueueInv
    <3> QED
      BY <3>1, MachineAssumption DEF Refused
  <2> QED
    BY <2>1
<1>10. QueueInv(v)
  <2>1. Distinct(Tail(p))
    <3>1. Distinct(p)
      BY <1>2 DEF QueueInv
    <3> SUFFICES ASSUME NEW i \in 1 .. Len(Tail(p)), NEW j \in 1 .. Len(Tail(p)),
                        Tail(p)[i] = Tail(p)[j]
                 PROVE  i = j
      BY DEF Distinct
    <3>2. i + 1 = j + 1
      BY <3>1, <1>4 DEF Distinct
    <3> QED
      BY <3>2, <1>4
  <2>2. \A i \in 1 .. Len(q), j \in 1 .. Len(Tail(p)) : q[i] # Tail(p)[j]
    BY <1>2, <1>4 DEF QueueInv
  <2>3. \A i \in 1 .. Len(Tail(p)) : v.mac[Tail(p)[i]].client # "none"
    <3>1. \A i \in 1 .. Len(p) : w.mac[p[i]].client # "none" /\ p[i] \in Machine
      BY <1>2, WorldParts DEF QueueInv
    <3> QED
      BY <3>1, <1>4, <1>7, <1>8 DEF Alike
  <2>4. v.srv.up => w.mac[Host].client # "none"
    BY <1>2 DEF QueueInv
  <2>5. v.mac[Host].client # "none"
    BY <2>4, <1>6, <1>7, <1>8, Hosts DEF Alike
  <2>6. /\ Len(w.srv.flags) = Len(q) /\ Len(q) <= MaxPlayers /\ Distinct(q) /\ q[1] = Host
    BY <1>2, <1>9 DEF QueueInv
  <2> QED
    BY <2>1, <2>2, <2>3, <2>5, <2>6, <1>6, <1>8, <1>9 DEF QueueInv
<1>11. WorldInv(v, w.mac[Host].names)
  BY <1>6, <1>7, <1>8, <1>10, RefusedKeeps
<1>12. v.mac[Host].names = w.mac[Host].names
  BY <1>7, <1>8, Hosts
<1>13. Accepting(w, v)
  BY <1>6, <1>8, <1>11, <1>12 DEF Accepting
<1> QED
  BY <1>1, <1>13

\* A new connection: there is one player more, who is not accepted yet.
LEMMA IncomingAccepted ==
    ASSUME NEW w \in Worlds, WorldInv(w, w.mac[Host].names), w.srv.up, w.down[Host] = <<>>,
           w.srv.pending # <<>>, ~Refused(w)
    PROVE  Accepting(w, Incoming(w))
<1> DEFINE p == w.srv.pending
           q == w.srv.clients
           F == w.srv.flags
           m == Head(p)
           host == w.mac[Host]
           s0 == [w.srv EXCEPT !.pending = Tail(@)]
           s == [s0 EXCEPT !.clients = Append(@, m), !.flags = Append(@, {"NEED_ACCEPT"})]
           h == [host EXCEPT !.roles = [@ EXCEPT ![host.num] = "network"],
                             !.names = [@ EXCEPT ![host.num] = NetworkPlayer],
                             !.num = @ + 1]
           M == [w.mac EXCEPT ![Host] = h]
           v == [srv |-> s, mac |-> M, up |-> w.up, down |-> w.down]
           names == host.names
           names2 == h.names
           L == Len(q)
<1>1. Incoming(w) = v
  BY IncomingParts
<1>2. CoreInv(w, names) /\ QueueInv(w) /\ HostPath(host, w.down[Host], L)
  BY DEF WorldInv, CoreInv, HostInv
<1>3. p \in Seq(Machine) /\ q \in Seq(Machine) /\ F \in Seq(SUBSET Flag) /\ L \in Nat
      /\ Numbers(w) = 1 .. L /\ Len(F) = L
  BY <1>2, WorldParts DEF Numbers, QueueInv
<1>4. m \in Machine /\ m = p[1] /\ Tail(p) \in Seq(Machine) /\ Len(Tail(p)) = Len(p) - 1
      /\ Len(p) \in Nat /\ 1 \in 1 .. Len(p)
      /\ \A i \in 1 .. Len(Tail(p)) : i + 1 \in 1 .. Len(p) /\ Tail(p)[i] = p[i + 1]
  BY <1>3, TailParts
<1>5. w.mac \in [Machine -> Mac] /\ w.srv \in Srv /\ w.up \in [Machine -> Seq(Upward)]
      /\ w.down \in [Machine -> Seq(Downward)] /\ host \in Mac
  BY Hosts DEF Worlds
<1>6. L < MaxPlayers /\ host.game = "menu" /\ host.num = L /\ L \in Slot
      /\ SomeRoles(L, host.roles)
  <2>1. ~(L >= MaxPlayers) /\ host.game = "menu"
    BY DEF Refused
  <2>2. host.num = L /\ SomeRoles(L, host.roles)
    BY <1>2 DEF HostPath
  <2> QED
    BY <2>1, <2>2, <1>3, MachineAssumption DEF Slot
<1>7. /\ Append(q, m) \in Seq(Machine) /\ Len(Append(q, m)) = L + 1
      /\ \A i \in 1 .. L : Append(q, m)[i] = q[i]
      /\ Append(q, m)[L + 1] = m /\ Append(q, m) # <<>>
  BY <1>3, <1>4, AppendParts, SMTT(30)
<1>8. /\ Append(F, {"NEED_ACCEPT"}) \in Seq(SUBSET Flag)
      /\ Len(Append(F, {"NEED_ACCEPT"})) = L + 1
      /\ \A i \in 1 .. L : Append(F, {"NEED_ACCEPT"})[i] = F[i]
      /\ Append(F, {"NEED_ACCEPT"})[L + 1] = {"NEED_ACCEPT"}
  <2>1. {"NEED_ACCEPT"} \in SUBSET Flag
    BY DEF Flag, Needs
  <2> QED
    BY <2>1, <1>3, AppendParts
<1>9. /\ s \in Srv /\ s.clients = Append(q, m) /\ s.pending = Tail(p) /\ s.up = w.srv.up
      /\ s.seeds = w.srv.seeds /\ s.flags = Append(F, {"NEED_ACCEPT"})
  <2> HIDE DEF m, p
  <2>1. Tail(p) \in Seq(Machine)
    BY <1>4
  <2> QED
    BY <2>1, <1>5, <1>7, <1>8 DEF Srv, p
<1>10. /\ h \in Mac /\ h.client = host.client /\ h.flags = host.flags /\ h.game = host.game
       /\ h.seed = host.seed /\ h.num = L + 1 /\ SomeRoles(L + 1, h.roles)
       /\ \A i \in Slot : i # L => names2[i] = names[i]
  <2>1. host.roles \in [Slot -> Role] /\ host.names \in [Slot -> Known] /\ L + 1 \in Counts
    <3>1. host.roles \in [Slot -> Role] /\ host.names \in [Slot -> Known]
      <4> HIDE DEF host
      <4> QED
        BY <1>5 DEF Mac
    <3>2. L + 1 \in Counts
      <4> HIDE DEF L
      <4> QED
        BY <1>3, <1>6, MachineAssumption DEF Counts
    <3> QED
      BY <3>1, <3>2
  <2>2. [host.roles EXCEPT ![L] = "network"] \in [Slot -> Role]
        /\ [host.names EXCEPT ![L] = NetworkPlayer] \in [Slot -> Known]
    BY <2>1, <1>6 DEF Role, Known
  <2>3. h = [host EXCEPT !.roles = [host.roles EXCEPT ![L] = "network"],
                         !.names = [host.names EXCEPT ![L] = NetworkPlayer],
                         !.num = L + 1]
    BY <1>6
  <2>4. SomeRoles(L + 1, [host.roles EXCEPT ![L] = "network"])
    <3> SUFFICES ASSUME NEW i \in 0 .. (L + 1) - 1
                 PROVE  [host.roles EXCEPT ![L] = "network"][i] \in {"human", "network"}
      BY DEF SomeRoles
    <3>1. i \in Slot /\ (i # L => i \in 0 .. L - 1)
      BY <1>3, <1>6, MachineAssumption DEF Slot
    <3> QED
      BY <3>1, <2>1, <1>6 DEF SomeRoles
  <2> DEFINE R == [host.roles EXCEPT ![L] = "network"]
             A == [host.names EXCEPT ![L] = NetworkPlayer]
  <2>5. \A i \in Slot : i # L => A[i] = host.names[i]
    BY <2>1
  <2> HIDE DEF R, A, h, L, host
  <2>6. h = [host EXCEPT !.roles = R, !.names = A, !.num = L + 1]
    BY <2>3 DEF R, A
  <2>7. host \in Mac /\ R \in [Slot -> Role] /\ A \in [Slot -> Known] /\ L + 1 \in Counts
    BY <2>1, <2>2, <1>5 DEF R, A
  <2>8. /\ h \in Mac /\ h.client = host.client /\ h.flags = host.flags /\ h.game = host.game
        /\ h.seed = host.seed /\ h.num = L + 1 /\ h.roles = R /\ h.names = A
    BY ONLY <2>6, <2>7 DEF Mac
  <2> QED
    BY <2>4, <2>5, <2>8 DEF R
<1> HIDE DEF s, h
<1>11. /\ M \in [Machine -> Mac] /\ M[Host] = h
       /\ \A j \in Machine : j # Host => M[j] = w.mac[j]
  BY <1>5, <1>10, Hosts
<1> HIDE DEF M
<1>12. v \in Worlds /\ v.srv = s /\ v.mac = M /\ v.up = w.up /\ v.down = w.down
  BY <1>5, <1>9, <1>11 DEF Worlds
<1> HIDE DEF v
<1>13. \A j \in Machine : /\ v.mac[j].client = w.mac[j].client
                          /\ v.mac[j].flags = w.mac[j].flags
                          /\ v.mac[j].game = w.mac[j].game
                          /\ v.mac[j].seed = w.mac[j].seed
  BY <1>10, <1>11, <1>12
<1> HIDE DEF m
<1>14. QueueInv(v)
  <2>1. /\ Distinct(q) /\ Distinct(p) /\ \A i \in 1 .. L, j \in 1 .. Len(p) : q[i] # p[j]
    BY <1>2 DEF QueueInv
  <2>2. Distinct(Tail(p))
    <3> SUFFICES ASSUME NEW i \in 1 .. Len(Tail(p)), NEW j \in 1 .. Len(Tail(p)),
                        Tail(p)[i] = Tail(p)[j]
                 PROVE  i = j
      BY DEF Distinct
    <3>2. i + 1 = j + 1
      BY <2>1, <1>4 DEF Distinct
    <3> QED
      BY <3>2, <1>4
  <2>3. \A i \in 1 .. L + 1 : i \in 1 .. L \/ i = L + 1
    <3>1. L \in Nat
      BY <1>3
    <3> HIDE DEF L
    <3> QED
      BY <3>1
  <2>4. \A i \in 1 .. L : q[i] # m
    BY <2>1, <1>4
  <2>5. Distinct(Append(q, m))
    BY <2>1, <2>3, <2>4, <1>7 DEF Distinct
  <2>6. \A j \in 1 .. Len(Tail(p)) : Tail(p)[j] # m
    <3> SUFFICES ASSUME NEW j \in 1 .. Len(Tail(p)), Tail(p)[j] = p[1] PROVE FALSE
      BY <1>4
    <3>1. j + 1 = 1
      BY <2>1, <1>4 DEF Distinct
    <3> QED
      BY <3>1, <1>4
  <2>7. \A i \in 1 .. Len(Append(q, m)), j \in 1 .. Len(Tail(p)) : Append(q, m)[i] # Tail(p)[j]
    <3>1. \A i \in 1 .. L, j \in 1 .. Len(Tail(p)) : q[i] # Tail(p)[j]
      BY <2>1, <1>4
    <3> QED
      BY <3>1, <2>3, <2>6, <1>7
  <2>8. \A i \in 1 .. Len(Tail(p)) : v.mac[Tail(p)[i]].client # "none"
    <3>1. \A i \in 1 .. Len(p) : w.mac[p[i]].client # "none" /\ p[i] \in Machine
      BY <1>2, WorldParts DEF QueueInv
    <3> QED
      BY <3>1, <1>4, <1>13
  <2>9. Append(q, m)[1] = Host
    <3>1. CASE q = <<>>
      <4>1. p # <<>> /\ p[1] = Host /\ L = 0
        BY <3>1, <1>2 DEF QueueInv
      <4> QED
        BY <4>1, <1>4, <1>7
    <3>2. CASE q # <<>>
      <4>1. q[1] = Host /\ 1 \in 1 .. L
        BY <3>2, <1>2, <1>3 DEF QueueInv
      <4> QED
        BY <4>1, <1>7
    <3> QED
      BY <3>1, <3>2
  <2>10. v.mac[Host].client # "none"
    <3>1. w.mac[Host].client # "none"
      BY <1>2 DEF QueueInv
    <3> QED
      BY <3>1, <1>13, Hosts
  <2>11. L + 1 <= MaxPlayers /\ Len(v.srv.flags) = L + 1
    BY <1>3, <1>6, <1>8, <1>9, <1>12, MachineAssumption, SMTT(30)
  <2> DEFINE Q == Append(q, m)
             T == Tail(p)
  <2>12. /\ v.srv.clients = Q /\ v.srv.pending = T /\ Len(v.srv.flags) = Len(Q)
         /\ Len(Q) <= MaxPlayers /\ Distinct(Q) /\ Distinct(T)
         /\ \A i \in 1 .. Len(Q), j \in 1 .. Len(T) : Q[i] # T[j]
         /\ \A i \in 1 .. Len(T) : v.mac[T[i]].client # "none"
         /\ Q[1] = Host /\ Q # <<>>
    <3>1. v.srv.clients = Q /\ v.srv.pending = T /\ Len(Q) = L + 1 /\ Q # <<>>
      BY <1>7, <1>9, <1>12
    <3> QED
      BY <3>1, <2>2, <2>5, <2>7, <2>8, <2>9, <2>11
  <2> HIDE DEF Q, T
  <2> QED
    BY <2>10, <2>12 DEF QueueInv
<1>15. Numbers(v) = 1 .. L + 1
  BY <1>7, <1>9, <1>12 DEF Numbers
<1>16. /\ \A k \in 1 .. L : v.srv.clients[k] = q[k] /\ v.srv.flags[k] = F[k]
       /\ v.srv.clients[L + 1] = m /\ v.srv.flags[L + 1] = {"NEED_ACCEPT"}
       /\ \A k \in 1 .. L : k \in 1 .. L + 1
       /\ \A k \in 1 .. L + 1 : k \in 1 .. L \/ k = L + 1
       /\ L + 1 \in 1 .. L + 1
  <2>1. /\ \A k \in 1 .. L + 1 : k \in 1 .. L \/ k = L + 1
        /\ L + 1 \in 1 .. L + 1 /\ \A k \in 1 .. L : k \in 1 .. L + 1
    BY <1>3
  <2> QED
    BY <2>1, <1>7, <1>8, <1>9, <1>12
<1> DEFINE K == L + 1
<1> HIDE DEF L, K
<1>17. \A j \in Machine : Admitted(v, j) <=> Admitted(w, j)
  <2> SUFFICES ASSUME NEW j \in Machine PROVE Admitted(v, j) <=> Admitted(w, j)
    OBVIOUS
  <2>1. Admitted(w, j) => Admitted(v, j)
    BY <1>3, <1>15, <1>16 DEF Admitted
  <2>2. Admitted(v, j) => Admitted(w, j)
    <3> SUFFICES ASSUME NEW k \in 1 .. L + 1, v.srv.clients[k] = j,
                        "NEED_ACCEPT" \notin v.srv.flags[k]
                 PROVE  Admitted(w, j)
      BY <1>15 DEF Admitted
    <3>1. k \in 1 .. L
      BY <1>16
    <3> QED
      BY <3>1, <1>3, <1>16 DEF Admitted
  <2> QED
    BY <2>1, <2>2
<1>18. MachineInv(v)
  <2> SUFFICES ASSUME NEW j \in Machine
               PROVE  /\ UpPath(j, v.mac[j], v.up[j]) /\ DownPath(v.mac[j], v.down[j])
                      /\ Speaks(v.mac[j], v.up[j], v.down[j]) => Admitted(v, j)
                      /\ Has(v.up[j], "CONNECT") => ~Admitted(v, j)
    BY DEF MachineInv
  <2>1. /\ UpPath(j, w.mac[j], w.up[j]) /\ DownPath(w.mac[j], w.down[j])
        /\ Speaks(w.mac[j], w.up[j], w.down[j]) => Admitted(w, j)
        /\ Has(w.up[j], "CONNECT") => ~Admitted(w, j)
    BY <1>2 DEF CoreInv, MachineInv
  <2>2. UpPath(j, v.mac[j], v.up[j])
    BY <2>1, <1>12, <1>13 DEF UpPath, Begun, Unaccepted
  <2>3. DownPath(v.mac[j], v.down[j])
    BY <2>1, <1>12, <1>13 DEF DownPath, LetIn, Unaccepted
  <2>4. Speaks(v.mac[j], v.up[j], v.down[j]) => Speaks(w.mac[j], w.up[j], w.down[j])
    BY <1>12, <1>13 DEF Speaks, Unaccepted
  <2> QED
    BY <2>1, <2>2, <2>3, <2>4, <1>12, <1>17
<1>19. ConnInv(v, names2)
  <2> SUFFICES ASSUME NEW k \in 1 .. L + 1
               PROVE  ConnPath(v.srv.clients[k], v.mac[v.srv.clients[k]],
                               v.up[v.srv.clients[k]], v.srv.flags[k], names2[k - 1])
    BY <1>15 DEF ConnInv
  <2>1. CASE k \in 1 .. L
    <3>1. ConnPath(q[k], w.mac[q[k]], w.up[q[k]], F[k], names[k - 1])
      BY <2>1, <1>2, <1>3 DEF CoreInv, ConnInv
    <3>2. names2[k - 1] = names[k - 1]
      <4>1. k - 1 \in Slot /\ k - 1 # L
        BY <2>1, <1>3, <1>6, MachineAssumption DEF Slot
      <4> QED
        BY <4>1, <1>10
    <3>3. q[k] \in Machine
      BY <2>1, <1>3, WorldParts
    <3> HIDE DEF names, names2, q
    <3>4. ConnPath(q[k], v.mac[q[k]], v.up[q[k]], F[k], names2[k - 1])
      BY <3>1, <3>2, <3>3, <1>12, <1>13 DEF ConnPath, Begun, Unaccepted
    <3> QED
      BY <2>1, <3>4, <1>16
  <2>2. CASE k = L + 1
    <3>1. v.srv.clients[k] = m /\ v.srv.flags[k] = {"NEED_ACCEPT"}
      BY <2>2, <1>16
    <3>2. v.mac[m].client # "none"
      <4>1. w.mac[m].client # "none"
        BY <1>2, <1>4 DEF QueueInv
      <4> QED
        BY <4>1, <1>4, <1>13
    <3>3. ~IsDead({"NEED_ACCEPT"})
      BY DEF IsDead, Dead
    <3> QED
      BY <3>1, <3>2, <3>3 DEF ConnPath
  <2> QED
    BY <2>1, <2>2, <1>16
<1>20. SeedInv(v)
  BY <1>2, <1>9, <1>12, <1>13 DEF CoreInv, SeedInv
<1>21. StartInv(v)
  <2> SUFFICES ASSUME NEW j \in Machine, Started(v.mac[j], v.down[j]) PROVE FALSE
    BY DEF StartInv
  <2>1. Started(w.mac[j], w.down[j])
    BY <1>12, <1>13 DEF Started, LetIn
  <2>2. AllReady(w)
    BY <2>1, <1>2 DEF CoreInv, StartInv
  <2>3. q # <<>> /\ 1 \in Numbers(w) /\ q[1] = Host
    BY <2>2, <1>2, <1>3 DEF AllReady, QueueInv, L
  <2>4. Begun(host)
    BY <2>2, <2>3 DEF AllReady, ReadyPath
  <2> QED
    BY <2>4, <1>6 DEF Begun
<1>22. HostInv(v)
  <2>1. Each(<<>>, "CONFIG", Counting(L + 1)) /\ Each(<<>>, "PLAYERS", Assigning(L + 1))
    BY DEF Each
  <2>2. ~Begun(h)
    BY <1>6, <1>10 DEF Begun
  <2>3. v.mac[Host] = h /\ v.down[Host] = <<>> /\ Len(v.srv.clients) = L + 1
    BY <1>7, <1>9, <1>11, <1>12
  <2> QED
    BY <2>1, <2>2, <2>3, <1>10 DEF HostInv, HostPath
<1>23. LatestInv(v, names2)
  BY <1>15, <1>16 DEF LatestInv, AllAdmitted
<1>24. NamesInv(v, names2)
  <2>1. v.mac[Host].names = names2 /\ v.down[Host] = <<>>
    BY <1>11, <1>12
  <2> QED
    BY <2>1, HasNone, EndsInNone DEF NamesInv, NamesPath
<1>25. WorldInv(v, v.mac[Host].names)
  <2>1. v.mac[Host].names = names2
    BY <1>11, <1>12
  <2> QED
    BY <2>1, <1>14, <1>18, <1>19, <1>20, <1>21, <1>22, <1>23, <1>24 DEF WorldInv, CoreInv
<1>26. Accepting(w, v)
  BY <1>9, <1>12, <1>25 DEF Accepting
<1> QED
  BY <1>1, <1>26 DEF v, M, s, h, m

\* A client takes the next packet.
LEMMA ClientTakesStep ==
    ASSUME NEW w \in Worlds, NEW m \in Machine, w.down[m] # <<>>
    PROVE  LET v == ClientTakes(w, m)
           IN  /\ v \in Worlds /\ Only(w, v, m) /\ v.down[m] = Tail(w.down[m])
               /\ ClientStep(m, w.mac[m], w.up[m], w.down[m], Head(w.down[m]),
                             v.mac[m], v.up[m])
<1> DEFINE v == ClientTakes(w, m)
           c == w.mac[m]
           u == w.up[m]
           p == Head(w.down[m])
           D == [w.down EXCEPT ![m] = Tail(@)]
           y == [w EXCEPT !.down[m] = Tail(@)]
           r(M, U) == [srv |-> w.srv, mac |-> M, up |-> U, down |-> D]
           with(c2) == [w.mac EXCEPT ![m] = c2]
           more == [w.up EXCEPT ![m] = Append(u, PlayerName(m))]
<1>1. /\ w = [srv |-> w.srv, mac |-> w.mac, up |-> w.up, down |-> w.down]
      /\ w.srv \in Srv /\ w.mac \in [Machine -> Mac] /\ w.up \in [Machine -> Seq(Upward)]
      /\ w.down \in [Machine -> Seq(Downward)]
  BY DEF Worlds
<1>2. p \in Downward /\ Tail(w.down[m]) \in Seq(Downward)
  BY <1>1, TailParts
<1>3. y = r(w.mac, w.up)
  <2> DEFINE s1 == w.srv
             m1 == w.mac
             u1 == w.up
             d1 == w.down
  <2>1. y = [w EXCEPT !.down = D]
    OBVIOUS
  <2>2. w = [srv |-> s1, mac |-> m1, up |-> u1, down |-> d1]
    BY <1>1
  <2>3. m1 = w.mac /\ u1 = w.up /\ s1 = w.srv
    OBVIOUS
  <2> HIDE DEF D, y, s1, m1, u1, d1
  <2>4. y = [srv |-> s1, mac |-> m1, up |-> u1, down |-> D]
    BY ONLY <2>1, <2>2
  <2> QED
    BY <2>3, <2>4
<1>4. v = ClientHandles(y, m, p)
  BY DEF ClientTakes
<1>5. D \in [Machine -> Seq(Downward)] /\ D[m] = Tail(w.down[m])
      /\ \A j \in Machine : j # m => D[j] = w.down[j]
  BY <1>1, <1>2
<1> HIDE DEF D, y, v
<1>6. /\ y.mac = w.mac /\ y.up = w.up
      /\ \A a : [y EXCEPT !.mac = a] = r(a, w.up)
      /\ \A a, b : [y EXCEPT !.mac = a, !.up = b] = r(a, b)
  <2>1. y.mac = w.mac /\ y.up = w.up
    BY <1>3
  <2>2. ASSUME NEW a PROVE [y EXCEPT !.mac = a] = r(a, w.up)
    BY <1>3
  <2>3. ASSUME NEW a, NEW b PROVE [y EXCEPT !.mac = a, !.up = b] = r(a, b)
    <3>1. [y EXCEPT !.mac = a] = r(a, w.up)
      BY <2>2
    <3>2. [[y EXCEPT !.mac = a] EXCEPT !.up = b] = [r(a, w.up) EXCEPT !.up = b]
      BY <3>1
    <3>3. [r(a, w.up) EXCEPT !.up = b] = r(a, b)
      OBVIOUS
    <3> QED
      BY <3>2, <3>3
  <2> QED
    BY <2>1, <2>2, <2>3
<1>6a. y.mac[m] = c
  BY <1>6
<1>7. \E c2, u2 : /\ ClientStep(m, c, u, w.down[m], p, c2, u2)
                  /\ v = r([w.mac EXCEPT ![m] = c2], [w.up EXCEPT ![m] = u2])
  <2>0. [w.up EXCEPT ![m] = u] = w.up
    BY <1>1
  <2>1. CASE p.type = "ACCEPTED"
    <3> DEFINE c2 == [c EXCEPT !.flags = @ \ {"NEED_ACCEPT"}]
               z == [y EXCEPT !.mac[m] = c2]
    <3>1. v = [z EXCEPT !.up[m] = Append(@, PlayerName(m))]
      BY <1>4, <1>6a, <2>1 DEF ClientHandles
    <3>2. z = [y EXCEPT !.mac = with(c2)]
      <4> HIDE DEF c2
      <4> QED
        BY <1>6
    <3>3. z = r(with(c2), w.up)
      BY <3>2, <1>6
    <3>4. v = r(with(c2), more)
      <4>1. z.up = w.up
        BY <3>3
      <4>2. v = [z EXCEPT !.up = more]
        <5> HIDE DEF z, c2
        <5> QED
          BY <3>1, <4>1
      <4> HIDE DEF z, c2, more, with
      <4> QED
        BY <3>3, <4>2
    <3>5. ClientStep(m, c, u, w.down[m], p, c2, Append(u, PlayerName(m)))
      BY <2>1 DEF ClientStep
    <3> QED
      BY <3>4, <3>5
  <2>2. CASE p.type = "CONFIG"
    <3> DEFINE c2 == [c EXCEPT !.seed = p.seed, !.num = p.num, !.flags = @ \ {"NEED_CONFIG"}]
    <3>1. v = [y EXCEPT !.mac[m] = c2]
      BY <1>4, <1>6a, <2>2 DEF ClientHandles
    <3>2. v = [y EXCEPT !.mac = with(c2)]
      <4> HIDE DEF c2
      <4> QED
        BY <3>1, <1>6
    <3>3. v = r(with(c2), w.up)
      BY <3>2, <1>6
    <3>4. ClientStep(m, c, u, w.down[m], p, c2, u)
      BY <2>2 DEF ClientStep
    <3> QED
      BY <3>3, <3>4, <2>0
  <2>3. CASE p.type = "PLAYERS"
    <3> DEFINE c2 == [c EXCEPT !.roles = p.roles, !.names = p.names,
                               !.flags = @ \ {"NEED_PLAYERS"}]
    <3>1. v = [y EXCEPT !.mac[m] = c2]
      BY <1>4, <1>6a, <2>3 DEF ClientHandles
    <3>2. v = [y EXCEPT !.mac = with(c2)]
      <4> HIDE DEF c2
      <4> QED
        BY <3>1, <1>6
    <3>3. v = r(with(c2), w.up)
      BY <3>2, <1>6
    <3>4. ClientStep(m, c, u, w.down[m], p, c2, u)
      BY <2>3 DEF ClientStep
    <3> QED
      BY <3>3, <3>4, <2>0
  <2>4. CASE p.type = "SYN@"
    <3> DEFINE c2 == [c EXCEPT !.flags = @ \ {"WAIT_SYNC"}, !.missync = @ \/ p.rnd # c.seed]
    <3>1. v = [y EXCEPT !.mac[m] = c2]
      BY <1>4, <1>6a, <2>4 DEF ClientHandles
    <3>2. v = [y EXCEPT !.mac = with(c2)]
      <4> HIDE DEF c2
      <4> QED
        BY <3>1, <1>6
    <3>3. v = r(with(c2), w.up)
      BY <3>2, <1>6
    <3>4. ClientStep(m, c, u, w.down[m], p, c2, u)
      BY <2>4 DEF ClientStep
    <3> QED
      BY <3>3, <3>4, <2>0
  <2>5. CASE p.type \in {"REJECTED", "QUIT"}
    <3> DEFINE c2 == [c EXCEPT !.flags = @ \union {p.type}]
    <3>1. v = [y EXCEPT !.mac[m] = c2]
      BY <1>4, <1>6a, <2>5 DEF ClientHandles
    <3>2. v = [y EXCEPT !.mac = with(c2)]
      <4> HIDE DEF c2
      <4> QED
        BY <3>1, <1>6
    <3>3. v = r(with(c2), w.up)
      BY <3>2, <1>6
    <3>4. ClientStep(m, c, u, w.down[m], p, c2, u)
      BY <2>5 DEF ClientStep
    <3> QED
      BY <3>3, <3>4, <2>0
  <2>6. p.type \in {"ACCEPTED", "REJECTED", "QUIT", "CONFIG", "PLAYERS", "SYN@"}
    BY <1>2, PacketTypes
  <2> QED
    BY <2>1, <2>2, <2>3, <2>4, <2>5, <2>6
<1>8. PICK c2, u2 : /\ ClientStep(m, c, u, w.down[m], p, c2, u2)
                    /\ v = r([w.mac EXCEPT ![m] = c2], [w.up EXCEPT ![m] = u2])
  BY <1>7
<1>9. c2 \in Mac /\ u2 \in Seq(Upward)
  BY <1>1, <1>8, ClientStepTypes
<1> DEFINE M == [w.mac EXCEPT ![m] = c2]
           U == [w.up EXCEPT ![m] = u2]
<1>10. /\ M \in [Machine -> Mac] /\ U \in [Machine -> Seq(Upward)] /\ M[m] = c2 /\ U[m] = u2
       /\ \A j \in Machine : j # m => M[j] = w.mac[j] /\ U[j] = w.up[j]
  BY <1>1, <1>9
<1> HIDE DEF M, U
<1>11. v.srv = w.srv /\ v.mac = M /\ v.up = U /\ v.down = D /\ v \in Worlds
  <2>1. v = r(M, U)
    BY <1>8 DEF M, U
  <2> QED
    BY <2>1, <1>1, <1>5, <1>10 DEF Worlds
<1>12. Only(w, v, m)
  BY <1>5, <1>10, <1>11 DEF Only
<1> QED
  BY <1>5, <1>8, <1>10, <1>11, <1>12 DEF v

\* A client takes the next packet: the invariant is kept.
LEMMA ClientTakesKeeps ==
    ASSUME NEW w \in Worlds, NEW names, WorldInv(w, names), NEW m \in Machine, w.down[m] # <<>>
    PROVE  LET v == ClientTakes(w, m)
           IN  /\ v \in Worlds /\ Only(w, v, m) /\ v.down[m] = Tail(w.down[m])
               /\ WorldInv(v, names)
<1> DEFINE v == ClientTakes(w, m)
<1>1. /\ v \in Worlds /\ Only(w, v, m) /\ v.down[m] = Tail(w.down[m])
      /\ ClientStep(m, w.mac[m], w.up[m], w.down[m], Head(w.down[m]), v.mac[m], v.up[m])
  BY ClientTakesStep
<1> HIDE DEF v
<1>2. CoreInv(w, names) /\ LatestInv(w, names) /\ NamesInv(w, names)
  BY DEF WorldInv
<1> DEFINE c == w.mac[m]
           u == w.up[m]
           d == w.down[m]
           c2 == v.mac[m]
           u2 == v.up[m]
<1>3. c \in Mac /\ u \in Seq(Upward) /\ d \in Seq(Downward) /\ d # <<>>
  BY WorldParts
<1>4. UpPath(m, c, u) /\ DownPath(c, d)
  BY <1>2 DEF CoreInv, MachineInv
<1>5. c.client = "open"
  BY <1>3, <1>4 DEF DownPath
<1>6. ClientStep(m, c, u, d, Head(d), c2, u2)
  BY <1>1
<1> HIDE DEF c, u, d, c2, u2
<1>7. /\ Follows(m, c, u, d, c2, u2, Tail(d))
      /\ NamesPath(c, d, names) => NamesPath(c2, Tail(d), names)
  BY <1>3, <1>4, <1>5, <1>6, TakeFollows
<1>8. Follows(m, w.mac[m], w.up[m], w.down[m], v.mac[m], v.up[m], v.down[m])
  BY <1>1, <1>7 DEF c, u, d, c2, u2
<1>9. CoreInv(v, names) /\ LatestInv(v, names)
  BY <1>1, <1>2, <1>8, OneMachine
<1>10. NamesInv(v, names)
  <2>1. CASE m = Host
    BY <2>1, <1>1, <1>2, <1>7 DEF NamesInv, c, d, c2
  <2>2. CASE m # Host
    BY <2>2, <1>1, <1>2, Hosts DEF NamesInv, Only
  <2> QED
    BY <2>1, <2>2
<1>11. WorldInv(v, names)
  BY <1>9, <1>10 DEF WorldInv
<1> QED
  BY <1>1, <1>11 DEF v

OwnClientBy(w, n, f) ==
    /\ f[0] = w /\ \A k \in 1 .. n : f[k] = ClientTakes(f[k - 1], Host)
    /\ OwnClient(w) = f[n]

\* OwnClient is a run over what the host's own client has been sent.
LEMMA OwnClientRun ==
    ASSUME NEW w \in Worlds PROVE \E f : OwnClientBy(w, Len(w.down[Host]), f)
<1> DEFINE n == Len(w.down[Host])
           run[k \in 0 .. n] == IF k = 0 THEN w ELSE ClientTakes(run[k - 1], Host)
<1>0. n \in Nat
  <2>1. w.down[Host] \in Seq(Downward)
    BY WorldParts, Hosts
  <2> QED
    BY <2>1
<1>1. \E f : f = [k \in 0 .. n |-> IF k = 0 THEN w ELSE ClientTakes(f[k - 1], Host)]
  <2> HIDE DEF n
  <2>1. PICK f : IsRun("OwnClient", w, 0, n, f)
    BY <1>0, Loops
  <2>2. f = [k \in 0 .. n |-> IF k = 0 THEN w ELSE ClientTakes(f[k - 1], Host)]
    BY <2>1 DEF IsRun, Step
  <2> QED
    BY <2>2
<1>2. run = [k \in 0 .. n |-> IF k = 0 THEN w ELSE ClientTakes(run[k - 1], Host)]
  BY <1>1
<1>3. OwnClient(w) = run[n]
  BY DEF OwnClient
<1> HIDE DEF run, n
<1>4. OwnClientBy(w, n, run)
  BY <1>0, <1>2, <1>3 DEF OwnClientBy
<1> QED
  BY <1>4 DEF n

\* The host's own client reads everything it has been sent.
LEMMA OwnClientKeeps ==
    ASSUME NEW w \in Worlds, WorldInv(w, w.mac[Host].names)
    PROVE  LET v == OwnClient(w)
           IN  /\ v \in Worlds /\ WorldInv(v, v.mac[Host].names) /\ v.srv = w.srv
               /\ v.down[Host] = <<>>
               /\ \A j \in Machine \ {Host} : v.up[j] = w.up[j]
<1> DEFINE n == Len(w.down[Host])
           names == w.mac[Host].names
<1>1. PICK f : OwnClientBy(w, n, f)
  BY OwnClientRun
<1>2. /\ f[0] = w /\ \A k \in 1 .. n : f[k] = ClientTakes(f[k - 1], Host)
      /\ OwnClient(w) = f[n]
  BY <1>1 DEF OwnClientBy
<1>3. n \in Nat
  <2>1. w.down[Host] \in Seq(Downward)
    BY WorldParts, Hosts
  <2> QED
    BY <2>1
<1> DEFINE Good(i, x) ==
               /\ x \in Worlds /\ WorldInv(x, names) /\ x.srv = w.srv
               /\ Len(x.down[Host]) = n - i
               /\ \A j \in Machine \ {Host} : x.up[j] = w.up[j]
           P(i) == i <= n => Good(i, f[i])
           S == {i \in Nat : P(i)}
<1>4. 0 \in S
  <2>1. Good(0, w)
    BY <1>3
  <2> QED
    BY <2>1, <1>2
<1>5. ASSUME NEW i \in Nat, i \in S PROVE i + 1 \in S
  <2> SUFFICES ASSUME i + 1 <= n PROVE Good(i + 1, f[i + 1])
    OBVIOUS
  <2> DEFINE x == f[i]
             v == ClientTakes(x, Host)
  <2>1. i + 1 \in 1 .. n /\ (i + 1) - 1 = i /\ i <= n
    BY <1>3
  <2>2. Good(i, x)
    BY <1>5, <2>1
  <2>3. f[i + 1] = v
    BY <1>2, <2>1
  <2> HIDE DEF x, v, S, P, n, names
  <2>4. x.down[Host] \in Seq(Downward)
    BY <2>2, Hosts, WorldParts
  <2>5. x.down[Host] # <<>>
    <3>1. Len(x.down[Host]) # 0
      BY <2>1, <2>2, <1>3
    <3> QED
      BY <3>1
  <2>6. /\ v \in Worlds /\ Only(x, v, Host) /\ v.down[Host] = Tail(x.down[Host])
        /\ WorldInv(v, names)
    BY <2>2, <2>5, Hosts, ClientTakesKeeps DEF v
  <2>7. v.srv = w.srv /\ \A j \in Machine \ {Host} : v.up[j] = w.up[j]
    BY <2>2, <2>6 DEF Only
  <2>8. Len(v.down[Host]) = n - (i + 1)
    <3>1. Len(Tail(x.down[Host])) = Len(x.down[Host]) - 1 /\ Len(x.down[Host]) \in Nat
      BY <2>4, <2>5, TailParts
    <3>2. Len(v.down[Host]) = Len(x.down[Host]) - 1
      BY <3>1, <2>6
    <3> QED
      BY <3>1, <3>2, <2>2, <1>3
  <2>9. Good(i + 1, v)
    BY <2>6, <2>7, <2>8
  <2> QED
    BY <2>3, <2>9
<1>6. Good(n, f[n])
  <2>1. Nat \subseteq S
    <3> HIDE DEF S
    <3> QED
      BY <1>4, <1>5, Induction
  <2>2. P(n)
    BY <2>1, <1>3
  <2> QED
    BY <2>2, <1>3
<1> DEFINE v == f[n]
<1>7. v \in Worlds /\ WorldInv(v, names) /\ Len(v.down[Host]) = 0
  BY <1>3, <1>6
<1>8. v.down[Host] = <<>>
  <2>1. v.down[Host] \in Seq(Downward)
    BY <1>7, WorldParts, Hosts
  <2> QED
    BY <2>1, <1>7
<1>9. v.mac[Host].names = names
  BY <1>7, <1>8, HasNone DEF WorldInv, NamesInv, NamesPath
<1> QED
  BY <1>2, <1>6, <1>7, <1>8, <1>9
AcceptsBy(w, n, f) ==
    /\ f[0] = w /\ \A k \in 1 .. n : f[k] = Incoming(f[k - 1])
    /\ Accepts(w) = f[n]

\* Accepts is a run over those who wait to be let in.
LEMMA AcceptsRun ==
    ASSUME NEW w \in Worlds PROVE \E f : AcceptsBy(w, Len(w.srv.pending), f)
<1> DEFINE n == Len(w.srv.pending)
           run[k \in 0 .. n] == IF k = 0 THEN w ELSE Incoming(run[k - 1])
<1>0. n \in Nat
  <2>1. w.srv.pending \in Seq(Machine)
    BY WorldParts
  <2> QED
    BY <2>1
<1>1. \E f : f = [k \in 0 .. n |-> IF k = 0 THEN w ELSE Incoming(f[k - 1])]
  <2> HIDE DEF n
  <2>1. PICK f : IsRun("Accepts", w, 0, n, f)
    BY <1>0, Loops
  <2>2. f = [k \in 0 .. n |-> IF k = 0 THEN w ELSE Incoming(f[k - 1])]
    BY <2>1 DEF IsRun, Step
  <2> QED
    BY <2>2
<1>2. run = [k \in 0 .. n |-> IF k = 0 THEN w ELSE Incoming(run[k - 1])]
  BY <1>1
<1>3. Accepts(w) = run[n]
  BY DEF Accepts
<1> HIDE DEF run, n
<1>4. AcceptsBy(w, n, run)
  BY <1>0, <1>2, <1>3 DEF AcceptsBy
<1> QED
  BY <1>4 DEF n

\* Everybody who waits is let in or refused.
LEMMA AcceptsKeeps ==
    ASSUME NEW w \in Worlds, WorldInv(w, w.mac[Host].names), w.srv.up, w.down[Host] = <<>>
    PROVE  LET v == Accepts(w)
           IN  /\ v \in Worlds /\ WorldInv(v, v.mac[Host].names) /\ v.srv.up
               /\ v.up = w.up
<1> DEFINE n == Len(w.srv.pending)
<1>1. PICK f : AcceptsBy(w, n, f)
  BY AcceptsRun
<1>2. /\ f[0] = w /\ \A k \in 1 .. n : f[k] = Incoming(f[k - 1])
      /\ Accepts(w) = f[n]
  BY <1>1 DEF AcceptsBy
<1>3. n \in Nat
  <2>1. w.srv.pending \in Seq(Machine)
    BY WorldParts
  <2> QED
    BY <2>1
<1> DEFINE Good(i, x) ==
               /\ x \in Worlds /\ WorldInv(x, x.mac[Host].names) /\ x.srv.up
               /\ x.up = w.up /\ x.down = w.down /\ Len(x.srv.pending) = n - i
           P(i) == i <= n => Good(i, f[i])
           S == {i \in Nat : P(i)}
<1>4. 0 \in S
  <2>1. Good(0, w)
    BY <1>3
  <2> QED
    BY <2>1, <1>2
<1>5. ASSUME NEW i \in Nat, i \in S PROVE i + 1 \in S
  <2> SUFFICES ASSUME i + 1 <= n PROVE Good(i + 1, f[i + 1])
    OBVIOUS
  <2> DEFINE x == f[i]
             v == Incoming(x)
  <2>1. i + 1 \in 1 .. n /\ (i + 1) - 1 = i /\ i <= n
    BY <1>3
  <2>2. Good(i, x)
    BY <1>5, <2>1
  <2>3. f[i + 1] = v
    BY <1>2, <2>1
  <2> HIDE DEF x, v, S, P, n
  <2>4. x.srv.pending \in Seq(Machine)
    BY <2>2, WorldParts
  <2>5. x.srv.pending # <<>>
    <3>1. Len(x.srv.pending) # 0
      BY <2>1, <2>2, <1>3
    <3> QED
      BY <3>1
  <2>6. Accepting(x, v)
    <3>1. x \in Worlds /\ WorldInv(x, x.mac[Host].names) /\ x.srv.up /\ x.down[Host] = <<>>
      BY <2>2
    <3> QED
      BY <3>1, <2>5, IncomingRefused, IncomingAccepted DEF v
  <2>7. Len(v.srv.pending) = n - (i + 1)
    <3>1. Len(Tail(x.srv.pending)) = Len(x.srv.pending) - 1 /\ Len(x.srv.pending) \in Nat
      BY <2>4, <2>5, TailParts
    <3>2. Len(v.srv.pending) = Len(x.srv.pending) - 1
      BY <3>1, <2>6 DEF Accepting
    <3> QED
      BY <3>1, <3>2, <2>2, <1>3
  <2>8. Good(i + 1, v)
    BY <2>2, <2>6, <2>7 DEF Accepting
  <2> QED
    BY <2>3, <2>8
<1>6. Good(n, f[n])
  <2>1. Nat \subseteq S
    <3> HIDE DEF S
    <3> QED
      BY <1>4, <1>5, Induction
  <2>2. P(n)
    BY <2>1, <1>3
  <2> QED
    BY <2>2, <1>3
<1> QED
  BY <1>2, <1>6

-----------------------------------------------------------------------------
(* The invariant is inductive.                                             *)

LEMMA Worldly ==
    /\ World.srv = srv /\ World.mac = mac /\ World.up = up /\ World.down = down
    /\ World \in Worlds <=> /\ srv \in Srv /\ mac \in [Machine -> Mac]
                            /\ up \in [Machine -> Seq(Upward)]
                            /\ down \in [Machine -> Seq(Downward)]
BY DEF World, Worlds

\* A poll of the server keeps the invariant: its client, those who wait, and
\* the connections, one after the other.
LEMMA PollKeeps ==
    ASSUME LobbyInv, PollHost PROVE LobbyInv'
<1>1. PICK arrived \in [Machine \ {Host} -> 0 .. 3] :
          /\ \A m \in Machine \ {Host} : arrived[m] <= Len(up[m])
          /\ Poll(arrived)
  BY DEF PollHost
<1> DEFINE w == World
           x == OwnClient(w)
           y == Accepts(x)
           z == ServesAll(y, arrived)
<1>2. w \in Worlds /\ WorldInv(w, w.mac[Host].names) /\ w.srv.up /\ w.up = up /\ events \in Nat
  BY <1>1, Worldly DEF LobbyInv, Poll
<1>3. srv' = z.srv /\ mac' = z.mac /\ up' = z.up /\ down' = z.down /\ events' = events
  BY <1>1 DEF Poll, Becomes, Polled
<1> HIDE DEF w, z
<1>4. /\ x \in Worlds /\ WorldInv(x, x.mac[Host].names) /\ x.srv.up
      /\ x.down[Host] = <<>> /\ \A j \in Machine \ {Host} : x.up[j] = w.up[j]
  BY <1>2, OwnClientKeeps
<1> HIDE DEF x, y
<1>5. y \in Worlds /\ WorldInv(y, y.mac[Host].names) /\ y.srv.up /\ y.up = x.up
  BY <1>4, AcceptsKeeps DEF y
<1>6. \A m \in Machine \ {Host} : arrived[m] \in Nat /\ arrived[m] <= Len(y.up[m])
  BY <1>1, <1>2, <1>4, <1>5
<1>7. z \in Worlds /\ WorldInv(z, z.mac[Host].names)
  BY <1>5, <1>6, ServesAllKeeps DEF z
<1>8. World' = z
  <2>1. World' = [srv |-> z.srv, mac |-> z.mac, up |-> z.up, down |-> z.down]
    BY <1>3 DEF World
  <2>2. z = [srv |-> z.srv, mac |-> z.mac, up |-> z.up, down |-> z.down]
    BY <1>7 DEF Worlds
  <2> QED
    BY <2>1, <2>2
<1>9. mac'[Host].names = z.mac[Host].names
  BY <1>3
<1> QED
  BY <1>2, <1>3, <1>7, <1>8, <1>9 DEF LobbyInv

\* A step of one machine, which leaves the names alone.
LEMMA MachineKeeps ==
    ASSUME LobbyInv, NEW m \in Machine, NEW c2 \in Mac, NEW u2 \in Seq(Upward),
           NEW d2 \in {down[m], <<>>},
           srv' = srv, mac' = [mac EXCEPT ![m] = c2], up' = [up EXCEPT ![m] = u2],
           down' = [down EXCEPT ![m] = d2], events' \in Nat, c2.names = mac[m].names,
           Follows(m, mac[m], up[m], down[m], c2, u2, d2)
    PROVE  LobbyInv'
<1> DEFINE w == World
           v == [srv |-> srv', mac |-> mac', up |-> up', down |-> down']
           names == mac[Host].names
<1>1. /\ w \in Worlds /\ w.srv = srv /\ w.mac = mac /\ w.up = up /\ w.down = down
      /\ CoreInv(w, names) /\ LatestInv(w, names) /\ NamesInv(w, names)
      /\ srv \in Srv /\ mac \in [Machine -> Mac] /\ up \in [Machine -> Seq(Upward)]
      /\ down \in [Machine -> Seq(Downward)]
  BY Worldly DEF LobbyInv, WorldInv
<1> HIDE DEF w
<1>2. /\ mac' \in [Machine -> Mac] /\ up' \in [Machine -> Seq(Upward)]
      /\ mac'[m] = c2 /\ up'[m] = u2
      /\ \A j \in Machine : j # m => mac'[j] = mac[j] /\ up'[j] = up[j]
  BY <1>1
<1>3. /\ down' \in [Machine -> Seq(Downward)] /\ down'[m] = d2
      /\ \A j \in Machine : j # m => down'[j] = down[j]
  <2>1. d2 \in Seq(Downward)
    <3>1. <<>> \in Seq(Downward)
      OBVIOUS
    <3> QED
      BY <3>1, <1>1
  <2> QED
    BY <2>1, <1>1
<1>4. /\ v \in Worlds /\ v.srv = srv /\ v.mac = mac' /\ v.up = up' /\ v.down = down'
  BY <1>1, <1>2, <1>3 DEF Worlds
<1>5. World' = v
  BY DEF World
<1> HIDE DEF v
<1>6. Only(w, v, m)
  BY <1>1, <1>2, <1>3, <1>4 DEF Only
<1>7. Follows(m, w.mac[m], w.up[m], w.down[m], v.mac[m], v.up[m], v.down[m])
  BY <1>1, <1>2, <1>3, <1>4
<1>8. CoreInv(v, names) /\ LatestInv(v, names)
  BY <1>1, <1>4, <1>6, <1>7, OneMachine
<1>9. mac'[Host].names = names
  BY <1>2, Hosts
<1>10. NamesInv(v, names)
  <2>1. CASE down'[Host] = <<>>
    BY <2>1, <1>4, <1>9, HasNone, EndsInNone DEF NamesInv, NamesPath
  <2>2. CASE down'[Host] = down[Host]
    BY <2>2, <1>1, <1>4, <1>9 DEF NamesInv, NamesPath
  <2> QED
    BY <2>1, <2>2, <1>3, Hosts
<1> QED
  BY <1>4, <1>5, <1>8, <1>9, <1>10 DEF LobbyInv, WorldInv

\* What the invariant says of one machine.
LEMMA LobbyParts ==
    ASSUME LobbyInv, NEW m \in Machine
    PROVE  /\ mac[m] \in Mac /\ up[m] \in Seq(Upward) /\ down[m] \in Seq(Downward)
           /\ mac \in [Machine -> Mac] /\ up \in [Machine -> Seq(Upward)]
           /\ down \in [Machine -> Seq(Downward)]
           /\ UpPath(m, mac[m], up[m]) /\ DownPath(mac[m], down[m]) /\ events \in Nat
BY Worldly DEF LobbyInv, WorldInv, CoreInv, MachineInv

\* Begin in the main menu: the machine had a player, so it is not waiting for
\* its first configuration.
LEMMA PressKeeps ==
    ASSUME LobbyInv, NEW m \in Machine, Press(m) PROVE LobbyInv'
<1> DEFINE c == mac[m]
           c2 == [c EXCEPT !.game = "GAME_BEGIN"]
<1>1. /\ c \in Mac /\ up[m] \in Seq(Upward) /\ UpPath(m, c, up[m]) /\ DownPath(c, down[m])
      /\ c.game = "menu" /\ OkayToBegin(m) /\ c.client = "open"
  BY LobbyParts DEF Press, InMenu
<1>2. c.num # 0
  BY <1>1 DEF OkayToBegin
<1>3. c2 \in Mac /\ c2.client = c.client /\ c2.num = c.num /\ c2.seed = c.seed
      /\ c2.roles = c.roles /\ c2.names = c.names /\ c2.ready = c.ready
      /\ c2.flags = c.flags /\ c2.game = "GAME_BEGIN"
  <2> HIDE DEF c
  <2> QED
    BY <1>1 DEF Mac
<1>4. /\ mac' = [mac EXCEPT ![m] = c2] /\ srv' = srv /\ up' = up /\ down' = down
      /\ events' = events
  BY DEF Press
<1> HIDE DEF c, c2
<1>5. Follows(m, c, up[m], down[m], c2, up[m], down[m])
  <2>1. ~Begun(c) /\ ~Begun(c2) /\ ~LetIn(c) /\ ~LetIn(c2)
        /\ (Unaccepted(c2) <=> Unaccepted(c))
    BY <1>1, <1>3 DEF Begun, LetIn, Unaccepted
  <2> QED
    BY <2>1, <1>1, <1>2, <1>3, SameFollows
<1>6. up' = [up EXCEPT ![m] = up[m]] /\ down' = [down EXCEPT ![m] = down[m]] /\ events' \in Nat
  BY <1>4, LobbyParts
<1> QED
  BY <1>1, <1>3, <1>4, <1>5, <1>6, MachineKeeps DEF c

\* INVENTORY_BEGIN is left when the flags are clear.
LEMMA PlayKeeps ==
    ASSUME LobbyInv, NEW m \in Machine, Play(m) PROVE LobbyInv'
<1> DEFINE c == mac[m]
           c2 == [c EXCEPT !.game = "playing"]
<1>1. /\ c \in Mac /\ up[m] \in Seq(Upward) /\ UpPath(m, c, up[m]) /\ DownPath(c, down[m])
      /\ c.game = "INVENTORY_BEGIN" /\ (c.client = "open" => c.flags = {})
  BY LobbyParts DEF Play, Runs
<1>2. c2 \in Mac /\ c2.client = c.client /\ c2.num = c.num /\ c2.seed = c.seed
      /\ c2.roles = c.roles /\ c2.names = c.names /\ c2.ready = c.ready
      /\ c2.flags = c.flags /\ c2.game = "playing"
  <2> HIDE DEF c
  <2> QED
    BY <1>1 DEF Mac
<1>3. /\ mac' = [mac EXCEPT ![m] = c2] /\ srv' = srv /\ up' = up /\ down' = down
      /\ events' = events
  BY DEF Play
<1> HIDE DEF c, c2
<1>4. Follows(m, c, up[m], down[m], c2, up[m], down[m])
  <2>1. Begun(c) /\ Begun(c2) /\ (LetIn(c2) => LetIn(c))
        /\ (Unaccepted(c2) <=> Unaccepted(c))
    BY <1>1, <1>2 DEF Begun, LetIn, Unaccepted
  <2> QED
    BY <2>1, <1>1, <1>2, SameFollows
<1>5. up' = [up EXCEPT ![m] = up[m]] /\ down' = [down EXCEPT ![m] = down[m]] /\ events' \in Nat
  BY <1>3, LobbyParts
<1> QED
  BY <1>1, <1>2, <1>3, <1>4, <1>5, MachineKeeps DEF c

\* A closed connection is noticed.
LEMMA ClientLostKeeps ==
    ASSUME LobbyInv, NEW m \in Machine, ClientLost(m) PROVE LobbyInv'
<1> DEFINE c == mac[m]
           c2 == [c EXCEPT !.flags = @ \union {"LOCAL_ERROR"}]
<1>1. /\ c \in Mac /\ up[m] \in Seq(Upward) /\ UpPath(m, c, up[m]) /\ DownPath(c, down[m])
      /\ c.client = "open"
  BY LobbyParts DEF ClientLost
<1>2. c2 \in Mac /\ c2.client = c.client /\ c2.num = c.num /\ c2.seed = c.seed
      /\ c2.roles = c.roles /\ c2.names = c.names /\ c2.ready = c.ready
      /\ c2.flags = c.flags \union {"LOCAL_ERROR"} /\ c2.game = c.game
  <2>1. "LOCAL_ERROR" \in Flag
    BY DEF Flag, Dead
  <2> HIDE DEF c
  <2> QED
    BY <2>1, <1>1 DEF Mac
<1>3. /\ mac' = [mac EXCEPT ![m] = c2] /\ srv' = srv /\ up' = up /\ down' = down
      /\ events' = events
  BY DEF ClientLost
<1> HIDE DEF c, c2
<1>4. Follows(m, c, up[m], down[m], c2, up[m], down[m])
  <2>1. (Begun(c2) <=> Begun(c)) /\ (LetIn(c2) => LetIn(c))
        /\ (Unaccepted(c2) <=> Unaccepted(c))
    BY <1>1, <1>2 DEF Begun, LetIn, Unaccepted
  <2> QED
    BY <2>1, <1>1, <1>2, SameFollows
<1>5. up' = [up EXCEPT ![m] = up[m]] /\ down' = [down EXCEPT ![m] = down[m]] /\ events' \in Nat
  BY <1>3, LobbyParts
<1> QED
  BY <1>1, <1>2, <1>3, <1>4, <1>5, MachineKeeps DEF c

\* GAME_BEGIN is done when the flags are clear.
LEMMA BeginKeeps ==
    ASSUME LobbyInv, NEW m \in Machine, Begin(m) PROVE LobbyInv'
<1> DEFINE c == mac[m]
           u == up[m]
           c2 == [c EXCEPT !.game = "INVENTORY_BEGIN", !.ready = c.num,
                           !.flags = IF c.client = "open" THEN {"WAIT_SYNC"} ELSE @]
           u2 == IF c.client = "open" THEN Append(u, SyncRqst) ELSE u
<1>1. /\ c \in Mac /\ u \in Seq(Upward) /\ UpPath(m, c, u) /\ DownPath(c, down[m])
      /\ c.game = "GAME_BEGIN" /\ (c.client = "open" => c.flags = {})
  BY LobbyParts DEF Begin, Runs
<1>2. Follows(m, c, u, down[m], c2, u2, down[m])
  <2> DEFINE d == down[m]
  <2>1. DownPath(c, d)
    BY <1>1
  <2> HIDE DEF c, u, d
  <2>2. Follows(m, c, u, d, c2, u2, d)
    BY <2>1, <1>1, BeginFollows
  <2> QED
    BY <2>2 DEF d
<1>3. c2 \in Mac /\ u2 \in Seq(Upward) /\ c2.names = c.names
  <2>1. {"WAIT_SYNC"} \in SUBSET Flag /\ SyncRqst \in Upward
    BY DEF Flag, SyncRqst, Upward
  <2>2. Append(u, SyncRqst) \in Seq(Upward)
    BY <2>1, <1>1, AppendParts
  <2> HIDE DEF c, u
  <2>3. c.flags \in SUBSET Flag /\ c.num \in Counts
    BY <1>1 DEF Mac
  <2> QED
    BY <2>1, <2>2, <2>3, <1>1 DEF Mac
<1>4. /\ mac' = [mac EXCEPT ![m] = c2] /\ srv' = srv /\ down' = down /\ events' = events
      /\ up' = IF c.client = "open" THEN [up EXCEPT ![m] = Append(@, SyncRqst)] ELSE up
  BY DEF Begin
<1>5. up' = [up EXCEPT ![m] = u2] /\ down' = [down EXCEPT ![m] = down[m]] /\ events' \in Nat
  BY <1>4, LobbyParts
<1> HIDE DEF c2, u2
<1> QED
  BY <1>2, <1>3, <1>4, <1>5, MachineKeeps

\* A client goes, by the menu or after an error.
LEMMA FreedKeeps ==
    ASSUME LobbyInv, NEW m \in Machine, mac[m].client = "open", Becomes(Freed(World, m)),
           events' \in Nat
    PROVE  LobbyInv'
<1> DEFINE c == mac[m]
           u == up[m]
           c2 == [c EXCEPT !.client = "freed"]
           u2 == IF c.cut THEN u ELSE Append(u, Disconnect)
<1>1. c \in Mac /\ u \in Seq(Upward) /\ UpPath(m, c, u)
  BY LobbyParts
<1>2. Follows(m, c, u, down[m], c2, u2, <<>>)
  <2> DEFINE d == down[m]
  <2>1. c.client = "open" /\ u2 \in {u, Append(u, Disconnect)}
    OBVIOUS
  <2> HIDE DEF c, u, d, u2
  <2>2. Follows(m, c, u, d, c2, u2, <<>>)
    BY <2>1, <1>1, FreedFollows
  <2> QED
    BY <2>2 DEF d
<1>3. c2 \in Mac /\ u2 \in Seq(Upward) /\ c2.names = c.names
  <2>1. Disconnect \in Upward
    BY DEF Disconnect, Upward
  <2>2. Append(u, Disconnect) \in Seq(Upward)
    BY <2>1, <1>1, AppendParts
  <2> HIDE DEF c, u
  <2> QED
    BY <2>2, <1>1 DEF Mac
<1>4. Freed(World, m) = [srv |-> srv, mac |-> [mac EXCEPT ![m] = c2],
                         up |-> [up EXCEPT ![m] = u2], down |-> [down EXCEPT ![m] = <<>>]]
  <2> DEFINE w == World
             M == [mac EXCEPT ![m] = c2]
             U == [up EXCEPT ![m] = u2]
             D == [down EXCEPT ![m] = <<>>]
             a1 == [w EXCEPT !.mac[m].client = "freed"]
             a2 == [a1 EXCEPT !.up[m] = IF c.cut THEN @ ELSE Append(@, Disconnect)]
             a3 == [a2 EXCEPT !.down[m] = <<>>]
  <2>1. w = [srv |-> srv, mac |-> mac, up |-> up, down |-> down] /\ w.mac = mac
    BY DEF World
  <2>2. Freed(w, m) = a3
    <3>1. w.mac[m] = c
      BY <2>1
    <3> HIDE DEF w
    <3> QED
      BY <3>1 DEF Freed
  <2> HIDE DEF w
  <2>3. a1 = [srv |-> srv, mac |-> M, up |-> up, down |-> down]
    <3>1. a1 = [w EXCEPT !.mac = M]
      BY <2>1
    <3> HIDE DEF a1, M
    <3> QED
      BY <2>1, <3>1
  <2> HIDE DEF a1, M
  <2>4. a2 = [srv |-> srv, mac |-> M, up |-> U, down |-> down]
    <3>1. a1.up = up
      BY <2>3
    <3>2. a2 = [a1 EXCEPT !.up = U]
      BY <3>1
    <3> HIDE DEF a2, U
    <3> QED
      BY <2>3, <3>2
  <2> HIDE DEF a2, U
  <2>5. a3 = [srv |-> srv, mac |-> M, up |-> U, down |-> D]
    <3>1. a2.down = down
      BY <2>4
    <3>2. a3 = [a2 EXCEPT !.down = D]
      BY <3>1
    <3> HIDE DEF a3, D
    <3> QED
      BY <2>4, <3>2
  <2> QED
    BY <2>2, <2>5 DEF w, M, U
<1>5. /\ srv' = srv /\ mac' = [mac EXCEPT ![m] = c2] /\ up' = [up EXCEPT ![m] = u2]
      /\ down' = [down EXCEPT ![m] = <<>>]
  BY <1>4 DEF Becomes
<1> HIDE DEF c2, u2
<1> QED
  BY <1>2, <1>3, <1>5, MachineKeeps

\* The client of another machine takes a packet.
LEMMA ClientRunKeeps ==
    ASSUME LobbyInv, NEW m \in Machine, ClientRun(m) PROVE LobbyInv'
<1> DEFINE w == World
           v == ClientTakes(w, m)
           names == mac[Host].names
<1>1. /\ w \in Worlds /\ WorldInv(w, names) /\ w.down[m] # <<>> /\ m # Host
      /\ w.mac = mac /\ events' = events /\ events \in Nat
  BY Worldly DEF LobbyInv, ClientRun
<1>2. srv' = v.srv /\ mac' = v.mac /\ up' = v.up /\ down' = v.down
  BY DEF ClientRun, Becomes
<1> HIDE DEF w, v
<1>3. v \in Worlds /\ Only(w, v, m) /\ WorldInv(v, names)
  BY <1>1, ClientTakesKeeps DEF v
<1>4. World' = v
  <2>1. World' = [srv |-> v.srv, mac |-> v.mac, up |-> v.up, down |-> v.down]
    BY <1>2 DEF World
  <2>2. v = [srv |-> v.srv, mac |-> v.mac, up |-> v.up, down |-> v.down]
    BY <1>3 DEF Worlds
  <2> QED
    BY <2>1, <2>2
<1>5. mac'[Host].names = names
  BY <1>1, <1>2, <1>3, Hosts DEF Only
<1> QED
  BY <1>1, <1>3, <1>4, <1>5 DEF LobbyInv

\* New settings while the host is in its menu: it is not ready, so nobody has
\* been let in.
LEMMA SettingsKeep ==
    ASSUME LobbyInv, ChangeSettings PROVE LobbyInv'
<1> DEFINE w == World
           v == SendConfig(w)
           names == mac[Host].names
<1>1. /\ w \in Worlds /\ WorldInv(w, names) /\ w.mac = mac /\ w.srv = srv /\ w.srv.up
      /\ w.mac[Host].game = "menu" /\ events' \in Nat
  BY Worldly DEF LobbyInv, ChangeSettings, InMenu, Event
<1>2. srv' = v.srv /\ mac' = v.mac /\ up' = v.up /\ down' = v.down
  BY DEF ChangeSettings, Becomes
<1> HIDE DEF w, v
<1>3. CoreInv(w, names) /\ QueueInv(w) /\ NamesInv(w, names)
  BY <1>1 DEF WorldInv, CoreInv
<1>4. v \in Worlds /\ Informs(w, v)
  BY <1>1, <1>3, SendConfigInforms DEF v
<1>5. \A j \in Machine : ~Started(w.mac[j], w.down[j])
  <2> SUFFICES ASSUME AllReady(w) PROVE FALSE
    BY <1>3 DEF CoreInv, StartInv
  <2>1. w.srv.clients # <<>> /\ w.srv.clients[1] = Host
    BY <1>3 DEF AllReady, QueueInv
  <2>2. 1 \in Numbers(w)
    BY <2>1, <1>1, WorldParts DEF Numbers
  <2>3. Begun(w.mac[Host])
    BY <2>1, <2>2 DEF AllReady, ReadyPath
  <2> QED
    BY <2>3, <1>1 DEF Begun
<1>6. WorldInv(v, names)
  <2>1. names = w.mac[Host].names
    BY <1>1
  <2> HIDE DEF names
  <2> QED
    BY <2>1, <1>1, <1>3, <1>4, <1>5, Informed DEF WorldInv
<1>7. World' = v
  <2>1. World' = [srv |-> v.srv, mac |-> v.mac, up |-> v.up, down |-> v.down]
    BY <1>2 DEF World
  <2>2. v = [srv |-> v.srv, mac |-> v.mac, up |-> v.up, down |-> v.down]
    BY <1>4 DEF Worlds
  <2> QED
    BY <2>1, <2>2
<1>8. mac'[Host].names = names
  BY <1>1, <1>2, <1>4 DEF Informs
<1> QED
  BY <1>1, <1>4, <1>6, <1>7, <1>8 DEF LobbyInv

\* A machine with a new client has only sent its request.
LEMMA NewClient ==
    ASSUME NEW m, NEW c, NEW u, c.client = "open", c.flags = Needs, c.game = "menu",
           NEW ok \in BOOLEAN, u = <<Connect(ok)>>
    PROVE  /\ u \in Seq(Upward) /\ Needs \in SUBSET Flag
           /\ UpPath(m, c, u) /\ DownPath(c, <<>>) /\ ~Speaks(c, u, <<>>) /\ ~Started(c, <<>>)
<1>1. Connect(ok) \in Upward /\ Connect(ok).type = "CONNECT"
  BY DEF Connect, Upward
<1>2. Len(u) = 1 /\ u[1] = Connect(ok) /\ u \in Seq(Upward)
  BY <1>1
<1>3. \A n \in 1 .. Len(u) : n = 1 /\ u[n].type = "CONNECT"
  BY <1>1, <1>2
<1>4. ~Has(u, "NAME") /\ ~Has(u, "SYNC") /\ ~Has(u, "DISC") /\ UpOrder(m, u)
  BY <1>3 DEF Has, UpOrder
<1>5. Unaccepted(c) /\ ~LetIn(c) /\ ~Begun(c)
  BY DEF Unaccepted, LetIn, Begun, Needs
<1>6. \A type : ~Has(<<>>, type)
  BY HasNone, Zenon
<1>7. DownOrder(<<>>)
  BY DEF DownOrder, AtMostOne
<1>8. UpPath(m, c, u)
  BY <1>4, <1>5 DEF UpPath
<1>9. DownPath(c, <<>>)
  BY <1>5, <1>6, <1>7 DEF DownPath
<1>10. ~Speaks(c, u, <<>>) /\ ~Started(c, <<>>)
  BY <1>4, <1>5, <1>6 DEF Speaks, Started
<1> QED
  BY <1>2, <1>8, <1>9, <1>10 DEF Flag

\* There is neither a server nor a client at first.
LEMMA InitLobby == Init => LobbyInv
<1> SUFFICES ASSUME Init PROVE LobbyInv
  OBVIOUS
<1> DEFINE w == World
           names == mac[Host].names
<1>1. /\ w.srv = [up |-> FALSE, pending |-> <<>>, clients |-> <<>>, flags |-> <<>>, seeds |-> 0]
      /\ w.mac = [m \in Machine |-> NewMachine]
      /\ w.up = [m \in Machine |-> <<>>] /\ w.down = [m \in Machine |-> <<>>] /\ events = 0
  BY Worldly DEF Init
<1>2. NewMachine \in Mac
  BY MachineAssumption DEF NewMachine, Mac, Role, Known, Counts, Local
<1>3. w \in Worlds
  <2>1. srv \in Srv
    BY <1>1 DEF Init, Srv
  <2>2. mac \in [Machine -> Mac] /\ up \in [Machine -> Seq(Upward)]
        /\ down \in [Machine -> Seq(Downward)]
    <3> HIDE DEF w
    <3> QED
      BY <1>2 DEF Init
  <2> QED
    BY <2>1, <2>2, Worldly
<1> HIDE DEF w
<1>4. /\ NewMachine.client = "none" /\ NewMachine.flags = {} /\ NewMachine.game = "menu"
      /\ NewMachine.seed = 0
  BY DEF NewMachine
<1>5. Numbers(w) = {} /\ w.srv.clients = <<>>
  BY <1>1 DEF Numbers
<1>6. \A m \in Machine : w.mac[m] = NewMachine /\ w.up[m] = <<>> /\ w.down[m] = <<>>
  BY <1>1
<1> HIDE DEF names
<1>7. \A type : ~Has(<<>>, type)
  BY HasNone, Zenon
<1>8. QueueInv(w)
  BY <1>1, <1>4, MachineAssumption DEF QueueInv, Distinct
<1>9. MachineInv(w)
  <2>1. \A m : UpOrder(m, <<>>)
    BY DEF UpOrder
  <2>2. DownOrder(<<>>)
    BY DEF DownOrder, AtMostOne
  <2>3. ~LetIn(NewMachine) /\ ~Begun(NewMachine)
    BY <1>4 DEF LetIn, Begun
  <2>4. \A m : UpPath(m, NewMachine, <<>>)
    BY <2>1, <2>3, <1>4, <1>7 DEF UpPath
  <2>5. DownPath(NewMachine, <<>>)
    BY <2>2, <2>3, <1>4, <1>7 DEF DownPath
  <2>6. ~Speaks(NewMachine, <<>>, <<>>)
    BY <1>4, <1>7 DEF Speaks
  <2> QED
    BY <2>4, <2>5, <2>6, <1>6, <1>7 DEF MachineInv
<1>10. SeedInv(w)
  <2>1. Each(<<>>, "CONFIG", Before(w.srv.seeds))
    BY DEF Each
  <2>2. w.srv.seeds = 0
    BY <1>1
  <2> QED
    BY <2>1, <2>2, <1>4, <1>6 DEF SeedInv
<1>11. StartInv(w)
  BY <1>4, <1>6, <1>7 DEF StartInv, Started, LetIn
<1>12. ConnInv(w, names) /\ HostInv(w) /\ LatestInv(w, names)
  BY <1>1, <1>5 DEF ConnInv, HostInv, LatestInv
<1>13. NamesInv(w, names)
  <2>1. w.down[Host] = <<>> /\ w.mac[Host].names = names
    BY <1>6, Hosts, Worldly DEF names, w
  <2> QED
    BY <2>1, <1>7, EndsInNone DEF NamesInv, NamesPath
<1> QED
  BY <1>1, <1>3, <1>8, <1>9, <1>10, <1>11, <1>12, <1>13 DEF LobbyInv, WorldInv, CoreInv, w, names

\* A new server has no connections, and its own client is the first to wait.
LEMMA ServeKeeps ==
    ASSUME LobbyInv, Serve PROVE LobbyInv'
<1> DEFINE w == World
           c == mac[Host]
           c2 == [c EXCEPT !.num = 0, !.roles = [s \in Slot |-> "random"],
                           !.client = "open", !.flags = Needs]
           s == [srv EXCEPT !.up = TRUE, !.pending = <<Host>>]
           u == <<Connect(TRUE)>>
           M == [mac EXCEPT ![Host] = c2]
           U == [up EXCEPT ![Host] = u]
           v == [srv |-> s, mac |-> M, up |-> U, down |-> down]
           names == mac[Host].names
<1>1. srv' = s /\ mac' = M /\ up' = U /\ down' = down /\ events' = events
  BY DEF Serve
<1>2. /\ w \in Worlds /\ w.srv = srv /\ w.mac = mac /\ w.up = up /\ w.down = down
      /\ CoreInv(w, names) /\ srv \in Srv /\ mac \in [Machine -> Mac]
      /\ up \in [Machine -> Seq(Upward)] /\ down \in [Machine -> Seq(Downward)]
      /\ events \in Nat
  BY Worldly DEF LobbyInv, WorldInv
<1>3. c.client = "none" /\ c.game = "menu" /\ c \in Mac
  BY <1>2, Hosts DEF Serve, InMenu
<1> HIDE DEF w
<1>4. /\ QueueInv(w) /\ MachineInv(w) /\ SeedInv(w) /\ StartInv(w)
      /\ srv.clients = <<>> /\ srv.flags \in Seq(SUBSET Flag) /\ Len(srv.flags) = 0
      /\ srv.seeds \in Nat
  <2>1. QueueInv(w) /\ MachineInv(w) /\ SeedInv(w) /\ StartInv(w)
    BY <1>2 DEF CoreInv
  <2>2. srv.clients = <<>> /\ Len(srv.flags) = Len(srv.clients)
    BY <2>1, <1>2, <1>3 DEF QueueInv
  <2>3. srv.flags \in Seq(SUBSET Flag) /\ srv.seeds \in Nat
    BY <1>2 DEF Srv
  <2> QED
    BY <2>1, <2>2, <2>3
<1>5. /\ s \in Srv /\ s.up = TRUE /\ s.pending = <<Host>> /\ s.clients = <<>>
      /\ s.flags = srv.flags /\ s.seeds = srv.seeds
  <2>1. <<Host>> \in Seq(Machine)
    BY Hosts
  <2> QED
    BY <2>1, <1>2, <1>4 DEF Srv
<1>6. /\ c2.client = "open" /\ c2.flags = Needs /\ c2.game = "menu" /\ c2.num = 0
      /\ c2.names = c.names /\ c2.seed = c.seed
  <2> HIDE DEF c
  <2> QED
    BY <1>3 DEF Mac
<1> HIDE DEF s
<1>7. /\ u \in Seq(Upward) /\ Needs \in SUBSET Flag /\ UpPath(Host, c2, u)
      /\ DownPath(c2, <<>>) /\ ~Speaks(c2, u, <<>>) /\ ~Started(c2, <<>>)
  <2> HIDE DEF c2, u
  <2> QED
    BY <1>6, NewClient DEF u
<1>8. c2 \in Mac
  <2>1. 0 \in Counts /\ [x \in Slot |-> "random"] \in [Slot -> Role]
    BY MachineAssumption DEF Counts, Role
  <2> HIDE DEF c
  <2> QED
    BY <2>1, <1>3, <1>7 DEF Mac
<1> HIDE DEF c2, u
<1>9. /\ M \in [Machine -> Mac] /\ M[Host] = c2 /\ U \in [Machine -> Seq(Upward)]
      /\ U[Host] = u /\ \A m \in Machine \ {Host} : M[m] = mac[m] /\ U[m] = up[m]
  BY <1>2, <1>7, <1>8, Hosts
<1> HIDE DEF M, U
<1>10. v \in Worlds /\ v.srv = s /\ v.mac = M /\ v.up = U /\ v.down = down
  BY <1>2, <1>5, <1>9 DEF Worlds
<1>11. World' = v
  BY <1>1 DEF World
<1> HIDE DEF v
<1>12. down[Host] = <<>>
  BY <1>2, <1>3, <1>4, Hosts DEF MachineInv, DownPath
<1>13. \A m : ~Admitted(w, m) /\ ~Admitted(v, m)
  BY <1>2, <1>4, <1>5, <1>10 DEF Admitted, Numbers
<1>14. QueueInv(v)
  <2>1. Len(<<Host>>) = 1 /\ <<Host>>[1] = Host /\ Len(s.clients) = 0
    BY <1>5
  <2>2. Distinct(<<Host>>) /\ Distinct(s.clients)
    BY <2>1 DEF Distinct
  <2>3. M[Host].client = "open" /\ M[Host].num = 0 /\ M[Host].game = "menu"
    BY <1>6, <1>9
  <2>4. \A i \in 1 .. Len(s.pending) : s.pending[i] = Host
    BY <2>1, <1>5
  <2>5. <<Host>> # <<>>
    OBVIOUS
  <2> QED
    <3>1. /\ v.srv.clients = <<>> /\ v.srv.pending = <<Host>> /\ Len(v.srv.clients) = 0
          /\ Len(v.srv.flags) = 0 /\ 0 <= MaxPlayers /\ 1 .. 0 = {}
      BY <2>1, <1>4, <1>5, <1>10, MachineAssumption
    <3>2. \A i \in 1 .. Len(<<Host>>) : v.mac[<<Host>>[i]].client # "none"
      BY <2>3, <2>4, <1>5, <1>10
    <3>3. v.mac[Host].client = "open" /\ v.mac[Host].num = 0 /\ v.mac[Host].game = "menu"
      BY <2>3, <1>10
    <3>4. Distinct(v.srv.clients) /\ Distinct(v.srv.pending)
      BY <2>2, <3>1, <1>5
    <3>5. \A i \in 1 .. Len(v.srv.clients), j \in 1 .. Len(v.srv.pending) :
             v.srv.clients[i] # v.srv.pending[j]
      BY <3>1
    <3> QED
      BY <2>1, <2>5, <3>1, <3>2, <3>3, <3>4, <3>5 DEF QueueInv
<1>15. MachineInv(v)
  <2> SUFFICES ASSUME NEW m \in Machine
               PROVE  /\ UpPath(m, v.mac[m], v.up[m]) /\ DownPath(v.mac[m], v.down[m])
                      /\ ~Speaks(v.mac[m], v.up[m], v.down[m])
    BY <1>13 DEF MachineInv
  <2>1. CASE m = Host
    BY <2>1, <1>7, <1>9, <1>10, <1>12
  <2>2. CASE m # Host
    <3>1. /\ UpPath(m, mac[m], up[m]) /\ DownPath(mac[m], down[m])
          /\ ~Speaks(mac[m], up[m], down[m])
      BY <1>2, <1>4, <1>13 DEF MachineInv
    <3> QED
      BY <3>1, <2>2, <1>9, <1>10
  <2> QED
    BY <2>1, <2>2
<1>16. SeedInv(v)
  <2>1. \A m \in Machine : M[m].seed = mac[m].seed
    BY <1>6, <1>9
  <2> QED
    BY <2>1, <1>2, <1>4, <1>5, <1>10 DEF SeedInv
<1>17. StartInv(v)
  <2>1. ~AllReady(w)
    BY <1>2, <1>4 DEF AllReady
  <2>2. \A m \in Machine : ~Started(mac[m], down[m])
    BY <2>1, <1>2, <1>4 DEF StartInv
  <2>3. \A m \in Machine : ~Started(v.mac[m], v.down[m])
    BY <2>2, <1>7, <1>9, <1>10, <1>12
  <2> QED
    BY <2>3 DEF StartInv
<1>18. Len(v.srv.clients) = 0 /\ Numbers(v) = {}
  BY <1>5, <1>10 DEF Numbers
<1>19. ConnInv(v, names) /\ LatestInv(v, names)
  BY <1>18 DEF ConnInv, LatestInv
<1>20. HostInv(v)
  <2>1. \A type, good : Each(<<>>, type, good)
    BY DEF Each
  <2>2. SomeRoles(0, c2.roles) /\ ~Begun(c2)
    BY <1>6 DEF SomeRoles, Begun
  <2> QED
    BY <2>1, <2>2, <1>6, <1>9, <1>10, <1>12, <1>18 DEF HostInv, HostPath
<1>21. NamesInv(v, names)
  BY <1>6, <1>9, <1>10, <1>12, HasNone, EndsInNone DEF NamesInv, NamesPath
<1>22. mac'[Host].names = names
  BY <1>1, <1>6, <1>9
<1> QED
  BY <1>1, <1>2, <1>10, <1>11, <1>14, <1>15, <1>16, <1>17, <1>19, <1>20, <1>21, <1>22
  DEF LobbyInv, WorldInv, CoreInv

\* A new client waits: it was neither waiting nor connected before.
LEMMA JoinKeeps ==
    ASSUME LobbyInv, NEW m \in Machine, Join(m) PROVE LobbyInv'
<1> DEFINE w == World
           c == mac[m]
           c2 == [c EXCEPT !.client = "open", !.flags = Needs]
           p == srv.pending
           q == srv.clients
           s == [srv EXCEPT !.pending = Append(@, m)]
           M == [mac EXCEPT ![m] = c2]
           names == mac[Host].names
<1>1. PICK ok \in BOOLEAN : /\ up' = [up EXCEPT ![m] = <<Connect(ok)>>]
                            /\ IF ok THEN UNCHANGED events ELSE Event("old")
  BY DEF Join
<1> DEFINE u == <<Connect(ok)>>
           U == [up EXCEPT ![m] = u]
           v == [srv |-> s, mac |-> M, up |-> U, down |-> down]
<1>2. srv' = s /\ mac' = M /\ up' = U /\ down' = down
  BY <1>1 DEF Join
<1>3. /\ w \in Worlds /\ w.srv = srv /\ w.mac = mac /\ w.up = up /\ w.down = down
      /\ WorldInv(w, names) /\ srv \in Srv /\ mac \in [Machine -> Mac]
      /\ up \in [Machine -> Seq(Upward)] /\ down \in [Machine -> Seq(Downward)]
      /\ events \in Nat
  BY Worldly DEF LobbyInv
<1>4. c.client = "none" /\ c.game = "menu" /\ c \in Mac /\ m # Host /\ srv.up
  BY <1>3 DEF Join, InMenu
<1>5. events' \in Nat
  BY <1>1, <1>3 DEF Event
<1> HIDE DEF w
<1>6. /\ QueueInv(w) /\ MachineInv(w) /\ ConnInv(w, names) /\ SeedInv(w) /\ StartInv(w)
      /\ HostInv(w) /\ LatestInv(w, names) /\ NamesInv(w, names)
  BY <1>3 DEF WorldInv, CoreInv
<1>7. p \in Seq(Machine) /\ q \in Seq(Machine) /\ Len(p) \in Nat /\ Len(q) \in Nat
  BY <1>3 DEF Srv
<1> HIDE DEF p, q
<1>8. /\ Append(p, m) \in Seq(Machine) /\ Append(p, m) # <<>>
      /\ Len(Append(p, m)) = Len(p) + 1 /\ Append(p, m)[Len(p) + 1] = m
      /\ \A n \in 1 .. Len(p) : Append(p, m)[n] = p[n]
  BY <1>7, AppendParts
<1>9. /\ s \in Srv /\ s.up = srv.up /\ s.pending = Append(p, m) /\ s.clients = q
      /\ s.flags = srv.flags /\ s.seeds = srv.seeds
  BY <1>3, <1>8 DEF Srv, p, q
<1>10. /\ c2.client = "open" /\ c2.flags = Needs /\ c2.game = "menu" /\ c2.seed = c.seed
  <2> HIDE DEF c
  <2> QED
    BY <1>4 DEF Mac
<1> HIDE DEF s
<1>11. /\ u \in Seq(Upward) /\ Needs \in SUBSET Flag /\ UpPath(m, c2, u)
       /\ DownPath(c2, <<>>) /\ ~Speaks(c2, u, <<>>) /\ ~Started(c2, <<>>)
  <2> HIDE DEF c2, u
  <2> QED
    BY <1>10, NewClient DEF u
<1>12. c2 \in Mac
  <2> HIDE DEF c
  <2> QED
    BY <1>4, <1>11 DEF Mac
<1> HIDE DEF c2, u
<1>13. /\ M \in [Machine -> Mac] /\ M[m] = c2 /\ U \in [Machine -> Seq(Upward)] /\ U[m] = u
       /\ \A j \in Machine \ {m} : M[j] = mac[j] /\ U[j] = up[j]
  BY <1>3, <1>11, <1>12
<1> HIDE DEF M, U
<1>14. v \in Worlds /\ v.srv = s /\ v.mac = M /\ v.up = U /\ v.down = down
  BY <1>3, <1>9, <1>13 DEF Worlds
<1>15. World' = v
  BY <1>2 DEF World
<1> HIDE DEF v
<1>16. down[m] = <<>>
  BY <1>3, <1>4, <1>6 DEF MachineInv, DownPath
<1>17. /\ Numbers(v) = Numbers(w) /\ w.srv.clients = q /\ w.srv.pending = p
       /\ \A k \in Numbers(w) : q[k] \in Machine \ {m}
  <2>1. Numbers(v) = Numbers(w) /\ w.srv.clients = q /\ w.srv.pending = p
    BY <1>3, <1>9, <1>14 DEF Numbers, q, p
  <2>2. \A k \in Numbers(w) : q[k] \in Machine
    BY <2>1, <1>3, WorldParts
  <2>3. \A k \in Numbers(w) : mac[q[k]].client # "none"
    BY <2>1, <1>3, <1>6 DEF ConnInv, ConnPath
  <2> QED
    BY <2>1, <2>2, <2>3, <1>4
<1>18. \A i \in 1 .. Len(p) : p[i] \in Machine \ {m} /\ mac[p[i]].client # "none"
  <2>1. \A i \in 1 .. Len(p) : p[i] \in Machine
    BY <1>3, <1>17, WorldParts
  <2>2. \A i \in 1 .. Len(p) : mac[p[i]].client # "none"
    BY <1>3, <1>6, <1>17 DEF QueueInv
  <2> QED
    BY <2>1, <2>2, <1>4
<1>19. \A j : Admitted(v, j) <=> Admitted(w, j)
  BY <1>3, <1>9, <1>14, <1>17 DEF Admitted
<1>20. ~Admitted(w, m)
  BY <1>17 DEF Admitted
<1>21. QueueInv(v)
  <2>1. /\ Len(srv.flags) = Len(q) /\ Len(q) <= MaxPlayers /\ Distinct(q) /\ Distinct(p)
        /\ \A i \in 1 .. Len(q), j \in 1 .. Len(p) : q[i] # p[j]
        /\ q # <<>> => q[1] = Host
        /\ q = <<>> /\ p # <<>> => p[1] = Host
        /\ q = <<>> => p # <<>> /\ mac[Host].num = 0 /\ mac[Host].game = "menu"
        /\ mac[Host].client # "none"
    BY <1>3, <1>4, <1>6, <1>17 DEF QueueInv
  <2>2. \A i \in 1 .. Len(Append(p, m)) :
           \/ i \in 1 .. Len(p) /\ Append(p, m)[i] = p[i]
           \/ i = Len(p) + 1 /\ Append(p, m)[i] = m
    BY <1>7, <1>8
  <2>3. Distinct(Append(p, m))
    <3> SUFFICES ASSUME NEW i \in 1 .. Len(Append(p, m)), NEW j \in 1 .. Len(Append(p, m)),
                        Append(p, m)[i] = Append(p, m)[j]
                 PROVE  i = j
      BY DEF Distinct
    <3>1. CASE i \in 1 .. Len(p) /\ j \in 1 .. Len(p)
      <4>1. p[i] = p[j]
        BY <3>1, <1>8
      <4> QED
        BY <4>1, <3>1, <2>1 DEF Distinct
    <3>2. CASE i = Len(p) + 1 /\ j \in 1 .. Len(p)
      BY <3>2, <1>8, <1>18
    <3>3. CASE i \in 1 .. Len(p) /\ j = Len(p) + 1
      BY <3>3, <1>8, <1>18
    <3>4. CASE i = Len(p) + 1 /\ j = Len(p) + 1
      BY <3>4
    <3> QED
      BY <3>1, <3>2, <3>3, <3>4, <2>2, Zenon
  <2>4. \A i \in 1 .. Len(q), j \in 1 .. Len(Append(p, m)) : q[i] # Append(p, m)[j]
    <3> SUFFICES ASSUME NEW i \in 1 .. Len(q), NEW j \in 1 .. Len(Append(p, m))
                 PROVE  q[i] # Append(p, m)[j]
      OBVIOUS
    <3>1. q[i] # m
      BY <1>17 DEF Numbers
    <3>2. CASE j \in 1 .. Len(p)
      <4>1. q[i] # p[j]
        BY <2>1, <3>2
      <4> QED
        BY <4>1, <3>2, <1>8
    <3>3. CASE j = Len(p) + 1
      BY <3>1, <3>3, <1>8
    <3> QED
      BY <3>2, <3>3, <2>2
  <2>5. \A i \in 1 .. Len(Append(p, m)) : M[Append(p, m)[i]].client # "none"
    <3> SUFFICES ASSUME NEW i \in 1 .. Len(Append(p, m))
                 PROVE  M[Append(p, m)[i]].client # "none"
      OBVIOUS
    <3>1. CASE i \in 1 .. Len(p)
      BY <3>1, <1>8, <1>13, <1>18
    <3>2. CASE i = Len(p) + 1
      BY <3>2, <1>8, <1>10, <1>13
    <3> QED
      BY <3>1, <3>2, <2>2
  <2>6. M[Host] = mac[Host]
    BY <1>4, <1>13, Hosts
  <2>7. q = <<>> => Append(p, m)[1] = Host
    <3>1. ASSUME p # <<>>, p[1] = Host PROVE Append(p, m)[1] = Host
      BY <3>1, <1>7, <1>8
    <3> QED
      BY <3>1, <2>1
  <2>8. v.srv.clients = q /\ v.srv.pending = Append(p, m) /\ v.srv.flags = srv.flags
        /\ v.mac = M
    BY <1>9, <1>14
  <2> QED
    BY <2>1, <2>3, <2>4, <2>5, <2>6, <2>7, <2>8, <1>8 DEF QueueInv
<1>22. MachineInv(v)
  <2> SUFFICES ASSUME NEW j \in Machine
               PROVE  /\ UpPath(j, v.mac[j], v.up[j]) /\ DownPath(v.mac[j], v.down[j])
                      /\ Speaks(v.mac[j], v.up[j], v.down[j]) => Admitted(v, j)
                      /\ Has(v.up[j], "CONNECT") => ~Admitted(v, j)
    BY DEF MachineInv
  <2>1. CASE j = m
    BY <2>1, <1>11, <1>13, <1>14, <1>16, <1>19, <1>20
  <2>2. CASE j # m
    <3>1. /\ UpPath(j, mac[j], up[j]) /\ DownPath(mac[j], down[j])
          /\ Speaks(mac[j], up[j], down[j]) => Admitted(w, j)
          /\ Has(up[j], "CONNECT") => ~Admitted(w, j)
      BY <1>3, <1>6 DEF MachineInv
    <3> QED
      BY <3>1, <2>2, <1>13, <1>14, <1>19
  <2> QED
    BY <2>1, <2>2
<1>23. SeedInv(v)
  <2>1. \A j \in Machine : M[j].seed = mac[j].seed
    BY <1>10, <1>13
  <2> QED
    BY <2>1, <1>3, <1>6, <1>9, <1>14 DEF SeedInv
<1>24. StartInv(v)
  <2>1. \A j \in Machine : Started(v.mac[j], v.down[j]) => Started(w.mac[j], w.down[j])
    BY <1>3, <1>11, <1>13, <1>14, <1>16
  <2>2. AllReady(w) => AllReady(v)
    BY <1>3, <1>9, <1>13, <1>14, <1>17 DEF AllReady
  <2> QED
    BY <2>1, <2>2, <1>6 DEF StartInv
<1>25. ConnInv(v, names)
  BY <1>3, <1>6, <1>9, <1>13, <1>14, <1>17 DEF ConnInv
<1>26. LatestInv(v, names)
  <2>1. (AllAdmitted(v) <=> AllAdmitted(w)) /\ ToldConfig(v) = ToldConfig(w)
    BY <1>3, <1>9, <1>14, <1>17 DEF AllAdmitted, ToldConfig
  <2> QED
    BY <2>1, <1>3, <1>6, <1>9, <1>13, <1>14, <1>17 DEF LatestInv
<1>27. v.mac[Host] = w.mac[Host] /\ v.down[Host] = w.down[Host]
  BY <1>3, <1>4, <1>13, <1>14, Hosts
<1>28. HostInv(v) /\ NamesInv(v, names)
  BY <1>3, <1>6, <1>9, <1>14, <1>17, <1>27 DEF HostInv, NamesInv
<1>29. mac'[Host].names = names
  BY <1>2, <1>3, <1>14, <1>27
<1> QED
  BY <1>5, <1>14, <1>15, <1>21, <1>22, <1>23, <1>24, <1>25, <1>26, <1>28, <1>29
  DEF LobbyInv, WorldInv, CoreInv

\* The server says good-bye, frees its own client and closes every
\* connection, accepted or not.
LEMMA StopKeeps ==
    ASSUME LobbyInv, StopServing PROVE LobbyInv'
<1> DEFINE w == World
           c == mac[Host]
           names == c.names
           c2 == [c EXCEPT !.client = "freed"]
           D == Sent(w, [id \in Ids(w) |-> <<SvrQuit>>])
           D2 == [D EXCEPT ![Host] = <<>>]
           M == [mac EXCEPT ![Host] = c2]
           s == [srv EXCEPT !.up = FALSE, !.pending = <<>>]
           M2 == [m \in Machine |-> IF m = Host THEN c2
                                    ELSE [mac[m] EXCEPT !.cut = @ \/ mac[m].client = "open"]]
           y == [srv |-> srv, mac |-> mac, up |-> up, down |-> D]
           z == [srv |-> srv, mac |-> M, up |-> up, down |-> D2]
           v == [srv |-> s, mac |-> M2, up |-> up, down |-> D2]
<1>1. srv' = s /\ mac' = M2 /\ up' = up /\ down' = D2 /\ events' = events + 1
  BY DEF StopServing, Event
<1>2. /\ w \in Worlds /\ w.srv = srv /\ w.mac = mac /\ w.up = up /\ w.down = down
      /\ WorldInv(w, names) /\ srv \in Srv /\ mac \in [Machine -> Mac]
      /\ up \in [Machine -> Seq(Upward)] /\ events \in Nat /\ srv.up /\ c \in Mac
  BY Worldly, Hosts DEF LobbyInv, StopServing
<1>3. CoreInv(w, names) /\ LatestInv(w, names) /\ NamesInv(w, names) /\ QueueInv(w)
  BY <1>2 DEF WorldInv, CoreInv
<1>4. SvrQuit \in Downward /\ SvrQuit.type = "QUIT"
  BY DEF SvrQuit, Downward
<1> HIDE DEF w
<1>5. y \in Worlds /\ Tells(w, y, Listening(w), [j \in Machine |-> SvrQuit], "QUIT")
  <2> HIDE DEF y
  <2>1. LET x == [srv |-> w.srv, mac |-> w.mac, up |-> w.up, down |-> D]
        IN  x \in Worlds /\ Tells(w, x, Listening(w), [j \in Machine |-> SvrQuit], SvrQuit.type)
    BY <1>2, <1>3, <1>4, SentAll
  <2> QED
    BY <2>1, <1>2, <1>4 DEF y
<1>6. y.srv = srv /\ y.mac = mac /\ y.up = up /\ y.down = D /\ D \in [Machine -> Seq(Downward)]
  <2>1. y.srv = srv /\ y.mac = mac /\ y.up = up /\ y.down = D
    OBVIOUS
  <2>2. y.down \in [Machine -> Seq(Downward)]
    BY <1>5 DEF Worlds
  <2> QED
    BY <2>1, <2>2
<1> HIDE DEF D, y, M2
<1>7. CoreInv(y, names)
  <2> DEFINE J == Listening(w)
             X == [j \in Machine |-> SvrQuit]
  <2>1. Tells(w, y, J, X, "QUIT")
    BY <1>5
  <2> HIDE DEF J, X, names
  <2> QED
    BY <2>1, <1>2, <1>3, <1>5, Told
<1>8. LatestInv(y, names) /\ NamesInv(y, names)
  <2>1. SameQueue(w, y) /\ y.srv.seeds = w.srv.seeds /\ y.mac = w.mac
        /\ (AllAdmitted(y) => AllAdmitted(w))
    BY <1>2, <1>5, <1>6 DEF Tells, AllAdmitted, Numbers
  <2>2. \A j \in Machine :
            \/ y.down[j] = w.down[j]
            \/ \E x \in Downward : /\ x.type \notin {"CONFIG", "PLAYERS"}
                                   /\ y.down[j] = Append(w.down[j], x)
    <3> SUFFICES ASSUME NEW j \in Machine, j \in Listening(w)
                 PROVE  y.down[j] = Append(w.down[j], SvrQuit)
      BY <1>4, <1>5 DEF Tells
    <3> QED
      BY <1>5 DEF Tells
  <2> QED
    BY <2>1, <2>2, <1>2, <1>3, <1>5, Quiet
<1>9. c.client \in {"open", "freed"}
  BY <1>2, <1>3 DEF QueueInv, Mac
<1>10. /\ c2 \in Mac /\ c2.client = "freed" /\ c2.num = c.num /\ c2.seed = c.seed
       /\ c2.roles = c.roles /\ c2.names = c.names /\ c2.ready = c.ready
       /\ c2.flags = c.flags /\ c2.game = c.game /\ c2.cut = c.cut
  <2> HIDE DEF c
  <2> QED
    BY <1>2 DEF Mac
<1>11. Follows(Host, c, up[Host], D[Host], c2, up[Host], <<>>)
  <2> DEFINE u == up[Host]
             d == D[Host]
  <2>1. u \in Seq(Upward) /\ UpPath(Host, c, u) /\ DownPath(c, d)
    BY <1>2, <1>6, <1>7, Hosts DEF CoreInv, MachineInv
  <2> HIDE DEF u, d
  <2>2. CASE c.client = "open"
    <3>1. c2 = [c EXCEPT !.client = "freed"] /\ u \in {u, Append(u, Disconnect)}
      OBVIOUS
    <3> HIDE DEF c2, c
    <3>2. Follows(Host, c, u, d, c2, u, <<>>)
      BY <3>1, <2>1, <2>2, <1>2, FreedFollows
    <3> QED
      BY <3>2 DEF u, d
  <2>3. CASE c.client = "freed"
    <3> HIDE DEF c2, c
    <3>1. d = <<>>
      BY <2>1, <2>3 DEF DownPath
    <3>2. /\ Unaccepted(c2) <=> Unaccepted(c)
          /\ Begun(c2) <=> Begun(c)
          /\ LetIn(c2) => LetIn(c)
          /\ c2.client = c.client
      BY <2>3, <1>10 DEF Unaccepted, Begun, LetIn
    <3>3. Follows(Host, c, u, d, c2, u, d)
      BY <2>1, <2>3, <3>2, <1>10, SameFollows
    <3> QED
      BY <3>1, <3>3 DEF u, d
  <2> QED
    BY <2>2, <2>3, <1>9
<1> HIDE DEF c2
<1>12. /\ M \in [Machine -> Mac] /\ M[Host] = c2 /\ \A j \in Machine \ {Host} : M[j] = mac[j]
  BY <1>2, <1>10, Hosts
<1>13. /\ D2 \in [Machine -> Seq(Downward)] /\ D2[Host] = <<>>
       /\ \A j \in Machine \ {Host} : D2[j] = D[j]
  <2>1. <<>> \in Seq(Downward)
    OBVIOUS
  <2> QED
    BY <2>1, <1>6, Hosts
<1> HIDE DEF M, D2
<1>14. z \in Worlds /\ z.srv = srv /\ z.mac = M /\ z.up = up /\ z.down = D2
  BY <1>2, <1>12, <1>13 DEF Worlds
<1> HIDE DEF z
<1>15. WorldInv(z, names)
  <2>1. Only(y, z, Host)
    BY <1>6, <1>12, <1>13, <1>14 DEF Only
  <2>2. Follows(Host, y.mac[Host], y.up[Host], y.down[Host], z.mac[Host], z.up[Host],
                z.down[Host])
    BY <1>6, <1>11, <1>12, <1>13, <1>14
  <2>3. CoreInv(z, names) /\ LatestInv(z, names)
    BY <2>1, <2>2, <1>5, <1>7, <1>8, <1>14, Hosts, OneMachine
  <2>4. NamesInv(z, names)
    BY <1>10, <1>12, <1>13, <1>14, HasNone, EndsInNone DEF NamesInv, NamesPath
  <2> QED
    BY <2>3, <2>4 DEF WorldInv
<1>16. /\ s \in Srv /\ s.up = FALSE /\ s.pending = <<>> /\ s.clients = srv.clients
       /\ s.flags = srv.flags /\ s.seeds = srv.seeds
  <2>1. <<>> \in Seq(Machine)
    OBVIOUS
  <2> QED
    BY <2>1, <1>2 DEF Srv
<1> HIDE DEF s
<1>17. /\ M2 \in [Machine -> Mac]
       /\ \A j \in Machine : Alike(M[j], M2[j]) /\ M2[j].names = M[j].names
  <2> SUFFICES ASSUME NEW j \in Machine
               PROVE M2[j] \in Mac /\ Alike(M[j], M2[j]) /\ M2[j].names = M[j].names
    BY DEF M2
  <2>1. CASE j = Host
    <3>1. M2[j] = M[j] /\ M[j] \in Mac
      BY <2>1, <1>12 DEF M2
    <3> QED
      BY <3>1 DEF Alike
  <2>2. CASE j # Host
    <3> DEFINE a == mac[j]
               b == [a EXCEPT !.cut = @ \/ a.client = "open"]
    <3>1. M2[j] = b /\ M[j] = a /\ a \in Mac
      BY <2>2, <1>2, <1>12 DEF M2
    <3> HIDE DEF a
    <3>2. b \in Mac /\ Alike(a, b) /\ b.names = a.names
      BY <3>1 DEF Mac, Alike
    <3> HIDE DEF b
    <3> QED
      BY <3>1, <3>2
  <2> QED
    BY <2>1, <2>2
<1>18. v \in Worlds /\ v.srv = s /\ v.mac = M2 /\ v.up = up /\ v.down = D2
  BY <1>2, <1>13, <1>16, <1>17 DEF Worlds
<1>19. World' = v
  BY <1>1 DEF World
<1> HIDE DEF v
<1>20. QueueInv(v)
  <2>1. /\ Len(srv.flags) = Len(srv.clients) /\ Len(srv.clients) <= MaxPlayers
        /\ Distinct(srv.clients) /\ (srv.clients # <<>> => srv.clients[1] = Host)
    BY <1>2, <1>3 DEF QueueInv
  <2>2. Len(s.pending) = 0 /\ Distinct(s.pending) /\ 1 .. Len(s.pending) = {}
    BY <1>16 DEF Distinct
  <2>3. M2[Host].client # "none"
    BY <1>10, <1>12, <1>17, Hosts DEF Alike
  <2>4. /\ v.srv.clients = srv.clients /\ v.srv.flags = srv.flags /\ v.srv.up = FALSE
        /\ v.srv.pending = <<>> /\ v.mac = M2 /\ s.pending = <<>>
    BY <1>16, <1>18
  <2> QED
    BY <2>1, <2>2, <2>3, <2>4 DEF QueueInv
<1>21. WorldInv(v, names)
  BY <1>14, <1>15, <1>16, <1>17, <1>18, <1>20, RefusedKeeps
<1>22. mac'[Host].names = names
  BY <1>1, <1>10, <1>12, <1>17, Hosts
<1>23. events' \in Nat
  BY <1>1, <1>2
<1> QED
  BY <1>18, <1>19, <1>21, <1>22, <1>23 DEF LobbyInv

\* Every step keeps the invariant.
LEMMA NextKeeps ==
    LobbyInv /\ [Next]_vars => LobbyInv'
<1> SUFFICES ASSUME LobbyInv, [Next]_vars PROVE LobbyInv'
  OBVIOUS
<1>1. CASE Serve
  BY <1>1, ServeKeeps
<1>2. CASE StopServing
  BY <1>2, StopKeeps
<1>3. CASE ChangeSettings
  BY <1>3, SettingsKeep
<1>4. CASE PollHost
  BY <1>4, PollKeeps
<1>5. ASSUME NEW m \in Machine, Join(m) PROVE LobbyInv'
  BY <1>5, JoinKeeps
<1>6. ASSUME NEW m \in Machine, Leave(m) PROVE LobbyInv'
  <2>1. mac[m].client = "open" /\ Becomes(Freed(World, m)) /\ events' = events + 1
    BY <1>6 DEF Leave, Event
  <2>2. events' \in Nat
    BY <2>1 DEF LobbyInv
  <2> QED
    BY <2>1, <2>2, FreedKeeps
<1>7. ASSUME NEW m \in Machine, Press(m) PROVE LobbyInv'
  BY <1>7, PressKeeps
<1>8. ASSUME NEW m \in Machine, Begin(m) PROVE LobbyInv'
  BY <1>8, BeginKeeps
<1>9. ASSUME NEW m \in Machine, Play(m) PROVE LobbyInv'
  BY <1>9, PlayKeeps
<1>10. ASSUME NEW m \in Machine, ClientRun(m) PROVE LobbyInv'
  BY <1>10, ClientRunKeeps
<1>11. ASSUME NEW m \in Machine, ClientLost(m) PROVE LobbyInv'
  BY <1>11, ClientLostKeeps
<1>12. ASSUME NEW m \in Machine, ClientDeath(m) PROVE LobbyInv'
  <2>1. mac[m].client = "open" /\ Becomes(Freed(World, m)) /\ events' = events
    BY <1>12 DEF ClientDeath
  <2>2. events' \in Nat
    BY <2>1 DEF LobbyInv
  <2> QED
    BY <2>1, <2>2, FreedKeeps
<1>13. CASE UNCHANGED vars
  <2>1. /\ srv' = srv /\ mac' = mac /\ up' = up /\ down' = down /\ events' = events
    BY <1>13 DEF vars
  <2>2. World' = World /\ mac'[Host].names = mac[Host].names
    BY <2>1 DEF World
  <2> QED
    BY <2>1, <2>2 DEF LobbyInv
<1> QED
  BY <1>1, <1>2, <1>3, <1>4, <1>5, <1>6, <1>7, <1>8, <1>9, <1>10, <1>11, <1>12, <1>13 DEF Next

\* The invariant holds throughout.
THEOREM LobbyHolds == Spec => []LobbyInv
BY InitLobby, NextKeeps, PTL DEF Spec

\* The types, and that a server has as many players as connections: accepting
\* one counts both up, and every configuration the host sends itself has that
\* many players.
THEOREM ConnectionsMatch == Spec => []SlotsMatch
<1>1. LobbyInv => SlotsMatch
  <2> SUFFICES ASSUME LobbyInv PROVE SlotsMatch
    OBVIOUS
  <2> DEFINE w == World
  <2>1. /\ w.srv = srv /\ w.mac = mac /\ w.up = up /\ w.down = down
        /\ srv \in Srv /\ mac \in [Machine -> Mac] /\ up \in [Machine -> Seq(Upward)]
        /\ down \in [Machine -> Seq(Downward)] /\ events \in Nat
        /\ QueueInv(w) /\ SeedInv(w) /\ HostInv(w)
    BY Worldly DEF LobbyInv, WorldInv, CoreInv
  <2> HIDE DEF w
  <2>2. /\ srv.up \in BOOLEAN /\ srv.seeds \in Nat
        /\ Range(srv.pending) \subseteq Machine /\ Range(srv.clients) \subseteq Machine
        /\ Range(srv.flags) \subseteq SUBSET Flag
    <3>1. /\ srv.up \in BOOLEAN /\ srv.seeds \in Nat /\ srv.pending \in Seq(Machine)
          /\ srv.clients \in Seq(Machine) /\ srv.flags \in Seq(SUBSET Flag)
      BY <2>1 DEF Srv
    <3>2. \A S : \A q \in Seq(S) : Range(q) \subseteq S
      BY DEF Range
    <3> QED
      BY <3>1, <3>2
  <2>3. Len(srv.flags) = Len(srv.clients) /\ Len(srv.clients) <= MaxPlayers
    BY <2>1 DEF QueueInv
  <2>4. mac \in [Machine ->
          [client : {"none", "open", "freed"}, flags : SUBSET Flag, cut : BOOLEAN,
           roles : [Slot -> Role], names : [Slot -> Machine \union {Local, NetworkPlayer}],
           num : (0 .. MaxPlayers) \union {2}, seed : 0 .. srv.seeds,
           game : {"menu", "GAME_BEGIN", "INVENTORY_BEGIN", "playing"},
           ready : (0 .. MaxPlayers) \union {2}, missync : BOOLEAN]]
    <3> SUFFICES ASSUME NEW m \in Machine
                 PROVE  mac[m] \in
          [client : {"none", "open", "freed"}, flags : SUBSET Flag, cut : BOOLEAN,
           roles : [Slot -> Role], names : [Slot -> Machine \union {Local, NetworkPlayer}],
           num : (0 .. MaxPlayers) \union {2}, seed : 0 .. srv.seeds,
           game : {"menu", "GAME_BEGIN", "INVENTORY_BEGIN", "playing"},
           ready : (0 .. MaxPlayers) \union {2}, missync : BOOLEAN]
      BY <2>1
    <3> DEFINE c == mac[m]
    <3>1. c \in Mac /\ c.seed <= srv.seeds
      BY <2>1 DEF SeedInv
    <3> HIDE DEF c
    <3>2. c.seed \in 0 .. srv.seeds
      BY <3>1, <2>2 DEF Mac
    <3>3. c \in
          [client : {"none", "open", "freed"}, flags : SUBSET Flag, cut : BOOLEAN,
           roles : [Slot -> Role], names : [Slot -> Machine \union {Local, NetworkPlayer}],
           num : (0 .. MaxPlayers) \union {2}, seed : 0 .. srv.seeds,
           game : {"menu", "GAME_BEGIN", "INVENTORY_BEGIN", "playing"},
           ready : (0 .. MaxPlayers) \union {2}, missync : BOOLEAN]
      BY <3>1, <3>2 DEF Mac, Known, Counts
    <3> QED
      BY <3>3 DEF c
  <2>5. ASSUME NEW m \in Machine
        PROVE  /\ \A k \in DOMAIN up[m] : up[m][k].type \in {"CONNECT", "NAME", "SYNC", "DISC"}
               /\ \A k \in DOMAIN down[m] :
                     down[m][k].type \in
                        {"ACCEPTED", "REJECTED", "QUIT", "CONFIG", "PLAYERS", "SYN@"}
    <3>1. up[m] \in Seq(Upward) /\ down[m] \in Seq(Downward)
      BY <2>1
    <3>2. \A p \in Upward : p.type \in {"CONNECT", "NAME", "SYNC", "DISC"}
      BY DEF Upward
    <3>3. \A p \in Downward :
            p.type \in {"ACCEPTED", "REJECTED", "QUIT", "CONFIG", "PLAYERS", "SYN@"}
      BY DEF Downward, ConfigPacket, PlayersPacket
    <3>4. \A S : \A q \in Seq(S) : \A k \in DOMAIN q : q[k] \in S
      OBVIOUS
    <3> QED
      BY <3>1, <3>2, <3>3, <3>4
  <2>6. TypeOK
    BY <2>1, <2>2, <2>3, <2>4, <2>5 DEF TypeOK
  <2>7. srv.up => mac[Host].num = Len(srv.clients)
    BY <2>1 DEF HostInv, HostPath
  <2> QED
    BY <2>6, <2>7 DEF SlotsMatch
<1> QED
  BY <1>1, LobbyHolds, PTL

\* A machine in the game was let in, so everybody was ready.
LEMMA LetInReady ==
    ASSUME LobbyInv, NEW m \in Machine, InGame(m)
    PROVE  AllReady(World) /\ LetIn(mac[m])
<1>1. LetIn(mac[m])
  BY DEF InGame, LetIn
<1>2. Started(World.mac[m], World.down[m])
  BY <1>1, Worldly DEF Started
<1>3. StartInv(World)
  BY DEF LobbyInv, WorldInv, CoreInv
<1> QED
  BY <1>1, <1>2, <1>3 DEF StartInv

\* Nobody is in the game before everybody who has connected has begun: the
\* server answers when all have asked, and nobody connects to a game that has
\* begun.
THEOREM AllBeginTogether == Spec => []BeginTogether
<1>1. LobbyInv => BeginTogether
  <2> SUFFICES ASSUME LobbyInv, NEW m \in Machine, InGame(m), NEW k \in Connections(World)
               PROVE  Begun(mac[k])
    BY DEF BeginTogether, Begun
  <2>1. AllReady(World) /\ World \in Worlds
    BY LetInReady DEF LobbyInv
  <2>2. PICK n \in Numbers(World) : World.srv.clients[n] = k
    BY <2>1, WorldParts, SMTT(30) DEF Connections, Range, Numbers
  <2>3. Begun(World.mac[k])
    BY <2>1, <2>2 DEF AllReady, ReadyPath
  <2> QED
    BY <2>3, Worldly
<1> QED
  BY <1>1, LobbyHolds, PTL

\* The server's game has been set up with as many players as there are
\* connections: nobody is accepted after GAME_BEGIN of the host.
THEOREM HostIsComplete == Spec => []HostSetsUpEveryone
<1>1. LobbyInv => HostSetsUpEveryone
  BY Worldly DEF LobbyInv, WorldInv, CoreInv, HostInv, HostPath, HostSetsUpEveryone, Begun
<1> QED
  BY <1>1, LobbyHolds, PTL

\* Who is in the game has the last configuration, everybody's name and his
\* own player: all are named and accepted before the last configuration is
\* sent, and every queue ends with it.
THEOREM SameGame == Spec => []GameAgrees
<1>1. LobbyInv => GameAgrees
  <2> SUFFICES ASSUME LobbyInv, NEW m \in Machine, InGame(m)
               PROVE  /\ mac[m].num = Len(srv.clients) /\ mac[m].seed = srv.seeds
                      /\ \A id \in Ids(World) :
                            /\ mac[m].names[id] = MachineOf(World, id)
                            /\ mac[m].roles[id] =
                                  IF MachineOf(World, id) = m THEN "human" ELSE "network"
    BY DEF GameAgrees
  <2> DEFINE w == World
             c == mac[m]
             d == down[m]
             q == srv.clients
             names == mac[Host].names
  <2>1. /\ w \in Worlds /\ w.srv = srv /\ w.mac = mac /\ w.up = up /\ w.down = down
        /\ QueueInv(w) /\ MachineInv(w) /\ ConnInv(w, names) /\ LatestInv(w, names)
    BY Worldly DEF LobbyInv, WorldInv, CoreInv
  <2>2. AllReady(w) /\ LetIn(c) /\ c.client = "open"
    BY LetInReady DEF InGame
  <2> HIDE DEF w, c, d, q, names
  <2>3. /\ UpPath(m, c, up[m]) /\ DownPath(c, d) /\ (Speaks(c, up[m], d) => Admitted(w, m))
        /\ w.mac[m] = c /\ w.down[m] = d /\ w.srv.clients = q /\ w.srv.seeds = srv.seeds
    BY <2>1 DEF MachineInv, c, d, q
  <2>4. Begun(c) /\ ~Unaccepted(c)
    BY <2>2, <2>3 DEF LetIn, Begun, UpPath
  <2>5. PICK k \in Numbers(w) : q[k] = m
    BY <2>2, <2>3, <2>4 DEF Speaks, Admitted
  <2>6. q \in Seq(Machine) /\ Len(q) \in Nat /\ Numbers(w) = 1 .. Len(q)
    BY <2>1, <2>3, WorldParts DEF Numbers
  <2>7. AllAdmitted(w)
    BY <2>2 DEF AllReady, ReadyPath, AllAdmitted
  <2>8. Latest(c, d, ToldConfig(w), ToldPlayers(Len(q), names, k - 1))
    BY <2>1, <2>2, <2>3, <2>5, <2>7 DEF LatestInv
  <2>9. /\ ConfigData(c.seed, c.num) = ToldConfig(w)
        /\ PlayerData(c.roles, c.names) \in ToldPlayers(Len(q), names, k - 1)
    BY <2>2, <2>3, <2>8 DEF DownPath, Latest
  <2>10. c.seed = srv.seeds /\ c.num = Len(q)
    BY <2>3, <2>9 DEF ToldConfig, ConfigData
  <2>11. /\ c.names = names
         /\ \A s \in 0 .. Len(q) - 1 : c.roles[s] = IF s = k - 1 THEN "human" ELSE "network"
    BY <2>9 DEF ToldPlayers, PlayerData
  <2>12. \A i \in Numbers(w) : names[i - 1] = q[i]
    <3> SUFFICES ASSUME NEW i \in Numbers(w) PROVE names[i - 1] = q[i]
      OBVIOUS
    <3> DEFINE j == q[i]
               x == w.mac[j]
               u == w.up[j]
               f == w.srv.flags[i]
               name == names[i - 1]
    <3>1. ConnPath(j, x, u, f, name) /\ ReadyPath(x, u, f)
      BY <2>1, <2>2, <2>3 DEF ConnInv, AllReady
    <3> HIDE DEF j, x, u, f, name
    <3>2. name = j
      BY <3>1 DEF ConnPath, ReadyPath
    <3> QED
      BY <3>2 DEF name, j
  <2>13. \A i \in Numbers(w) : q[i] = m <=> i = k
    <3>1. Distinct(q)
      BY <2>1, <2>3 DEF QueueInv
    <3> QED
      BY <3>1, <2>5, <2>6 DEF Distinct
  <2>14. ASSUME NEW id \in Ids(w)
         PROVE  /\ c.names[id] = MachineOf(w, id)
                /\ c.roles[id] = IF MachineOf(w, id) = m THEN "human" ELSE "network"
    <3> DEFINE i == id + 1
    <3>1. id \in 0 .. Len(q) - 1 /\ i \in Numbers(w) /\ i - 1 = id /\ MachineOf(w, id) = q[i]
      BY <2>3, <2>6 DEF Ids, MachineOf
    <3>2. id = k - 1 <=> i = k
      BY <3>1, <2>6
    <3> HIDE DEF i
    <3>3. c.names[id] = q[i]
      <4>1. names[i - 1] = q[i]
        BY <2>12, <3>1
      <4> QED
        BY <4>1, <2>11, <3>1
    <3>4. c.roles[id] = IF i = k THEN "human" ELSE "network"
      BY <2>11, <3>1, <3>2
    <3> QED
      BY <3>1, <3>3, <3>4, <2>13
  <2> QED
    BY <2>10, <2>14 DEF w, c, q
<1> QED
  BY <1>1, LobbyHolds, PTL
=============================================================================
