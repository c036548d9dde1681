------------------------------ MODULE SNetSync -------------------------------
(***************************************************************************)
(* A network game of xscorch: the clients, the server, and what they tell  *)
(* each other between the start of a game and its last turn.  It models    *)
(* snet/snetclient.c and snet/snetserver.c with the calls the state        *)
(* machine makes into them (sgame/sstate.c, sgame/splayer.c).              *)
(*                                                                         *)
(* Client 0 runs in the process of the server and shares its players.  A   *)
(* connection is a FIFO channel: that is what TcpNet provides.  A packet   *)
(* may be on its way for any time, so a remote client takes one packet or  *)
(* many between two steps of its own.  The process of the server polls in  *)
(* a fixed order, first for its own client, then the connections one after *)
(* the other, before its game goes on (sc_state_run); what it sends to     *)
(* itself is there when it polls next.  A poll is quick: the server does   *)
(* not read the answer to a packet in the poll it was sent in, so nothing  *)
(* else need happen during a poll.                                         *)
(*                                                                         *)
(* The orders of a player (turret, power, weapon, position) are one value. *)
(***************************************************************************)
EXTENDS Integers, Sequences, FiniteSets

CONSTANTS
    N,          \* srv->connections: one human player for each
    Script,     \* the events a game goes through, in order
    Sequential, \* options.mode is SC_CONFIG_MODE_SEQUENTIAL
    Orders,     \* the orders a player can give
    NoOrders,   \* the orders everybody starts with
    MaxOrders,  \* bound: orders a client gives
    Quitters    \* clients that may disconnect

Client == 0 .. N - 1
Host == 0

Event == {"GAME", "INV", "ROUND", "TURN"}

ASSUME ClientAssumption == N \in Nat /\ N >= 1 /\ Quitters \subseteq Client \ {Host}
ASSUME ScriptAssumption == Script \in Seq(Event)
ASSUME OrdersAssumption ==
    /\ NoOrders \in Orders
    /\ MaxOrders \in Nat
    /\ Sequential \in BOOLEAN

VARIABLES
    up,       \* packets from each client to the server
    down,     \* packets from the server to each client
    alive,    \* the client has not disconnected
    pos,      \* events a client has called sc_net_client_sync for
    wait,     \* SC_CONN_WAIT_SYNC of a client's connection
    syncarg,  \* syncarg of a client's connection
    view,     \* a client's players: the orders it knows of each
    bought,   \* a client's players: shopping tours it knows of each
    given,    \* number of orders given
    used,     \* the orders a client's simulations have run with
    missync,  \* a client has found itself out of step
    svrWait,  \* SC_CONN_WAIT_SYNC of the server's connections
    svrArg,   \* syncarg of the server's connections
    svrQuit,  \* SC_CONN_QUIT of the server's connections
    polling,  \* what the process of the server is doing
    current,  \* srv->current
    opened    \* number of times the barrier has opened

cliVars == <<alive, pos, wait, syncarg, view, bought, given, used, missync>>
svrVars == <<svrWait, svrArg, svrQuit, opened>>
pollVars == <<polling, current>>
vars == <<up, down, cliVars, svrVars, pollVars>>

-----------------------------------------------------------------------------
(* Packets. *)

SyncRqst(event, isserver) == [type |-> "SYNC", event |-> event, serv |-> isserver]
CliOrders(player, order) == [type |-> "ORDR", player |-> player, order |-> order]
\* What a client believes of all players.  It never claims authority: the flag
\* compares a pointer with an enumerator.
PlayerState(table) == [type |-> "PLST", table |-> table]
Inventory(player) == [type |-> "INVT", player |-> player]
Disconnect == [type |-> "DISC"]
SyncResp(event, rnd) ==
    [type |-> "SYN@", event |-> event, rnd |-> rnd, bogus |-> FALSE]
\* The same to a client that waits for something else: its rnd is -1.
SyncBogus(event) == [type |-> "SYN@", event |-> event, rnd |-> <<>>, bogus |-> TRUE]
SvrOrders(table) == [type |-> "ORD@", table |-> table]

\* The next random value of a client: it follows from what it has simulated.
RandPeek(i) == used[i]

ToServer(i, packets) == up' = [up EXCEPT ![i] = @ \o packets]

\* A packet to every client but the sender, unless its connection is dead.
RelayTo(sender, packet) ==
    down' = [j \in Client |-> IF j = sender \/ svrQuit[j] THEN down[j]
                              ELSE Append(down[j], packet)]

-----------------------------------------------------------------------------
(* The client's game. *)

\* The event a client comes to next.
Upcoming(i) == IF pos[i] < Len(Script) THEN Script[pos[i] + 1] ELSE "END"

\* Turns among the first n events.
Turns(n) == Cardinality({k \in 1 .. n : Script[k] = "TURN"})

\* Turns a client has finished, and those it has simulated.
TurnsEnded(i) == Turns(pos[i])

\* A turn has ended for everyone and the weapons are still to be created.
MustSimulate(i) == Len(used[i]) < TurnsEnded(i)

\* sc_state_run has polled and goes on to the handler of the current state.
Runs(i) == alive[i] /\ ~wait[i] /\ polling = "idle"

\* The player with turn n of a sequential game.
TurnOf(n) == n % N

\* Any of the functions in splayer.c that change turret, power, weapon,
\* position: the change is made and sent at once.
Order(i) ==
    /\ Runs(i)
    /\ Upcoming(i) = "TURN"
    /\ ~MustSimulate(i)
    /\ Sequential => TurnOf(TurnsEnded(i)) = i
    /\ given[i] < MaxOrders
    /\ \E o \in Orders \ {view[i][i]} :
         /\ view' = [view EXCEPT ![i][i] = o]
         /\ ToServer(i, <<CliOrders(i, o)>>)
    /\ given' = [given EXCEPT ![i] = @ + 1]
    /\ UNCHANGED <<down, alive, pos, wait, syncarg, bought, used, missync, svrVars,
                   pollVars>>

\* What a client sends before it asks to synchronise on an event.
Farewell(i, event) ==
    CASE event = "ROUND" -> <<Inventory(i)>>
      [] event = "TURN"  -> <<PlayerState(view[i])>>
      [] OTHER           -> <<>>

\* Fault: the request before what the others are to know by then.
AskToSyncFirst(i, event) == <<SyncRqst(event, i = Host)>> \o Farewell(i, event)

\* What a client sends at the end of an event, in this order.
AskToSync(i, event) == Append(Farewell(i, event), SyncRqst(event, i = Host))

\* A handler of sstate.c that ends in sc_net_client_sync.
Sync(i) ==
    /\ Runs(i)
    /\ Upcoming(i) # "END"
    /\ ~MustSimulate(i)
    /\ LET event == Upcoming(i)
       IN  /\ ToServer(i, AskToSync(i, event))
           /\ syncarg' = [syncarg EXCEPT ![i] = event]
           /\ bought' = IF event = "ROUND" THEN [bought EXCEPT ![i][i] = @ + 1]
                        ELSE bought
    /\ wait' = [wait EXCEPT ![i] = TRUE]
    /\ pos' = [pos EXCEPT ![i] = @ + 1]
    /\ UNCHANGED <<down, alive, view, given, used, missync, svrVars, pollVars>>

\* Fault: a volley from every tank.
VolleyAll(i) == view[i]

\* The orders that are carried out: those of the armed players.
Volley(i) ==
    [p \in (IF Sequential THEN {TurnOf(TurnsEnded(i) - 1)} ELSE Client) |-> view[i][p]]

\* RUN_TALK and RUN_CREATION: the volleys leave with the orders known now.
Simulate(i) ==
    /\ Runs(i)
    /\ MustSimulate(i)
    /\ used' = [used EXCEPT ![i] = Append(@, Volley(i))]
    /\ UNCHANGED <<up, down, alive, pos, wait, syncarg, view, bought, given,
                   missync, svrVars, pollVars>>

\* sc_net_client_free.
Quit(i) ==
    /\ i \in Quitters
    /\ alive[i] /\ polling = "idle"
    /\ alive' = [alive EXCEPT ![i] = FALSE]
    /\ ToServer(i, <<Disconnect>>)
    /\ UNCHANGED <<down, pos, wait, syncarg, view, bought, given, used,
                   missync, svrVars, pollVars>>

-----------------------------------------------------------------------------
(* sc_net_client_run. *)

\* A client takes the orders of every player but its own.
RecvOrders(i, p) ==
    /\ view' = [view EXCEPT ![i] = [q \in Client |-> IF q = i THEN @[q] ELSE p.table[q]]]
    /\ UNCHANGED <<wait, bought, missync>>

\* Without authority, differences are reported and nothing is corrected.
RecvPlayerState == UNCHANGED <<wait, view, bought, missync>>

RecvInventory(i, p) ==
    /\ bought' = [bought EXCEPT ![i][p.player] = @ + 1]
    /\ UNCHANGED <<wait, view, missync>>

RecvSync(i, p) ==
    /\ wait' = [wait EXCEPT ![i] = FALSE]
    /\ missync' = [missync EXCEPT ![i] =
                     @ \/ p.event # syncarg[i] \/ p.bogus \/ p.rnd # RandPeek(i)]
    /\ UNCHANGED <<view, bought>>

ClientRecv(i) ==
    /\ alive[i]
    /\ polling = IF i = Host THEN "client" ELSE "idle"
    /\ down[i] # <<>>
    /\ LET p == Head(down[i])
       IN  \/ p.type = "ORD@" /\ RecvOrders(i, p)
           \/ p.type = "PLST" /\ RecvPlayerState
           \/ p.type = "INVT" /\ RecvInventory(i, p)
           \/ p.type = "SYN@" /\ RecvSync(i, p)
    /\ down' = [down EXCEPT ![i] = Tail(@)]
    /\ UNCHANGED <<up, alive, pos, syncarg, given, used, svrVars, pollVars>>

-----------------------------------------------------------------------------
(* The polls of the process of the server, at the start of sc_state_run. *)

PollClient ==
    /\ polling = "idle"
    /\ polling' = "client"
    /\ UNCHANGED <<up, down, cliVars, svrVars, current>>

\* sc_net_client_run has emptied the connection; on to sc_net_server_run.
PollServer ==
    /\ polling = "client"
    /\ down[Host] = <<>>
    /\ polling' = "server"
    /\ current' = 0
    /\ UNCHANGED <<up, down, cliVars, svrVars>>

\* Nothing more has arrived on the current connection, or it is dead.
PollNext ==
    /\ polling = "server"
    /\ current = Host => up[Host] = <<>>
    /\ IF current + 1 < N
         THEN current' = current + 1 /\ UNCHANGED polling
         ELSE polling' = "idle" /\ UNCHANGED current
    /\ UNCHANGED <<up, down, cliVars, svrVars>>

-----------------------------------------------------------------------------
(* sc_net_server_run. *)

\* The server's own client says which event it is.
Answer(arg, j) ==
    IF arg[j].event = arg[Host].event THEN SyncResp(arg[Host].event, RandPeek(Host))
    ELSE SyncBogus(arg[Host].event)

\* Faults of the barrier: the server's own client decides alone; the last
\* connection is not answered.
SyncAllHostOnly(waiting, arg) ==
    IF waiting[Host]
      THEN /\ down' = [j \in Client |-> Append(down[j],
                          Answer(arg, j))]
           /\ svrWait' = [j \in Client |-> FALSE]
           /\ opened' = opened + 1
      ELSE svrWait' = waiting /\ UNCHANGED <<down, opened>>
SyncAllButLast(waiting, arg) ==
    IF \A j \in Client : waiting[j]
      THEN /\ down' = [j \in Client |-> IF j = N - 1 THEN down[j]
                         ELSE Append(down[j], Answer(arg, j))]
           /\ svrWait' = [j \in Client |-> FALSE]
           /\ opened' = opened + 1
      ELSE svrWait' = waiting /\ UNCHANGED <<down, opened>>

\* _sc_net_sync_all: once every connection waits, everyone may go on.
SyncAll(waiting, arg) ==
    IF \A j \in Client : waiting[j]
      THEN /\ down' = [j \in Client |-> Append(down[j], Answer(arg, j))]
           /\ svrWait' = [j \in Client |-> FALSE]
           /\ opened' = opened + 1
      ELSE /\ svrWait' = waiting
           /\ UNCHANGED <<down, opened>>

ServerSync(i, p) ==
    /\ SyncAll([svrWait EXCEPT ![i] = TRUE], [svrArg EXCEPT ![i] = p])
    /\ svrArg' = [svrArg EXCEPT ![i] = p]
    /\ UNCHANGED svrQuit

\* _sc_net_relay_orders: the sender's orders as they came in, those of the
\* other players as the server's own client knows them.
RelayTable(p) == [view[Host] EXCEPT ![p.player] = p.order]

ServerOrders(i, p) ==
    /\ RelayTo(i, SvrOrders(RelayTable(p)))
    /\ UNCHANGED svrVars

ServerRelay(i, p) ==
    /\ RelayTo(i, p)
    /\ UNCHANGED svrVars

ServerDisconnect(i) ==
    /\ svrQuit' = [svrQuit EXCEPT ![i] = TRUE]
    /\ UNCHANGED <<down, svrWait, svrArg, opened>>

ServerRecv(i) ==
    /\ polling = "server"
    /\ current = i
    /\ up[i] # <<>>
    /\ ~svrQuit[i]
    /\ LET p == Head(up[i])
       IN  \/ p.type = "SYNC" /\ ServerSync(i, p)
           \/ p.type = "ORDR" /\ ServerOrders(i, p)
           \/ p.type \in {"PLST", "INVT"} /\ ServerRelay(i, p)
           \/ p.type = "DISC" /\ ServerDisconnect(i)
    /\ up' = [up EXCEPT ![i] = Tail(@)]
    /\ UNCHANGED <<cliVars, pollVars>>

-----------------------------------------------------------------------------
Init ==
    /\ up = [i \in Client |-> <<>>]
    /\ down = [i \in Client |-> <<>>]
    /\ alive = [i \in Client |-> TRUE]
    /\ pos = [i \in Client |-> 0]
    /\ wait = [i \in Client |-> FALSE]
    /\ syncarg = [i \in Client |-> "none"]
    /\ view = [i \in Client |-> [p \in Client |-> NoOrders]]
    /\ bought = [i \in Client |-> [p \in Client |-> 0]]
    /\ given = [i \in Client |-> 0]
    /\ used = [i \in Client |-> <<>>]
    /\ missync = [i \in Client |-> FALSE]
    /\ svrWait = [i \in Client |-> FALSE]
    /\ svrArg = [i \in Client |-> SyncRqst("none", FALSE)]
    /\ svrQuit = [i \in Client |-> FALSE]
    /\ polling = "idle"
    /\ current = 0
    /\ opened = 0

Next ==
    \/ \E i \in Client :
        \/ Order(i) \/ Sync(i) \/ Simulate(i) \/ Quit(i)
        \/ ClientRecv(i)
        \/ ServerRecv(i)
    \/ PollClient \/ PollServer \/ PollNext

Spec == Init /\ [][Next]_vars

\* Timers poll the connections and run the state machines; users end their
\* turns and close their inventories; a packet arrives in the end, and each
\* poll of its connection takes all that has.  What has to be done is stated
\* without "polling", as a poll of the server disables the others' steps for a
\* moment.
HasEvent(i) == alive[i] /\ ~wait[i] /\ (MustSimulate(i) \/ Upcoming(i) # "END")
ClientMail(i) == alive[i] /\ down[i] # <<>>
ServerMail(i) == up[i] # <<>> /\ ~svrQuit[i]

Fairness ==
    /\ \A i \in Client :
         /\ <>[]HasEvent(i) => []<><<Sync(i) \/ Simulate(i)>>_vars
         /\ <>[]ClientMail(i) => []<><<ClientRecv(i)>>_vars
         /\ <>[]ServerMail(i) => []<><<ServerRecv(i)>>_vars
    /\ WF_vars(PollClient) /\ WF_vars(PollServer) /\ WF_vars(PollNext)

FairSpec == Spec /\ Fairness

-----------------------------------------------------------------------------
(* Properties. *)

Packet ==
    [type : {"SYNC"}, event : Event, serv : BOOLEAN]
      \union [type : {"ORDR"}, player : Client, order : Orders]
      \union [type : {"PLST"}, table : [Client -> Orders]]
      \union [type : {"INVT"}, player : Client] \union {Disconnect}

TypeOK ==
    /\ up \in [Client -> Seq(Packet)]
    /\ \A i \in Client : \A k \in 1 .. Len(down[i]) :
         down[i][k].type \in {"SYN@", "ORD@", "PLST", "INVT"}
    /\ {alive, wait, missync, svrWait, svrQuit} \subseteq [Client -> BOOLEAN]
    /\ pos \in [Client -> 0 .. Len(Script)]
    /\ view \in [Client -> [Client -> Orders]]
    /\ bought \in [Client -> [Client -> 0 .. Len(Script)]]
    /\ \A i \in Client : Len(used[i]) <= TurnsEnded(i)
    /\ opened \in 0 .. Len(Script)
    /\ polling \in {"idle", "client", "server"} /\ current \in Client

\* No client goes past an event of the game that another has not reached,
\* although each learns of the others only through the server.
Barrier == INSTANCE RoundBarrier WITH
    reached <- pos,
    passed <- [i \in Client |-> IF wait[i] THEN pos[i] - 1 ELSE pos[i]]
ImplementsBarrier == Barrier!Spec

\* Whichever client is released, whatever else is under way: from a turn with
\* the orders every player ended it with (in a sequential game, those of the
\* player whose turn it was), from the shopping knowing what everybody bought.
\* A player who is himself still waiting for that release cannot have changed
\* his mind; one who has gone on may have given the next orders.
StillWaits(p) == wait[p] /\ pos[p] = opened
KnownAtRelease ==
    [][\A i \in Client : wait[i] /\ ~wait'[i] =>
          /\ syncarg[i] = "TURN" =>
               \A p \in DOMAIN Volley(i) : StillWaits(p) => view[i][p] = view[p][p]
          /\ syncarg[i] = "ROUND" =>
               \A p \in Client : bought[i][p] = bought[i][i]]_vars

\* A client that is told the random value of the server finds it to be its
\* own: the simulations of all clients ran with the same orders.  (A missync
\* is remembered; what is compared keeps its type on the way.)
RandomAgrees == TypeOK /\ \A i \in Client : ~missync[i]

\* Whoever waits for the others goes on, as long as nobody has quit.
BarrierOpens ==
    \A i \in Client : wait[i] ~> ~wait[i] \/ \E j \in Client : ~alive[j]
=============================================================================
