------------------------------ MODULE SNetLobby ------------------------------
(***************************************************************************)
(* Before a network game: machines join a server, are told the             *)
(* configuration and who plays which player, and begin (snet/snetconnect.c,*)
(* snetconfig.c, the handlers of snetserver.c and snetclient.c for these   *)
(* packets, the dialogs of sgtk/snet-gtk.c, and GAME_BEGIN of              *)
(* sgame/sstate.c).  SNetSync goes on from there.                          *)
(*                                                                         *)
(* Machine 0 runs the server.  Its own client is a connection like the     *)
(* others, but shares the players, the configuration and the random        *)
(* numbers with the server: what it reads overwrites what the server goes  *)
(* by.  Its process polls in a fixed order (sc_state_run): its client, new *)
(* connections, then the connections one after the other.  What it sends   *)
(* to itself is there at the next poll; packets of the others take any     *)
(* time.  A poll is one step, for the server does not read the answer to a *)
(* packet in the poll it was sent in.                                      *)
(*                                                                         *)
(* Configurations differ in their random seed, which stands for all of     *)
(* their contents.  The handlers are operators from the state of all       *)
(* machines, a record, to the next one.                                    *)
(***************************************************************************)
EXTENDS Integers, Sequences, FiniteSets, SequencesExt

CONSTANTS
    N,           \* machines, numbered in the order they connect in
    MaxPlayers,  \* SC_MAX_PLAYERS
    Kinds,       \* what may happen: "old" version, "leave", "stop", "settings"
    MaxEvents    \* bound: how often it happens while so many machines have
                 \* connected

Machine == 0 .. N - 1
Host == 0
Slot == 0 .. MaxPlayers - 1

ASSUME MachineAssumption ==
    /\ N \in Nat \ {0}
    /\ MaxPlayers \in Nat \ {0}
    /\ Kinds \subseteq {"old", "leave", "stop", "settings"}
    /\ MaxEvents \in [0 .. N -> Nat]

\* Names of players who are not known by the number of their machine.
Local == -1
NetworkPlayer == -2

Role == {"human", "network", "random"}
Needs == {"NEED_ACCEPT", "NEED_CONFIG", "NEED_PLAYERS"}
Dead == {"REJECTED", "QUIT", "LOCAL_ERROR"}
Flag == Needs \union Dead \union {"WAIT_SYNC"}

VARIABLES
    srv,     \* the server: is it up, its connections and their flags
    mac,     \* the machines: client, connection, players and game
    up,      \* packets from each machine to the server
    down,    \* packets from the server to each machine
    events   \* number of the events that are bounded

vars == <<srv, mac, up, down, events>>

World == [srv |-> srv, mac |-> mac, up |-> up, down |-> down]
Becomes(w) == srv' = w.srv /\ mac' = w.mac /\ up' = w.up /\ down' = w.down

Connected == {m \in Machine : mac[m].client # "none"}

Event(kind) ==
    /\ kind \in Kinds
    /\ events < MaxEvents[Cardinality(Connected)]
    /\ events' = events + 1

-----------------------------------------------------------------------------
(* Packets. *)

Connect(ok) == [type |-> "CONNECT", ok |-> ok]
PlayerName(m) == [type |-> "NAME", name |-> m]
SyncRqst == [type |-> "SYNC"]
Disconnect == [type |-> "DISC"]
Accepted == [type |-> "ACCEPTED"]
Rejected == [type |-> "REJECTED"]
SvrQuit == [type |-> "QUIT"]
ConfigData(s, n) == [type |-> "CONFIG", seed |-> s, num |-> n]
PlayerData(roles, names) == [type |-> "PLAYERS", roles |-> roles, names |-> names]
SyncResp(rnd) == [type |-> "SYN@", rnd |-> rnd]

\* Places in srv->clients, from 0.  A machine is named by its number.
Ids(w) == 0 .. Len(w.srv.clients) - 1
MachineOf(w, id) == w.srv.clients[id + 1]
IsDead(flags) == flags \intersect Dead # {}
IdOf(w, m) == CHOOSE id \in Ids(w) : MachineOf(w, id) = m
Connections(w) == Range(w.srv.clients)

\* Packets to the connections; those to a socket that is closed are lost.
Sent(w, packets) ==
    [m \in Machine |->
        IF m \in Connections(w) /\ w.mac[m].client = "open"
          THEN w.down[m] \o packets[IdOf(w, m)] ELSE w.down[m]]

Nothing(w) == [id \in Ids(w) |-> <<>>]

-----------------------------------------------------------------------------
(* The client: sc_net_client_run and its handlers. *)

\* sc_net_client_free.
Freed(w, m) ==
    [w EXCEPT !.mac[m].client = "freed",
              !.up[m] = IF w.mac[m].cut THEN @ ELSE Append(@, Disconnect),
              !.down[m] = <<>>]

\* _sc_net_process_message of the client.
ClientHandles(w, m, p) ==
    LET c == w.mac[m]
        holding(new) == [w EXCEPT !.mac[m] = new]
    IN  CASE p.type = "ACCEPTED" ->
               [holding([c EXCEPT !.flags = @ \ {"NEED_ACCEPT"}])
                  EXCEPT !.up[m] = Append(@, PlayerName(m))]
          [] p.type = "CONFIG" ->
               holding([c EXCEPT !.seed = p.seed, !.num = p.num,
                                 !.flags = @ \ {"NEED_CONFIG"}])
          [] p.type = "PLAYERS" ->
               holding([c EXCEPT !.roles = p.roles, !.names = p.names,
                                 !.flags = @ \ {"NEED_PLAYERS"}])
          [] p.type = "SYN@" ->
               holding([c EXCEPT !.flags = @ \ {"WAIT_SYNC"},
                                 !.missync = @ \/ p.rnd # c.seed])
          [] OTHER ->
               holding([c EXCEPT !.flags = @ \union {p.type}])

\* A client takes the next packet.
ClientTakes(w, m) == ClientHandles([w EXCEPT !.down[m] = Tail(@)], m, Head(w.down[m]))

-----------------------------------------------------------------------------
(* The server: sc_net_server_run and its handlers. *)

\* Who plays player s, as connection id is told.
RoleFor(id, s, roles) ==
    IF s = id THEN "human"
    ELSE IF roles[s] \in {"human", "network"} THEN "network"
    ELSE roles[s]

\* sc_net_svr_send_config: to every connection, accepted or not.
SendConfig(w) ==
    LET host == w.mac[Host]
        data(id) == <<ConfigData(w.srv.seeds + 1, host.num),
                      PlayerData([s \in Slot |-> RoleFor(id, s, host.roles)], host.names)>>
    IN  [w EXCEPT !.srv.seeds = @ + 1, !.down = Sent(w, [id \in Ids(w) |-> data(id)])]

\* Fault: a running game does not keep anybody out.
RefusedIfFull(w) == Len(w.srv.clients) >= MaxPlayers

\* Why a new connection is closed at once: the server is full, or its game
\* is running.
Refused(w) == Len(w.srv.clients) >= MaxPlayers \/ w.mac[Host].game # "menu"

\* _sc_net_incoming_connect: the new player is there before he is accepted.
Incoming(w) ==
    LET m   == Head(w.srv.pending)
        new == w.mac[Host].num
        v   == [w EXCEPT !.srv.pending = Tail(@)]
    IN  IF Refused(w) THEN [v EXCEPT !.mac[m].cut = TRUE]
        ELSE [v EXCEPT !.srv.clients = Append(@, m),
                       !.srv.flags = Append(@, {"NEED_ACCEPT"}),
                       !.mac[Host].roles[new] = "network",
                       !.mac[Host].names[new] = NetworkPlayer,
                       !.mac[Host].num = @ + 1]

\* _sc_net_connect_request: anything but a request is ignored.
ConnectRequest(w, id, p) ==
    LET reply(packet) == [w EXCEPT !.down = Sent(w, [Nothing(w) EXCEPT ![id] = <<packet>>])]
    IN  IF p.type # "CONNECT" THEN w
        ELSE IF ~p.ok THEN reply(Rejected)
        ELSE [SendConfig(reply(Accepted)) EXCEPT !.srv.flags[id + 1] = @ \ {"NEED_ACCEPT"}]

\* Faults: connections that are not accepted yet are not waited for; the
\* loop of the replies ends one too early.
SyncAllAccepted(w) ==
    LET waiting(k) == w.srv.flags[k] \intersect {"WAIT_SYNC", "NEED_ACCEPT"} # {}
    IN  IF \A k \in DOMAIN w.srv.flags : waiting(k)
          THEN [w EXCEPT !.down = Sent(w, [id \in Ids(w) |-> <<SyncResp(w.mac[Host].seed)>>]),
                         !.srv.flags = [k \in DOMAIN @ |-> @[k] \ {"WAIT_SYNC"}]]
          ELSE w
SyncAllButLast(w) ==
    IF \A k \in DOMAIN w.srv.flags : "WAIT_SYNC" \in w.srv.flags[k]
      THEN [w EXCEPT !.down = Sent(w, [Nothing(w) EXCEPT ![0] = <<SyncResp(w.mac[Host].seed)>>]),
                     !.srv.flags = [k \in DOMAIN @ |-> @[k] \ {"WAIT_SYNC"}]]
      ELSE w

\* _sc_net_sync_all: nobody goes on until everyone has asked to.
SyncAll(w) ==
    IF \A k \in DOMAIN w.srv.flags : "WAIT_SYNC" \in w.srv.flags[k]
      THEN [w EXCEPT !.down = Sent(w, [id \in Ids(w) |-> <<SyncResp(w.mac[Host].seed)>>]),
                     !.srv.flags = [k \in DOMAIN @ |-> @[k] \ {"WAIT_SYNC"}]]
      ELSE w

\* Fault: a name is noted, and nobody is told.
ServerHandlesQuietly(w, id, p) ==
    LET flagged(flag) == [w EXCEPT !.srv.flags[id + 1] = @ \union {flag}]
    IN  IF IsDead(w.srv.flags[id + 1]) THEN w
        ELSE IF "NEED_ACCEPT" \in w.srv.flags[id + 1] THEN ConnectRequest(w, id, p)
        ELSE CASE p.type = "NAME" -> [w EXCEPT !.mac[Host].names[id] = p.name]
               [] p.type = "SYNC" -> SyncAll(flagged("WAIT_SYNC"))
               [] p.type = "DISC" -> flagged("QUIT")

\* sc_net_server_handle_packet, for a connection that is not dead.
ServerHandles(w, id, p) ==
    LET flagged(flag) == [w EXCEPT !.srv.flags[id + 1] = @ \union {flag}]
    IN  IF IsDead(w.srv.flags[id + 1]) THEN w
        ELSE IF "NEED_ACCEPT" \in w.srv.flags[id + 1] THEN ConnectRequest(w, id, p)
        ELSE CASE p.type = "NAME" -> SendConfig([w EXCEPT !.mac[Host].names[id] = p.name])
               [] p.type = "SYNC" -> SyncAll(flagged("WAIT_SYNC"))
               [] p.type = "DISC" -> flagged("QUIT")

\* The server takes the next packet of a connection.
ServerTakes(w, id) ==
    LET m == MachineOf(w, id)
    IN  ServerHandles([w EXCEPT !.up[m] = Tail(@)], id, Head(w.up[m]))

\* The socket of a client that has gone without a good-bye gives an error once
\* it is empty.
Lost(w, id) ==
    LET m == MachineOf(w, id)
    IN  IF w.up[m] = <<>> /\ w.mac[m].client = "freed" /\ ~IsDead(w.srv.flags[id + 1])
          THEN [w EXCEPT !.srv.flags[id + 1] = @ \union {"LOCAL_ERROR"}] ELSE w

\* It takes the first n packets.
Serves(w, id, n) ==
    LET run[k \in 0 .. n] == IF k = 0 THEN w ELSE ServerTakes(run[k - 1], id)
    IN  Lost(run[n], id)

-----------------------------------------------------------------------------
(* Actions. *)

InMenu(m) == mac[m].game = "menu"

\* sc_net_server_new, and a client of one's own on the local host.
Serve ==
    /\ ~srv.up /\ mac[Host].client = "none" /\ InMenu(Host)
    /\ srv' = [srv EXCEPT !.up = TRUE, !.pending = <<Host>>]
    /\ mac' = [mac EXCEPT ![Host].num = 0, ![Host].roles = [s \in Slot |-> "random"],
                          ![Host].client = "open", ![Host].flags = Needs]
    /\ up' = [up EXCEPT ![Host] = <<Connect(TRUE)>>]
    /\ UNCHANGED <<down, events>>

\* sc_net_client_new: the system of the server takes the connection.
Join(m) ==
    /\ m # Host /\ mac[m - 1].client # "none"
    /\ srv.up /\ mac[m].client = "none" /\ InMenu(m)
    /\ srv' = [srv EXCEPT !.pending = Append(@, m)]
    /\ mac' = [mac EXCEPT ![m].client = "open", ![m].flags = Needs]
    /\ \E ok \in BOOLEAN :
          /\ up' = [up EXCEPT ![m] = <<Connect(ok)>>]
          /\ IF ok THEN UNCHANGED events ELSE Event("old")
    /\ UNCHANGED down

\* The Disconnect menu item of a client.
Leave(m) ==
    /\ m # Host
    /\ mac[m].client = "open"
    /\ Event("leave")
    /\ Becomes(Freed(World, m))

\* The same on the machine of the server: sc_net_server_free as well.
StopServing ==
    /\ srv.up
    /\ Event("stop")
    /\ srv' = [srv EXCEPT !.up = FALSE, !.pending = <<>>]
    /\ mac' = [m \in Machine |->
                 IF m = Host THEN [mac[m] EXCEPT !.client = "freed"]
                 ELSE [mac[m] EXCEPT !.cut = @ \/ mac[m].client = "open"]]
    /\ down' = [Sent(World, [id \in Ids(World) |-> <<SvrQuit>>]) EXCEPT ![Host] = <<>>]
    /\ UNCHANGED up

\* OK in one of the settings dialogs of the server's main menu.
ChangeSettings ==
    /\ srv.up /\ InMenu(Host)
    /\ Event("settings")
    /\ Becomes(SendConfig(World))

\* sc_config_okay_to_begin, for a machine with a client.
OkayToBegin(m) ==
    /\ mac[m].num >= 2
    /\ \E s \in Slot : s < mac[m].num /\ mac[m].roles[s] = "human"

\* "Begin" in the main menu.
Press(m) ==
    /\ InMenu(m) /\ mac[m].client = "open"
    /\ OkayToBegin(m)
    /\ mac' = [mac EXCEPT ![m].game = "GAME_BEGIN"]
    /\ UNCHANGED <<srv, up, down, events>>

\* sc_state_run goes on to the state only with a client that is OKAY, or none.
Runs(m) == mac[m].client = "open" => mac[m].flags = {}

\* GAME_BEGIN: sc_config_init_game, then sc_net_client_sync.
Begin(m) ==
    /\ mac[m].game = "GAME_BEGIN" /\ Runs(m)
    /\ mac' = [mac EXCEPT ![m].game = "INVENTORY_BEGIN", ![m].ready = mac[m].num,
                          ![m].flags = IF mac[m].client = "open" THEN {"WAIT_SYNC"} ELSE @]
    /\ up' = IF mac[m].client = "open" THEN [up EXCEPT ![m] = Append(@, SyncRqst)] ELSE up
    /\ UNCHANGED <<srv, down, events>>

\* INVENTORY_BEGIN: the game goes on.
Play(m) ==
    /\ mac[m].game = "INVENTORY_BEGIN" /\ Runs(m)
    /\ mac' = [mac EXCEPT ![m].game = "playing"]
    /\ UNCHANGED <<srv, up, down, events>>

ClientRun(m) ==
    /\ m # Host /\ mac[m].client = "open" /\ down[m] # <<>>
    /\ Becomes(ClientTakes(World, m))
    /\ UNCHANGED events

\* The connection was closed before it was accepted, or with the server.
ClientLost(m) ==
    /\ mac[m].client = "open" /\ mac[m].cut /\ down[m] = <<>> /\ ~IsDead(mac[m].flags)
    /\ mac' = [mac EXCEPT ![m].flags = @ \union {"LOCAL_ERROR"}]
    /\ UNCHANGED <<srv, up, down, events>>

\* sc_net_client_death.
ClientDeath(m) ==
    /\ mac[m].client = "open" /\ IsDead(mac[m].flags)
    /\ Becomes(Freed(World, m))
    /\ UNCHANGED events

\* Machine 0 reads everything its client has been sent, and accepts everyone.
OwnClient(w) ==
    LET run[k \in 0 .. Len(w.down[Host])] == IF k = 0 THEN w ELSE ClientTakes(run[k - 1], Host)
    IN  run[Len(w.down[Host])]
Accepts(w) ==
    LET run[k \in 0 .. Len(w.srv.pending)] == IF k = 0 THEN w ELSE Incoming(run[k - 1])
    IN  run[Len(w.srv.pending)]

\* It serves its connections one after the other: all that its own client has
\* sent, and of the others what has arrived.
ServesAll(w, arrived) ==
    LET number(x, m) == IF m = Host THEN Len(x.up[m]) ELSE arrived[m]
        run[k \in 0 .. Len(w.srv.clients)] ==
            IF k = 0 THEN w
            ELSE Serves(run[k - 1], k - 1, number(run[k - 1], MachineOf(w, k - 1)))
    IN  run[Len(w.srv.clients)]

\* Fault: new connections are accepted before the client runs.
PolledAcceptsFirst(arrived) == ServesAll(OwnClient(Accepts(World)), arrived)

\* sc_state_run of machine 0, when the given numbers of packets have arrived.
Polled(arrived) == ServesAll(Accepts(OwnClient(World)), arrived)

Poll(arrived) ==
    /\ srv.up
    /\ Becomes(Polled(arrived))
    /\ UNCHANGED events

PollHost ==
    \E arrived \in [Machine \ {Host} -> 0 .. 3] :
        /\ \A m \in Machine \ {Host} : arrived[m] <= Len(up[m])
        /\ Poll(arrived)

-----------------------------------------------------------------------------
NewMachine ==
    [client |-> "none", flags |-> {}, cut |-> FALSE,
     roles |-> [s \in Slot |-> "human"], names |-> [s \in Slot |-> Local],
     num |-> 2, seed |-> 0, game |-> "menu", ready |-> 0, missync |-> FALSE]

Init ==
    /\ srv = [up |-> FALSE, pending |-> <<>>, clients |-> <<>>, flags |-> <<>>, seeds |-> 0]
    /\ mac = [m \in Machine |-> NewMachine]
    /\ up = [m \in Machine |-> <<>>]
    /\ down = [m \in Machine |-> <<>>]
    /\ events = 0

Next ==
    \/ Serve \/ StopServing \/ ChangeSettings \/ PollHost
    \/ \E m \in Machine :
          \/ Join(m) \/ Leave(m) \/ Press(m) \/ Begin(m) \/ Play(m)
          \/ ClientRun(m) \/ ClientLost(m) \/ ClientDeath(m)

Spec == Init /\ [][Next]_vars

\* Timers poll the connections and run the state machines, and packets arrive
\* in the end.  Nobody has to join or to begin.
PollAll == Poll([m \in Machine \ {Host} |-> Len(up[m])])

\* A poll of the server would find something: ENABLED PollAll.
Mail ==
    /\ srv.up
    /\ \/ srv.pending # <<>> \/ down[Host] # <<>>
       \/ \E m \in Connections(World) :
             \/ up[m] # <<>>
             \/ mac[m].client = "freed" /\ ~IsDead(srv.flags[IdOf(World, m) + 1])

Fairness ==
    /\ <>[]Mail => []<><<PollAll>>_vars
    /\ \A m \in Machine :
          /\ WF_vars(Begin(m)) /\ WF_vars(Play(m))
          /\ WF_vars(ClientRun(m)) /\ WF_vars(ClientLost(m)) /\ WF_vars(ClientDeath(m))

FairSpec == Spec /\ Fairness

-----------------------------------------------------------------------------
(* Properties. *)

TypeOK ==
    /\ srv.up \in BOOLEAN /\ srv.seeds \in Nat
    /\ Range(srv.pending) \subseteq Machine /\ Range(srv.clients) \subseteq Machine
    /\ Len(srv.flags) = Len(srv.clients) /\ Len(srv.clients) <= MaxPlayers
    /\ Range(srv.flags) \subseteq SUBSET Flag
    /\ mac \in [Machine ->
          [client : {"none", "open", "freed"}, flags : SUBSET Flag, cut : BOOLEAN,
           roles : [Slot -> Role], names : [Slot -> Machine \union {Local, NetworkPlayer}],
           num : (0 .. MaxPlayers) \union {2}, seed : 0 .. srv.seeds,
           game : {"menu", "GAME_BEGIN", "INVENTORY_BEGIN", "playing"},
           ready : (0 .. MaxPlayers) \union {2}, missync : BOOLEAN]]
    /\ \A m \in Machine :
          /\ \A k \in DOMAIN up[m] : up[m][k].type \in {"CONNECT", "NAME", "SYNC", "DISC"}
          /\ \A k \in DOMAIN down[m] :
                down[m][k].type \in {"ACCEPTED", "REJECTED", "QUIT", "CONFIG", "PLAYERS", "SYN@"}
    /\ events \in Nat

\* The game of a machine goes on with the server.
InGame(m) == mac[m].game = "playing" /\ mac[m].client = "open"

\* A connection and its player have the same number, although the number of
\* players is overwritten by every configuration the server sends itself.
\* (Stated with the types: there are never more players than slots.)
SlotsMatch ==
    /\ TypeOK
    /\ srv.up => mac[Host].num = Len(srv.clients)

\* Once a machine has been let into the game it has the last configuration
\* that was sent, knows the names of all players, and plays its own player
\* and no other.
GameAgrees ==
    \A m \in Machine : InGame(m) =>
        /\ mac[m].num = Len(srv.clients) /\ mac[m].seed = srv.seeds
        /\ \A id \in Ids(World) :
              /\ mac[m].names[id] = MachineOf(World, id)
              /\ mac[m].roles[id] = IF MachineOf(World, id) = m THEN "human" ELSE "network"

\* Nobody is let in before everybody who has connected has begun, accepted or
\* not.
BeginTogether ==
    \A m \in Machine : InGame(m) =>
        \A k \in Connections(World) : mac[k].game \in {"INVENTORY_BEGIN", "playing"}

\* The server's game sets up every player it is played with.
HostSetsUpEveryone ==
    mac[Host].game \in {"INVENTORY_BEGIN", "playing"} /\ srv.up =>
        mac[Host].ready = Len(srv.clients)

\* GAME_BEGIN: "Initialize config, player game data, and just about everything
\* else relevant for game state", on every machine.
EveryoneSetUp == \A m \in Machine : InGame(m) => mac[m].ready = mac[m].num

\* A client is told of different random values only if they differ.
NoFalseMissync == \A m \in Machine : ~mac[m].missync

\* Whoever begins gets into the game, unless somebody has gone, or stays in
\* the menu.
Missing ==
    \E m \in Machine : mac[m].client # "none" /\ (mac[m].client = "freed" \/ InMenu(m))
GameBegins ==
    \A m \in Machine : mac[m].game = "GAME_BEGIN" ~> (mac[m].game = "playing" \/ Missing)
=============================================================================
