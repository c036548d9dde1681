# A verification development for xscorch

xscorch is a clone of the tank game Scorched Earth: players buy weapons, give
orders to their tanks in turns, and the shells, the explosions, the falling
land, the falling tanks and the exploding wrecks are simulated step by step.
The program is one C process with a GTK window; several processes play one game
over TCP, one of them being the server.

This directory holds TLA+ modules of it, TLC configurations that check them,
and TLAPS proofs about them. Source paths below are relative to the repository.
`PROJECT.json` lists the hazards of the code at their lines with the properties
that cover them, and for each definition the lines it models.

## Inventory

| component | state | operations | makes it correct | modules |
|---|---|---|---|---|
| State machine (`sgame/sstate.c`, `sstate.h`) | `g->state`, `g->substate`, `g->curplayer`, `g->activity`, the C stack of nested `sc_state_run` calls | one handler per state, called by a timer or by another handler | a turn runs down completely before the next order; each player fires once; a round ends exactly when at most one tank is left | `GameState`, `Battle`, `GameBattle` |
| Game object and explosion queues (`sgame/sgame.c`) | five linked lists of explosions, the timeout of the machine, the pause bit | transitions now / later / ASAP, pause, mass kill, moves between queues | no explosion is lost, run twice or left over; without interleaving one after the other | `GameState`, `ExplosionQueues` |
| Configuration (`sgame/sconfig.c`) | options, `numrounds`, `curround`, `plorder` | create, free, init of game, round, turn | each init resets everything its scope owns | `GameState`, `Equipment`, `Definitions` |
| Players (`sgame/splayer.c`) | life, dead, armed, wins, selections, fuel | init, damage, drop, death, orders, contact triggers, batteries | no life from the dead; selections never outlive the stock | `Equipment`, `Tanks`, `GameState` |
| Weapons, tracking, Phoenix (`sweapon.c`, `strack.c`, `sphoenix.c`) | chains of weapons in flight | create, launch, track, scatter, chain, convert, free | each weapon ends once; a chain of children ends | `Volley`, `Definitions` |
| Explosions and spills (`sexplosion.c`, `sspill.c`) | shape, frame caches | annihilate, clear, both in frames, damage | a blast reaches its circle and nothing else | `Blast`, `ExplosionQueues` |
| Trajectories (`sphysics.c`) | place and velocity of a flight | step, terminate, rebound, deflect, tunnel, roll, dig | every flight ends | `Trajectory` |
| Landscape (`sland.c`, `slscape*.c`) | bitmap of the land | drop, passability, level | what falls neither appears nor vanishes | `Landscape` |
| Pre-round events (`spreround.c`) | lottery prize, auto defense | draw, display, activate | a prize is given once; a tank with auto defense starts with its shield | `Equipment` |
| Inventory and economy (`sinventory.c`, `seconomy.c`) | integer accounts | buy, sell, use, win, interest, bonus and loss | no negative stock; no money out of nothing | `Inventory`, `Equipment` |
| Shields and tank profiles (`sshield.c`, `stankpro.c`) | shield and its life | activate, absorb, recharge, deflect | damage is absorbed once | `Equipment`, `Tanks`, `Trajectory` |
| Network (`snet/*.c`) | connections with flags, player copies on every machine | join, configuration, synchronisation barrier, orders | all machines simulate the same game | `SNetLobby`, `SNetSync`, `RoundBarrier` |
| Packet transport (`snet/tcpnet/*.c`) | incoming and outgoing packet lists, connection state | read, write, flush, close | packets arrive whole, once, in order, or the connection is in error | `TcpNet`, `PacketChannel` |
| Computer players (`sai/*.c`) | none that survives a turn | shop, choose a weapon and shields, aim | legal purchases and orders within the budget | `AiShopping`, `Equipment` |
| Registry and saved options (`libj/jreg`, `scffile*.c`) | tree of variables, files | load, merge, set, save | what is saved is loaded back; a broken file invents nothing | `Registry`, `SavedOptions` |
| Data registry and definitions (`sregistry.c`, `shashlist.c`, `saddconf.c`) | items in a list and a hash table | insert, remove, iterate, read a list, destroy a class | list and table agree; iterators visit each item once | `DataRegistry`, `Definitions` |
| Consoles (`sgtk/swidgets/sconsole.c`, `sactiveconsole.c`, `sactoggle.c` and the windows with consoles) | buffer, view, cursor, spots, an off-screen picture | write, highlight, scroll, attach and detach spots, keys, buttons, focus | the picture is what the state says; the cursor is on a spot that exists | `Console`, `ActiveConsole` |
| Windows (`sgtk/*.c`) | widgets | callbacks that set the state of the game | never interrupt a handler; cannot leave the machine in a state nobody ends | `GameState`, `Equipment`, `SNetLobby`, `SavedOptions`, `ActiveConsole` |
| Drawing, sound, help, libj strings, md5, getopt | output | | | not modelled |

How they interact: a GTK timer calls `sc_state_run`. It first serves the
network, and returns at once while the client waits for a packet. Otherwise, if
the timeout of the game has passed, the handler of the state runs. A handler
ends in one of three ways: it sets a state and a timeout for a later timer call
(`sc_game_set_state`, `_asap`), or it calls `sc_state_run` itself
(`sc_game_set_state_now`), or one or the other depending on the graphics
options (`_allow_now`). Such calls nest, so statements behind them run when the
nested run returns. GTK callbacks run between timer calls only; they set
states, set or clear the pause bit, or edit the game.

What is hard: the chain shot - explosion - fall - death - explosion over four
states with a shared flag; statements behind a nested call; menu callbacks
between any two timer calls; a loop cursor (`curplayer`) used by four loops in
two modes; selections that outlive the stock they point at; signals whose
listener destroys the console that sends them; a picture that is only ever
repaired in part; files that are cut short; and, over the network, a barrier
with players that vanish, orders that cross, clients that join while others
leave, and packets written in pieces.

## Modules

The game:

* `ExplosionQueues` - the queues of `sgame.c` and the procedures `sstate.c`
  runs over them. An explosion is a record of its queue, its countdown and the
  animation frames it may still ask for. `RunDraw`, `RunClear`, `RunLandFall`
  are the procedures; `FirstBusy` and `ScanOrder` are the two ways of choosing
  among the queues; `Tick` is the countdown.
* `GameState` - the state machine with everything it calls that changes control
  state. One action per handler, named after it, and one per callback of the
  windows. A handler that loops over the queues (`_sc_state_run_explosion`) is
  split into `ScanQueue`, `ScanAgain`, `RunFirst` and `FinishExplosion`; no
  callback can run between them, and the variable `scan` is the place in the
  loop. `Now`, `Later`, `LaterPaused` and `AllowNow` are the endings of a
  handler. `nested` says that `sc_state_run` has been called from a handler,
  and `pending` counts the increments of `g->substate` that wait behind nested
  calls (`sstate.c:622`). `SC_STATE_X_IDLE` of a state with the pause bit is
  the state `X_DONE` with `paused`, which is how the header defines the
  constants. A volley is the number of tracking rounds until it is down, damage
  takes any amount of life from any living tank, a fall needs some number of
  cycles: the details are in the modules of the battlefield.
* `Battle` - what the game promises its players, without queues, windows and
  modes: each surviving tank fires once in a turn, tanks are lost only while
  shells fly or all at once to mass kill, a round is awarded once when it is
  decided.
* `GameBattle` - the refinement mapping and `ImplementsBattle`.

The players:

* `Inventory` - money and stock of a player: prices, purchases, sales and
  prizes. Weapons and accessories are bought and sold by the same rules and are
  both items. Its operators map the record of a player to the next one.
* `AiShopping` - the shopping trip of a computer player (`saibuy.c`). Its loops
  over the catalogue are recursive functions of the steps made.
* `Equipment` - both put together with shields, batteries, triggers, fuel, auto
  defense, lottery, interest, credit and the selections of the inventory and
  auto defense windows. The order of the phases is that of `GameState`; where
  shots go is left open. `EquipmentProofs` has the proofs.

The battlefield, on a field of cells and in fixed-point arithmetic:

* `Landscape` - the land: what is solid, where tanks slide, how dirt falls,
  levelling for tanks.
* `Blast` - which cells an explosion or a spill reaches, and what it does to
  them.
* `Tanks` - life, shields, damage, falling and death of tanks on the field.
* `Trajectory` - one stretch of a flight: gravity, walls, shields, tunnelling,
  rolling, digging.
* `Volley` - a turn: launch, track, split, convert, explode, landslide, fall,
  death, until nothing moves. Explosions run one at a time here; what
  interleaving adds is in `GameState`. `balanced` is a history variable:
  whether nobody hung in the air when the orders were carried out, or everybody
  has come down since.

The data and the options:

* `DataRegistry` - the doubly linked list with a hash table of `shashlist.c`
  and the iterators of `sregistry.c`. The registry is a record with its three
  linkings.
* `Definitions` - `sc_config_new` reads the lists of weapons, accessories and
  scorings item by item, the options add the user's own, the rules decide what
  may be seen, `sc_config_free` takes everything out. `sc_phoenix_verify` is
  `Levels`, one level of it `Deeper`.
* `Registry` - libj's registry of variables: blocks, classes, the text format
  with its escapes, loading with and without an old format, merging and saving.
* `SavedOptions` - sessions that load, change and save two files. Six options
  stand for sixty: one for each way an option is read, and two booleans that
  are neighbours in their structure (the old reader stores integers into them).

The windows:

* `Console` - the text console. A console is a record; every operation changes
  buffer, highlights, cursor or view and then the cells of the picture it
  thinks it has changed.
* `ActiveConsole` - spots, keys, buttons and focus, and five kinds of consoles
  of the game with what their listeners do inside a signal. Assumed of the
  toolkit: a click gives a window the focus, and an insensitive widget gets no
  events.

The network:

* `TcpNet` - both ends of a connection with the functions of `snet/tcpnet` and
  their callers in `snetcomm.c`, from `sc_net_send_packet_now` to the packet
  handler. A word of the model stands for the byte the code counts in: three
  words of header (cookie, size, number), then the payload. `pc` is where the
  thread of an end is: `Flush` and `Send` are `tn_write_flush` and
  `tn_send_buffer`, `Scan` and `ReadWord` are `tn_scan_read` one word at a
  time, `Read` is `tn_read` with what `sc_net_recv_packet` makes of the errors.
  `tstate`, `flags`, `incId`, `outId`, `incoming`, `outgoing` are the fields of
  the same names. Failures of system calls and allocations are actions of their
  own (`...Fails`, `ReadWordNoMemory`). The socket (`wire`, `reset`, `Fail`) is
  the operating system's and modelled from its use.
* `PacketChannel` - what the transport promises: a FIFO of whole packets.
* `SNetLobby` - from the start of the server to the first event of the game:
  connecting, versions, numbers, configuration, seeds, settings that change,
  refusals and leaving. Machine 0 runs the server, whose own client is a
  connection like the others and shares its players. A seed stands for the
  whole configuration. One poll of a machine is one step: `World` is the state
  as a record, the handlers map worlds to worlds, and the loops of a poll
  (`OwnClient`, `Accepts`, `Serves`, `ServesAll`) are recursive functions.
* `SNetSync` - the clients and the server between the start of a game and its
  end. `Script` is the sequence of events a game goes through; `Sync` is the
  handler of `sstate.c` that ends such an event, with everything it sends
  before the request; `Order` is any change of a player's orders in
  `splayer.c`; `Simulate` is the creation of the volleys. `view[i]` is what the
  machine of client `i` holds of each player's orders. `ClientRecv` and
  `ServerRecv` handle one packet each. The process of the server polls in the
  order of `sc_state_run`: `PollClient`, `PollServer`, `PollNext`.
* `RoundBarrier` - what the synchronisation promises.

`MCGameState`, `MCEquipment`, `MCVolley`, `MCDefinitions`, `MCSavedOptions`,
`MCSNetLobby`, `MCSNetSync`, `MCTcpNet` hold the instances for TLC;
`GameStateProofs`, `EquipmentProofs`, `VolleyProofs`, `ConsoleProofs`,
`DefinitionsProofs`, `SNetLobbyProofs`, `SNetSyncProofs` and `TcpNetProofs` the
theorems. Definitions marked *Fault* are slips a programmer could make in the
definition that follows them; they are used to see that the properties notice.

## Runs

| run | instance | what it shows |
|---|---|---|
| `game_sequential` | 3 players, one human, 2 rounds, sequential mode, no interleaving; pause, graphics speed and resigning at any time | the field is at rest whenever an order is given and no casualty is missed; one blast at a time; `curplayer` is a player where it is used; the machine implements `Battle` |
| `game_synchronous` | 2 players, 2 rounds, synchronous mode, interleaving; mass kill and graphics speed at any time; fairness | a round is credited at most once, even with explosions left over from a round that was killed; every turn ends; the machine implements `Battle`, mass kill included |
| `tcp_channel` | 3 packets one way, 1 the other, a socket of 4 words, one lost allocation or failed `recv` or `select` | the transport implements `PacketChannel`, also while old packets are trimmed; no cut of the stream looks like a damaged packet |
| `tcp_closing` | 2 packets one way, 1 the other, sockets of 2 words, both ends may leave, a lost allocation or a `send` that fails in the middle of a packet, fairness | packets arrive, each in its place, though every one has to wait for its reader, unless a failure is found out, an end leaves or both ends wait at once; what is damaged is only handed over when its writer has the error on record; who is left has everything, or gives up, unless a call of the one that left failed |
| `sync` | 3 clients, one may quit, shopping, a sequential round of two turns, shopping again; fairness | nobody passes an event before the others have reached it; everyone is released knowing the inventories and orders; all machines draw the same random values; who waits is released unless someone quits |
| `lobby` | server and 2 more machines, old versions, leaving, stopping, settings that change | players and connections match; nobody is let in before everybody has begun; who is let in has the server's game; the host prepares every player |
| `lobby_begins` | server and 1 machine, the same events twice, fairness | who begins is let into the game unless somebody left or stays in the menu |
| `equipment` | 2 players (human and annihilater, or moron and random), 3 weapons, 8 accessories, one round | what is selected is in stock; auto defense leaves no tank without a shield it has; no purchases and sales make money; a death is credited once |
| `flight` | 2 tanks on 12 x 9 cells, 13 weapons, triple turret and contact trigger, 4 kinds of rounds, 2 turns, fairness | every volley ends with the field at rest, unless somebody hung in the air before it; each death is credited; a blast changes its circle and nothing that is not beside it; falling dirt is neither lost nor made, and none of it rises |
| `saved_options` | 2 files, 1 change, 2 saves, one save cut short or line edited by hand | what was saved whole is loaded; a torn file gives no value nobody chose; unknown variables survive |
| `definitions` | lists of at most 2 items of each kind, from 9 weapons and others that are good, bad, similar or misplaced; any places of the hash table not clear at first | list and hash table agree as long as no such place is followed; chains of phoenix weapons end; walks visit what may be seen once each; reading or destroying one kind leaves the others |
| `console` | 5 kinds of consoles, 2 x 2 cells in view, 4 rows in the buffer, 2 buttons | the picture repaired in parts is the one a full repaint gives; the cursor is on the spot that is current |

Bounds of the machine: two explosions at a time (one can wait while another
runs, and a death can add to a shot), one hit point, one frame of animation
beyond the first, one round of flight beyond the first, one cycle of falling, a
countdown of two where the code has ten. Three players are needed for a cursor
with a middle and for deaths before and after it; two rounds for what a round
leaves behind. Explosions are interchangeable, which `game_sequential` uses as
a symmetry. Deadlock is checked for the machine: it can always go on or a
window is open.

Bounds of the transport: payloads of one and two words (a packet that ends with
its first payload word, and one that needs a second allocation, as `BufferSize`
is 1), one retained packet, one failure at a time. A socket of four words holds
a short packet whole, which can then be lost whole, but not a long one. Three
packets are one before, one in and one after a failure. In `tcp_closing` a
socket holds half of a packet, so that `tn_send_buffer` comes back several
times for each, in the header and before the payload, both ends can be in it at
once, and what an end sent before it closes may be lost in the middle of a
packet.

Bounds of the network: two clients cannot show what the server mixes up about a
third, three can. One order for each client and turn is enough to be stale. In
the lobby one event of any kind may happen before the third machine has
connected; two machines have two. Two turns in a row show orders that are stale
or early, the second shopping what a round leaves.

Bounds of the equipment: prices and lives are small numbers with the same
remainders (bundles of one and two, prices that do not divide); `MaxItems` is
reached by two purchases; a hit takes more than any shield holds and leaves a
tank without a shield one point of life; three keys, explosions and hits on
shields happen in a game. Bounds of the battlefield: 12 columns leave room for
a roller, a frog or a spider between the tanks, 9 rows for a hill and a
rebound; the unit is a quarter of a cell; weapons time out after eight steps.
The draws of the random service are two, which go different ways. Bounds of the
definitions: two items in each list reach a chain through both lists, two
buckets collide and a third is first used by a fifth item, and the lists use up
fewer than the twelve keys (`MaxKey`). Bounds of the consoles: a pane twice its
view scrolls to both ends and halfway. Bounds of the options: one change and
two saves put different values in both files; more only repeats them.

Where the bounds stop a model (`equipment`, `lobby`, `lobby_begins`,
`definitions`, `tcp_*`, `sync`) deadlock is not checked; for the game, the
consoles, the options and the battlefield it is.

### Fairness

`GameState`: `WF(Machine)`, because the timer is re-armed for ever, and
`WF(Window)`, because a user closes the window in front of him and ends his
turn. Nothing is assumed of menus. Frames, flights and falls are bounded, as
explosions have a radius, shells fall and land has a bottom; `VolleyEnds` of
`Volley`, where they are not bounded but computed, checks just this. Its only
assumption is that the timer runs (`TimerRuns`: with the machine pending, a
step that does something, and not only stutters, comes).

`TcpNet`: each end's loops go on by themselves (weak fairness), and a socket
that is polled again and again does not look empty for ever while there is data
on the way (strong fairness of `ReadWord`; `recv` may find nothing at any
time). Nothing is assumed of failures and of leaving.

`SNetSync` and `SNetLobby`: a packet in the network arrives, a timer polls, a
user ends his turn or presses Begin. The formulas say "if there is mail from
some time on, it is read again and again", because polls in between may leave
it for later. Nothing is assumed of leaving, stopping, changing settings or
giving orders.

Assumptions of `SNetSync` and `SNetLobby` about time: what the process of the
server sends to itself over the loopback is there at its next poll, and the
answer to a packet does not come back within the poll that sent it. Both
exclude behaviours only, and both are needed: with them dropped, a remote
client could play a whole turn while the server's own client has not read the
release of the turn before. The next random value of a client stands for all it
has simulated; in the code different volleys may happen to draw equally often,
so the model sees a disagreement at the first chance, the code perhaps later.

## What is found

Some properties one would expect, or that a comment states, do not hold. They
are stated in the modules or as other instances of properties that are checked,
and can be reproduced as said; no run of the list above includes them.

`sc_game_mass_kill` (`sgame/sgame.c:198`) marks the players dead and goes to
ROUND_END. Its comment says "Since we are about to deallocate everything
anyway, we can just set the death flag directly here". The queues of explosions
are not among what the next round deallocates: `sc_config_init_round` does not
touch them, only `sc_game_init` at the start of a game does. A second round
begins with an explosion in a queue; it will be run on the new land with damage
to the new tanks. (`GameState.RoundStartsClean` as an invariant of
`game_synchronous` with `Interleave = FALSE` and `Menu = {"masskill"}`.)

`tn_write_flush` (`snet/tcpnet/tn_write.c:97`) sends a packet's header and
payload through a loop that forgets how far it came when `send` fails with
ENOMEM or ENOBUFS. The packet is sent again from the start, and the reader
takes the second header for payload. Cookie and number of the first header are
right, so this packet is handed over; the one behind it is noticed. The comment
in `snetcomm.c:95` calls this case "shouldn't happen".
(`TcpNet.NoDamagedPacket` in `tcp_channel` with `Faults = {"ENOMEM"}`.) What
does hold is `DamageOnRecord`: nothing damaged is ever handed over by any other
failure, and when it is, the writer has the error in its own status.

Two ends that write at once into sockets that take less than they write wait
for each other for good, since `tn_send_buffer`
(`snet/tcpnet/tn_internal.c:89`) does not read while it waits. It is the
exception `WaitForOneAnother` of `PacketsArrive`; the game's packets are far
smaller than the buffers of real sockets.

`shashlist_new` (`sutil/shashlist.c:115`), which is to "create and initialize"
a list, allocates the hash table and never stores anything in it. Whoever looks
up or adds an item follows what is in its place, unless that happens to be
NULL. `Definitions.stray` is any set of places that were not clear; a step that
follows one ends the model (`lost`), since nothing can be said of what comes
then. This does happen (`Definitions.TableInitialized` as an invariant of
`definitions`); up to then nothing else is wrong with the registry, as
`RegistrySound` says.

`_sc_net_relay_orders` (`snet/snetserver.c:116`) relays the orders of one
client in a table of all players, filled from the copies of the server's own
client. Orders of another client read in the same poll are not in there yet. If
clients 1 and 2 end a turn at the same moment, the server's own client and
every third one end up with old orders of client 1. Player states, sent at the
end of a turn, do not mend it: the bit that would let a client send orders of
others (`snetclient.c:959`) is never set. (`SNetSync.RandomAgrees` with three
clients, `Sequential = FALSE` and a script of TURN, INV and ROUND.)

`_sc_net_cli_recv_orders` (`snet/snetclient.c:142`) takes orders at any time.
In synchronous mode a client whose tanks still talk, after the release, may get
the next orders of a client with quicker graphics, and fires them at once. (The
same with two clients and two TURNs.) In sequential mode neither of the two
does harm, since only one tank fires and its player has just waited for the
release.

`_sc_net_sync_all` (`snet/snetserver.c:48`) waits for dead connections, too.
`snet.h:185` declares `sc_net_server_prune` to close and deallocate them, but
it does not exist, so after one client has quit, the game stops at the next
event; `BarrierOpens` and `GameBegins` are stated for games that nobody has
quit. A client with another version is refused but stays in the list, with the
same effect on the lobby.

In the lobby, a client that presses Begin before a third has joined prepares
its players without the last ones (`SNetLobby.EveryoneSetUp`, three machines);
only the host is always late enough (`HostSetsUpEveryone`). The release of the
first event carries the random value the server has then; if a configuration
sent in the same poll comes before it, clients report a missync although all
have the same game in the end (`SNetLobby.NoFalseMissync` as an invariant of
`lobby_begins`).

A player name with a quote in it is not read back: the quote is saved behind a
backslash, and `unescape_quoted` ("unescaped double quotes are also stripped",
`libj/jstr/str_case.c:174`) strips the escaped one, too.
(`SavedOptions.LoadsBack` with `Names <- MCQuotedNames`.) The reader of old
option files stores integers into booleans of one byte
(`sgame/scffileold.c:277`), which overwrites the neighbour; `SavedOptions`
models this, and `LoadsBack` leaves out the options an edit has hurt. A file
that was cut short is recognised by a missing version, since the version is
written last, and is then read by the old reader as far as it goes: only
`TornInventsNothing` can be said of it.

Smaller observations that a model had to allow for, each noted at the
definition: the child of a phoenix weapon is left unset when its name is not
found (`saddconf.c:374`), looking a weapon up by number ignores its class, and
an item that is rejected uses up its key. The spots of the status bar, which
are replaced whenever the game writes a line, are never freed:
`sc_active_console_detach_spot` forgets a spot (`sactiveconsole.c:1488`) before
it frees what it has just forgotten (`sactiveconsole.c:1501`). They leak, but
no signal can go to one that is gone. `sc_land_flags` ignores local walls and
the height of a column never examines row 0. `_sc_ai_select_last_weapon`
(`sai/saiturn.c:62`) never advances, the test for the last contact trigger
(`splayer.c:665`) looks at the first accessory instead, and selling one of two
bundles strips the bits of an accessory. The console's `write_line` with a
negative column, `lock_view` (which takes the row for the column) and the
release of a button outside the view use values they should not
(`sconsole.c:1357`, `sconsole.c:1475`, `sactiveconsole.c:973`); the consoles of
the game do the last only, which is modelled as any spot.

## What is proved

The theorems hold for every value of the constants. The assumptions are those
of the modules, which say what the code checks or the constants mean: at least
two players and a human among them (`sc_config_okay_to_begin`), a round to
play, natural bounds, a socket that holds at least a word, a client 0 that runs
on the machine of the server. The bounds that TLC needs (explosions, frames,
packets, failures, events) are arbitrary natural numbers here. Two assumptions
are about the catalogue (`data/weapons.def`, `data/accessories.def`), which
satisfies both: a shield has some strength (`ShieldsAssumption`); and where the
limit of the inventory can split a bundle across the border of another one, an
item costs as many dollars as the bundle has items (`PricesAssumption`).
Without the latter shopping could make money: with the limit of 99 items, a
bundle of seven for six dollars has the unit price 0, so that two items on top
of 97 would be free and complete a bundle that sells for three.

### The game

`GameStateProofs`: `CurplayerIsValid`. The type of `curplayer` (at most
`numplayers`) is not inductive: two handlers increment it without a test.
`TypeInv` adds `CursorInBounds`, that it is a proper player in all states from
TURN_PL_BEGIN to RUN_END and in those of the inventory. Then:

* `ComesToRest`: `SettledOutsideRun`, if mass kill is not used (with it the
  property is false, see above). The invariant `RestInv` says for each
  simulation state what is already finished there: in PLAYER_DROP explosions,
  in PLAYER_DEATH also falls and the casualties scanned so far, in RUN_WEAPONS
  everything but the weapons - each unless the machine interleaves and
  `g->activity` is set, in which case RUN_WEAPONS does not end the run.
* `MissesNoCasualty`, with mass kill too.
* `AtMostOneWinner`, an action property: `sc_game_victor` counts, the proof
  turns the count into "no two are alive" and keeps it through ROUND_END.
* `BlastsOneAtATime`: the queue `FirstBusy` picks is the one of the started
  explosion.

In the same module: `BattleHolds`, the refinement of `Battle`, without
hypotheses. That everyone has fired when a turn is over is not inductive.
`OrderInv` follows the orders: in sequential mode the players before
`curplayer` have fired, those from it on have not, and the one who is armed is
`curplayer`; in synchronous mode the players before `curplayer` who are not
dead are armed, nobody has fired, and RUN_CREATION fires for all who are armed.
A turn visits every player because `plorder`, an injection, is a permutation
(`EveryoneInOrder`, from the pigeonhole theorem of the library). `CasualtyInv`
keeps who has no life left from firing: he is dead or about to be scanned.

### The players' equipment

`EquipmentProofs`, for every catalogue, number of players, scoring and kind of
computer player: all four properties of the run `equipment`. Shopping trips,
the sort of the weapons, the search for a shield, explosions and sums are loops
that run in one step. Each is a recursive function; `Loops` shows that such
functions exist, and `LoopKeeps` and `LoopCounts` that what the steps of a loop
keep holds after it. What a step does to a tank is one of three relations that
can be put one after the other: `Outfits` (shields, triggers, batteries, fuel:
money, credit, weapons stay), `Acts` (a turn: a stocked selection stays
stocked) and `Shops` (credit stays, worth does not grow).

* `SelectionsStocked`: `SelectionInStock`, with the types. The invariant
  `EquipmentInv` adds the phase FLIGHT, in which the next turn's selection is
  already made; that free weapons are never used up (`Endless`), so that there
  is one to fall back to; and that computer players have a real type.
* `ShoppingIsFair`: `ShoppingMakesNoMoney`. A purchase costs at least what it
  adds to the price of selling everything (`BuysDear`), a sale brings no more
  than it takes away (`SellsFairly`), for bundles that are split or not.
* `DeathsCredited`: `OneCreditPerDeath`. Going through the tanks of an
  explosion, the credit given so far is the number of tanks that have fallen,
  and the ones to come have been hit by nothing (`Exploding`).
* `AutoDefended`: `AutoDefenseHolds`. The best shield in stock can always be
  raised (`Best`, `RaisingBest`).

### The battlefield

`VolleyProofs`, for every size of the field, landscape, number of players,
catalogue of weapons, order and random draw: all properties of the run `flight`
but the liveness. Assumed is what the data files and the C types say, among it
that a blast has a radius, and that gravity is an even number of the units that
the trajectories count in (`TrajectoryAssumption`), so that half of it is a
number. A step of `Volley` is a whole pass over the weapons, an explosion or a
round being set up, that is, loops within loops: columns within passes within
tanks. Each loop is a recursive function that the proofs use in two ways: what
its steps keep holds after it (`RunKept`); and where a loop goes on until
nothing moves, something gets smaller as long as anything does
(`SettlePlayersSettles`: the air below the tanks). All theorems follow from
`TurnInv` (`TurnSafe`):

* `Sound`, of the field: its types; tanks stand within the field; the scores
  add up; the dead have no life left. The loops inside a volley keep it too:
  the scores are right after each tank that an explosion hits, not only after
  the last one.
* `Calm`, of the phases: shots fly and explosions wait only where they are
  worked off, and the casualties that the scan has passed are buried. Its last
  part is why a turn ends at rest: if tanks rested before, then now they do, or
  an explosion waits, or a weapon knows of ground it has dug away (`Rest`,
  `Pends`). A digger remembers the columns it has been through, and the end of
  a weapon lets the dirt above them and the tanks fall.

The theorems:

* `AllSettled`: `SettledAtEnd`, with the types.
* `EachDeathScored`: `DeathsScored`.
* `BlastsShaped`: `BlastShape`. The columns of a circle are computed with sums
  of integers, as in Bresenham's algorithm; `Swept` is its invariant: all
  columns up to one and beyond another are drawn, to the height that the circle
  has there or one cell more. Liquid and dirt are spilled cell by cell, up to
  as many as are left.
* `DirtFalls`: `DirtKept`. In a column dirt is counted from the bottom: up to
  any row there is as much as before or more, and in the whole column as much
  (`Falls`), which is kept from row to row and from pass to pass.

### The consoles

`ConsoleProofs`, for every size of the view and the buffers, any texts, spots
and number of mouse buttons; assumed is a view of at least two by two cells in
a pane that is no lower, and a glyph to write. Repaints, lines of text and
spots to be attached are loops over sequences, written as recursive functions
like those of `Equipment` (`Loops`). Both invariants of the run `console`
follow from `ConsoleInv` (`ConsolesKept`), which has two parts.

`Consistent`, of a console between two events:

* `Sound`, the types: views, highlights, spots and cursor lie in the buffer,
  and a toggle has its gadget for its only spot, away from the corner.
* `UpToDate`: every cell of the screen is what `Picture` says, the topmost
  gadget over it or else the character with its highlight. In the middle of an
  operation this is true outside a set of cells only (`Stale`): changing a text
  or moving the cursor makes the cells of a rectangle stale, and repainting a
  rectangle mends them. So the proof of each operation is that it repaints what
  it has spoilt.
* `CursorAt`, a cursor that is not hidden is on the current spot; with a
  keyboard it never is hidden, as there is a spot; and the pairs of enter_spot
  and leave_spot, of which `info` is the sum.

`Held`, of a console and the buttons held down: a lit cursor and a release to
be ignored (a second button that went down over the first) each account for a
button. Without it, `CursorOnSpot` would not survive the release of one of two
buttons.

A listener may close the console or replace its spots inside a signal. `Steady`
is what an event leaves of a console in any case: it is consistent, and has its
buttons as before, or is gone, or is the status bar, which has no buttons to
account for.

* `ScreensTrue`: `ScreenTrue`.
* `CursorsOnSpots`: `CursorOnSpot`, with the types.

### The data

`DefinitionsProofs`, for any lists of definitions, any names and likenesses of
names, any hash and any number of keys. Of the entries only the types are
assumed, and that nothing but a weapon carries phoenix flags (`Entry`); reading
stops when the keys are used up (`ReadItem`). Following links, walking,
verifying a chain and emptying a class are loops, written as recursive
functions (`Loops`). All four properties of the run `definitions` follow from
`DefinitionsInv` (`DefinitionsInvariant`):

* `Sound`, of the registry. The list read forwards, the list read backwards and
  each bucket are the same thing three times over: a set of keys whose first
  one the registry points to and each of whose members points to the next one
  beyond it (`Linking`). Following such links gives all of the set, in order
  and once (`AlongOrdered`), and there is only one such order, so that one
  direction is the reverse of the other. An item is inserted at the end only,
  as its key is greater than all before it (`InsertSound`), but may be removed
  anywhere (`RemoveSound`), even while the class it is in is being walked
  through (`EmptiedSound`).
* `Chains`: a named phoenix weapon has a child in the registry, a weapon with a
  smaller key. The program verifies a weapon before it inserts it, so the child
  it finds is an older one, and a weapon that names itself is looked up in vain
  and rejected (`VerifiedChild`). Keys get smaller along a chain, so it ends.
* `ClassesDiffer` and `ConfigsThere`: no two kinds have the same class, and the
  config that is used exists. Emptying one kind could take items of another
  without the first, and the second says that what is read has a class.

The theorems:

* `RegistryAgrees`: `RegistrySound`, whatever the memory of the hash table held
  at first. Part of the invariant (`Cleared`) is that no item is in a place
  that was not clear: as long as the model goes on, all places that were
  followed had been stored to.
* `ChildrenEnd`: `ChainsEnd`.
* `WalksVisitAll`: `EveryItemVisited`, by showing that each step of a walk goes
  to the next item that may be seen, over those that may not (`Passing`).
* `DefinitionsAreKept`: `DefinitionsKept`.

### The transport

`TcpNetProofs`. The invariant `Connected` relates the two ends. Every word on
the wire gets a place: packet `K[i]`, word `J[i]` (`Stream`). Places only grow,
and one follows upon the other unless a call failed in between; behind the last
place the writer goes on (`Sends`), and before the first the reader is either
in step - header and payload so far are a prefix of packet `incId + 1`
(`InStep`) - or has lost words and will find cookie or number wrong whatever
comes (`OutOfStep`). This disjunction is why an allocation that fails on the
reading side cannot lead to a damaged packet: the number in the header is the
check, and the numbers on the wire only grow.

* `NoAlarm`: `NoFalseAlarm`, for any capacity, any packets and any cut of the
  stream.
* `DamageIsOnRecord`: `DamageOnRecord`, for all failures. As long as the writer
  has no error of `tn_send_buffer` on record, its half of the invariant
  (`Clean`) is intact, whatever the reader has lost.
* `ChannelHolds`: `ImplementsChannel` under `Reliable`, that is, if neither
  `send` fails for want of memory nor for good in the middle of a packet. All
  other failures (`recv`, `select`, allocations, either end closing) are
  included. The hypothesis is needed: with ENOMEM the property is false, as
  described above.

### The lobby

`SNetLobbyProofs`, for any number of machines, players and events. None of the
four properties is inductive, and a poll handles any number of packets in one
step, in the middle of which the world must be fit for the next packet. So the
invariant `WorldInv` is one of worlds: each handler keeps it
(`ClientTakesKeeps`, `IncomingAccepted`, `IncomingRefused`, `Takes`), therefore
each loop does (`ServesKeeps`, `ServesAllKeeps`, `OwnClientKeeps`,
`AcceptsKeeps`, by induction over the natural numbers), and so does every
action. It says

* of each machine, what may be on its way to and from it, and in which order
  (`UpPath`, `DownPath`): a name only after it has been accepted, a request to
  go on only after GAME_BEGIN, a configuration never behind an answer;
* of each connection, how its flags fit its machine and the packets on their
  way (`ConnPath`);
* if anybody has been told to go on, that everybody is ready: accepted, named
  and begun (`StartInv`);
* of the host's own client, that every configuration on its way to it has as
  many players as there are connections, since it overwrites the server's own
  number (`HostInv`), and the names last (`NamesInv`);
* of the others, that what they will hold in the end is the last configuration,
  once everybody has been accepted (`LatestInv`).

A step of one machine has to meet the conditions of `Follows` only
(`OneMachine`); a packet sent to some of the clients those of `Told`.

* `ConnectionsMatch`: `SlotsMatch`, with the types.
* `AllBeginTogether`: `BeginTogether`. Whoever is in the game has been told to
  go on, so all are ready.
* `SameGame`: `GameAgrees`. All are ready, so accepted; nobody in the game has
  a configuration on its way, so each holds the last one.
* `HostIsComplete`: `HostSetsUpEveryone`.

### The network game

`SNetSyncProofs`:

* `BarrierHolds`: `ImplementsBarrier`, for any number of clients and any
  script. At any time each client is in one of four phases of its request -
  `Going`, nothing on its way; `Asking`, its request is on its way up;
  `Waiting`, the server has noted it; `Released`, the answer is on its way down
  - and the barrier can open only when all alive wait.
* `TypesHold`, the types with those of every packet.
* `ShoppingKnown`: `ToursKnown`, by counting: the shopping tours of a player
  that a client knows, those in packets on their way down to it and those on
  their way up to the server make up the tours the player has made.

and, for sequential games (`Sequential`, a hypothesis of both theorems; in
synchronous mode both properties are false, as described above):

* `RandomHolds`: `RandomAgrees`. Clients simulate at different times, so the
  invariant compares histories: as far as two clients have got they have
  simulated the same (`AgreeInv`), an answer carries what its receiver has
  (`RandInv`), and who has yet to simulate has, or will have when it is
  released, the orders of the one player on turn (`ShotInv`).
* `ReleaseKnows`: `KnownAtRelease`. What a client will know of a player is read
  off the tables on their way down (`Holds`), and orders go up before the
  request that ends the turn (`OrderInv`).

### What is only model-checked

* Liveness under fairness, which is out of the prover's reach: `TurnCompletes`,
  `CloseIsNoticed`, `PacketsArrive`, `BarrierOpens`, `GameBegins`,
  `VolleyEnds`.
* `SavedOptions` and `Registry`: reading and writing text is recursive in the
  text, and the prover takes no recursive operators.

## Plan

1. (done) The game: `ExplosionQueues`, `GameState`, `Battle`, `GameBattle` and
   proofs.
2. (done) The network: `TcpNet` with `PacketChannel`; `SNetLobby`; `SNetSync`
   with `RoundBarrier`.
3. (done) Players and battlefield: `Inventory`, `AiShopping`, `Equipment`;
   `Landscape`, `Blast`, `Tanks`, `Trajectory`, `Volley`.
4. (done) Data, options and windows: `DataRegistry`, `Definitions`, `Registry`,
   `SavedOptions`, `Console`, `ActiveConsole`.
5. (done) Proofs of the refinements `ImplementsBattle`, `ImplementsChannel` and
   `ImplementsBarrier`, and of the invariants of the network game.
6. (done) Proofs about the lobby: `SlotsMatch`, `GameAgrees`, `BeginTogether`,
   `HostSetsUpEveryone`.
7. (done) Proofs about the players' equipment: `SelectionInStock`,
   `AutoDefenseHolds`, `OneCreditPerDeath`, `ShoppingMakesNoMoney`.
8. (done) Proofs about the consoles: `ScreenTrue`, `CursorOnSpot`.
9. (done) Proofs about the data: `RegistrySound`, `ChainsEnd`,
   `EveryItemVisited`, `DefinitionsKept`.
10. (done) Proofs about the volley: `SettledAtEnd`, `DeathsScored`,
    `BlastShape`, `DirtKept`.

What is left is listed next.

## Not modelled

* Drawing, sound, help, start of the program and strings: pure output. Terrain
  generators and the aim of computer players: floating-point computations of
  which any result is allowed (a field is given; any order may be given). md5,
  getopt and the random service: libraries. Colours and command line options
  other than the option file.
* Of the game on one machine, nothing that changes control state: without a
  connection the network calls of `sc_state_run` do nothing. `GameState` does
  not know the details of the battlefield, and `Volley` not the interleaving of
  explosions.
* Of the battlefield: wedges and the tracer of a spider's leg, the shapes in
  the tank profile files (a radius here), rounding. `BlastShape` allows the
  cells beside the circle, as the C loops round outwards (with a radius of 11
  the cell at distance `Sqrt(145)` is hit: more than one pixel too far).
* Of the network game: chat and status packets (nothing depends on them), and
  shield, battery and flag packets, which are relayed like inventories.
* Of the transport: the failing allocation of a packet's own data in `tn_write`
  (`tn_write.c:153`), which leaves an item without data in the list; the value
  of `tn_scan_read`, which its only caller ignores.
* Of the windows: lottery and auto defense windows that outlive their state
  (`slottery-gtk.c:50`); the look of a gadget that is insensitive, as the
  toggle console of the game never changes whether it is.
* Of the weapons: the statistics in the shop's description; a phoenix weapon
  with the flags of several kinds, of which the code would do one after the
  other.
