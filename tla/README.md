# A TLA+ model of AutomataMP

AutomataMP lets several players of NieR:Automata play together. A C++ mod runs
inside each player's game; a Go server relays packets between the mods and keeps
who is there; a second Go program, the master server, lists the game servers.
There is no simulation on the server: one of the players, the *master client*,
simulates the enemies, and the others show what it sends.

This directory specifies the parts of that which have to be right for a game to
hold together: who is in the room, who is the master client, which enemies exist, and
what order the packets about all three arrive in; how a client is created and destroyed
under the feet of those who use it; how servers are found; and how the mod stays hooked
into a game that does not know of it.

## The system

| Part | Where | State it keeps | Operations |
|---|---|---|---|
| Game server | `src/server/automatamp` (`Server.go`, `handlers/`, `core/`, `structs/`) | `Connections` (peer to connection), `Clients` (connection to client), `ConnectionCount`, `Entities`, `HighestEntityGuid`; in each client `Guid` and `IsMasterClient` | one event loop (`service`) that handles connect, disconnect and receive events; ten packet handlers |
| Multiplayer client | `src/src/mods/multiplayer/NierClient.*` | `m_hello_sent`, `m_welcome_received`, `m_guid`, `m_is_master_client`, `m_players` | `think()` once a frame: handle the events of the connection, then send and prune; hooks that send in between |
| Entity synchronisation | `EntitySync.*` | `m_max_guid`, `m_network_entities` (guid to entity), `m_handle_map` (handle to guid) | add, remove, number new entities, `think()` |
| Hooks into the game | `MidHooks.*`, `PlayerHook.*` | patched code and vtables | call the client when the game spawns or terminates an enemy, presses buttons, starts animations |
| Mod core, server browser | `AutomataMPMod.*` | `m_client`, `m_wants_destroy_client`, the list of servers and the request for the next one | create and destroy the client, from the UI thread and the game thread; ask for the list; correct what is typed |
| Transport | `dependencies/enetpp` (vendored), ENet (a submodule, not in the tree) | one thread per client, a queue of packets and a queue of events | connect, disconnect, send, consume |
| Master server | `MasterServer.go`, `heartbeatGoroutine` in `Server.go` | a table of servers with the time of the last heartbeat | heartbeat, list, clean, restart |
| Rendering framework | `src/src/AutomataMP.cpp`, `src/src/hooks/` | D3D and window hooks, time stamps | present, resize, the hook monitor thread |
| Utilities, SDK, tools | `shared/`, `tools/` | | |

The mods talk to the server only, over one reliable ordered ENet channel each.
On its first packet, HELLO, the server creates a client, numbers it, and sends
WELCOME, a CREATE_PLAYER to everybody, a CREATE_PLAYER for each player who is
there and a SPAWN_ENTITY for each entity. Player packets are bounced to the
others under the sender's guid; entity packets are bounced if the sender is the
master client. When a client's connection goes the others get DESTROY_PLAYER,
and if it was the master one of them gets SET_MASTER_CLIENT.

What makes this hard: the server keeps the same fact in two maps with different
keys; refusing a HELLO frees a peer slot without any event; a newcomer is told of
the room by single packets while others come and go; the client holds copies of
the server's state that are only as new as the last packet; links break at any
moment, on both sides separately, and lose what is under way; a successor may
already be dead when it is appointed. Inside the game's process the mod is a guest: its
hooks sit in objects that the game frees and reuses, in a vtable entry and a window that
others write to as well, and a thread that guards them judges by time stamps alone.
`PROJECT.json` lists these, with lines, as
hazards.

For each part, what makes it correct:

* Server: the two maps agree; one master in a room with players; an empty room is
  a fresh one; the highest guid is a bound; WELCOME comes first; nothing follows
  DESTROY_PLAYER; mastership moves only when the master goes.
* Client and server together: rosters, master flags and entities on the clients
  add up, with the packets under way, to those of the server; two games never
  simulate one room; HELLO is answered; a lost master is replaced.
* Entity synchronisation: its two maps are inverse on what is networked; guids are
  not given twice; what is not networked is pruned.
* enetpp client: every event once and in order; nothing left when the object is
  destroyed; the constructor and disconnect() return; nobody sends without a thread.
* Mod core: whoever is in a function of the client has one that exists; there is never a
  second client; one that asked to be destroyed goes once there is a player. The first two hold
  as far as no thread resets the client under the other, which the code does not prevent (finding 4).
* Entity hooks: no entity is left with the table of an object that is gone, hooks do not
  stack, and a hooked method finds the object whose table called it.
* Master server and menu: a server that sends heartbeats stays in the table and is seen in
  the menu again and again, one that has stopped goes from both, nothing stale is shown, and
  requests keep their distance.
* Hook monitor: every frame still comes to the game; the flags it decides by are true; a game
  that runs is left alone; one whose hooks are gone is hooked again before long.

## Modules

    Room            what the server promises: members, a leader, things
      ^ implemented by (IsARoom; theorem ServerIsARoom)
    GameServer      the server, one action per event
      ^ extended by               ^ extended by
    GameServerProofs              Multiplayer = GameServer + a NierClient in each game
      ^                               ^        ^ INSTANCEs
      |                               |      NierClient (the mod: session, roster, EntitySync)
    MultiplayerProofs extends both ---+

    Connection      what enetpp promises: open, packets in order, end
      ^ implemented by (IsAConnection; theorem ClientIsAConnection)
    EnetClient      enetpp's thread and the game's thread over two queues
      ^ extended by EnetClientProofs

    MasterServer    heartbeats, the table of servers, its cleaning
      ^ extended by               ^ extended by
    MasterServerProofs            ServerBrowser = MasterServer + the menu and its requests
      ^ both extended by ServerBrowserProofs

    ClientLifecycle   the object m_client points to, between two threads
      ^ extended by ClientLifecycleProofs
    EntityHooks       the hooks on the game's entities, between game and packets
      ^ extended by EntityHooksProofs
    HookMonitor       Present, the window procedure, and the thread that watches both
      ^ extended by HookMonitorProofs

The links that `Multiplayer` takes as ordered queues that break are, on the client's side,
what `Connection` says. `EnetClient`, `NierClient` and `ClientLifecycle` are three views of one
object: its connection, its session, and its life. The modules `MC...` give the constants and
symmetries that a configuration cannot.

### GameServer

One action is one event of `service()`, with everything its handler does: `Connect`
(handleEnetConnectEvent), `Disconnect` (handleEnetDisconnectEvent and
handleDisconnect with HandleDestroyPlayer and HandleNewMasterClient) and `Receive`
(handleEnetReceiveEvent, the authorisation test and PacketHandler). Handlers run to
completion on one thread, so an event is the grain of the code. `LinkDown` and
`Deliver` are ENet's: a peer is lost, a packet arrives at the other end.

* A client is represented by its guid. `clients[p]` is `Clients[Connections[p]]` and
  `clientOf[p]` is `Connections[p].Client`; the code updates them in different
  places, so they are two variables. `masters` is the set of clients with
  `IsMasterClient`: that there is one is a property and not the shape of the state.
* `link[p]` is `closing` from the moment ENet has lost the peer until its event is
  handled. In between the server still counts the client in, and may make it the
  master; packets sent to it are lost.
* `RejectHello` is `DisconnectNow`: the slot is free at once, no event follows, and
  the entry stays in `connections`.
* A Go map is ranged over in any order: the order of an introduction and the choice
  of a successor are nondeterministic.
* Left out: names, models and other payloads that are relayed unread;
  `LastPlayerData`, which is stored and never read; malformed packets.

### NierClient

Peer `p` stands for the game of the player in slot `p`. `session` is the life of
`m_client` and its connection: `none`, `connecting`, `greeted` once HELLO is sent, and
`lost` when the connection is gone while the object lives on (on_disconnect only
logs). `alive` is the set of networkable entities in the game's own list, by handle.

`Consume` handles one packet and `ThinkTail` is the rest of `think()`. In the code one
`think()` handles all packets that have arrived and then runs the tail; here hooks
and other games may act between two packets of one frame, so the model has more
interleavings than the code, never fewer. Invariants found true here are true there.
The counterexamples of findings 1 and 2 were read for a step that uses this freedom;
neither does.

Three things the game does are abstracted: a handle is not given to a new entity
while it is still mapped (`FreeHandles`; the game reuses slots with a generation
that `get_by_handle` ignores, which is the subject of `EntityHooks`); entities are terminated through the hooked function,
although the code has a to-do for those that scripts remove; and the terminate hook
is guarded by `welcomed`, because before WELCOME `m_network_entities` is null and
the program would end there.

### Multiplayer

Joins the two by the links: `outbox[p]` from the server, `inbox[p]` to it. Both keep
order and lose their contents when the link breaks, which also covers packets that
have been received but not yet dispatched: those are destroyed with the client or
the peer. `Quit` destroys a client (the Disconnect button, a loading screen,
signal_destroy_client), `Break` is a timeout under a client that stays.

`Discarded` says which packets the server ignores; it is the complement of the guards
of the handlers, and a run would deadlock with a packet in neither.

### EnetClient and Connection

`caller` is the program counter of whoever calls the client: NierClient's constructor, its
`think()`, its hooks and its destructor. They are one caller because the code means
them to be (`NierClient::m_mtx`); that the UI thread can in fact destroy the object while the
game thread is inside it is another question, that of `ClientLifecycle`. `net` is the
program counter of `run_in_thread`. A critical section is one step, except that copying
and clearing the event queue are two, so that the lock over both is something the model
relies on (the mutant of `IsAConnection` takes it away). `_connection_state` and
`_should_exit_thread` are shared without a lock, as in the code; each is one word, and
every read and write of one is a step of its own thread.

* ENet is external: a peer connects, receives, is lost, or answers a disconnect
  (`PeerConnects`, `PeerSends`, `PeerDisconnects`). A request to disconnect a peer that is not
  connected yet resets it without an event; then only the second of `GiveUp` ends the loop.
* `on_connected` sends HELLO or, without a possessed entity, does not; the rest of `think()`
  sends once WELCOME and the player's CREATE_PLAYER have been handled (`Playing`), which are
  the first two packets of every server (`WelcomeFirst` in GameServer).
* `_packet_queue` is unbounded in the code. Player data sent while `MaxQueued` packets wait
  is not added: a queue that is that long stands for a longer one.
* `Renew` begins the next client, which is a new object: nothing is carried over.

### MasterServer

The code compares differences of times; the model keeps them as ages that `Tick` increases:
`age[s]` of an entry's `lastBeat`, `sinceClean` of `lastCleanTime`, `sinceBeat[s]` of a game
server's `LastHeartbeat`. An age stops where no comparison tells it from a greater one, so
the clock is not bounded. `OnTime` is what the code needs of its surroundings: heartbeatGoroutine
looks at the clock every `Poll`, and a request takes at most `MaxDelay`. The second is not
guaranteed by the code, whose HTTP client has no time-out; it is an assumption. `heard` is a
ghost: the server's last heartbeat did not get lost. With 30 s and 60 s a server whose one
heartbeat is lost may be dropped, and is entered again by the next one. `Restart` is the end
and the new start of the master server, which keeps nothing: the table is empty and every
server counts as unheard until its next heartbeat.
Two game servers behind one address share an entry, here as there.

### ServerBrowser

Extends the master server by the menu in front of it, and shares its clock.
`display_servers()` is `BeginFrame` (an answer that is ready is read), `Connect` (a button ends
the frame), `TestGap` and `Request`; `pc` is where the UI thread is, so that the thread behind
the future runs between any two of them. That thread is `Fetch` or `FetchFails`, `Stamp` (it sets
`m_last_server_update`) and `Fulfil`: the stamp comes before the future is ready, so a frame that
passed the test of the time in between asks again and throws an answer away that nobody has read.
`Fetch` is a request to the master server, hence a `ShowServers` of its own. The answer comes
in any order; the master server's `c.JSON` in fact sorts the addresses, so the model allows more orders than
there are, and nothing that is checked depends on it.

`validate_connection` does not validate: it corrects. `Validate` is what it makes of an
address, with the list that is there at the moment; an address that is changed is not used, and
the corrected one is in the boxes for the next click.

### ClientLifecycle

`ptr` is `m_client`. `unique_ptr::reset()` is four steps (`ReadOld`, `NullPointer`, `BeginDelete`,
`EndDelete`), because the destructor takes the mutex of the object it destroys and another
thread may be waiting for it. The steps of the thread that draws are `Menu` and `Construction`
(the constructor holds the mutex until the attempt to connect has ended; `m_client` is read again
after it has been assigned), those of the thread that simulates are `Think`: `on_think` destroys the
client of a level that is loading and one that asked for it, and clears the request in any case.

`world` is what is so of the game, in any combination: a level is loading, there is an entity "Player", an
entity is possessed. `MidHooks::on_update` returns without a player (`Updated`), so neither `on_think` nor
`shared_think` runs then, and `shared_think` needs a possessed entity, too. That matters for the request to be
destroyed: `on_connect` makes it exactly when no entity is possessed. A client made at the title screen stays
until there is a player, and for ever if there never is one. `UnwantedClientGoes` says what is left:
it goes once a player comes to stay.

The game may present from the thread that simulates or from a thread of its own; the code does not say, and has
mutexes and a comment ("within the present thread", `AutomataMP.cpp:329`) for the second. Both are
initial states (`together`). On one thread menu and game never overlap. On two, every interleaving of their
steps is explored. The ghost `raced` notes that a thread was about to reset a client, or did, while the other was
anywhere in the mod (`Overlap`). `OnlyResetsRace` says that this is all that can go wrong: until it
happens nobody is in a client that is gone, there is one at a time, and the menu's second look at `m_client` finds
the client it made; drawing, thinking, connecting and the loss of a link may overlap at will. That it does happen
is finding 4.

### EntityHooks

A `NetworkEntity` hooks one behavior: it replaces the vtable pointer in memory that the game owns.
`vtable[a]` is what is at address `a`, `nets` the objects, `networkEntities` and `handleMap` the maps
of EntitySync. A handle is a slot and a generation; `get_by_handle` looks at the slot only, and
`AddEntity` therefore compares slots where the code compares the entities two handles lead to.
Slots, addresses and generations are used again, entities end through the hooked function
(`Terminate`) or past it (`ScriptTerminate`, the code's own to-do, which sets the ghost `unseen`), and
an entity may end while an animation of it is running (`call` is the shared_ptr of that hook).
`repeated` is a ghost too: a guid in use was given out again, as finding 1 shows it can be.
At most one hooked animation runs at a time, and a session does not end nor a new master client enter the server
(`EndSession`, `AddExisting`) within one: nested animations are left out.

### HookMonitor

`d3d` is the vtable entry that the game calls Present through, and the two hooks that write to it.
`HookD3D11` and `HookD3D12` are the framework's functions, with the old object destroyed first (`Renewed`)
and each attempt ending in one of three ways: hooked, failed, or with the hook of Present written
and the next one not (`partial`). `calls` is the stack of our Presents on the render thread; it is not
empty exactly while that thread holds `m_hook_monitor_mutex`. `Enter` is `on_frame` as far as it touches
hooks: frames that pass, `initialize()`, the change to the other renderer from within
Present, the request for a new message hook. The game is a Direct3D 11 game (`HasDevice`).

The action `HookMonitor` is one poll of the monitor thread. Time is counted in polls and time stamps are
ages; a stamp that the code puts into the future is a negative age. `window` is the chain of window
procedures: ours, the game's, and one that somebody else may put on top (`Cover`) and that may stop to
forward (`Swallow`). What goes wrong outside is limited by a budget for each kind of `Mishap`.
Two simplifications: taking a hook out never fails (in the code `PointerHook::remove()` fails if the page cannot
be made writable, and `unhook()` then reports failure), and the hook of ResizeBuffers is in place as long as
that of Present is.
`quiet` and `untried` are ghosts: how long the game has not presented, and how long the mod has been
out of the vtable without trying to return. `OneHalfHook`, `StopsUncovered`, `LockIsShort` and `OneStop` say
how much may go wrong for a property to hold; the instance is within all four, and TLC evaluates that.

## Runs

| Run | Instance | Asks |
|---|---|---|
| game_server | server alone, 3 peers, 2 entity guids, at most 3 admissions, packets arrive while every link holds fewer than 2 | `TypeOK`, `MapsAgree`, `OneMaster`, `WorldSafety`, `LinksAreInOrder`, `MasterStays`, `IsARoom` |
| roster | server and 3 games, no entities, at most 3 admissions, player data and buttons streamed | `RosterConverges`, `SendersAreKnown`, `NothingIgnored`, `MasterIsAgreed` |
| entities | server and 2 games, 2 guids, 1 handle in each game, at most 3 admissions, fair | `MultiplayerTypeOK`, `NoGhostEntities`, `NetworkedAreKept`, `HelloIsAnswered`, `MasterLearns`, `MasterIsReplaced` |
| enet_client | 3 packets from the server, at most 2 of data queued, fair | `TypeOK`, `ClientIsSound`, `IsAConnection`, `ConstructorReturns`, `DisconnectReturns`, `LossIsNoticed` |
| server_list | menu and master server, 1 game server; period 2, poll 1, limit 4, clean gap 2, delay 1, gap between requests 1; 3 addresses to type (the default one, the server's, one that is malformed) and 2 ports; fair | `LiveServersStay`, `ShownServersAreFresh`, `MenuIsSound`, `RequestsAreSpaced`, `RunningServersAreListed`, `StoppedServersLeaveTheMenu` |
| hook_monitor | limit 2, last chance 1, 1 frame to initialize, at most 1 missed poll; three budgets of mishaps; fair | `HooksAreSound`, `OutageIsBounded`, `NoReplaceInPresent`, `NoAccidentalRehook`, `DrawsInTheEnd`, `MessagesReturn` |
| client_lifecycle | 3 clients one after the other, one thread and two, fair | `OnlyResetsRace`, `UnwantedClientGoes` |
| entity_hooks | 2 slots, 2 generations, 2 addresses, 2 guids, 3 objects | `HooksAreSound`, `HookFindsEntity`, `ResolvesToItsOwn` |
| senders_have_thread | 2 packets, at most 1 queued | `SendersHaveThread` is violated (finding 3) |
| present_thread | 2 clients, one thread and two | `UsedClientLives` is violated (finding 4) |
| takeover | server and 2 games, 2 guids, 2 handles | `GuidsAreDistinct` is violated (finding 1) |
| stale_handle | server and 2 games, 1 guid, 1 handle | `OnlyNetworkedEntities` is violated (finding 2) |

In the first run any peer may send any packet at any time; in the others only what
the mod sends. The HELLOs of the first run include an acceptable one, one of an
older minor version, and one that fails each of the four tests.

The bounds. Three peers are the least with which a newcomer joins while one player
leaves and a third looks on, and with which a successor has to be chosen between
two; both happen. Three admissions allow a room to be emptied and filled again and a
slot to be used twice. `MaxOutbox` and `MaxInbox` bound when a packet is *taken up*, not what
a handler may send, so a link may hold a whole introduction and more; with 2 a packet
of one handler is always seen behind a packet of another. Two guids
make the difference between the highest guid and the next one. In `entities` they share one handle, so a
handle is seen with one guid and then with another; for more handles there are the theorems about its three
invariants. The symmetry of peers is used in `game_server` and `roster`, which ask for no liveness;
peers are compared for equality only. `entities`, `client_lifecycle` and the other runs with liveness use none.

In `enet_client` three packets are one more than `Playing` needs, so packets wait behind the
two of the introduction; the client is destroyed and renewed without bound. The times of
`server_list` keep the order of those in the code: the limit is two periods and holds
exactly one period, one poll and one delay, and a clean gap is shorter than the limit. One game
server is enough for properties that speak of each by itself: what two share is the time of the last
cleaning, and the theorems hold for any number. That `validate_connection` goes on to the last server of the list,
wherever the one that fits stands, is therefore for `MenuIsSoundAlways` to cover and not for TLC. `shown` is
a ghost: the ages in the last answer that was given, until time goes on. `ShownServersAreFresh` reads them at the
moment of every answer, of those too that come within the gap and change nothing.
Two ports make the server's port another than the default one, so that a correction can be wrong.

`hook_monitor`: with a limit of 2 and a last chance of 1 the order of the thresholds is that of
5 s, 1 s and 500 ms, and every stamp can be before, at and behind each of them. The three budgets are
what takes hooks away (taken out, buffers resized, a renderer that fails, a process that stops), a
half-installed hook in a game that hangs, and somebody else's window procedure. In `client_lifecycle`
three clients let one be made while the last is being destroyed, with one more to follow. In
`entity_hooks` two slots and two addresses let an entity come back in the other's memory, two generations
let a handle come back, and three objects cover two in the maps with a third held by a running
animation; its symmetry is that of all four sets, whose members are compared for equality only.

`CHECK_DEADLOCK FALSE` in roster and entities: the number of admissions is bounded, so
when the last has been used and everybody has left nothing remains to be done.

### Fairness

`FairMultiplayer` has weak fairness of `ServerDisconnect`, `ServerReceive` and
`HandleEvent` of each peer: the server's `for { service() }` never stops and ENet
deals its peers in turn; the game calls `think()` every frame. That is so as long as the game has a player
and a possessed entity (`on_update`, `shared_think`): in a game that has none for good nothing is handled, and
the liveness properties are not claimed of it. Nothing is assumed of what
players do, of links or of hooks. A client may always leave and a link may always break,
so the properties say "or the link breaks". `MasterIsReplaced` also relies on the
admissions being finitely many: a handover to a client that is lost in the same
moment has to be repeated, and could be repeated for ever if clients kept
coming and going.

`EnetClient!Fairness`: the game's thread and enetpp's both run (weak fairness of each group of
steps). Strong fairness of `PeerConnects` or the end of the attempt is ENet's own time-out (the
client sets one second); of `GiveUp`, that the second after a disconnect request goes by although
the loop also has other things to do; of `CopyEvents`, that a `think()` which tests the queue
without its lock does not miss an event every time. Nothing makes a connected peer send or be
lost, and nobody has to destroy a client.

`FairBrowser`: the menu stays open and its frames go on, without a click in every one of them (strong
fairness of `TestGap`); time passes; requests end, in an answer or a failure, and not always between the
two tests of one frame, where the next request would throw the answer away (strong fairness of the request's
steps between frames); a game server that runs sends what is due, and not every heartbeat is lost. That
answers and not only failures come back is the antecedent of `RunningServersAreListed`;
`StoppedServersLeaveTheMenu` does not need it, because a failed request empties the list.

`HookMonitor!Fairness`: time passes, a game that runs draws frames and returns from them, and the
monitor gets the mutex at last (strong fairness, because the render thread takes it in every frame).
`ClientLifecycle!Fairness`: both threads go on and an attempt to connect ends (`ConstructorReturns` of
`EnetClient`); strong fairness of the game's thread, since on one thread the menu's turns disable it. The
update runs once a frame, but thinks only with a player: that there comes to be one is not assumed, it is
the antecedent of `UnwantedClientGoes`. Nobody has to click.

### Findings

1. *Takeover* (`EntitySync.cpp:52`). `m_max_guid` is the next guid in a client that
   numbers entities itself, but the highest one in a client that got them from the
   server: add_entity sets it to the guid it is given, and WELCOME carries
   `HighestEntityGuid`. A client that becomes the master starts from `m_max_guid++`
   and gives its first entity the guid of one it already has. The
   comment at `EntitySync.cpp:140` says that this very code is there so that somebody
   taking over does "not screw up any previously spawned entities". Trace: two games join,
   the master's game spawns an enemy (guid 0), the second is sent it, the master quits,
   the second is made master and its game spawns an enemy: guid 0 again.
2. *Stale handle* (`EntitySync.cpp:175`). remove_entity erases the guid and leaves the
   handle in `m_handle_map`. On DESTROY_ENTITY the other clients' copies therefore stay
   alive: think() (line 240, "Delete any entities that are not supposed to be
   networked.") spares every entity whose handle is in that map.
3. *Sending without a thread* (`NierClient.cpp:55`). When `think()` handles a disconnect event,
   consume_events ends by calling disconnect(), which joins the thread and leaves `_thread` null.
   The rest of the same `think()` tests only that HELLO was sent, WELCOME received and the own
   player known, all still true, and sends the player's data. send_packet begins with
   `assert(is_connecting_or_connected())` (`client.h:95`): with assertions the game aborts
   when the server goes away, without them the packet is dropped, here and in every later
   `think()` until the client is destroyed.

4. *The present thread* (`AutomataMPMod.cpp:192`). "from_present is so we don't accidentally run
   script/game code within the present thread" (`AutomataMP.cpp:329-330`), but the menu is drawn from Present:
   `on_frame_d3d11` calls `run_imgui_frame(false)` (line 400), and both renderers draw the menu whatever the flag
   is. Its buttons reset `m_client`: before a new attempt (116, 175), after one that failed (121, 192), on
   Disconnect (208). If Present has a thread of its own, the game's thread may have read `m_client` before.
   Trace: an attempt to connect fails and the menu begins to reset the client; a level starts to load,
   `on_think()` takes the pointer to disconnect the client; the menu destroys it; `disconnect()` runs in an
   object that is gone. `m_mtx` is no help, being a member of that object.

### Observations

Seen while modelling, and not stated by a run, because nothing in the repository says otherwise.
Each is the reason for a constant or an antecedent of a property.

* *Who asks is not who goes* (`AutomataMPMod.hpp:48`). `m_wants_destroy_client` is one flag for whatever client
  there is. With two threads `on_think()` may clear it after `on_connect` has set it and before `m_client` is
  assigned: the client that asked stays. And without a player the flag waits: if the menu makes another client
  meanwhile, that one is destroyed when the player comes, although it never asked. `UnwantedClientGoes` is
  claimed for one thread, of clients that asked, and says nothing of others.
* *One failure is for good* (`AutomataMP.cpp:241`). When hooking D3D11 again fails once, its flag is gone and the
  next attempt begins with D3D12, which succeeds in a game that never calls it with a device.
  `DrawsInTheEnd` is claimed where hooking never fails.
* *Half a hook* (`D3D12Hook.cpp:307`). Present is hooked before ResizeBuffers and the rest; if a later one
  throws, `m_hooked` stays false, and `unhook()` takes that for "nothing to do". The flags stay true and frames
  reach the game (`HooksAreSound`), but the remains lead to a Present that can be replaced
  while it runs; `NoReplaceInPresent` is claimed without half-installed hooks. If it happens to both
  renderers, one hook may be put over the other's remains and those over it, and no frame comes to the
  game's own Present: `FramesReachTheGame` is claimed under `OneHalfHook`.
* *A long pause* (`AutomataMP.cpp:62`). A process that stops twice for longer than the limit within one frame
  looks frozen twice and is hooked again although it runs; so does one that stops in a game that has hung.
  `NoAccidentalRehook` is claimed under `OneStop`.
* *Time lost after a test message* (`AutomataMP.cpp:100`). If the process stops, or a frame holds the mutex for as
  long as the limit, while a test message is on its way through a procedure that passes messages on, that
  procedure is taken for one that does not. Ours is put over it, each passes on to the other, and the next message
  goes in a circle. `NoEndlessMessages` is claimed under `StopsUncovered` and `LockIsShort`.
* *Repeated guids* (`EntitySync.cpp:34`). After a guid was given twice, a running animation can find the
  second entity's object, or none, by its handle. `HookFindsEntity` is claimed while no guid is repeated or
  no animation is running.
* *Corrected, not validated* (`AutomataMPMod.cpp:430`). An address that is not in the list gets the port of
  whichever server is last in it. A server that is not listed can be joined only on that port, and the
  list may have changed until the next click.
* *The player's hook* (`PlayerHook.cpp:22`). re_hook compares addresses, so a new player entity in the old one's
  memory is not hooked.

## Proofs

`GameServerProofs` is checked by TLAPS for every number of peers, admissions and entity
guids, from three assumptions: the peers are finitely many, entity guids are finitely
many natural numbers, and the bounds are natural numbers. (The first two are needed
because the server lists its clients and entities to a newcomer.)

* `TypeCorrect`: `Spec => []TypeOK`. Most of it shows that what is sent are packets, with
  guids that a client or entity can have.
* `Safe`: the inductive invariant `Safety` is the conjunction of the types with `MapsAgree`,
  `OneMaster`, `EmptyRoomIsReset` and `EntitiesBounded`. They need each other. When a client
  leaves, `OneMaster` needs `MapsAgree` twice: that the connection's client is
  the one in the map (the code tests one and deletes from the other), and that
  two peers never have the same guid (so that removing one master's guid removes no other's).
  `MapsAgree` needs its clause that guids in use are not above `connectionCount`, or a
  new number might be in use. `EmptyRoomIsReset` needs `MapsAgree` to know that the room
  a master spawns an entity in is not empty.
* `RosterIsConsistent`, `OneMasterAlways` and `WorldIsSafe` follow.
* `MasterStaysAlways` proves the action property `MasterStays`, and `ServerIsARoom` the
  refinement `Spec => R!Spec`, both from `Safety` by the same case distinction of steps
  (`StepCases`): an accepted HELLO is a `Join`; handleDisconnect is a `Leave`, `Succeed` or
  `Close`, or nothing for a connection without a client; spawn and destroy packets are a
  `Put` and a `Take`; everything else stutters.

`EnetClientProofs` holds for any number of packets and any bound on the queue. Its invariant `IInv`
adds to the types: `ThreadLife` (what the place of the thread says of `_thread`, of the peer and of
`_connection_state`), `QueueLife` (the copy equals the queue while it is being cleared; without a
thread the queues are empty), `SettledBeforeSending` (nobody has sent before the attempt
ended) and `InOrder`. `InOrder` is about one sequence, `Waiting`: the events in the copy followed by
those in the queue. It says that they continue what the session was told, the connect event first, then
each packet by its number, the end last and only if the peer is gone. Each step of the two threads does
one of three things to `Waiting`: a push appends (`PushAppends`, `OrderPushed`), a handler takes the
head (`HandlePops`, `OrderPopped`), all others, copying and clearing included, leave it as it is
(`WaitingStays`, `OrderKept`). Theorems: `TypeCorrect`, `ClientIsSoundAlways` (nothing is left when the object
goes, no connection without a thread, nothing is sent too early), and the refinement `ClientIsAConnection`.
The bound on the event queue in `TypeOK` needs `InOrder` too: there are never more
events than packets, a beginning and an end.

`MasterServerProofs` holds for any set of game servers and any times with
`Period + Poll + MaxDelay <= Limit`. `TableIsSafe` proves the inductive `Safety`: an entry's age is at
most the limit plus the time since the last cleaning, and the age of the entry of a server that is
heard is at most the time since its heartbeat, plus a period and a poll while the next one is on
its way; and what was shown was fresh: an answer is the table after the request, cleaned just now or within the
gap, and `CleanIsRecent` bounds both. `LiveServersStayAlways` and `ShownServersAreFreshAlways` follow, through any
number of restarts.

`ServerBrowserProofs` is about the composition, for any number of servers, ports and addresses. Every step
of it is a step of the master server or leaves that alone (`StepsOfMaster`), so `BrowserUsesMaster`
is a refinement and what was proved of the table is carried over (`TableIsSafeBehindMenu`). The
invariant of the menu is `IInv`, the types with `TestStands`: between the test of the time and the request
that follows it the gap is still there, or an answer has come, which is the one way two requests can be
close. From it `RequestsAreSpacedAlways`, and with `CorrectedOnce` (an address that is not malformed is
accepted after one correction, by whatever list) `MenuIsSoundAlways`.

`ClientLifecycleProofs` holds for any number of clients, with one thread and with two. `IInv` has three parts: the
types (`TypeStep` needs nothing else, after a race too); that on one thread only one side is in the mod
(`Alone`) and nothing races; and that what has not raced is `Sound`. `Sound` says that `m_client` points to a client
whose constructor has returned (`Pointer`), what each thread has in hand at each place (`InHand`), where there
must be a client (`Needed`), that the menu alone makes them (`Maker`), and that none is forgotten (`Owned`). No step
lemma knows the number of threads: all that they have is `ResetAlone`, that a client that is reset is reset with the
other thread out of the mod. `Owned` is what `OneClientAtATime` rests on: a live client is either pointed to or
in somebody's hand, and the places exclude two of them. `OnlyResetsRaceAlways` follows, without a hypothesis.

The last part of `GameServerProofs` is about what the server says on each link. `LinksAreInOrder` is inductive together with
`StrangersHearNothing` (the link of a peer without a client is empty) and `DestroyedAreGone` (a number
in a DESTROY_PLAYER was given out and is nobody's now), which need `Safety`: a new number has not been used,
and two connections never share one. What is appended stays in order (`AppendOrdered`, `OneMore`), and
the list that introduces a newcomer is in order whatever order the maps are walked in (`IntroductionOrdered`).

`EntityHooksProofs` holds for any number of slots, generations, addresses, guids and objects. Its
invariant `IInv` says what none of the three properties says: entities have memory of their own (`Places`); an
object is led to by its guid or held by the running animation (`Objects`); the handle of an entity leads
to the hook it wears (`Found`); while no guid is given twice, no two handles lead to one (`Single`); while
besides every end is seen, an object's entity lives (`Resolved`). The parts are about any list of
entities and any tables, because `add_entity()` runs when the entity is in the list and its hook not yet on it
(`AddStep`, of `KeptStep` and `NewStep`); `Releasing` and `Removing` say which behaviors get the
game's table back. `HooksAreSoundAlways`, `HookFindsEntityAlways` and `ResolvesToItsOwnAlways` follow.

`MultiplayerProofs` is about a whole game, for any number of players, entities, handles and packets, with
one assumption more: a game has finitely many handles (a new master client lists its entities). Every
step of a game is a step of the server or leaves it alone, except that games decide which packets arrive and
when (`GameIsServerStep`). `GameServerProofs` is therefore written for `UnboundedSpec`, the server without the
bounds of an instance, and `GameHasServer` carries all of it over: `GameServerSafe`, `GameIsARoom`,
`GameMasterStays`. `GameTypeCorrect` and `NetworkedAreKeptAlways` are inductive with the types alone, each operation
on the two maps by a lemma of its own (`PutMaps`, `EraseGuid`, `EraseBoth`, `NumberedMaps`).

The other promises are about a client, two queues and the server at once, and none of them is
inductive. The invariant is `Agreement`. It says of each player that session, flags and link go together
(`Settled`: a link is open exactly while the session thinks so, before HELLO nobody is admitted, before WELCOME
nothing is known, and only a master client has spoken of entities), and, once the server has admitted the
player, that the client `Fits`:

* `WelcomeFits`: the next packet is WELCOME if the client has not been welcomed, and no later packet is.
* `FlagFits`: the client leads now, or will by a packet under way, exactly when the server says so; and nothing
  about entities comes after that packet, nor to a client that leads. Without this clause what
  a new master client announces would meet what it has still to hear from the old one.
* `RosterFits`: the roster and the packets under way add up to the server's members, and the sender of each
  bounced packet is in the roster when it is handled.
* `WorldFits`: what the client has of entities after its packets is within what the server has after the
  client's. It survives a takeover because the successor's own packets come after all that it was told.

`Fits` takes what it is about as arguments, so that each kind of event is a lemma about sets and lists and
not about states: a packet is sent to the client (`FitsSent`), handled by it (`FitsHandled`), received from it
(`FitsReceived`); the client spawns or terminates an enemy (`FitsSaid`), forgets one (`FitsForgotten`), chatters
(`FitsChatter`), or is introduced (`FitsIntroduced`). These rest on equations for `After`, what the packets of
a link make of a set: none, one more at the end, one fewer at the front (`AfterNone`, `AfterLast`, `AfterFirst`).
`After` is a closed form (what is added and not taken away later) and not a fold, because
those equations are induction over data for a fold and plain set theory for the closed form.
There is a lemma for each step (`BeginAgrees` ... `TerminatesAgrees`); players that do not act keep their part
because their queues at most grow by one packet that is true (`RestsUntold`, `RestsTold`). From `Agreement` follow
`RosterConvergesAlways`, `SendersAreKnownAlways`, `NothingIsIgnored`, `MasterIsAgreedAlways` and `NoGhosts`.

`HookMonitorProofs` is about the hooks, the window and the monitor, for any limits, last chance, period of the
lock and any numbers of mishaps. A budget is unlimited unless the theorem names a hypothesis on it,
and TLC shows for all but the last theorem that each hypothesis is needed:

* `TablesAreSoundAlways` assumes `OneHalfHook`, `StopsUncovered` and `LockIsShort`. `HooksFit` says of the
  vtable (`SlotFits`) that a hook in it covers the game's Present, or the other hook if that was left half
  installed; it keeps account of the one half hook the budget has, since a hook that is no longer whole
  has used it up. `WindowFits` is about the test message: one that comes to our procedure is answered at once, so it
  is never older than the polls that were missed (`mon.message <= due`), and with `LockIsShort` never old enough
  for a request. Hence only a procedure that keeps the messages is covered in turn, and they do not go in
  a circle. A frame that holds the mutex for the limit, or a stop of a covered window, makes it old.
* `NothingReplacesInPresent` needs no hypothesis: its antecedent, that no hook is ever left half installed, makes
  `HooksFit` strict, and then one activation at most is under way, which is of the current object (`AloneInPresent`).
* `RehooksAreNoAccident` assumes `OneStop`. `Patient` says what the monitor's two time stamps can mean while
  the game draws: after a stop they look old, but the last chance begins with the next poll, and the next frame
  comes before it is over (`MaxStall <= Chance`).
* `OutagesAreBounded` assumes `StopsUncovered` and `LockIsShort`. `ToGo` counts the polls until the monitor hooks
  again if nobody pushes its stamps ahead. `Outage` says that the polls gone and the polls to go stay within
  `2 * Limit + Chance + 2` (`First`); that a request for a new window hook, which puts the stamps ahead, can happen
  once; and that from then on both watches run in lockstep and the one for frames comes first
  (`Pushed`), so a second request cannot. Together they give `Patience`. The proof uses both
  hypotheses; no counterexample without them was found.

A change of a vtable is an operator on tables (`Unhooked`, `Renewed`, `Installed`), so most lemmas are
about any table: one attempt at a hook (`AttemptSound`), with the order of the two renderers on top
(`HookD3D11Sound`, `HookD3D12Sound`, `FallBackSound`), and only then the steps (`NextHooksFit`).

Only model-checked is liveness: `HelloIsAnswered`, `MasterLearns`, `MasterIsReplaced`, `ConstructorReturns`,
`DisconnectReturns`, `LossIsNoticed`, `DrawsInTheEnd`, `MessagesReturn`, `UnwantedClientGoes`,
`RunningServersAreListed` and `StoppedServersLeaveTheMenu`.
Liveness under fairness and ENABLED are beyond TLAPS 1.4.5, and so is induction over data
(no theorem here needs it: see `After` above).

## Not modelled, and the plan

What the plan named is written: the room, the connection, the life of the client, the entity hooks, the
server list and the hook monitor. Every safety invariant and action property of the passing runs has
a theorem, and so has every refinement. What could still be proved are the safety halves of the liveness
properties, that is the measures that no step but the expected one makes larger, as `ToGo` is for the
monitor; and `OutageIsBounded` with fewer hypotheses.

handle_create_player returns early when the game has no entity list, no possessed entity or no
entity named "Player" (`NierClient.cpp:608-636`), and the CREATE_PLAYER is lost then. The model leaves
this out: `AutomataMPMod::shared_think` makes the same tests before it calls `think()`.

Left out of modelled parts, on purpose:

* Answers that are no JSON: `nlohmann::json::parse` comes before the `try` (`AutomataMPMod.cpp:79`), so
  the frame that reads such an answer ends with an exception.
* `m_last_server_update` and `m_master_server_input` are shared by the UI thread and the request's without a
  lock. The model takes the time stamp as one word and the input as one value.
* The HTTP clients, of the mod and of the game server, have no time-out. `MasterServer` assumes a bound
  (`MaxDelay`), `FairBrowser` that requests end.
* Deadlocks of hooks that suspend all other threads while they patch (`MidHooks.cpp:250`,
  `WindowsMessageHook.cpp:57`, `Thread.cpp:41`): whether a suspended thread holds the loader's or the
  allocator's lock is not in this code.
* Player names: `GetFilteredPlayerName` (`core/Server.go:26`) appends the number of connections to a
  duplicate and does not test again. Names identify nobody in the protocol.
* State of the menu and of the configuration (`AutomataMP.cpp:754`, `Mods.cpp:12`): settings of the user, which
  nothing here depends on.
* `m_overriden_entities` of `MidHooks.cpp:208` only grows, and the player's own vtable hook has one writer.

Left out for good. By lines, most of the repository is not the program's own logic: the JSON
library (24,596 lines), a font (2,468), generated FlatBuffers code (1,165), licences (793) and ImGui's
backends (about 1,900), together about two thirds. What remains beyond the modules above has no protocol to
get wrong: resources of Direct3D, memory scanning and patching, the SDK's offsets and calls into the game,
single-player tools over the game's memory, the launchers under `tools/`, the mock client, and the vendored
enetpp server that nothing uses. So the map stays a small share of the lines.
