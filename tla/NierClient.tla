----------------------------- MODULE NierClient -----------------------------
(***************************************************************************)
(* The mod inside each player's game: NierClient (the session with the     *)
(* server and the players it knows) and EntitySync (which of the game's    *)
(* enemies are networked, and under which guid).  Peer p stands for the    *)
(* game of the player who occupies the server's peer slot p.               *)
(*                                                                         *)
(* Everything here runs on the game thread.  A call of think() handles the *)
(* packets that have arrived, one Consume each, and then sends and prunes  *)
(* (ThinkTail); the game's own steps call the hooks in between.            *)
(***************************************************************************)
EXTENDS Integers, FiniteSets, Sequences, SequencesExt, Functions

CONSTANTS Peer,
          Hello,       \* the HELLO packets players may send
          EntityGuid,  \* bound on the guids of entities
          Handle,      \* the handles of the game's networkable entities
          Streamed     \* the kinds of per-frame packets an instance sends

VARIABLES
  session,          \* none: no m_client; connecting: until CONNECT is handled;
                    \* greeted: HELLO sent; lost: disconnected, but not destroyed
  welcomed,         \* m_welcome_received
  guid,             \* m_guid
  isMaster,         \* m_is_master_client
  players,          \* the keys of m_players
  maxGuid,          \* EntitySync::m_max_guid
  networkEntities,  \* m_network_entities, guid to handle
  handleMap,        \* m_handle_map, handle to guid
  alive,            \* the networkable entities in the game's entity list
  outbox,           \* what the server has sent to the player
  inbox             \* what the player has sent to the server

roster == <<welcomed, guid, isMaster, players>>
entitySync == <<maxGuid, networkEntities, handleMap>>

Empty == [x \in {} |-> x]

Put(f, x, y) == [z \in DOMAIN f \cup {x} |-> IF z = x THEN y ELSE f[z]]
Erase(f, x) == Restrict(f, DOMAIN f \ {x})

Init == /\ session = [p \in Peer |-> "none"]
        /\ welcomed = [p \in Peer |-> FALSE]
        /\ guid = [p \in Peer |-> 0]
        /\ isMaster = [p \in Peer |-> FALSE]
        /\ players = [p \in Peer |-> {}]
        /\ maxGuid = [p \in Peer |-> 0]
        /\ networkEntities = [p \in Peer |-> Empty]
        /\ handleMap = [p \in Peer |-> Empty]
        /\ alive = [p \in Peer |-> {}]
        /\ inbox = [p \in Peer |-> <<>>]

\* enetpp drops what is sent when its thread is gone.
SendPackets(p, pkts) ==
  inbox' = IF session[p] = "lost" THEN inbox
                                  ELSE [inbox EXCEPT ![p] = @ \o pkts]

-----------------------------------------------------------------------------
(* The session *)

\* The player presses Connect: a client with everything at its initial value.
NewClient(p) ==
  /\ session[p] = "none"
  /\ session' = [session EXCEPT ![p] = "connecting"]
  /\ UNCHANGED <<roster, entitySync, alive>>

SendHello(p) ==
  \E hello \in Hello : SendPackets(p, <<[id |-> "HELLO", hello |-> hello]>>)

\* on_connect greets the server.  (Without a possessed entity it asks for the
\* client to be destroyed instead, which is EndSession.)
OnConnect(p) ==
  /\ session[p] = "connecting"
  /\ session' = [session EXCEPT ![p] = "greeted"]
  /\ SendHello(p)
  /\ UNCHANGED <<roster, entitySync, alive, outbox>>

\* The link breaks: on_disconnect logs, and the client lives on as it was.
OnDisconnect(p) ==
  /\ session[p] \in {"connecting", "greeted"}
  /\ session' = [session EXCEPT ![p] = "lost"]
  /\ UNCHANGED <<roster, entitySync, alive>>

\* The client is destroyed with all it holds: by the Disconnect button, a loading
\* screen, or signal_destroy_client.  The game keeps its entities.
EndSession(p) ==
  /\ session[p] # "none"
  /\ session' = [session EXCEPT ![p] = "none"]
  /\ welcomed' = [welcomed EXCEPT ![p] = FALSE]
  /\ guid' = [guid EXCEPT ![p] = 0]
  /\ isMaster' = [isMaster EXCEPT ![p] = FALSE]
  /\ players' = [players EXCEPT ![p] = {}]
  /\ maxGuid' = [maxGuid EXCEPT ![p] = 0]
  /\ networkEntities' = [networkEntities EXCEPT ![p] = Empty]
  /\ handleMap' = [handleMap EXCEPT ![p] = Empty]
  /\ UNCHANGED alive

-----------------------------------------------------------------------------
(* EntitySync *)

\* Mutant: the handle is not entered in m_handle_map.
AddEntity_NoHandle(p, h, g) ==
  /\ maxGuid' = [maxGuid EXCEPT ![p] = IF g > @ THEN g ELSE @]
  /\ networkEntities' = [networkEntities EXCEPT ![p] = Put(@, g, h)]
  /\ UNCHANGED handleMap

\* add_entity for an entity that came with its guid from the server.
AddEntity(p, h, g) ==
  /\ maxGuid' = [maxGuid EXCEPT ![p] = IF g > @ THEN g ELSE @]
  /\ networkEntities' = [networkEntities EXCEPT ![p] = Put(@, g, h)]
  /\ handleMap' = [handleMap EXCEPT ![p] = Put(@, h, g)]

\* Mutant: the guid is taken after the increment, and not before it.
OnEntityCreated_Next(p, h) ==
  /\ maxGuid[p] \in EntityGuid
  /\ maxGuid' = [maxGuid EXCEPT ![p] = @ + 1]
  /\ networkEntities' = [networkEntities EXCEPT ![p] = Put(@, maxGuid[p] + 1, h)]
  /\ handleMap' = [handleMap EXCEPT ![p] = Put(@, h, maxGuid[p] + 1)]
  /\ SendPackets(p, <<[id |-> "SPAWN_ENTITY", guid |-> maxGuid[p] + 1]>>)

\* EntitySync::on_entity_created: number the entity, add it and announce it.
OnEntityCreated(p, h) ==
  /\ maxGuid[p] \in EntityGuid
  /\ maxGuid' = [maxGuid EXCEPT ![p] = @ + 1]
  /\ networkEntities' = [networkEntities EXCEPT ![p] = Put(@, maxGuid[p], h)]
  /\ handleMap' = [handleMap EXCEPT ![p] = Put(@, h, maxGuid[p])]
  /\ SendPackets(p, <<[id |-> "SPAWN_ENTITY", guid |-> maxGuid[p]]>>)

\* EntitySync::on_entity_deleted: an entity that is still networked under the
\* guid of its handle is forgotten, and the master client says so.
OnEntityDeleted(p, h) ==
  IF h \in DOMAIN handleMap[p] /\ handleMap[p][h] \in DOMAIN networkEntities[p]
    THEN LET g == handleMap[p][h] IN
         /\ handleMap' = [handleMap EXCEPT ![p] = Erase(@, h)]
         /\ networkEntities' = [networkEntities EXCEPT ![p] = Erase(@, g)]
         /\ IF isMaster[p]
              THEN SendPackets(p, <<[id |-> "DESTROY_ENTITY", guid |-> g]>>)
              ELSE UNCHANGED inbox
         /\ UNCHANGED maxGuid
    ELSE UNCHANGED <<entitySync, inbox>>

\* A handle the game may give to a new entity.
FreeHandles(p) == Handle \ (alive[p] \cup DOMAIN handleMap[p])

-----------------------------------------------------------------------------
(* Packets from the server *)

\* on_enter_server of a new EntitySync that starts from a guid: a master client
\* numbers and announces the enemies that are there, in the order of the list.
OnEnterServer(p, first, isMasterClient) ==
  \E list \in SetToSeqs(IF isMasterClient THEN alive[p] ELSE {}) :
    LET fresh == first .. first + Len(list) - 1
        numbered == [g \in fresh |-> list[g - first + 1]]
    IN /\ fresh \subseteq EntityGuid
       /\ maxGuid' = [maxGuid EXCEPT ![p] = first + Len(list)]
       /\ networkEntities' = [networkEntities EXCEPT ![p] = numbered]
       /\ handleMap' = [handleMap EXCEPT ![p] = AntiFunction(numbered)]
       /\ SendPackets(p, [i \in 1 .. Len(list) |->
                           [id |-> "SPAWN_ENTITY", guid |-> first + i - 1]])

\* handle_welcome: the flags, and a new EntitySync that enters the server.
HandleWelcome(p, pkt) ==
  /\ pkt.id = "WELCOME"
  /\ welcomed' = [welcomed EXCEPT ![p] = TRUE]
  /\ guid' = [guid EXCEPT ![p] = pkt.guid]
  /\ isMaster' = [isMaster EXCEPT ![p] = pkt.isMasterClient]
  /\ OnEnterServer(p, pkt.highestEntityGuid, pkt.isMasterClient)
  /\ UNCHANGED <<players, alive>>

\* Mutant: the packet is not acted upon.
HandleSetMasterClient_Ignored(p, pkt) ==
  /\ pkt.id = "SET_MASTER_CLIENT"
  /\ UNCHANGED <<roster, entitySync, alive, inbox>>

HandleSetMasterClient(p, pkt) ==
  /\ pkt.id = "SET_MASTER_CLIENT"
  /\ isMaster' = [isMaster EXCEPT ![p] = TRUE]
  /\ UNCHANGED <<welcomed, guid, players, entitySync, alive, inbox>>

\* The player is entered in m_players and, unless it is the own one, spawned.
HandleCreatePlayer(p, pkt) ==
  /\ pkt.id = "CREATE_PLAYER"
  /\ players' = [players EXCEPT ![p] = @ \cup {pkt.guid}]
  /\ UNCHANGED <<welcomed, guid, isMaster, entitySync, alive, inbox>>

HandleDestroyPlayer(p, pkt) ==
  /\ pkt.id = "DESTROY_PLAYER"
  /\ players' = [players EXCEPT ![p] = @ \ {pkt.guid}]
  /\ UNCHANGED <<welcomed, guid, isMaster, entitySync, alive, inbox>>

\* The game spawns a copy of the entity, unless it cannot.
HandleCreateEntity(p, pkt) ==
  /\ pkt.id = "SPAWN_ENTITY"
  /\ \/ \E h \in FreeHandles(p) :
          /\ alive' = [alive EXCEPT ![p] = @ \cup {h}]
          /\ AddEntity(p, h, pkt.guid)
     \/ /\ FreeHandles(p) = {}
        /\ UNCHANGED <<alive, entitySync>>
  /\ UNCHANGED <<roster, inbox>>

\* Mutant: the handle is erased instead of the guid.
HandleDestroyEntity_KeepsGuid(p, pkt) ==
  /\ pkt.id = "DESTROY_ENTITY"
  /\ handleMap' = [handleMap EXCEPT ![p] =
                     RestrictValues(@, LAMBDA g : g # pkt.guid)]
  /\ UNCHANGED <<roster, maxGuid, networkEntities, alive, inbox>>

\* remove_entity takes the guid away, and nothing else.
HandleDestroyEntity(p, pkt) ==
  /\ pkt.id = "DESTROY_ENTITY"
  /\ networkEntities' = [networkEntities EXCEPT ![p] = Erase(@, pkt.guid)]
  /\ UNCHANGED <<roster, maxGuid, handleMap, alive, inbox>>

\* Packets that write into the game's entities only: bounced player packets,
\* entity data and animations.
Streaming == {"PLAYER_DATA", "ANIMATION_START", "BUTTONS", "PONG",
              "ENTITY_DATA", "ENTITY_ANIMATION_START"}

HandleStreaming(p, pkt) ==
  /\ pkt.id \in Streaming
  /\ UNCHANGED <<roster, entitySync, alive, inbox>>

\* on_packet_received.  Before WELCOME everything else is ignored.
Consume(p) ==
  /\ session[p] = "greeted"
  /\ outbox[p] # <<>>
  /\ outbox' = [outbox EXCEPT ![p] = Tail(@)]
  /\ LET pkt == Head(outbox[p]) IN
     IF ~ welcomed[p] /\ pkt.id # "WELCOME"
       THEN UNCHANGED <<roster, entitySync, alive, inbox>>
       ELSE \/ HandleWelcome(p, pkt)
            \/ HandleSetMasterClient(p, pkt)
            \/ HandleCreatePlayer(p, pkt)
            \/ HandleDestroyPlayer(p, pkt)
            \/ HandleCreateEntity(p, pkt)
            \/ HandleDestroyEntity(p, pkt)
            \/ HandleStreaming(p, pkt)
  /\ UNCHANGED session

-----------------------------------------------------------------------------
(* The rest of think(), and the game's hooks *)

\* The client is in the game and knows its own player.
Playing(p) ==
  /\ session[p] \in {"greeted", "lost"}
  /\ welcomed[p]
  /\ guid[p] \in players[p]

\* send_player_data, once a frame.
OwnPlayerData == IF "PLAYER_DATA" \in Streamed THEN <<[id |-> "PLAYER_DATA"]>> ELSE <<>>

\* EntitySync::think of a master client sends the data of every networked entity
\* that is alive, in the order of the map.
EntityUpdates(p) ==
  {[i \in 1 .. Len(list) |-> [id |-> "ENTITY_DATA", guid |-> list[i]]] :
     list \in SetToSeqs({g \in DOMAIN networkEntities[p] :
                /\ "ENTITY_DATA" \in Streamed
                /\ networkEntities[p][g] \in alive[p]})}

\* EntitySync::think of any other client terminates the entities whose handle it
\* does not know.
Prune(p) == alive' = [alive EXCEPT ![p] = @ \cap DOMAIN handleMap[p]]

\* think() after the packets: send the own player's data, then synchronise.
ThinkTail(p) ==
  /\ Playing(p)
  /\ \/ /\ isMaster[p]
        /\ \E updates \in EntityUpdates(p) : SendPackets(p, OwnPlayerData \o updates)
        /\ UNCHANGED alive
     \/ /\ ~ isMaster[p]
        /\ SendPackets(p, OwnPlayerData)
        /\ Prune(p)
  /\ UNCHANGED <<session, roster, entitySync, outbox>>

\* Buttons and animations of the own player are sent by hooks that ask for a client
\* only, not for a session: the server may get them before HELLO.
HookSends(p, id) ==
  /\ session[p] # "none"
  /\ id \in Streamed \cap {"BUTTONS", "ANIMATION_START"}
  /\ SendPackets(p, <<[id |-> id]>>)
  /\ UNCHANGED <<session, roster, entitySync, alive, outbox>>

\* The game spawns an enemy: kept without a client, numbered and announced by the
\* master client, and terminated at once by every other client.
GameSpawns(p, h) ==
  /\ h \in FreeHandles(p)
  /\ \/ /\ session[p] = "none"
        /\ alive' = [alive EXCEPT ![p] = @ \cup {h}]
        /\ UNCHANGED <<entitySync, inbox>>
     \/ /\ session[p] # "none" /\ isMaster[p]
        /\ alive' = [alive EXCEPT ![p] = @ \cup {h}]
        /\ OnEntityCreated(p, h)
  /\ UNCHANGED <<session, roster, outbox>>

\* The game terminates an enemy through the hooked function.
GameTerminates(p, h) ==
  /\ h \in alive[p]
  /\ alive' = [alive EXCEPT ![p] = @ \ {h}]
  /\ \/ /\ session[p] = "none"
        /\ UNCHANGED <<entitySync, inbox>>
     \/ /\ session[p] # "none" /\ welcomed[p]
        /\ OnEntityDeleted(p, h)
  /\ UNCHANGED <<session, roster, outbox>>
=============================================================================
