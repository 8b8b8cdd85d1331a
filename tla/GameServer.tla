----------------------------- MODULE GameServer -----------------------------
(***************************************************************************)
(* The AutomataMP game server (server/automatamp): one thread services the *)
(* events of an ENet host and keeps the roster of players, the choice of   *)
(* the master client and the list of networked enemies.                    *)
(*                                                                         *)
(* One action stands for one event of service() and everything its handler *)
(* does; handlers run to completion on one thread, so that is the grain of *)
(* the code.  A Client object is represented by its Guid (the pointer in   *)
(* Connection.Client and the value in Server.Clients are the same object). *)
(***************************************************************************)
EXTENDS Naturals, FiniteSets, Sequences, SequencesExt

CONSTANTS Peer,          \* the peer slots of the ENet host
          EntityGuid,    \* guids a master client may give to entities
          Hello,         \* the HELLO packets that are sent
          VersionMajor, VersionMinor,  \* the server's protocol version
          Password,      \* the configured password, "" for none
          Models,        \* the values of the enumeration ModelType
          MaxClients,    \* bound on ConnectionCount
          MaxOutbox      \* no packet is received while a link holds this many

ASSUME PeerAssumption == IsFiniteSet(Peer)

ASSUME EntityGuidAssumption == EntityGuid \subseteq Nat /\ IsFiniteSet(EntityGuid)

ASSUME BoundAssumption == MaxClients \in Nat /\ MaxOutbox \in Nat

NoClient == 0               \* a nil *Client, or a key missing from Clients
Guid == 1 .. MaxClients

VARIABLES
  link,               \* ENet's state of each peer slot
  connections,        \* the peers that are keys of Server.Connections
  clientOf,           \* Connections[p].Client
  clients,            \* Clients[Connections[p]]
  masters,            \* the Client objects with IsMasterClient
  connectionCount,    \* Server.ConnectionCount
  entities,           \* the keys of Server.Entities
  highestEntityGuid,  \* Server.HighestEntityGuid
  outbox              \* packets sent to each peer that it has not handled

room == <<connections, clientOf, clients, masters, connectionCount>>
world == <<entities, highestEntityGuid>>
vars == <<link, room, world, outbox>>

PlayerPacketId == {"PLAYER_DATA", "ANIMATION_START", "BUTTONS"}
EntityUpdateId == {"ENTITY_DATA", "ENTITY_ANIMATION_START"}

\* The packets the server sends; what the payloads hold beyond the guids is
\* relayed unread and left out.
Packet ==
       [id : {"WELCOME"}, guid : Guid, isMasterClient : BOOLEAN,
        highestEntityGuid : EntityGuid \cup {0}]
  \cup [id : {"CREATE_PLAYER", "DESTROY_PLAYER"} \cup PlayerPacketId, guid : Guid]
  \cup [id : {"SPAWN_ENTITY", "DESTROY_ENTITY"} \cup EntityUpdateId, guid : EntityGuid]
  \cup [id : {"SET_MASTER_CLIENT", "PONG"}]

TypeOK == /\ link \in [Peer -> {"free", "open", "closing"}]
          /\ connections \subseteq Peer
          /\ clientOf \in [Peer -> Guid \cup {NoClient}]
          /\ clients \in [Peer -> Guid \cup {NoClient}]
          /\ masters \subseteq Guid
          /\ connectionCount \in 0 .. MaxClients
          /\ entities \subseteq EntityGuid
          /\ highestEntityGuid \in EntityGuid \cup {0}
          /\ outbox \in [Peer -> Seq(Packet)]

Init == /\ link = [p \in Peer |-> "free"]
        /\ connections = {}
        /\ clientOf = [p \in Peer |-> NoClient]
        /\ clients = [p \in Peer |-> NoClient]
        /\ masters = {}
        /\ connectionCount = 0
        /\ entities = {}
        /\ highestEntityGuid = 0
        /\ outbox = [p \in Peer |-> <<>>]

-----------------------------------------------------------------------------
(* Sending *)

\* The peers the server has a Client for.
Joined == {p \in Peer : clients[p] # NoClient}

\* Peer.SendBytes for every packet of out[q]: ENet takes packets for a peer
\* that is connected only, and keeps their order.
Send(out) ==
  outbox' = [q \in Peer |-> IF link[q] = "open" THEN outbox[q] \o out[q]
                                                ELSE outbox[q]]

To(p, pkts) == [q \in Peer |-> IF q = p THEN pkts ELSE <<>>]

\* Mutant: connections that have not said HELLO are included.
BroadcastExceptSender_Everyone(p, pkt) ==
  [q \in Peer |-> IF q \in connections \ {p} THEN <<pkt>> ELSE <<>>]

BroadcastExceptSender(p, pkt) ==
  [q \in Peer |-> IF q \in Joined \ {p} THEN <<pkt>> ELSE <<>>]

-----------------------------------------------------------------------------
(* Connections *)

\* ENet reports a new peer: whatever was stored under the slot is replaced by
\* a connection without a client.
Connect(p) ==
  /\ link[p] = "free"
  /\ link' = [link EXCEPT ![p] = "open"]
  /\ connections' = connections \cup {p}
  /\ clientOf' = [clientOf EXCEPT ![p] = NoClient]
  /\ UNCHANGED <<clients, masters, connectionCount, world, outbox>>

\* ENet loses the peer (it disconnected or timed out): nothing is sent to it or
\* received from it any more, and an event is due.
LinkDown(p) ==
  /\ link[p] = "open"
  /\ link' = [link EXCEPT ![p] = "closing"]
  /\ outbox' = [outbox EXCEPT ![p] = <<>>]
  /\ UNCHANGED <<room, world>>

\* Two mutants: the handover is forgotten, or made whoever it is that leaves.
Successors_None(p) == {{}}

Successors_Always(p) ==
  IF Joined \ {p} # {} THEN {{q} : q \in Joined \ {p}} ELSE {{}}

\* HandleNewMasterClient runs when the leaver was the master; it takes the
\* first client of a map iteration, which is any of those who stay.
Successors(p) ==
  IF clientOf[p] \in masters /\ Joined \ {p} # {}
    THEN {{q} : q \in Joined \ {p}}
    ELSE {{}}

\* Mutant: the client is not deleted from Server.Clients.
ForgetClient_Not(p) == UNCHANGED clients

ForgetClient(p) ==
  clients' = IF clientOf[p] = NoClient THEN clients
                                       ELSE [clients EXCEPT ![p] = NoClient]

\* Mutant: the room is tested before the leaver is deleted from it.
ResetEmptyRoom_Early ==
  IF Joined = {} THEN entities' = {} /\ highestEntityGuid' = 0
                 ELSE UNCHANGED world

\* The world is reset when nobody is left.
ResetEmptyRoom ==
  IF \A q \in Peer : clients'[q] = NoClient
    THEN entities' = {} /\ highestEntityGuid' = 0
    ELSE UNCHANGED world

\* The leaver's news to the others, if it has a client.
HandleDestroyPlayer(p) ==
  IF clientOf[p] = NoClient
    THEN [q \in Peer |-> <<>>]
    ELSE BroadcastExceptSender(p, [id |-> "DESTROY_PLAYER", guid |-> clientOf[p]])

\* handleDisconnect: tell the others, forget the client, hand over, and reset
\* the world when nobody is left.
HandleDisconnect(p) ==
  /\ p \in connections
  /\ connections' = connections \ {p}
  /\ clientOf' = [clientOf EXCEPT ![p] = NoClient]
  /\ ForgetClient(p)
  /\ \E heirs \in Successors(p) :
       /\ masters' = (masters \ {clientOf[p]}) \cup {clients[q] : q \in heirs}
       /\ Send([q \in Peer |->
            HandleDestroyPlayer(p)[q]
              \o IF q \in heirs THEN <<[id |-> "SET_MASTER_CLIENT"]>> ELSE <<>>])
  /\ ResetEmptyRoom
  /\ UNCHANGED connectionCount

Disconnect(p) ==
  /\ link[p] = "closing"
  /\ link' = [link EXCEPT ![p] = "free"]
  /\ IF p \in connections THEN HandleDisconnect(p)
                          ELSE UNCHANGED <<room, world, outbox>>

-----------------------------------------------------------------------------
(* Packets.  Before its HELLO a connection has no client and every other      *)
(* packet of it is dropped (checkClientIsAuthorized).                         *)

Anonymous(p) == link[p] = "open" /\ p \in connections /\ clientOf[p] = NoClient
Authorized(p) == link[p] = "open" /\ p \in connections /\ clientOf[p] # NoClient

Acceptable(hello) ==
  /\ hello.major = VersionMajor
  /\ hello.minor <= VersionMinor
  /\ Password # "" => hello.password = Password
  /\ hello.model \in Models

\* Mutant: the refused client is left waiting.
RejectHello_Silent(p, hello) == Anonymous(p) /\ ~ Acceptable(hello) /\ UNCHANGED vars

\* DisconnectNow resets the peer at once and raises no event: the slot is free
\* again while its entry stays in Server.Connections.
RejectHello(p, hello) ==
  /\ Anonymous(p)
  /\ ~ Acceptable(hello)
  /\ link' = [link EXCEPT ![p] = "free"]
  /\ outbox' = [outbox EXCEPT ![p] = <<>>]
  /\ UNCHANGED <<room, world>>

\* Mutant: the newcomer's player is announced before WELCOME.
Introduction_CreateFirst(g, isMaster, players, spawned) ==
  <<[id |-> "CREATE_PLAYER", guid |-> g],
    [id |-> "WELCOME", guid |-> g, isMasterClient |-> isMaster,
     highestEntityGuid |-> highestEntityGuid]>>
  \o [i \in 1 .. Len(players) |-> [id |-> "CREATE_PLAYER", guid |-> players[i]]]
  \o [i \in 1 .. Len(spawned) |-> [id |-> "SPAWN_ENTITY", guid |-> spawned[i]]]

\* Mutant: the players who are there already are not introduced.
Introduction_Alone(g, isMaster, players, spawned) ==
  <<[id |-> "WELCOME", guid |-> g, isMasterClient |-> isMaster,
     highestEntityGuid |-> highestEntityGuid],
    [id |-> "CREATE_PLAYER", guid |-> g]>>
  \o [i \in 1 .. Len(spawned) |-> [id |-> "SPAWN_ENTITY", guid |-> spawned[i]]]

\* What a newcomer is sent: WELCOME, its own player, then the other players and
\* the entities, each list in the order of a map iteration.
Introduction(g, isMaster, players, spawned) ==
  <<[id |-> "WELCOME", guid |-> g, isMasterClient |-> isMaster,
     highestEntityGuid |-> highestEntityGuid],
    [id |-> "CREATE_PLAYER", guid |-> g]>>
  \o [i \in 1 .. Len(players) |-> [id |-> "CREATE_PLAYER", guid |-> players[i]]]
  \o [i \in 1 .. Len(spawned) |-> [id |-> "SPAWN_ENTITY", guid |-> spawned[i]]]

\* Mutant: players are numbered by how many are present.
NewGuid_Reused == Cardinality(Joined) + 1

\* ConnectionCount is incremented and numbers the new client.
NewGuid == connectionCount + 1

AcceptHello(p, hello) ==
  /\ Anonymous(p)
  /\ Acceptable(hello)
  /\ connectionCount < MaxClients
  /\ connectionCount' = connectionCount + 1
  /\ clientOf' = [clientOf EXCEPT ![p] = NewGuid]
  /\ clients' = [clients EXCEPT ![p] = NewGuid]
  /\ masters' = IF Joined = {} THEN masters \cup {NewGuid} ELSE masters
  /\ \E players \in SetToSeqs({clients[q] : q \in Joined}),
        spawned \in SetToSeqs(entities) :
       Send([q \in Peer |->
         IF q = p
           THEN Introduction(NewGuid, Joined = {}, players, spawned)
           ELSE BroadcastExceptSender(p,
                  [id |-> "CREATE_PLAYER", guid |-> NewGuid])[q]])
  /\ UNCHANGED <<link, connections, world>>

HandlePing(p) ==
  /\ Authorized(p)
  /\ Send(To(p, <<[id |-> "PONG"]>>))
  /\ UNCHANGED <<link, room, world>>

\* HandlePlayerData, HandleAnimationStart and HandleButtons bounce the packet to
\* the others under the guid of its sender.
HandlePlayerPacket(p, id) ==
  /\ Authorized(p)
  /\ Send(BroadcastExceptSender(p, [id |-> id, guid |-> clientOf[p]]))
  /\ UNCHANGED <<link, room, world>>

\* Entity packets count from the master client only.
FromMaster(p) == Authorized(p) /\ clientOf[p] \in masters

\* Two mutants: the latest guid is stored, or the one after the highest.
Highest_Latest(e) == e
Highest_Next(e) == IF e > highestEntityGuid THEN e + 1 ELSE highestEntityGuid

Highest(e) == IF e > highestEntityGuid THEN e ELSE highestEntityGuid

HandleSpawnEntity(p, e) ==
  /\ FromMaster(p)
  /\ highestEntityGuid' = Highest(e)
  /\ entities' = entities \cup {e}
  /\ Send(BroadcastExceptSender(p, [id |-> "SPAWN_ENTITY", guid |-> e]))
  /\ UNCHANGED <<link, room>>

HandleDestroyEntity(p, e) ==
  /\ FromMaster(p)
  /\ entities' = entities \ {e}
  /\ Send(BroadcastExceptSender(p, [id |-> "DESTROY_ENTITY", guid |-> e]))
  /\ UNCHANGED <<link, room, highestEntityGuid>>

\* HandleEntityData and HandleEntityAnimationStart relay and store nothing.
HandleEntityUpdate(p, id, e) ==
  /\ FromMaster(p)
  /\ Send(BroadcastExceptSender(p, [id |-> id, guid |-> e]))
  /\ UNCHANGED <<link, room, world>>

\* The packets clients send.
ClientPacket ==
       [id : {"HELLO"}, hello : Hello]
  \cup [id : {"PING"} \cup PlayerPacketId]
  \cup [id : {"SPAWN_ENTITY", "DESTROY_ENTITY"} \cup EntityUpdateId, guid : EntityGuid]

PacketHandler(p, pkt) ==
  \/ pkt.id = "HELLO" /\ (RejectHello(p, pkt.hello) \/ AcceptHello(p, pkt.hello))
  \/ pkt.id = "PING" /\ HandlePing(p)
  \/ pkt.id \in PlayerPacketId /\ HandlePlayerPacket(p, pkt.id)
  \/ pkt.id = "SPAWN_ENTITY" /\ HandleSpawnEntity(p, pkt.guid)
  \/ pkt.id = "DESTROY_ENTITY" /\ HandleDestroyEntity(p, pkt.guid)
  \/ pkt.id \in EntityUpdateId /\ HandleEntityUpdate(p, pkt.id, pkt.guid)

\* A packet from a peer that no handler acts upon, and that changes nothing: a
\* second HELLO, anything before the first one, entity packets of a client that
\* is not the master.
Discarded(p, pkt) ==
  \/ clientOf[p] = NoClient /\ pkt.id # "HELLO"
  \/ clientOf[p] # NoClient /\ pkt.id = "HELLO"
  \/ /\ clientOf[p] \notin masters
     /\ pkt.id \in {"SPAWN_ENTITY", "DESTROY_ENTITY"} \cup EntityUpdateId

\* Some packet arrives from p.
Receive(p) ==
  /\ \A q \in Peer : Len(outbox[q]) < MaxOutbox
  /\ \E pkt \in ClientPacket : PacketHandler(p, pkt)

\* The peer handles the oldest packet of its link.
Deliver(p) ==
  /\ outbox[p] # <<>>
  /\ outbox' = [outbox EXCEPT ![p] = Tail(@)]
  /\ UNCHANGED <<link, room, world>>

Next == \E p \in Peer : \/ Connect(p)
                        \/ LinkDown(p)
                        \/ Disconnect(p)
                        \/ Receive(p)
                        \/ Deliver(p)

Spec == Init /\ [][Next]_vars

-----------------------------------------------------------------------------
(* Properties *)

\* Server.Clients and Server.Connections tell the same story although they are
\* updated apart: a peer is a key of one exactly when its connection has a client
\* in the other, no client outlives its link (a slot freed by DisconnectNow and
\* taken again never inherits one), and no two peers share a client or have one
\* whose number is still to be given.
MapsAgree ==
  /\ \A p \in Peer :
       clients[p] = IF p \in connections THEN clientOf[p] ELSE NoClient
  /\ \A p \in Joined : link[p] # "free"
  /\ \A p \in Joined : clients[p] <= connectionCount
  /\ \A p, q \in Joined : clients[p] = clients[q] => p = q

\* Whoever joins and leaves, and whichever client inherits, exactly one client of a
\* room that is not empty is the master client, and an empty room has none.
OneMaster ==
  IF Joined = {} THEN masters = {}
                 ELSE \E p \in Joined : masters = {clients[p]}

\* The last player to leave takes the world along: the next master client starts
\* from no entities and from guid 0.
EmptyRoomIsReset == Joined = {} => entities = {} /\ highestEntityGuid = 0

\* HighestEntityGuid, sent in WELCOME as the point where a master client goes on
\* numbering, is never below an entity the server still keeps.
EntitiesBounded == \A e \in entities : e <= highestEntityGuid

\* The world a newcomer is told of is the one of the players who are there.
WorldSafety == EmptyRoomIsReset /\ EntitiesBounded

\* A client ignores what comes before its WELCOME and never asks again, so WELCOME
\* is in front of everything else on its link, the broadcasts of others included.
WelcomeFirst ==
  \A p \in Peer : \A i \in 1 .. Len(outbox[p]) :
    outbox[p][i].id = "WELCOME" => i = 1

\* After DESTROY_PLAYER nothing about that player follows on any link: bounced
\* packets of a player who left never reach a client that dropped the player.
NothingAfterDestroy ==
  \A p \in Peer : \A i, j \in 1 .. Len(outbox[p]) :
    /\ i < j
    /\ outbox[p][i].id = "DESTROY_PLAYER"
    /\ outbox[p][j].id \in {"CREATE_PLAYER", "DESTROY_PLAYER"} \cup PlayerPacketId
    => outbox[p][j].guid # outbox[p][i].guid

\* What a client is told comes in an order that it can make sense of.
LinksAreInOrder == WelcomeFirst /\ NothingAfterDestroy

\* Mastership is never taken from a client that stays: nobody but the leaver of a
\* handleDisconnect loses it, and only when the leaver had it does it move.
MasterStays ==
  [][\A p \in Peer :
       /\ clients[p] \in masters
       /\ clients'[p] = clients[p]
       => masters' = masters]_vars

\* The server is a Room: members are the guids of its clients, the leader is the
\* master client, and the things are the networked entities.
Members == {clients[p] : p \in Joined}

Leader == IF masters = {} THEN NoClient ELSE CHOOSE g \in masters : TRUE

R == INSTANCE Room WITH Thing <- EntityGuid, MaxMember <- MaxClients,
                        members <- Members, leader <- Leader,
                        admitted <- connectionCount, things <- entities

IsARoom == R!Spec
=============================================================================
