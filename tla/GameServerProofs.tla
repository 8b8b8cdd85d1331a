-------------------------- MODULE GameServerProofs --------------------------
(***************************************************************************)
(* What TLAPS proves of GameServer, for any number of peers, entities and  *)
(* players.                                                                *)
(***************************************************************************)
EXTENDS GameServer, FiniteSetTheorems, SequenceTheorems, TLAPS

-----------------------------------------------------------------------------
(* Every proof is about the server without the bound MaxOutbox on its links, *)
(* so that it holds as well where something else sets the pace.              *)

ServerStep ==
  \E p \in Peer : \/ Connect(p)
                  \/ LinkDown(p)
                  \/ Disconnect(p)
                  \/ Deliver(p)
                  \/ \E pkt \in ClientPacket : PacketHandler(p, pkt)

UnboundedSpec == Init /\ [][ServerStep]_vars

LEMMA SpecIsUnbounded == Spec => UnboundedSpec
<1>1. [Next]_vars => [ServerStep]_vars
  BY DEF Next, Receive, ServerStep
<1> QED  BY <1>1, PTL DEF Spec, UnboundedSpec

-----------------------------------------------------------------------------
(* Packets and links *)

\* Broadcasts are packets for everybody but the sender, if the packet is one.
LEMMA BroadcastType ==
  ASSUME NEW p, NEW pkt \in Packet
  PROVE  BroadcastExceptSender(p, pkt) \in [Peer -> Seq(Packet)]
BY DEF BroadcastExceptSender

\* Sending keeps the links lists of packets.
LEMMA SendType ==
  ASSUME TypeOK, NEW out \in [Peer -> Seq(Packet)], Send(out)
  PROVE  outbox' \in [Peer -> Seq(Packet)]
<1> SUFFICES ASSUME NEW q \in Peer
             PROVE  (IF link[q] = "open" THEN outbox[q] \o out[q] ELSE outbox[q])
                       \in Seq(Packet)
  BY DEF Send
<1> outbox[q] \in Seq(Packet) /\ out[q] \in Seq(Packet)
  BY DEF TypeOK
<1> QED  OBVIOUS

\* The lists a newcomer is sent hold what they are made of.
LEMMA ListType ==
  ASSUME NEW S, IsFiniteSet(S), NEW s \in SetToSeqs(S)
  PROVE  /\ Len(s) \in Nat
         /\ \A i \in 1 .. Len(s) : s[i] \in S
<1>1. Cardinality(S) \in Nat
  BY FS_CardinalityType
<1>2. s \in [1 .. Cardinality(S) -> S]
  BY DEF SetToSeqs
<1>3. s \in Seq(S) /\ Len(s) = Cardinality(S)
  BY <1>1, <1>2
<1> QED  BY <1>1, <1>2, <1>3

\* The introduction of a newcomer is a list of packets.
LEMMA IntroductionType ==
  ASSUME NEW g \in Guid, NEW b \in BOOLEAN, highestEntityGuid \in EntityGuid \cup {0},
         NEW S, IsFiniteSet(S), S \subseteq Guid, NEW players \in SetToSeqs(S),
         NEW E, IsFiniteSet(E), E \subseteq EntityGuid, NEW spawned \in SetToSeqs(E)
  PROVE  Introduction(g, b, players, spawned) \in Seq(Packet)
<1> DEFINE first == <<[id |-> "WELCOME", guid |-> g, isMasterClient |-> b,
                       highestEntityGuid |-> highestEntityGuid],
                      [id |-> "CREATE_PLAYER", guid |-> g]>>
           others == [i \in 1 .. Len(players) |->
                        [id |-> "CREATE_PLAYER", guid |-> players[i]]]
           things == [i \in 1 .. Len(spawned) |->
                        [id |-> "SPAWN_ENTITY", guid |-> spawned[i]]]
<1>1. first \in Seq(Packet)
  <2>1. [id |-> "WELCOME", guid |-> g, isMasterClient |-> b,
         highestEntityGuid |-> highestEntityGuid] \in Packet
    BY DEF Packet
  <2>2. [id |-> "CREATE_PLAYER", guid |-> g] \in Packet
    BY DEF Packet
  <2> QED  BY <2>1, <2>2
<1>2. others \in Seq(Packet)
  <2>1. Len(players) \in Nat /\ \A i \in 1 .. Len(players) : players[i] \in S
    BY ListType
  <2>2. \A i \in 1 .. Len(players) : [id |-> "CREATE_PLAYER", guid |-> players[i]] \in Packet
    BY <2>1 DEF Packet
  <2> QED  BY <2>1, <2>2
<1>3. things \in Seq(Packet)
  <2>1. Len(spawned) \in Nat /\ \A i \in 1 .. Len(spawned) : spawned[i] \in E
    BY ListType
  <2>2. \A i \in 1 .. Len(spawned) : [id |-> "SPAWN_ENTITY", guid |-> spawned[i]] \in Packet
    BY <2>1 DEF Packet
  <2> QED  BY <2>1, <2>2
<1>4. Introduction(g, b, players, spawned) = first \o others \o things
  BY DEF Introduction
<1> HIDE DEF first, others, things
<1> QED  BY <1>1, <1>2, <1>3, <1>4

\* The packets of an arriving client packet are in range.
LEMMA ClientPacketType ==
  ASSUME NEW pkt \in ClientPacket
  PROVE  /\ pkt.id \in {"SPAWN_ENTITY", "DESTROY_ENTITY"} \cup EntityUpdateId
              => pkt.guid \in EntityGuid
         /\ pkt.id = "HELLO" => pkt.hello \in Hello
BY DEF ClientPacket, EntityUpdateId, PlayerPacketId

\* The sets the server lists are finite.
LEMMA RoomIsFinite ==
  ASSUME TypeOK
  PROVE  /\ Joined \subseteq Peer
         /\ Members \subseteq Guid /\ IsFiniteSet(Members)
         /\ IsFiniteSet(entities)
<1>1. Joined \subseteq Peer
  BY DEF Joined
<1>2. Members \subseteq Guid
  BY DEF Members, Joined, TypeOK
<1>3. IsFiniteSet(Guid)
  BY BoundAssumption, FS_Interval DEF Guid
<1>4. IsFiniteSet(Members)
  BY <1>2, <1>3, FS_Subset
<1>5. IsFiniteSet(entities)
  BY EntityGuidAssumption, FS_Subset DEF TypeOK
<1> QED  BY <1>1, <1>2, <1>4, <1>5

-----------------------------------------------------------------------------
(* Type correctness *)

\* A leaver's news, to those who stay and to the heir.
LEMMA LeaveType ==
  ASSUME TypeOK, NEW p \in Peer, NEW heirs
  PROVE  [q \in Peer |->
            HandleDestroyPlayer(p)[q]
              \o IF q \in heirs THEN <<[id |-> "SET_MASTER_CLIENT"]>> ELSE <<>>]
         \in [Peer -> Seq(Packet)]
<1>1. HandleDestroyPlayer(p) \in [Peer -> Seq(Packet)]
  <2>1. CASE clientOf[p] = NoClient
    BY <2>1 DEF HandleDestroyPlayer
  <2>2. CASE clientOf[p] # NoClient
    <3>1. [id |-> "DESTROY_PLAYER", guid |-> clientOf[p]] \in Packet
      BY <2>2 DEF TypeOK, Packet
    <3> QED  BY <2>2, <3>1, BroadcastType DEF HandleDestroyPlayer
  <2> QED  BY <2>1, <2>2
<1>2. [id |-> "SET_MASTER_CLIENT"] \in Packet
  BY DEF Packet
<1>3. ASSUME NEW q \in Peer
      PROVE  HandleDestroyPlayer(p)[q]
               \o (IF q \in heirs THEN <<[id |-> "SET_MASTER_CLIENT"]>> ELSE <<>>)
             \in Seq(Packet)
  BY <1>1, <1>2
<1> QED  BY <1>3

LEMMA InitType == Init => TypeOK
BY BoundAssumption DEF Init, TypeOK, NoClient

\* handleDisconnect keeps the types.
LEMMA HandleDisconnectType ==
  ASSUME TypeOK, NEW p \in Peer, link' \in [Peer -> {"free", "open", "closing"}],
         HandleDisconnect(p)
  PROVE  TypeOK'
<1> PICK heirs \in Successors(p) :
       /\ masters' = (masters \ {clientOf[p]}) \cup {clients[q] : q \in heirs}
       /\ Send([q \in Peer |->
            HandleDestroyPlayer(p)[q]
              \o IF q \in heirs THEN <<[id |-> "SET_MASTER_CLIENT"]>> ELSE <<>>])
  BY DEF HandleDisconnect
<1>1. outbox' \in [Peer -> Seq(Packet)]
  BY LeaveType, SendType
<1>2. masters' \subseteq Guid
  BY DEF Successors, Joined, TypeOK
<1>3. entities' \subseteq EntityGuid /\ highestEntityGuid' \in EntityGuid \cup {0}
  BY DEF HandleDisconnect, ResetEmptyRoom, world, TypeOK
<1>4. clients' \in [Peer -> Guid \cup {NoClient}]
  BY DEF HandleDisconnect, ForgetClient, TypeOK
<1> QED  BY <1>1, <1>2, <1>3, <1>4 DEF HandleDisconnect, TypeOK

\* So does the admission of a player.
LEMMA AcceptHelloType ==
  ASSUME TypeOK, NEW p \in Peer, NEW hello, AcceptHello(p, hello)
  PROVE  TypeOK'
<1>1. NewGuid \in Guid /\ connectionCount' \in 0 .. MaxClients
  BY BoundAssumption DEF AcceptHello, NewGuid, Guid, TypeOK
<1> PICK players \in SetToSeqs(Members), spawned \in SetToSeqs(entities) :
       Send([q \in Peer |->
         IF q = p
           THEN Introduction(NewGuid, Joined = {}, players, spawned)
           ELSE BroadcastExceptSender(p, [id |-> "CREATE_PLAYER", guid |-> NewGuid])[q]])
  BY DEF AcceptHello, Members
<1>2. Introduction(NewGuid, Joined = {}, players, spawned) \in Seq(Packet)
  BY <1>1, RoomIsFinite, IntroductionType DEF TypeOK
<1>3. BroadcastExceptSender(p, [id |-> "CREATE_PLAYER", guid |-> NewGuid])
        \in [Peer -> Seq(Packet)]
  <2>1. [id |-> "CREATE_PLAYER", guid |-> NewGuid] \in Packet
    BY <1>1 DEF Packet
  <2> QED  BY <2>1, BroadcastType
<1>4. outbox' \in [Peer -> Seq(Packet)]
  BY <1>2, <1>3, SendType
<1> QED  BY <1>1, <1>4 DEF AcceptHello, world, TypeOK

\* The relaying handlers touch the links only.
LEMMA RelayType ==
  ASSUME TypeOK, NEW p \in Peer, NEW pkt \in Packet, UNCHANGED <<link, room>>,
         Send(BroadcastExceptSender(p, pkt)),
         entities' \subseteq EntityGuid, highestEntityGuid' \in EntityGuid \cup {0}
  PROVE  TypeOK'
<1>1. outbox' \in [Peer -> Seq(Packet)]
  BY BroadcastType, SendType
<1> QED  BY <1>1 DEF room, TypeOK

LEMMA NextType == TypeOK /\ [ServerStep]_vars => TypeOK'
<1> SUFFICES ASSUME TypeOK, [ServerStep]_vars PROVE TypeOK'
  OBVIOUS
<1>1. CASE UNCHANGED vars
  BY <1>1 DEF vars, room, world, TypeOK
<1>2. ASSUME NEW p \in Peer, Connect(p) PROVE TypeOK'
  BY <1>2 DEF Connect, world, TypeOK
<1>3. ASSUME NEW p \in Peer, LinkDown(p) PROVE TypeOK'
  BY <1>3 DEF LinkDown, room, world, TypeOK
<1>4. ASSUME NEW p \in Peer, Disconnect(p) PROVE TypeOK'
  <2>1. link' \in [Peer -> {"free", "open", "closing"}]
    BY <1>4 DEF Disconnect, TypeOK
  <2>2. CASE HandleDisconnect(p)
    BY <2>1, <2>2, HandleDisconnectType
  <2>3. CASE UNCHANGED <<room, world, outbox>>
    BY <2>1, <2>3 DEF room, world, TypeOK
  <2> QED  BY <1>4, <2>2, <2>3 DEF Disconnect
<1>5. ASSUME NEW p \in Peer, Deliver(p) PROVE TypeOK'
  <2>1. Tail(outbox[p]) \in Seq(Packet)
    BY <1>5 DEF Deliver, TypeOK
  <2> QED  BY <1>5, <2>1 DEF Deliver, room, world, TypeOK
<1>6. ASSUME NEW p \in Peer, NEW pkt \in ClientPacket, PacketHandler(p, pkt) PROVE TypeOK'
  <2>1. ASSUME NEW hello, RejectHello(p, hello) PROVE TypeOK'
    BY <2>1 DEF RejectHello, room, world, TypeOK
  <2>2. ASSUME NEW hello, AcceptHello(p, hello) PROVE TypeOK'
    BY <2>2, AcceptHelloType
  <2>3. CASE HandlePing(p)
    <3>1. [id |-> "PONG"] \in Packet
      BY DEF Packet
    <3>2. To(p, <<[id |-> "PONG"]>>) \in [Peer -> Seq(Packet)]
      BY <3>1 DEF To
    <3>3. outbox' \in [Peer -> Seq(Packet)]
      BY <2>3, <3>2, SendType DEF HandlePing
    <3> QED  BY <2>3, <3>3 DEF HandlePing, room, world, TypeOK
  <2>4. ASSUME pkt.id \in PlayerPacketId, HandlePlayerPacket(p, pkt.id) PROVE TypeOK'
    <3>1. [id |-> pkt.id, guid |-> clientOf[p]] \in Packet
      BY <2>4 DEF HandlePlayerPacket, Authorized, Packet, TypeOK
    <3> QED  BY <2>4, <3>1, RelayType DEF HandlePlayerPacket, world, TypeOK
  <2>5. ASSUME pkt.guid \in EntityGuid, HandleSpawnEntity(p, pkt.guid) PROVE TypeOK'
    <3>1. [id |-> "SPAWN_ENTITY", guid |-> pkt.guid] \in Packet
      BY <2>5 DEF Packet
    <3> QED  BY <2>5, <3>1, RelayType DEF HandleSpawnEntity, Highest, TypeOK
  <2>6. ASSUME pkt.guid \in EntityGuid, HandleDestroyEntity(p, pkt.guid) PROVE TypeOK'
    <3>1. [id |-> "DESTROY_ENTITY", guid |-> pkt.guid] \in Packet
      BY <2>6 DEF Packet
    <3> QED  BY <2>6, <3>1, RelayType DEF HandleDestroyEntity, room, TypeOK
  <2>7. ASSUME pkt.guid \in EntityGuid, pkt.id \in EntityUpdateId,
               HandleEntityUpdate(p, pkt.id, pkt.guid)
        PROVE  TypeOK'
    <3>1. [id |-> pkt.id, guid |-> pkt.guid] \in Packet
      BY <2>7 DEF Packet
    <3> QED  BY <2>7, <3>1, RelayType DEF HandleEntityUpdate, world, TypeOK
  <2> QED  BY <1>6, <2>1, <2>2, <2>3, <2>4, <2>5, <2>6, <2>7, ClientPacketType
           DEF PacketHandler
<1> QED  BY <1>1, <1>2, <1>3, <1>4, <1>5, <1>6 DEF ServerStep

\* Every variable keeps its type, and every link holds packets: no handler sends
\* a guid that no client or entity can have.
THEOREM TypeCorrect == Spec => []TypeOK
BY InitType, NextType, SpecIsUnbounded, PTL DEF UnboundedSpec

-----------------------------------------------------------------------------
(* The inductive invariant: none of its parts is inductive without MapsAgree, *)
(* and the parts about the world need the parts about the room.               *)

RoomSafety == MapsAgree /\ OneMaster
Safety == TypeOK /\ RoomSafety /\ WorldSafety

LEMMA InitSafety == Init => RoomSafety /\ WorldSafety
BY DEF Init, RoomSafety, WorldSafety, MapsAgree, OneMaster, EmptyRoomIsReset,
       EntitiesBounded, Joined, NoClient

\* A step that leaves the room alone, and frees no slot of a client, keeps what is
\* said about the room.
LEMMA RoomUnchanged ==
  ASSUME TypeOK, RoomSafety, UNCHANGED room,
         \A q \in Joined : link'[q] # "free"
  PROVE  RoomSafety' /\ Joined' = Joined
<1>1. Joined' = Joined
  BY DEF Joined, room
<1>2. MapsAgree'
  BY <1>1 DEF RoomSafety, MapsAgree, room
<1>3. OneMaster'
  BY <1>1 DEF RoomSafety, OneMaster, room
<1> QED  BY <1>1, <1>2, <1>3 DEF RoomSafety

\* With the world left alone as well nothing is disturbed.
LEMMA NothingChanged ==
  ASSUME Safety, UNCHANGED <<room, world>>,
         \A q \in Joined : link'[q] # "free"
  PROVE  RoomSafety' /\ WorldSafety'
<1>1. RoomSafety' /\ Joined' = Joined
  BY RoomUnchanged DEF Safety
<1>2. EmptyRoomIsReset'
  BY <1>1 DEF Safety, WorldSafety, EmptyRoomIsReset, world
<1>3. EntitiesBounded'
  BY DEF Safety, WorldSafety, EntitiesBounded, world
<1> QED  BY <1>1, <1>2, <1>3 DEF WorldSafety

LEMMA ConnectSafety ==
  ASSUME Safety, NEW p \in Peer, Connect(p)
  PROVE  RoomSafety' /\ WorldSafety'
<1>1. Joined' = Joined /\ p \notin Joined
  BY DEF Connect, Joined, Safety, RoomSafety, MapsAgree
<1>2. MapsAgree'
  BY <1>1 DEF Connect, Safety, TypeOK, RoomSafety, MapsAgree, Joined
<1>3. OneMaster' /\ EmptyRoomIsReset' /\ EntitiesBounded'
  BY <1>1 DEF Connect, world, Safety, RoomSafety, OneMaster, WorldSafety,
              EmptyRoomIsReset, EntitiesBounded
<1> QED  BY <1>2, <1>3 DEF RoomSafety, WorldSafety

\* A player that is admitted gets a number that nobody has, and is the master
\* exactly when it is alone.
LEMMA AcceptHelloSafety ==
  ASSUME Safety, NEW p \in Peer, NEW hello, AcceptHello(p, hello)
  PROVE  /\ RoomSafety' /\ WorldSafety'
         /\ Joined' = Joined \cup {p} /\ p \notin Joined
<1>1. p \notin Joined /\ p \in connections /\ link[p] = "open"
  BY DEF AcceptHello, Anonymous, Joined, Safety, RoomSafety, MapsAgree
<1>2. NewGuid \in Nat \ {NoClient} /\ NewGuid = connectionCount + 1
  BY DEF NewGuid, NoClient, Safety, TypeOK
<1>3. Joined' = Joined \cup {p}
  BY <1>2 DEF AcceptHello, Joined, Safety, TypeOK
<1>4. \A q \in Joined : clients'[q] = clients[q] /\ clients[q] < NewGuid
  <2>1. \A q \in Joined : clients[q] \in Nat /\ clients[q] <= connectionCount
    BY DEF Joined, Safety, TypeOK, RoomSafety, MapsAgree, Guid
  <2>2. connectionCount \in Nat
    BY DEF Safety, TypeOK
  <2> QED  BY <1>1, <1>2, <2>1, <2>2 DEF AcceptHello, Joined, Safety, TypeOK
<1>5. clients'[p] = NewGuid
  BY DEF AcceptHello, Safety, TypeOK
<1>6. MapsAgree'
  <2>1. \A q \in Peer :
          clients'[q] = IF q \in connections' THEN clientOf'[q] ELSE NoClient
    BY <1>1 DEF AcceptHello, Safety, TypeOK, RoomSafety, MapsAgree
  <2>2. \A q \in Joined' : link'[q] # "free"
    BY <1>1, <1>3 DEF AcceptHello, Safety, RoomSafety, MapsAgree
  <2>3. \A q \in Joined' : clients'[q] <= connectionCount'
    <3>1. connectionCount' = NewGuid /\ NewGuid <= NewGuid
      BY <1>2 DEF AcceptHello
    <3>2. \A q \in Joined : clients[q] \in Nat
      BY DEF Joined, Safety, TypeOK, Guid
    <3> QED  BY <1>2, <1>3, <1>4, <1>5, <3>1, <3>2
  <2>4. \A q, r \in Joined' : clients'[q] = clients'[r] => q = r
    <3>1. \A q \in Joined : clients[q] # NewGuid
      <4>1. \A q \in Joined : clients[q] \in Nat
        BY DEF Joined, Safety, TypeOK, Guid
      <4> QED  BY <1>2, <1>4, <4>1
    <3> QED  BY <1>3, <1>4, <1>5, <3>1 DEF Safety, RoomSafety, MapsAgree
  <2> QED  BY <2>1, <2>2, <2>3, <2>4 DEF MapsAgree
<1>7. OneMaster'
  BY <1>3, <1>4, <1>5 DEF AcceptHello, Safety, RoomSafety, OneMaster
<1>8. EmptyRoomIsReset' /\ EntitiesBounded'
  BY <1>3 DEF AcceptHello, world, Safety, WorldSafety, EmptyRoomIsReset, EntitiesBounded
<1> QED  BY <1>1, <1>3, <1>6, <1>7, <1>8 DEF RoomSafety, WorldSafety

\* What handleDisconnect does to the room, whoever inherits.
LEMMA HandleDisconnectRoom ==
  ASSUME Safety, NEW p \in Peer, HandleDisconnect(p)
  PROVE  /\ Joined' = Joined \ {p}
         /\ \A q \in Joined \ {p} : clients'[q] = clients[q]
         /\ clientOf[p] = clients[p]
         /\ \E heirs \in Successors(p) :
              masters' = (masters \ {clients[p]}) \cup {clients[q] : q \in heirs}
<1>1. clientOf[p] = clients[p]
  BY DEF HandleDisconnect, Safety, RoomSafety, MapsAgree
<1>2. clients' = [clients EXCEPT ![p] = NoClient]
  <2>1. clientOf[p] = NoClient => clients = [clients EXCEPT ![p] = NoClient]
    BY <1>1 DEF Safety, TypeOK
  <2> QED  BY <2>1 DEF HandleDisconnect, ForgetClient
<1>3. Joined' = Joined \ {p}
  BY <1>2 DEF Joined, Safety, TypeOK
<1>4. \A q \in Joined \ {p} : clients'[q] = clients[q]
  BY <1>2 DEF Joined, Safety, TypeOK
<1> QED  BY <1>1, <1>3, <1>4 DEF HandleDisconnect

\* After a client left exactly one of those who stay is the master, if any stays.
LEMMA LeaveOneMaster ==
  ASSUME Safety, NEW p \in Peer, HandleDisconnect(p)
  PROVE  OneMaster'
<1>1. /\ Joined' = Joined \ {p}
      /\ \A q \in Joined \ {p} : clients'[q] = clients[q]
      /\ clientOf[p] = clients[p]
  BY HandleDisconnectRoom
<1>2. PICK heirs \in Successors(p) :
        masters' = (masters \ {clients[p]}) \cup {clients[q] : q \in heirs}
  BY HandleDisconnectRoom
<1>3. \A q, r \in Joined : clients[q] = clients[r] => q = r
  BY DEF Safety, RoomSafety, MapsAgree
<1>4. CASE Joined = {}
  <2>1. masters = {} /\ heirs = {}
    BY <1>4 DEF Successors, Safety, RoomSafety, OneMaster
  <2> QED  BY <1>1, <1>2, <1>4, <2>1 DEF OneMaster
<1>5. CASE Joined # {}
  <2>1. PICK m \in Joined : masters = {clients[m]}
    BY <1>5 DEF Safety, RoomSafety, OneMaster
  <2>2. CASE p = m /\ Joined \ {p} # {}
    <3>1. PICK q \in Joined \ {p} : heirs = {q}
      BY <1>1, <2>1, <2>2 DEF Successors
    <3>2. masters' = {clients[q]}
      BY <1>2, <2>1, <2>2, <3>1
    <3> QED  BY <1>1, <3>1, <3>2 DEF OneMaster
  <2>3. CASE p = m /\ Joined \ {p} = {}
    <3>1. heirs = {}
      BY <2>3 DEF Successors
    <3> QED  BY <1>1, <1>2, <2>1, <2>3, <3>1 DEF OneMaster
  <2>4. CASE p # m
    <3>1. clients[p] # clients[m]
      BY <1>3, <2>1, <2>4 DEF Joined
    <3>2. heirs = {}
      BY <1>1, <2>1, <3>1 DEF Successors
    <3> QED  BY <1>1, <1>2, <2>1, <2>4, <3>1, <3>2 DEF OneMaster
  <2> QED  BY <2>2, <2>3, <2>4
<1> QED  BY <1>4, <1>5

LEMMA DisconnectSafety ==
  ASSUME Safety, NEW p \in Peer, Disconnect(p)
  PROVE  RoomSafety' /\ WorldSafety'
<1>1. \A q \in Peer \ {p} : link'[q] = link[q]
  BY DEF Disconnect, Safety, TypeOK
<1>2. CASE p \notin connections
  <2>1. p \notin Joined
    BY <1>2 DEF Joined, Safety, RoomSafety, MapsAgree
  <2>2. \A q \in Joined : link'[q] # "free"
    BY <1>1, <2>1 DEF Joined, Safety, RoomSafety, MapsAgree
  <2> QED  BY <1>2, <2>2, NothingChanged DEF Disconnect
<1>3. CASE p \in connections
  <2>1. HandleDisconnect(p)
    BY <1>3 DEF Disconnect
  <2>2. /\ Joined' = Joined \ {p}
        /\ \A q \in Joined \ {p} : clients'[q] = clients[q]
        /\ clientOf[p] = clients[p]
    BY <2>1, HandleDisconnectRoom
  <2>3. MapsAgree'
    <3>1. \A q \in Peer :
            clients'[q] = IF q \in connections' THEN clientOf'[q] ELSE NoClient
      <4>1. clients'[p] = NoClient /\ p \notin connections'
        BY <2>1, <2>2 DEF HandleDisconnect, Joined
      <4>2. \A q \in Peer \ {p} :
              /\ clients'[q] = clients[q] /\ clientOf'[q] = clientOf[q]
              /\ q \in connections' <=> q \in connections
        BY <2>1 DEF HandleDisconnect, ForgetClient, Safety, TypeOK
      <4> QED  BY <4>1, <4>2 DEF Safety, RoomSafety, MapsAgree
    <3>2. \A q \in Joined' : link'[q] # "free"
      BY <1>1, <2>2 DEF Safety, RoomSafety, MapsAgree, Joined
    <3>3. \A q \in Joined' : clients'[q] <= connectionCount'
      BY <2>1, <2>2 DEF HandleDisconnect, Safety, RoomSafety, MapsAgree
    <3>4. \A q, r \in Joined' : clients'[q] = clients'[r] => q = r
      BY <2>2 DEF Safety, RoomSafety, MapsAgree
    <3> QED  BY <3>1, <3>2, <3>3, <3>4 DEF MapsAgree
  <2>4. OneMaster'
    BY <2>1, LeaveOneMaster
  <2>5. EmptyRoomIsReset'
    BY <2>1 DEF HandleDisconnect, ResetEmptyRoom, EmptyRoomIsReset, Joined
  <2>6. EntitiesBounded'
    BY <2>1 DEF HandleDisconnect, ResetEmptyRoom, world, EntitiesBounded,
                Safety, WorldSafety
  <2> QED  BY <2>3, <2>4, <2>5, <2>6 DEF RoomSafety, WorldSafety
<1> QED  BY <1>2, <1>3

\* The master client's changes to the world stay below the highest guid, and are
\* made in a room that is not empty.
LEMMA HandleSpawnEntitySafety ==
  ASSUME Safety, NEW p \in Peer, NEW e \in EntityGuid, HandleSpawnEntity(p, e)
  PROVE  RoomSafety' /\ WorldSafety'
<1>1. RoomSafety' /\ Joined' = Joined
  <2>1. \A q \in Joined : link'[q] # "free"
    BY DEF HandleSpawnEntity, Safety, RoomSafety, MapsAgree
  <2> QED  BY <2>1, RoomUnchanged DEF HandleSpawnEntity, Safety
<1>2. Joined # {}
  BY DEF HandleSpawnEntity, FromMaster, Authorized, Joined, Safety, RoomSafety, MapsAgree
<1>3. EntitiesBounded'
  <2>1. e \in Nat /\ entities \subseteq Nat /\ highestEntityGuid \in Nat
    BY EntityGuidAssumption DEF Safety, TypeOK
  <2> QED  BY <2>1 DEF HandleSpawnEntity, Highest, EntitiesBounded, Safety, WorldSafety
<1> QED  BY <1>1, <1>2, <1>3 DEF EmptyRoomIsReset, WorldSafety

LEMMA HandleDestroyEntitySafety ==
  ASSUME Safety, NEW p \in Peer, NEW e \in EntityGuid, HandleDestroyEntity(p, e)
  PROVE  RoomSafety' /\ WorldSafety'
<1>1. RoomSafety' /\ Joined' = Joined
  <2>1. \A q \in Joined : link'[q] # "free"
    BY DEF HandleDestroyEntity, Safety, RoomSafety, MapsAgree
  <2> QED  BY <2>1, RoomUnchanged DEF HandleDestroyEntity, Safety
<1>2. EntitiesBounded' /\ EmptyRoomIsReset'
  BY <1>1 DEF HandleDestroyEntity, EntitiesBounded, EmptyRoomIsReset, Safety, WorldSafety
<1> QED  BY <1>1, <1>2 DEF WorldSafety

LEMMA NextSafety == Safety /\ [ServerStep]_vars => RoomSafety' /\ WorldSafety'
<1> SUFFICES ASSUME Safety, [ServerStep]_vars PROVE RoomSafety' /\ WorldSafety'
  OBVIOUS
<1>0. \A q \in Joined : link[q] # "free"
  BY DEF Safety, RoomSafety, MapsAgree
<1>1. CASE UNCHANGED vars
  BY <1>0, <1>1, NothingChanged DEF vars
<1>2. ASSUME NEW p \in Peer, Connect(p) PROVE RoomSafety' /\ WorldSafety'
  BY <1>2, ConnectSafety
<1>3. ASSUME NEW p \in Peer, LinkDown(p) PROVE RoomSafety' /\ WorldSafety'
  <2>1. \A q \in Joined : link'[q] # "free"
    BY <1>0, <1>3 DEF LinkDown, Joined, Safety, TypeOK
  <2> QED  BY <1>3, <2>1, NothingChanged DEF LinkDown
<1>4. ASSUME NEW p \in Peer, Disconnect(p) PROVE RoomSafety' /\ WorldSafety'
  BY <1>4, DisconnectSafety
<1>5. ASSUME NEW p \in Peer, Deliver(p) PROVE RoomSafety' /\ WorldSafety'
  BY <1>0, <1>5, NothingChanged DEF Deliver
<1>6. ASSUME NEW p \in Peer, NEW pkt \in ClientPacket, PacketHandler(p, pkt)
      PROVE  RoomSafety' /\ WorldSafety'
  <2>1. ASSUME NEW hello, RejectHello(p, hello) PROVE RoomSafety' /\ WorldSafety'
    <3>1. p \notin Joined
      BY <2>1 DEF RejectHello, Anonymous, Joined, Safety, RoomSafety, MapsAgree
    <3>2. \A q \in Joined : link'[q] # "free"
      BY <1>0, <2>1, <3>1 DEF RejectHello, Joined, Safety, TypeOK
    <3> QED  BY <2>1, <3>2, NothingChanged DEF RejectHello
  <2>2. ASSUME NEW hello, AcceptHello(p, hello) PROVE RoomSafety' /\ WorldSafety'
    BY <2>2, AcceptHelloSafety
  <2>3. CASE HandlePing(p)
    BY <1>0, <2>3, NothingChanged DEF HandlePing
  <2>4. CASE HandlePlayerPacket(p, pkt.id)
    BY <1>0, <2>4, NothingChanged DEF HandlePlayerPacket
  <2>5. ASSUME pkt.guid \in EntityGuid, HandleSpawnEntity(p, pkt.guid)
        PROVE  RoomSafety' /\ WorldSafety'
    BY <2>5, HandleSpawnEntitySafety
  <2>6. ASSUME pkt.guid \in EntityGuid, HandleDestroyEntity(p, pkt.guid)
        PROVE  RoomSafety' /\ WorldSafety'
    BY <2>6, HandleDestroyEntitySafety
  <2>7. CASE HandleEntityUpdate(p, pkt.id, pkt.guid)
    BY <1>0, <2>7, NothingChanged DEF HandleEntityUpdate
  <2> QED  BY <1>6, <2>1, <2>2, <2>3, <2>4, <2>5, <2>6, <2>7, ClientPacketType
           DEF PacketHandler
<1> QED  BY <1>1, <1>2, <1>3, <1>4, <1>5, <1>6 DEF ServerStep

LEMMA UnboundedSafe == UnboundedSpec => []Safety
<1>1. Init => Safety
  BY InitType, InitSafety DEF Safety
<1>2. Safety /\ [ServerStep]_vars => Safety'
  BY NextType, NextSafety DEF Safety
<1> QED  BY <1>1, <1>2, PTL DEF UnboundedSpec

\* The inductive invariant holds of every execution.
THEOREM Safe == Spec => []Safety
BY UnboundedSafe, SpecIsUnbounded, PTL

\* Server.Clients and Server.Connections agree after every event, although Connect
\* overwrites one without the other and DisconnectNow skips handleDisconnect.
THEOREM RosterIsConsistent == Spec => []MapsAgree
<1>1. Safety => MapsAgree
  BY DEF Safety, RoomSafety
<1> QED  BY <1>1, Safe, PTL

\* A room with players has one master client, however many of them leave at once
\* and whichever of them HandleNewMasterClient finds first.
THEOREM OneMasterAlways == Spec => []OneMaster
<1>1. Safety => OneMaster
  BY DEF Safety, RoomSafety
<1> QED  BY <1>1, Safe, PTL

\* No entity survives the last player of a room, and the guid in WELCOME is never below
\* that of an entity that is kept.
THEOREM WorldIsSafe == Spec => []WorldSafety
<1>1. Safety => WorldSafety
  BY DEF Safety
<1> QED  BY <1>1, Safe, PTL

-----------------------------------------------------------------------------
(* Mastership moves only when the master leaves *)

\* What handleDisconnect does to the masters: nothing unless the leaver is one, and
\* then the leaver was the only one.
LEMMA HandleDisconnectMasters ==
  ASSUME Safety, NEW p \in Peer, HandleDisconnect(p)
  PROVE  \/ clients[p] \notin masters /\ masters' = masters
         \/ /\ p \in Joined /\ masters = {clients[p]}
            /\ \/ Joined = {p} /\ masters' = {}
               \/ \E q \in Joined \ {p} : masters' = {clients[q]}
<1>1. PICK heirs \in Successors(p) :
        masters' = (masters \ {clients[p]}) \cup {clients[q] : q \in heirs}
  BY HandleDisconnectRoom
<1>2. clientOf[p] = clients[p]
  BY HandleDisconnectRoom
<1>3. CASE clients[p] \notin masters
  <2>1. heirs = {}
    BY <1>2, <1>3 DEF Successors
  <2> QED  BY <1>1, <1>3, <2>1
<1>4. CASE clients[p] \in masters
  <2>1. p \in Joined
    BY <1>4 DEF Joined, NoClient, Guid, Safety, TypeOK
  <2>2. masters = {clients[p]}
    BY <1>4, <2>1 DEF Safety, RoomSafety, OneMaster
  <2>3. CASE Joined \ {p} = {}
    <3>1. heirs = {} /\ Joined = {p}
      BY <2>1, <2>3 DEF Successors
    <3> QED  BY <1>1, <2>1, <2>2, <3>1
  <2>4. CASE Joined \ {p} # {}
    <3>1. PICK q \in Joined \ {p} : heirs = {q}
      BY <1>2, <1>4, <2>4 DEF Successors
    <3>2. masters' = {clients[q]}
      BY <1>1, <2>2, <3>1
    <3> QED  BY <2>1, <2>2, <3>2
  <2> QED  BY <2>3, <2>4
<1> QED  BY <1>3, <1>4

\* Steps other than the admission and the loss of a client leave the room's
\* members, its masters and its numbering alone.
Unaffected == UNCHANGED <<clients, masters, connectionCount>>

LEMMA StepCases ==
  ASSUME Safety, [ServerStep]_vars
  PROVE  \/ Unaffected /\ UNCHANGED entities
         \/ \E p \in Peer : HandleDisconnect(p)
         \/ \E p \in Peer : \E hello \in Hello : AcceptHello(p, hello)
         \/ \E p \in Peer, e \in EntityGuid :
              Unaffected /\ (HandleSpawnEntity(p, e) \/ HandleDestroyEntity(p, e))
<1>1. CASE UNCHANGED vars
  BY <1>1 DEF vars, room, world, Unaffected
<1>2. ASSUME NEW p \in Peer, Connect(p) \/ LinkDown(p) \/ Deliver(p)
      PROVE  Unaffected /\ UNCHANGED entities
  BY <1>2 DEF Connect, LinkDown, Deliver, room, world, Unaffected
<1>3. ASSUME NEW p \in Peer, Disconnect(p)
      PROVE  HandleDisconnect(p) \/ (Unaffected /\ UNCHANGED entities)
  BY <1>3 DEF Disconnect, room, world, Unaffected
<1>4. ASSUME NEW p \in Peer, NEW pkt \in ClientPacket, PacketHandler(p, pkt)
      PROVE  \/ Unaffected /\ UNCHANGED entities
             \/ \E hello \in Hello : AcceptHello(p, hello)
             \/ \E e \in EntityGuid :
                  Unaffected /\ (HandleSpawnEntity(p, e) \/ HandleDestroyEntity(p, e))
  <2>1. ASSUME NEW hello, RejectHello(p, hello)
        PROVE  Unaffected /\ UNCHANGED entities
    BY <2>1 DEF RejectHello, room, world, Unaffected
  <2>2. CASE HandlePing(p) \/ HandlePlayerPacket(p, pkt.id)
               \/ HandleEntityUpdate(p, pkt.id, pkt.guid)
    BY <2>2 DEF HandlePing, HandlePlayerPacket, HandleEntityUpdate, room, world, Unaffected
  <2>3. ASSUME pkt.guid \in EntityGuid,
               HandleSpawnEntity(p, pkt.guid) \/ HandleDestroyEntity(p, pkt.guid)
        PROVE  \E e \in EntityGuid :
                 Unaffected /\ (HandleSpawnEntity(p, e) \/ HandleDestroyEntity(p, e))
    <3>1. Unaffected
      BY <2>3 DEF HandleSpawnEntity, HandleDestroyEntity, room, Unaffected
    <3> QED  BY <2>3, <3>1
  <2> QED  BY <1>4, <2>1, <2>2, <2>3, ClientPacketType DEF PacketHandler
<1> QED  BY <1>1, <1>2, <1>3, <1>4 DEF ServerStep

LEMMA UnboundedMasterStays == UnboundedSpec => MasterStays
<1>1. ASSUME Safety, [ServerStep]_vars, NEW p \in Peer,
             clients[p] \in masters, clients'[p] = clients[p]
      PROVE  masters' = masters
  <2>1. p \in Joined
    BY <1>1 DEF Joined, NoClient, Guid, Safety, TypeOK
  <2>2. ASSUME NEW q \in Peer, HandleDisconnect(q) PROVE masters' = masters
    <3>1. CASE clients[q] \notin masters
      BY <1>1, <2>2, <3>1, HandleDisconnectMasters
    <3>2. CASE clients[q] \in masters
      <4>1. q \in Joined /\ masters = {clients[q]}
        BY <1>1, <2>2, <3>2, HandleDisconnectMasters
      <4>2. p = q
        BY <1>1, <2>1, <4>1 DEF Safety, RoomSafety, MapsAgree
      <4>3. p \notin Joined'
        BY <1>1, <2>2, <4>2, HandleDisconnectRoom
      <4> QED  BY <1>1, <2>1, <4>3 DEF Joined
    <3> QED  BY <3>1, <3>2
  <2>3. ASSUME NEW q \in Peer, NEW hello \in Hello, AcceptHello(q, hello)
        PROVE  masters' = masters
    BY <2>1, <2>3 DEF AcceptHello
  <2> QED  BY <1>1, <2>2, <2>3, StepCases DEF Unaffected
<1>2. Safety /\ [ServerStep]_vars
        => [\A p \in Peer :
              /\ clients[p] \in masters
              /\ clients'[p] = clients[p]
              => masters' = masters]_vars
  BY <1>1
<1> QED  BY <1>2, UnboundedSafe, PTL DEF UnboundedSpec, MasterStays

\* No event takes mastership from a client that stays.
THEOREM MasterStaysAlways == Spec => MasterStays
BY UnboundedMasterStays, SpecIsUnbounded, PTL

-----------------------------------------------------------------------------
(* The server implements Room *)

LEMMA LeaderOfRoom ==
  ASSUME Safety
  PROVE  /\ Joined = {} => Members = {} /\ Leader = NoClient
         /\ \A p \in Joined : masters = {clients[p]} => Leader = clients[p]
         /\ Joined # {} => Leader \in Members /\ masters = {Leader}
<1>1. Joined = {} => Members = {} /\ Leader = NoClient
  BY DEF Members, Leader, Safety, RoomSafety, OneMaster
<1>2. \A p \in Joined : masters = {clients[p]} => Leader = clients[p]
  BY DEF Leader
<1>3. Joined # {} => Leader \in Members /\ masters = {Leader}
  BY <1>2 DEF Members, Safety, RoomSafety, OneMaster
<1> QED  BY <1>1, <1>2, <1>3

LEMMA UnaffectedRoom ==
  ASSUME Unaffected
  PROVE  Members' = Members /\ Leader' = Leader
<1>1. Joined' = Joined
  BY DEF Unaffected, Joined
<1> QED  BY <1>1 DEF Unaffected, Members, Leader

\* A HELLO that is accepted is a Join.
LEMMA AcceptIsJoin ==
  ASSUME Safety, Safety', NEW p \in Peer, NEW hello, AcceptHello(p, hello)
  PROVE  R!Join
<1>1. Joined' = Joined \cup {p} /\ p \notin Joined
  BY AcceptHelloSafety
<1>2. clients' = [clients EXCEPT ![p] = NewGuid] /\ connectionCount' = NewGuid
  BY DEF AcceptHello, NewGuid
<1>3. Members' = Members \cup {NewGuid}
  <2>1. clients'[p] = NewGuid /\ \A q \in Joined : clients'[q] = clients[q]
    BY <1>1, <1>2 DEF Safety, TypeOK, Joined
  <2> QED  BY <1>1, <2>1 DEF Members
<1>4. Leader' = IF Members = {} THEN NewGuid ELSE Leader
  <2>1. CASE Joined = {}
    <3>1. masters' = {NewGuid}
      BY <2>1 DEF AcceptHello, Safety, RoomSafety, OneMaster
    <3> QED  BY <2>1, <3>1 DEF Leader, Members
  <2>2. CASE Joined # {}
    <3>1. masters' = masters
      BY <2>2 DEF AcceptHello
    <3>2. Members # {}
      BY <2>2 DEF Members
    <3> QED  BY <3>1, <3>2 DEF Leader
  <2> QED  BY <2>1, <2>2
<1> QED  BY <1>2, <1>3, <1>4 DEF AcceptHello, NewGuid, world, R!Join

\* The loss of a client is a Leave, a Succeed or a Close; that of a connection
\* without a client is nothing.
LEMMA DisconnectIsLeave ==
  ASSUME Safety, Safety', NEW p \in Peer, HandleDisconnect(p)
  PROVE  R!Next \/ UNCHANGED <<Members, Leader, connectionCount, entities>>
<1>1. /\ Joined' = Joined \ {p}
      /\ \A q \in Joined \ {p} : clients'[q] = clients[q]
  BY HandleDisconnectRoom
<1>2. UNCHANGED connectionCount
  BY DEF HandleDisconnect
<1>3. Joined' # {} => UNCHANGED entities
  BY DEF HandleDisconnect, ResetEmptyRoom, world, Joined
<1>4. Joined' = {} => entities' = {}
  BY DEF HandleDisconnect, ResetEmptyRoom, Joined
<1>5. p \in Joined => Members' = Members \ {clients[p]}
  <2>1. \A q \in Joined : clients[q] = clients[p] /\ p \in Joined => q = p
    BY DEF Safety, RoomSafety, MapsAgree
  <2> QED  BY <1>1, <2>1 DEF Members
<1>6. CASE p \notin Joined
  <2>1. clients[p] \notin masters
    BY <1>6 DEF Joined, NoClient, Guid, Safety, TypeOK
  <2>2. masters' = masters
    BY <2>1, HandleDisconnectMasters
  <2>3. Members' = Members
    BY <1>1, <1>6 DEF Members
  <2>4. entities' = entities
    BY <1>1, <1>3, <1>4, <1>6 DEF Safety, WorldSafety, EmptyRoomIsReset
  <2> QED  BY <1>2, <2>2, <2>3, <2>4 DEF Leader
<1>7. CASE p \in Joined /\ clients[p] \notin masters
  <2>1. masters' = masters
    BY <1>7, HandleDisconnectMasters
  <2>2. Leader \in Members /\ masters = {Leader}
    BY <1>7, LeaderOfRoom
  <2>3. clients[p] \in Members \ {Leader}
    BY <1>7, <2>2 DEF Members
  <2>4. Joined' # {}
    BY <1>1, <1>7, <2>2, <2>3 DEF Members
  <2>5. clients[p] \in R!Member
    BY <1>7 DEF Joined, Safety, TypeOK, Guid, R!Member
  <2>6. R!Leave(clients[p])
    BY <1>2, <1>3, <1>5, <1>7, <2>1, <2>3, <2>4 DEF R!Leave, Leader
  <2> QED  BY <2>5, <2>6 DEF R!Next
<1>8. CASE p \in Joined /\ clients[p] \in masters
  <2>1. masters = {clients[p]} /\ Leader = clients[p] /\ Leader \in Members
    BY <1>8, HandleDisconnectMasters, LeaderOfRoom
  <2>2. CASE Joined = {p} /\ masters' = {}
    <3>1. Members = {Leader} /\ Members' = {}
      BY <1>5, <2>1, <2>2 DEF Members
    <3>2. Leader' = R!Nobody
      BY <2>2 DEF Leader, NoClient, R!Nobody
    <3>3. entities' = {}
      BY <1>1, <1>4, <2>2
    <3>4. R!Close
      BY <1>2, <2>1, <3>1, <3>2, <3>3 DEF R!Close
    <3> QED  BY <3>4 DEF R!Next
  <2>3. ASSUME NEW q \in Joined \ {p}, masters' = {clients[q]} PROVE R!Succeed
    <3>1. Leader' = clients[q]
      BY <2>3 DEF Leader
    <3>2. clients[q] \in Members'
      BY <1>1, <2>3 DEF Members
    <3>3. UNCHANGED entities
      BY <1>1, <1>3, <2>3
    <3> QED  BY <1>2, <1>5, <1>8, <2>1, <3>1, <3>2, <3>3 DEF R!Succeed
  <2> QED  BY <1>8, <2>2, <2>3, HandleDisconnectMasters DEF R!Next
<1> QED  BY <1>6, <1>7, <1>8

\* Entity packets of the master client are a Put and a Take.
LEMMA EntityIsThing ==
  ASSUME Safety, NEW p \in Peer, NEW e \in EntityGuid, Unaffected,
         HandleSpawnEntity(p, e) \/ HandleDestroyEntity(p, e)
  PROVE  R!Put(e) \/ R!Take(e)
<1>1. Joined # {}
  BY DEF HandleSpawnEntity, HandleDestroyEntity, FromMaster, Authorized, Joined,
         Safety, RoomSafety, MapsAgree
<1>2. Leader \in Members
  BY <1>1, LeaderOfRoom
<1>3. Members' = Members /\ Leader' = Leader /\ connectionCount' = connectionCount
  BY UnaffectedRoom DEF Unaffected
<1> QED  BY <1>2, <1>3 DEF HandleSpawnEntity, HandleDestroyEntity, R!Put, R!Take

LEMMA UnboundedIsARoom == UnboundedSpec => IsARoom
<1>1. Init => R!Init
  BY DEF Init, R!Init, R!Nobody, Members, Leader, Joined, NoClient
<1>2. Safety /\ Safety' /\ [ServerStep]_vars => [R!Next]_(R!vars)
  <2> SUFFICES ASSUME Safety, Safety', [ServerStep]_vars
               PROVE  R!Next \/ UNCHANGED R!vars
    OBVIOUS
  <2>1. CASE Unaffected /\ UNCHANGED entities
    BY <2>1, UnaffectedRoom DEF Unaffected, R!vars
  <2>2. ASSUME NEW p \in Peer, HandleDisconnect(p)
        PROVE  R!Next \/ UNCHANGED R!vars
    BY <2>2, DisconnectIsLeave DEF R!vars
  <2>3. ASSUME NEW p \in Peer, NEW hello \in Hello, AcceptHello(p, hello) PROVE R!Next
    BY <2>3, AcceptIsJoin DEF R!Next
  <2>4. ASSUME NEW p \in Peer, NEW e \in EntityGuid, Unaffected,
               HandleSpawnEntity(p, e) \/ HandleDestroyEntity(p, e)
        PROVE  R!Next
    BY <2>4, EntityIsThing DEF R!Next
  <2> QED  BY <2>1, <2>2, <2>3, <2>4, StepCases
<1> QED  BY <1>1, <1>2, UnboundedSafe, PTL DEF UnboundedSpec, IsARoom, R!Spec

\* The server implements the abstract room: whatever its connections and packets
\* do, to its players it behaves like Room.
THEOREM ServerIsARoom == Spec => IsARoom
BY UnboundedIsARoom, SpecIsUnbounded, PTL

-----------------------------------------------------------------------------
(* The order of the packets on the links                                       *)

AboutPlayer == {"CREATE_PLAYER", "DESTROY_PLAYER"} \cup PlayerPacketId

\* A number that was given out, to a client that has left since.
Gone(g) == g <= connectionCount /\ \A q \in Joined : clients[q] # g

\* The same after a step.
GoneNow(g) == g <= connectionCount' /\ \A q \in Joined' : clients'[q] # g

\* Nobody but a client is sent anything.
StrangersHearNothing == \A p \in Peer : p \notin Joined \/ link[p] # "open" => outbox[p] = <<>>

\* Those of whom it is said that they are gone are gone.
DestroyedAreGone ==
  \A p \in Peer : \A i \in 1 .. Len(outbox[p]) :
    outbox[p][i].id = "DESTROY_PLAYER" => Gone(outbox[p][i].guid)

\* The two parts of LinksAreInOrder, of one link.
Ordered(l) ==
  /\ \A i \in 1 .. Len(l) : l[i].id = "WELCOME" => i = 1
  /\ \A i, j \in 1 .. Len(l) :
       i < j /\ l[i].id = "DESTROY_PLAYER" /\ l[j].id \in AboutPlayer => l[j].guid # l[i].guid

AllOrdered == \A p \in Peer : Ordered(outbox[p])

LinkSafety == StrangersHearNothing /\ DestroyedAreGone /\ AllOrdered

-----------------------------------------------------------------------------
(* Lists of packets *)

LEMMA TailOrdered ==
  ASSUME NEW l \in Seq(Packet), l # <<>>, Ordered(l)
  PROVE  Ordered(Tail(l))
BY DEF Ordered

\* What is appended is in order if it is by itself, greets nobody twice, and is not about
\* players that the link has heard the last of.
LEMMA AppendOrdered ==
  ASSUME NEW l \in Seq(Packet), NEW m \in Seq(Packet), Ordered(l), Ordered(m),
         \A j \in 1 .. Len(m) : m[j].id = "WELCOME" => l = <<>>,
         \A i \in 1 .. Len(l), j \in 1 .. Len(m) :
           l[i].id = "DESTROY_PLAYER" /\ m[j].id \in AboutPlayer => m[j].guid # l[i].guid
  PROVE  Ordered(l \o m)
<1> DEFINE n == l \o m
<1>1. /\ Len(l) \in Nat /\ Len(m) \in Nat /\ Len(n) = Len(l) + Len(m)
      /\ \A i \in 1 .. Len(l) : n[i] = l[i]
      /\ \A i \in 1 .. Len(n) : i > Len(l) => i - Len(l) \in 1 .. Len(m) /\ n[i] = m[i - Len(l)]
  OBVIOUS
<1> HIDE DEF n
<1>2. ASSUME NEW i \in 1 .. Len(n), n[i].id = "WELCOME"
      PROVE  i = 1
  <2>1. CASE i <= Len(l)
    BY <1>1, <1>2, <2>1 DEF Ordered
  <2>2. CASE i > Len(l)
    <3>1. i - Len(l) \in 1 .. Len(m) /\ m[i - Len(l)].id = "WELCOME"
      BY <1>1, <1>2, <2>2
    <3>2. i - Len(l) = 1 /\ l = <<>>
      BY <3>1 DEF Ordered
    <3> QED  BY <1>1, <3>2
  <2> QED  BY <1>1, <2>1, <2>2
<1>3. ASSUME NEW i \in 1 .. Len(n), NEW j \in 1 .. Len(n),
             i < j, n[i].id = "DESTROY_PLAYER", n[j].id \in AboutPlayer
      PROVE  n[j].guid # n[i].guid
  <2>1. CASE j <= Len(l)
    BY <1>1, <1>3, <2>1 DEF Ordered
  <2>2. CASE i <= Len(l) /\ j > Len(l)
    BY <1>1, <1>3, <2>2
  <2>3. CASE i > Len(l)
    <3>1. /\ i - Len(l) \in 1 .. Len(m) /\ n[i] = m[i - Len(l)]
          /\ j - Len(l) \in 1 .. Len(m) /\ n[j] = m[j - Len(l)]
          /\ i - Len(l) < j - Len(l)
      BY <1>1, <1>3, <2>3
    <3> QED  BY <1>3, <3>1 DEF Ordered
  <2> QED  BY <1>1, <2>1, <2>2, <2>3
<1> QED  BY <1>2, <1>3 DEF Ordered, n

In(x, l) == \E k \in 1 .. Len(l) : x = l[k]

LEMMA AppendItems ==
  ASSUME NEW S, NEW l \in Seq(S), NEW m \in Seq(S), NEW n, n = l \o m, NEW i \in 1 .. Len(n)
  PROVE  In(n[i], m) \/ In(n[i], l)
<1>1. CASE i <= Len(l)
  BY <1>1 DEF In
<1>2. CASE i > Len(l)
  <2>1. i - Len(l) \in 1 .. Len(m) /\ n[i] = m[i - Len(l)]
    BY <1>2
  <2> QED  BY <2>1 DEF In
<1> QED  BY <1>1, <1>2

\* One more packet that is no greeting, and not about somebody the link has heard the last of.
LEMMA OneMore ==
  ASSUME NEW l \in Seq(Packet), Ordered(l), NEW pkt \in Packet, pkt.id # "WELCOME",
         \A i \in 1 .. Len(l) :
           l[i].id = "DESTROY_PLAYER" /\ pkt.id \in AboutPlayer => pkt.guid # l[i].guid,
         NEW n, n = l \o <<pkt>>
  PROVE  /\ n \in Seq(Packet) /\ Ordered(n)
         /\ \A i \in 1 .. Len(n) : n[i] = pkt \/ In(n[i], l)
<1> DEFINE m == <<pkt>>
<1>1. m \in Seq(Packet) /\ Len(m) = 1 /\ \A j \in 1 .. Len(m) : m[j] = pkt
  OBVIOUS
<1>2. n = l \o m /\ n \in Seq(Packet)
  OBVIOUS
<1> HIDE DEF m
<1>3. Ordered(m)
  BY <1>1 DEF Ordered
<1>4. /\ \A j \in 1 .. Len(m) : m[j].id = "WELCOME" => l = <<>>
      /\ \A i \in 1 .. Len(l), j \in 1 .. Len(m) :
           l[i].id = "DESTROY_PLAYER" /\ m[j].id \in AboutPlayer => m[j].guid # l[i].guid
  BY <1>1
<1>5. Ordered(l \o m)
  BY <1>1, <1>3, <1>4, AppendOrdered
<1>6. \A i \in 1 .. Len(n) : In(n[i], m) \/ In(n[i], l)
  BY <1>1, <1>2, AppendItems
<1> QED  BY <1>1, <1>2, <1>5, <1>6 DEF In

\* Item i of a \o b \o c is an item of one of them.
IsItem(x, i, a, b, c) == \/ i \in 1 .. Len(a) /\ x = a[i]
                         \/ \E k \in 1 .. Len(b) : x = b[k]
                         \/ \E k \in 1 .. Len(c) : x = c[k]

LEMMA ThreeLists ==
  ASSUME NEW S, NEW a \in Seq(S), NEW b \in Seq(S), NEW c \in Seq(S),
         NEW n, n = a \o b \o c, NEW i \in 1 .. Len(n)
  PROVE  IsItem(n[i], i, a, b, c)
<1>1. Len(a) \in Nat /\ Len(b) \in Nat /\ Len(c) \in Nat
  OBVIOUS
<1>2. Len(n) = Len(a) + Len(b) + Len(c)
  OBVIOUS
<1>3. CASE i <= Len(a)
  BY <1>1, <1>2, <1>3 DEF IsItem
<1>4. CASE i > Len(a) /\ i <= Len(a) + Len(b)
  <2>1. i - Len(a) \in 1 .. Len(b) /\ n[i] = b[i - Len(a)]
    BY <1>1, <1>2, <1>4
  <2> QED  BY <2>1 DEF IsItem
<1>5. CASE i > Len(a) + Len(b)
  <2>1. /\ i - (Len(a) + Len(b)) \in 1 .. Len(c)
        /\ n[i] = c[i - (Len(a) + Len(b))]
    BY <1>1, <1>2, <1>5
  <2> QED  BY <2>1 DEF IsItem
<1> QED  BY <1>1, <1>2, <1>3, <1>4, <1>5

\* One WELCOME in front, and no bad news.
Introduces(l) == Ordered(l) /\ \A i \in 1 .. Len(l) : l[i].id # "DESTROY_PLAYER"

\* What a newcomer is sent introduces it, in whatever order players and entities come.
LEMMA IntroductionOrdered ==
  ASSUME NEW g \in Guid, NEW b \in BOOLEAN, highestEntityGuid \in EntityGuid \cup {0},
         NEW S, IsFiniteSet(S), S \subseteq Guid, NEW players \in SetToSeqs(S),
         NEW T, IsFiniteSet(T), T \subseteq EntityGuid, NEW spawned \in SetToSeqs(T)
  PROVE  Introduces(Introduction(g, b, players, spawned))
<1> DEFINE first == <<[id |-> "WELCOME", guid |-> g, isMasterClient |-> b,
                       highestEntityGuid |-> highestEntityGuid],
                      [id |-> "CREATE_PLAYER", guid |-> g]>>
           others == [i \in 1 .. Len(players) |->
                        [id |-> "CREATE_PLAYER", guid |-> players[i]]]
           things == [i \in 1 .. Len(spawned) |->
                        [id |-> "SPAWN_ENTITY", guid |-> spawned[i]]]
           l == Introduction(g, b, players, spawned)
<1>1. l = first \o others \o things
  BY DEF Introduction
<1>2. l \in Seq(Packet)
  BY IntroductionType
<1>3. Len(players) \in Nat /\ Len(spawned) \in Nat
  BY ListType
<1>4. Len(first) = 2 /\ Len(others) = Len(players) /\ Len(things) = Len(spawned)
  BY <1>3
<1>5. ASSUME NEW i \in 1 .. Len(l), i # 1
      PROVE  l[i].id \in {"CREATE_PLAYER", "SPAWN_ENTITY"}
  <2> DEFINE U == {first[1], first[2]} \cup {others[k] : k \in 1 .. Len(players)}
                  \cup {things[k] : k \in 1 .. Len(spawned)}
  <2>1. first \in Seq(U)
    OBVIOUS
  <2>2. others \in Seq(U) /\ things \in Seq(U)
    <3>1. others \in [1 .. Len(players) -> U] /\ things \in [1 .. Len(spawned) -> U]
      OBVIOUS
    <3>2. ASSUME NEW n \in Nat, NEW x \in [1 .. n -> U] PROVE x \in Seq(U)
      OBVIOUS
    <3> HIDE DEF first, others, things, U
    <3> QED  BY <1>3, <3>1, <3>2
  <2>3. \/ i \in 1 .. 2 /\ l[i] = first[i]
        \/ \E k \in 1 .. Len(players) : l[i] = others[k]
        \/ \E k \in 1 .. Len(spawned) : l[i] = things[k]
    <3> HIDE DEF first, others, things, U, l
    <3>1. IsItem(l[i], i, first, others, things)
      BY <1>1, <2>1, <2>2, ThreeLists
    <3> QED  BY <1>4, <3>1 DEF IsItem
  <2>4. i \in 1 .. 2 => i = 2
    BY <1>5
  <2>5. /\ first[2].id = "CREATE_PLAYER"
        /\ \A k \in 1 .. Len(players) : others[k].id = "CREATE_PLAYER"
        /\ \A k \in 1 .. Len(spawned) : things[k].id = "SPAWN_ENTITY"
    OBVIOUS
  <2> HIDE DEF first, others, things, U, l
  <2> QED  BY <2>3, <2>4, <2>5
<1>6. Len(l) \in Nat /\ l[1].id = "WELCOME"
  <2>1. l[1] = first[1]
    BY <1>1, <1>3, <1>4
  <2> QED  BY <1>2, <2>1
<1> HIDE DEF l
<1>7. Ordered(l)
  BY <1>5, <1>6 DEF Ordered
<1> QED  BY <1>5, <1>6, <1>7 DEF l, Introduces

-----------------------------------------------------------------------------
(* The steps of the server *)

LEMMA InitLinks == Init => LinkSafety
BY DEF Init, LinkSafety, StrangersHearNothing, DestroyedAreGone, AllOrdered, Ordered

\* A packet that is neither a greeting nor a farewell, and not about somebody who is gone,
\* may be sent to any clients.
LEMMA RelayOrdered ==
  ASSUME Safety, LinkSafety, UNCHANGED <<link, room>>, NEW pkt \in Packet,
         pkt.id \notin {"WELCOME", "DESTROY_PLAYER"},
         pkt.id \in AboutPlayer => ~Gone(pkt.guid),
         NEW out \in [Peer -> Seq(Packet)], Send(out),
         \A q \in Peer : out[q] = <<>> \/ (q \in Joined /\ out[q] = <<pkt>>)
  PROVE  LinkSafety'
<1>1. /\ Joined' = Joined
      /\ \A g : Gone(g)' = Gone(g)
  BY DEF room, Joined, Gone
<1>2. ASSUME NEW q \in Peer
      PROVE  /\ q \notin Joined \/ link[q] # "open" => outbox'[q] = <<>>
             /\ \A i \in 1 .. Len(outbox'[q]) :
                  outbox'[q][i].id = "DESTROY_PLAYER" => Gone(outbox'[q][i].guid)
             /\ Ordered(outbox'[q])
  <2>1. /\ outbox[q] \in Seq(Packet) /\ Ordered(outbox[q])
        /\ q \notin Joined \/ link[q] # "open" => outbox[q] = <<>>
        /\ \A i \in 1 .. Len(outbox[q]) :
             outbox[q][i].id = "DESTROY_PLAYER" => Gone(outbox[q][i].guid)
    BY DEF Safety, TypeOK, LinkSafety, StrangersHearNothing, DestroyedAreGone, AllOrdered
  <2>2. CASE outbox'[q] = outbox[q]
    BY <2>1, <2>2
  <2>3. CASE q \in Joined /\ link[q] = "open" /\ outbox'[q] = outbox[q] \o <<pkt>>
    <3>1. /\ Ordered(outbox'[q])
          /\ \A i \in 1 .. Len(outbox'[q]) : outbox'[q][i] = pkt \/ In(outbox'[q][i], outbox[q])
      BY <2>1, <2>3, OneMore
    <3> QED  BY <2>1, <2>3, <3>1 DEF In
  <2>4. outbox[q] \o <<>> = outbox[q]
    BY <2>1
  <2> QED  BY <2>2, <2>3, <2>4 DEF Send
<1> QED  BY <1>1, <1>2 DEF LinkSafety, StrangersHearNothing, DestroyedAreGone, AllOrdered

\* Broadcasts go to clients.
LEMMA BroadcastOrdered ==
  ASSUME Safety, LinkSafety, UNCHANGED <<link, room>>, NEW p, NEW pkt \in Packet,
         pkt.id \notin {"WELCOME", "DESTROY_PLAYER"},
         pkt.id \in AboutPlayer => ~Gone(pkt.guid),
         Send(BroadcastExceptSender(p, pkt))
  PROVE  LinkSafety'
<1>1. BroadcastExceptSender(p, pkt) \in [Peer -> Seq(Packet)]
  BY BroadcastType
<1>2. \A q \in Peer : \/ BroadcastExceptSender(p, pkt)[q] = <<>>
                      \/ q \in Joined /\ BroadcastExceptSender(p, pkt)[q] = <<pkt>>
  BY DEF BroadcastExceptSender
<1> QED  BY <1>1, <1>2, RelayOrdered

\* A connection with a client is one that the server has a client for.
LEMMA AuthorizedIsJoined ==
  ASSUME Safety, NEW p \in Peer, Authorized(p)
  PROVE  p \in Joined /\ clients[p] = clientOf[p] /\ ~Gone(clientOf[p])
BY DEF Safety, RoomSafety, MapsAgree, Authorized, Joined, Gone

\* Connections come and links go, and nobody is told anything.
LEMMA LinkSteps ==
  ASSUME Safety, LinkSafety, NEW p \in Peer,
         \/ Connect(p) \/ LinkDown(p) \/ Deliver(p)
         \/ Disconnect(p) /\ p \notin connections
         \/ \E hello : RejectHello(p, hello)
  PROVE  LinkSafety'
<1>1. UNCHANGED <<clients, connectionCount>>
  BY DEF Connect, LinkDown, Deliver, Disconnect, RejectHello, room
<1>2. Joined' = Joined /\ \A g : Gone(g)' = Gone(g)
  BY <1>1 DEF Joined, Gone
<1>3. \A q \in Peer : \/ outbox'[q] = outbox[q]
                      \/ outbox'[q] = <<>>
                      \/ outbox[q] # <<>> /\ outbox'[q] = Tail(outbox[q])
  BY DEF Connect, LinkDown, Deliver, Disconnect, RejectHello, Safety, TypeOK
<1>4. \A q \in Peer : q \notin Joined \/ link'[q] # "open" => outbox'[q] = <<>>
  <2>1. CASE Connect(p)
    BY <2>1 DEF Connect, Safety, TypeOK, LinkSafety, StrangersHearNothing
  <2>2. CASE LinkDown(p)
    BY <2>2 DEF LinkDown, Safety, TypeOK, LinkSafety, StrangersHearNothing
  <2>3. CASE Deliver(p)
    BY <2>3 DEF Deliver, Safety, TypeOK, LinkSafety, StrangersHearNothing
  <2>4. CASE Disconnect(p) /\ p \notin connections
    BY <2>4 DEF Disconnect, Safety, TypeOK, LinkSafety, StrangersHearNothing
  <2>5. ASSUME NEW hello, RejectHello(p, hello)
        PROVE  \A q \in Peer : q \notin Joined \/ link'[q] # "open" => outbox'[q] = <<>>
    BY <2>5 DEF RejectHello, Safety, TypeOK, LinkSafety, StrangersHearNothing
  <2> QED  BY <2>1, <2>2, <2>3, <2>4, <2>5
<1>5. ASSUME NEW q \in Peer
      PROVE  /\ Ordered(outbox'[q])
             /\ \A i \in 1 .. Len(outbox'[q]) :
                  outbox'[q][i].id = "DESTROY_PLAYER" => Gone(outbox'[q][i].guid)
  <2>1. /\ outbox[q] \in Seq(Packet) /\ Ordered(outbox[q])
        /\ \A i \in 1 .. Len(outbox[q]) :
             outbox[q][i].id = "DESTROY_PLAYER" => Gone(outbox[q][i].guid)
    BY DEF Safety, TypeOK, LinkSafety, DestroyedAreGone, AllOrdered
  <2>2. CASE outbox'[q] = <<>>
    BY <2>2 DEF Ordered
  <2>3. CASE outbox[q] # <<>> /\ outbox'[q] = Tail(outbox[q])
    BY <2>1, <2>3, TailOrdered
  <2> QED  BY <1>3, <2>1, <2>2, <2>3
<1> QED  BY <1>2, <1>4, <1>5 DEF LinkSafety, StrangersHearNothing, DestroyedAreGone, AllOrdered

\* What the others are sent when a client leaves: a farewell to each, and an appointment.
LEMMA DisconnectLinks ==
  ASSUME Safety, LinkSafety, NEW p \in Peer, Disconnect(p), p \in connections
  PROVE  LinkSafety'
<1>1. HandleDisconnect(p)
  BY DEF Disconnect
<1>2. /\ Joined' = Joined \ {p}
      /\ \A q \in Joined \ {p} : clients'[q] = clients[q]
      /\ clientOf[p] = clients[p]
  BY <1>1, HandleDisconnectRoom
<1>3. connectionCount' = connectionCount
  BY <1>1 DEF HandleDisconnect
<1>4. \A g : Gone(g) => GoneNow(g)
  BY <1>2, <1>3 DEF Gone, GoneNow
<1>5. p \in Joined => GoneNow(clients[p])
  BY <1>2, <1>3 DEF GoneNow, Safety, RoomSafety, MapsAgree
<1>6. PICK heirs \in Successors(p) :
        Send([q \in Peer |->
               HandleDestroyPlayer(p)[q]
                 \o IF q \in heirs THEN <<[id |-> "SET_MASTER_CLIENT"]>> ELSE <<>>])
  BY <1>1 DEF HandleDisconnect
<1>7. heirs \subseteq Joined \ {p}
  BY DEF Successors
<1>8. ASSUME NEW q \in Peer
      PROVE  /\ q \notin Joined' \/ link'[q] # "open" => outbox'[q] = <<>>
             /\ \A i \in 1 .. Len(outbox'[q]) :
                  outbox'[q][i].id = "DESTROY_PLAYER" => GoneNow(outbox'[q][i].guid)
             /\ Ordered(outbox'[q])
  <2> DEFINE d == HandleDestroyPlayer(p)[q]
             e == IF q \in heirs THEN <<[id |-> "SET_MASTER_CLIENT"]>> ELSE <<>>
             bye == [id |-> "DESTROY_PLAYER", guid |-> clientOf[p]]
             appoint == [id |-> "SET_MASTER_CLIENT"]
  <2>1. /\ outbox[q] \in Seq(Packet) /\ Ordered(outbox[q])
        /\ q \notin Joined \/ link[q] # "open" => outbox[q] = <<>>
        /\ \A i \in 1 .. Len(outbox[q]) :
             outbox[q][i].id = "DESTROY_PLAYER" => Gone(outbox[q][i].guid)
    BY DEF Safety, TypeOK, LinkSafety, StrangersHearNothing, DestroyedAreGone, AllOrdered
  <2>2. d = <<>> \/ (q \in Joined \ {p} /\ p \in Joined /\ d = <<bye>>)
    BY <1>2 DEF HandleDestroyPlayer, BroadcastExceptSender, Joined
  <2>3. outbox'[q] = IF link[q] = "open" THEN outbox[q] \o (d \o e) ELSE outbox[q]
    BY <1>6 DEF Send
  <2>4. link'[q] = IF q = p THEN "free" ELSE link[q]
    BY DEF Disconnect, Safety, TypeOK
  <2>5. link[p] = "closing"
    BY DEF Disconnect
  <2>6. q = p \/ q \notin Joined => d = <<>> /\ e = <<>>
    BY <1>7, <2>2
  <2>7. appoint \in Packet /\ (p \in Joined => bye \in Packet)
    BY <1>2 DEF Packet, Joined, Safety, TypeOK
  <2>8. e = <<>> \/ e = <<appoint>>
    OBVIOUS
  <2> HIDE DEF d, e
  <2>9. CASE link[q] = "open" /\ q \in Joined
    <3> DEFINE l == outbox[q] \o d
    <3>1. /\ l \in Seq(Packet) /\ Ordered(l)
          /\ \A i \in 1 .. Len(l) : l[i].id = "DESTROY_PLAYER" => GoneNow(l[i].guid)
      <4>1. CASE d = <<>>
        <5>1. l = outbox[q]
          BY <2>1, <4>1
        <5> QED  BY <1>4, <2>1, <5>1
      <4>2. CASE p \in Joined /\ d = <<bye>>
        <5>1. \A i \in 1 .. Len(outbox[q]) :
                outbox[q][i].id = "DESTROY_PLAYER" => bye.guid # outbox[q][i].guid
          BY <1>2, <2>1, <4>2 DEF Gone
        <5>2. /\ l \in Seq(Packet) /\ Ordered(l)
              /\ \A i \in 1 .. Len(l) : l[i] = bye \/ In(l[i], outbox[q])
          BY <2>1, <2>7, <4>2, <5>1, OneMore
        <5>3. GoneNow(bye.guid)
          BY <1>2, <1>5, <4>2
        <5> HIDE DEF l, bye
        <5> QED  BY <1>4, <2>1, <5>2, <5>3 DEF In
      <4> QED  BY <2>2, <4>1, <4>2
    <3>2. outbox'[q] = l \o e
      <4>1. d \in Seq(Packet) /\ e \in Seq(Packet)
        <5>1. <<>> \in Seq(Packet) /\ \A x \in Packet : <<x>> \in Seq(Packet)
          OBVIOUS
        <5> HIDE DEF bye, appoint
        <5> QED  BY <2>2, <2>7, <2>8, <5>1, Zenon
      <4>2. (outbox[q] \o d) \o e = outbox[q] \o (d \o e)
        <5>1. outbox[q] \in Seq(Packet) /\ d \in Seq(Packet) /\ e \in Seq(Packet)
          BY <2>1, <4>1
        <5> DEFINE o == outbox[q]
        <5>2. o \in Seq(Packet)
          BY <5>1
        <5> HIDE DEF l, o
        <5>3. (o \o d) \o e = o \o (d \o e)
          BY <5>1, <5>2, ConcatAssociative
        <5> QED  BY <5>3 DEF o
      <4> QED  BY <2>3, <2>9, <4>2
    <3> HIDE DEF l
    <3>3. CASE e = <<>>
      <4>1. outbox'[q] = l
        BY <3>1, <3>2, <3>3
      <4> QED  BY <1>2, <2>4, <2>5, <2>9, <3>1, <4>1
    <3>4. CASE e = <<appoint>>
      <4>1. appoint.id \notin AboutPlayer \cup {"WELCOME", "DESTROY_PLAYER"}
        BY DEF AboutPlayer, PlayerPacketId
      <4>2. /\ Ordered(outbox'[q])
            /\ \A i \in 1 .. Len(outbox'[q]) : outbox'[q][i] = appoint \/ In(outbox'[q][i], l)
        BY <2>7, <3>1, <3>2, <3>4, <4>1, OneMore
      <4> HIDE DEF appoint
      <4> QED  BY <1>2, <2>4, <2>5, <2>9, <3>1, <4>1, <4>2 DEF In
    <3> QED  BY <2>8, <3>3, <3>4
  <2>10. CASE link[q] # "open" \/ q \notin Joined
    <3>1. outbox'[q] = <<>>
      BY <2>1, <2>3, <2>6, <2>10
    <3> QED  BY <3>1 DEF Ordered
  <2> QED  BY <2>9, <2>10
<1> QED  BY <1>8 DEF Gone, GoneNow, LinkSafety, StrangersHearNothing, DestroyedAreGone, AllOrdered

\* A newcomer's link is empty, and nobody has heard of its number before.
LEMMA AcceptLinks ==
  ASSUME Safety, LinkSafety, NEW p \in Peer, NEW hello, AcceptHello(p, hello)
  PROVE  LinkSafety'
<1> DEFINE g == connectionCount + 1
           hi == [id |-> "CREATE_PLAYER", guid |-> g]
<1>1. p \notin Joined /\ link[p] = "open"
  BY DEF AcceptHello, Anonymous, Joined, Safety, RoomSafety, MapsAgree
<1>2. /\ g \in Guid /\ connectionCount \in Nat
      /\ connectionCount' = g
      /\ link' = link
  BY BoundAssumption DEF AcceptHello, Guid, Safety, TypeOK
<1>3. /\ Joined' = Joined \cup {p}
      /\ clients'[p] = g /\ \A q \in Joined : clients'[q] = clients[q]
  BY <1>1, <1>2 DEF AcceptHello, NewGuid, Joined, Safety, TypeOK, Guid, NoClient
<1>4. \A h \in Guid : Gone(h) => GoneNow(h) /\ h # g
  BY <1>2, <1>3 DEF Gone, GoneNow, Guid
<1>5. PICK players \in SetToSeqs({clients[q] : q \in Joined}), spawned \in SetToSeqs(entities) :
        Send([q \in Peer |->
          IF q = p THEN Introduction(g, Joined = {}, players, spawned)
                   ELSE BroadcastExceptSender(p, hi)[q]])
  BY DEF AcceptHello, NewGuid
<1>6. hi \in Packet /\ hi.id = "CREATE_PLAYER" /\ hi.guid = g
  BY <1>2 DEF Packet
<1>7. Introduction(g, Joined = {}, players, spawned) \in Seq(Packet)
  BY <1>2, RoomIsFinite, IntroductionType DEF Members, Safety, TypeOK
<1>8. Introduces(Introduction(g, Joined = {}, players, spawned))
  BY <1>2, RoomIsFinite, IntroductionOrdered DEF Members, Safety, TypeOK
<1>9. ASSUME NEW q \in Peer
      PROVE  /\ q \notin Joined' \/ link'[q] # "open" => outbox'[q] = <<>>
             /\ \A i \in 1 .. Len(outbox'[q]) :
                  outbox'[q][i].id = "DESTROY_PLAYER" => GoneNow(outbox'[q][i].guid)
             /\ Ordered(outbox'[q])
  <2>1. /\ outbox[q] \in Seq(Packet) /\ Ordered(outbox[q])
        /\ q \notin Joined \/ link[q] # "open" => outbox[q] = <<>>
        /\ \A i \in 1 .. Len(outbox[q]) :
             outbox[q][i].id = "DESTROY_PLAYER" => Gone(outbox[q][i].guid)
    BY DEF Safety, TypeOK, LinkSafety, StrangersHearNothing, DestroyedAreGone, AllOrdered
  <2>2. \A i \in 1 .. Len(outbox[q]) :
          outbox[q][i].id = "DESTROY_PLAYER" => outbox[q][i].guid \in Guid
    <3>1. \A x \in Packet : x.id = "DESTROY_PLAYER" => x.guid \in Guid
      BY DEF Packet, PlayerPacketId, EntityUpdateId
    <3> QED  BY <2>1, <3>1
  <2> HIDE DEF g, hi
  <2>3. CASE q = p
    <3> DEFINE l == Introduction(g, Joined = {}, players, spawned)
    <3>1. outbox'[q] = <<>> \o l
      BY <1>1, <1>5, <2>1, <2>3 DEF Send
    <3>2. l \in Seq(Packet) /\ Ordered(l) /\ \A i \in 1 .. Len(l) : l[i].id # "DESTROY_PLAYER"
      BY <1>7, <1>8 DEF Introduces
    <3> HIDE DEF l
    <3>3. outbox'[q] = l
      BY <3>1, <3>2
    <3> QED  BY <1>1, <1>2, <1>3, <2>3, <3>2, <3>3
  <2>4. CASE q # p /\ q \in Joined /\ link[q] = "open"
    <3>1. outbox'[q] = outbox[q] \o <<hi>>
      BY <1>5, <2>4 DEF Send, BroadcastExceptSender
    <3>2. \A i \in 1 .. Len(outbox[q]) :
            outbox[q][i].id = "DESTROY_PLAYER" => hi.guid # outbox[q][i].guid
      BY <1>4, <1>6, <2>1, <2>2
    <3>3. /\ Ordered(outbox'[q])
          /\ \A i \in 1 .. Len(outbox'[q]) : outbox'[q][i] = hi \/ In(outbox'[q][i], outbox[q])
      BY <1>6, <2>1, <3>1, <3>2, OneMore
    <3> QED  BY <1>2, <1>3, <1>4, <1>6, <2>1, <2>2, <2>4, <3>3 DEF In
  <2>5. CASE q # p /\ ~(q \in Joined /\ link[q] = "open")
    <3>1. outbox'[q] = <<>>
      <4>1. outbox[q] = <<>>
        BY <2>1, <2>5
      <4>2. link[q] = "open" => BroadcastExceptSender(p, hi)[q] = <<>>
        BY <2>5 DEF BroadcastExceptSender
      <4>3. outbox'[q] = IF link[q] = "open"
                         THEN outbox[q] \o BroadcastExceptSender(p, hi)[q] ELSE outbox[q]
        BY <1>5, <2>5 DEF Send
      <4> QED  BY <4>1, <4>2, <4>3
    <3> QED  BY <3>1 DEF Ordered
  <2> QED  BY <2>3, <2>4, <2>5
<1> QED  BY <1>9 DEF Gone, GoneNow, LinkSafety, StrangersHearNothing, DestroyedAreGone, AllOrdered

\* Every other packet is answered or bounced.
LEMMA ReceiveLinks ==
  ASSUME Safety, LinkSafety, NEW p \in Peer, NEW pkt \in ClientPacket, PacketHandler(p, pkt)
  PROVE  LinkSafety'
<1>1. ASSUME NEW hello, RejectHello(p, hello) \/ AcceptHello(p, hello)
      PROVE  LinkSafety'
  BY <1>1, LinkSteps, AcceptLinks
<1>2. CASE HandlePing(p)
  <2>1. p \in Joined
    BY <1>2, AuthorizedIsJoined DEF HandlePing
  <2> DEFINE pong == [id |-> "PONG"]
             out == To(p, <<pong>>)
  <2>2. pong \in Packet /\ pong.id \notin AboutPlayer \cup {"WELCOME", "DESTROY_PLAYER"}
    BY DEF Packet, AboutPlayer, PlayerPacketId
  <2>3. out = [q \in Peer |-> IF q = p THEN <<pong>> ELSE <<>>] /\ Send(out)
    BY <1>2 DEF To, HandlePing
  <2> HIDE DEF pong, out
  <2>4. out \in [Peer -> Seq(Packet)]
    BY <2>2, <2>3
  <2>5. \A q \in Peer : out[q] = <<>> \/ (q \in Joined /\ out[q] = <<pong>>)
    BY <2>1, <2>3
  <2> QED  BY <1>2, <2>2, <2>3, <2>4, <2>5, RelayOrdered DEF HandlePing
<1>3. CASE pkt.id \in PlayerPacketId /\ HandlePlayerPacket(p, pkt.id)
  <2> DEFINE bounced == [id |-> pkt.id, guid |-> clientOf[p]]
  <2>1. p \in Joined /\ clientOf[p] = clients[p] /\ ~Gone(clientOf[p])
    BY <1>3, AuthorizedIsJoined DEF HandlePlayerPacket
  <2>2. bounced \in Packet
    BY <1>3, <2>1 DEF Packet, Joined, Safety, TypeOK
  <2>3. bounced.id \notin {"WELCOME", "DESTROY_PLAYER"} /\ ~Gone(bounced.guid)
    BY <1>3, <2>1 DEF PlayerPacketId
  <2>4. Send(BroadcastExceptSender(p, bounced)) /\ UNCHANGED <<link, room>>
    BY <1>3 DEF HandlePlayerPacket
  <2> HIDE DEF bounced
  <2> QED  BY <2>2, <2>3, <2>4, BroadcastOrdered
<1>4. CASE /\ pkt.id \in {"SPAWN_ENTITY", "DESTROY_ENTITY"} \cup EntityUpdateId
           /\ Send(BroadcastExceptSender(p, [id |-> pkt.id, guid |-> pkt.guid]))
           /\ UNCHANGED <<link, room>>
  <2> DEFINE told == [id |-> pkt.id, guid |-> pkt.guid]
  <2>1. told \in Packet
    BY <1>4, ClientPacketType DEF Packet
  <2>2. told.id \notin AboutPlayer \cup {"WELCOME", "DESTROY_PLAYER"}
    BY <1>4 DEF AboutPlayer, PlayerPacketId, EntityUpdateId
  <2>3. Send(BroadcastExceptSender(p, told))
    BY <1>4
  <2> HIDE DEF told
  <2> QED  BY <1>4, <2>1, <2>2, <2>3, BroadcastOrdered
<1> QED  BY <1>1, <1>2, <1>3, <1>4
         DEF PacketHandler, HandleSpawnEntity, HandleDestroyEntity, HandleEntityUpdate

LEMMA NextLinks == Safety /\ LinkSafety /\ [ServerStep]_vars => LinkSafety'
<1> SUFFICES ASSUME Safety, LinkSafety, [ServerStep]_vars PROVE LinkSafety'
  OBVIOUS
<1>1. CASE UNCHANGED vars
  BY <1>1 DEF vars, room, LinkSafety, StrangersHearNothing, DestroyedAreGone, AllOrdered,
              Gone, Joined
<1>2. ASSUME NEW p \in Peer, Connect(p) \/ LinkDown(p) \/ Deliver(p) \/ Disconnect(p)
      PROVE  LinkSafety'
  BY <1>2, LinkSteps, DisconnectLinks
<1>3. ASSUME NEW p \in Peer, NEW pkt \in ClientPacket, PacketHandler(p, pkt)
      PROVE  LinkSafety'
  BY <1>3, ReceiveLinks
<1> QED  BY <1>1, <1>2, <1>3 DEF ServerStep

LEMMA UnboundedLinkSafety == UnboundedSpec => []LinkSafety
BY InitLinks, NextLinks, UnboundedSafe, PTL DEF UnboundedSpec

\* What a client is told begins with WELCOME, and nothing about a player follows the news
\* that it is gone, on any link and for any number of players.
THEOREM LinksAreInOrderAlways == Spec => []LinksAreInOrder
<1>1. LinkSafety => LinksAreInOrder
  BY DEF LinkSafety, AllOrdered, Ordered, AboutPlayer, LinksAreInOrder, WelcomeFirst,
         NothingAfterDestroy
<1> QED  BY <1>1, UnboundedLinkSafety, SpecIsUnbounded, PTL
=============================================================================
