-------------------------- MODULE MultiplayerProofs --------------------------
(***************************************************************************)
(* What TLAPS proves of a whole game, the server and the mods together,    *)
(* for any number of players, entities and packets.                        *)
(*                                                                         *)
(* First the types, and that a game has the server of GameServer in it, so *)
(* that what is proved there holds here.  Then what the packets of a link  *)
(* add up to (After), what a client, its links and the server owe each     *)
(* other (Fits) and which events keep it, and the inductive invariant of   *)
(* the game (Agreement), kept by each step; the promises of Multiplayer    *)
(* come last.                                                              *)
(***************************************************************************)
EXTENDS Multiplayer, GameServerProofs

-----------------------------------------------------------------------------
(* The maps of an EntitySync *)

\* The types of m_network_entities and m_handle_map.
MapsType(ne, hm) ==
  /\ DOMAIN ne \subseteq EntityGuid /\ Range(ne) \subseteq Handle
  /\ DOMAIN hm \subseteq Handle /\ Range(hm) \subseteq EntityGuid

\* What is networked has its guid under its handle.
Kept(ne, hm) == \A g \in DOMAIN ne : ne[g] \in DOMAIN hm /\ hm[ne[g]] = g

\* NierClient has its own instance of the community modules.
LEMMA SameCardinality == ASSUME NEW S PROVE C!Cardinality(S) = Cardinality(S)
BY DEF C!Cardinality, Cardinality

LEMMA SameLists == ASSUME NEW S PROVE C!SetToSeqs(S) = SetToSeqs(S)
BY SameCardinality DEF C!SetToSeqs, SetToSeqs

LEMMA SameInverse == ASSUME NEW f PROVE C!AntiFunction(f) = AntiFunction(f)
BY DEF C!AntiFunction, AntiFunction, C!Inverse, Inverse, C!Range, Range

LEMMA EmptyMaps == MapsType(C!Empty, C!Empty) /\ Kept(C!Empty, C!Empty)
BY DEF MapsType, Kept, C!Empty, Range

LEMMA PutMaps ==
  ASSUME NEW ne, NEW hm, MapsType(ne, hm), NEW g \in EntityGuid, NEW h \in Handle
  PROVE  /\ MapsType(C!Put(ne, g, h), C!Put(hm, h, g))
         /\ h \notin DOMAIN hm /\ Kept(ne, hm) => Kept(C!Put(ne, g, h), C!Put(hm, h, g))
<1>1. MapsType(C!Put(ne, g, h), C!Put(hm, h, g))
  BY DEF MapsType, C!Put, Range
<1>2. h \notin DOMAIN hm /\ Kept(ne, hm) => Kept(C!Put(ne, g, h), C!Put(hm, h, g))
  BY DEF Kept, C!Put
<1> QED  BY <1>1, <1>2

LEMMA EraseGuid ==
  ASSUME NEW ne, NEW hm, MapsType(ne, hm), NEW g
  PROVE  /\ MapsType(C!Erase(ne, g), hm)
         /\ Kept(ne, hm) => Kept(C!Erase(ne, g), hm)
<1>1. /\ DOMAIN C!Erase(ne, g) = DOMAIN ne \ {g}
      /\ \A k \in DOMAIN ne \ {g} : C!Erase(ne, g)[k] = ne[k]
  BY DEF C!Erase, C!Restrict
<1>2. MapsType(C!Erase(ne, g), hm)
  BY <1>1 DEF MapsType, Range
<1> QED  BY <1>1, <1>2 DEF Kept

LEMMA EraseBoth ==
  ASSUME NEW ne, NEW hm, MapsType(ne, hm), NEW h \in DOMAIN hm
  PROVE  /\ MapsType(C!Erase(ne, hm[h]), C!Erase(hm, h))
         /\ Kept(ne, hm) => Kept(C!Erase(ne, hm[h]), C!Erase(hm, h))
<1>1. /\ DOMAIN C!Erase(ne, hm[h]) = DOMAIN ne \ {hm[h]}
      /\ \A k \in DOMAIN ne \ {hm[h]} : C!Erase(ne, hm[h])[k] = ne[k]
  BY DEF C!Erase, C!Restrict
<1>2. /\ DOMAIN C!Erase(hm, h) = DOMAIN hm \ {h}
      /\ \A k \in DOMAIN hm \ {h} : C!Erase(hm, h)[k] = hm[k]
  BY DEF C!Erase, C!Restrict
<1>3. MapsType(C!Erase(ne, hm[h]), C!Erase(hm, h))
  BY <1>1, <1>2 DEF MapsType, Range
<1>4. ASSUME Kept(ne, hm) PROVE Kept(C!Erase(ne, hm[h]), C!Erase(hm, h))
  BY <1>1, <1>2, <1>4 DEF Kept
<1> QED  BY <1>3, <1>4

\* A list of the members of a set, numbered from first on.
LEMMA NumberedMaps ==
  ASSUME NEW S, IsFiniteSet(S), S \subseteq Handle, NEW list \in SetToSeqs(S),
         NEW first \in Nat, first .. first + Len(list) - 1 \subseteq EntityGuid,
         NEW ne, ne = [g \in first .. first + Len(list) - 1 |-> list[g - first + 1]]
  PROVE  MapsType(ne, AntiFunction(ne)) /\ Kept(ne, AntiFunction(ne))
<1>1. Cardinality(S) \in Nat /\ Len(list) = Cardinality(S)
  BY FS_CardinalityType, ListType DEF SetToSeqs
<1>2. /\ Len(list) \in Nat
      /\ \A i \in 1 .. Len(list) : list[i] \in S
      /\ \A i, j \in 1 .. Len(list) : list[i] = list[j] => i = j
  BY <1>1, ListType DEF SetToSeqs
<1>3. DOMAIN ne = first .. first + Len(list) - 1
  OBVIOUS
<1>4. \A g \in DOMAIN ne : g - first + 1 \in 1 .. Len(list)
  BY <1>2, <1>3
<1>5. \A g, k \in DOMAIN ne : ne[g] \in S /\ (ne[g] = ne[k] => g = k)
  <2> SUFFICES ASSUME NEW g \in DOMAIN ne, NEW k \in DOMAIN ne
               PROVE  ne[g] \in S /\ (ne[g] = ne[k] => g = k)
    OBVIOUS
  <2>1. g \in Int /\ k \in Int
    BY <1>3
  <2>2. ne[g] = list[g - first + 1] /\ ne[k] = list[k - first + 1]
    BY <1>3
  <2>3. ne[g] = ne[k] => g - first + 1 = k - first + 1
    BY <1>2, <1>4, <2>2
  <2> QED  BY <1>2, <1>4, <2>1, <2>2, <2>3
<1> DEFINE hm == AntiFunction(ne)
<1>6. hm = [t \in Range(ne) |-> CHOOSE s \in DOMAIN ne : t \in Range(ne) => ne[s] = t]
  BY DEF AntiFunction, Inverse
<1> HIDE DEF hm
<1>7. \A g \in DOMAIN ne : ne[g] \in DOMAIN hm /\ hm[ne[g]] = g
  <2> SUFFICES ASSUME NEW g \in DOMAIN ne
               PROVE  ne[g] \in Range(ne)
                      /\ (CHOOSE s \in DOMAIN ne : ne[g] \in Range(ne) => ne[s] = ne[g]) = g
    BY <1>6
  <2>1. ne[g] \in Range(ne)
    BY DEF Range
  <2> DEFINE s == CHOOSE s \in DOMAIN ne : ne[g] \in Range(ne) => ne[s] = ne[g]
  <2>2. s \in DOMAIN ne /\ (ne[g] \in Range(ne) => ne[s] = ne[g])
    BY Zenon
  <2> QED  BY <1>5, <2>1, <2>2
<1>8. \A t \in DOMAIN hm : t \in S /\ hm[t] \in DOMAIN ne
  BY <1>5, <1>6, <1>7 DEF Range
<1>9. MapsType(ne, hm)
  BY <1>3, <1>5, <1>8 DEF MapsType, Range
<1> QED  BY <1>7, <1>9 DEF Kept, hm

-----------------------------------------------------------------------------
(* Types of the clients' variables *)

SessionType ==
  /\ session \in [Peer -> {"none", "connecting", "greeted", "lost"}]
  /\ welcomed \in [Peer -> BOOLEAN]
  /\ guid \in [Peer -> Guid \cup {NoClient}]
  /\ isMaster \in [Peer -> BOOLEAN]
  /\ players \in [Peer -> SUBSET Guid]
  /\ maxGuid \in [Peer -> Nat]
  /\ alive \in [Peer -> SUBSET Handle]

SyncType ==
  /\ DOMAIN networkEntities = Peer
  /\ DOMAIN handleMap = Peer
  /\ \A p \in Peer : MapsType(networkEntities[p], handleMap[p])

InboxType == inbox \in [Peer -> Seq(ClientPacket)]

ClientTypeOK == SessionType /\ SyncType /\ InboxType

LEMMA TypesOfBoth == MultiplayerTypeOK <=> TypeOK /\ ClientTypeOK
BY DEF MultiplayerTypeOK, ClientTypeOK, SessionType, SyncType, InboxType, MapsType

AllKept == \A p \in Peer : Kept(networkEntities[p], handleMap[p])

LEMMA AllKeptIs == NetworkedAreKept <=> AllKept
BY DEF NetworkedAreKept, AllKept, Kept

LEMMA ClientInit == C!Init => ClientTypeOK /\ AllKept
BY EmptyMaps DEF C!Init, ClientTypeOK, SessionType, SyncType, InboxType, AllKept, NoClient

\* What a client sends are packets of clients.
LEMMA ClientSends ==
  ASSUME InboxType, NEW p \in Peer, NEW pkts \in Seq(ClientPacket), C!SendPackets(p, pkts)
  PROVE  InboxType'
<1>1. inbox[p] \in Seq(ClientPacket)
  BY DEF InboxType
<1>2. inbox[p] \o pkts \in Seq(ClientPacket)
  BY <1>1
<1> QED  BY <1>2 DEF C!SendPackets, InboxType

\* The maps of one client are replaced by maps that are as good.
LEMMA SyncStep ==
  ASSUME SyncType, NEW p \in Peer, NEW ne, NEW hm, MapsType(ne, hm),
         Kept(networkEntities[p], handleMap[p]) => Kept(ne, hm),
         networkEntities' = [networkEntities EXCEPT ![p] = ne],
         \/ handleMap' = [handleMap EXCEPT ![p] = hm]
         \/ handleMap' = handleMap /\ hm = handleMap[p]
  PROVE  SyncType' /\ (AllKept => AllKept')
<1>1. \A q \in Peer :
        \/ q = p /\ networkEntities'[q] = ne /\ handleMap'[q] = hm
        \/ networkEntities'[q] = networkEntities[q] /\ handleMap'[q] = handleMap[q]
  BY DEF SyncType
<1>2. SyncType'
  BY <1>1 DEF SyncType
<1> QED  BY <1>1, <1>2 DEF AllKept

LEMMA SyncUnchanged ==
  ASSUME SyncType, UNCHANGED <<networkEntities, handleMap>>
  PROVE  SyncType' /\ (AllKept => AllKept')
BY DEF SyncType, AllKept

ClientGoal == ClientTypeOK' /\ (AllKept => AllKept')

LEMMA SessionSteps ==
  ASSUME ClientTypeOK, NEW p \in Peer,
         C!NewClient(p) \/ C!OnDisconnect(p) \/ C!EndSession(p), InboxType'
  PROVE  ClientGoal
<1>1. CASE C!NewClient(p) \/ C!OnDisconnect(p)
  <2>1. UNCHANGED <<networkEntities, handleMap>>
    BY <1>1 DEF C!NewClient, C!OnDisconnect, C!entitySync
  <2>2. SessionType'
    BY <1>1 DEF C!NewClient, C!OnDisconnect, C!entitySync, C!roster, ClientTypeOK, SessionType
  <2> QED  BY <2>1, <2>2, SyncUnchanged DEF ClientTypeOK, ClientGoal
<1>2. CASE C!EndSession(p)
  <2>1. SyncType' /\ (AllKept => AllKept')
    BY <1>2, EmptyMaps, SyncStep DEF C!EndSession, ClientTypeOK
  <2>2. SessionType'
    BY <1>2 DEF C!EndSession, ClientTypeOK, SessionType, NoClient
  <2> QED  BY <2>1, <2>2 DEF ClientTypeOK, ClientGoal
<1> QED  BY <1>1, <1>2

LEMMA GreetType ==
  ASSUME ClientTypeOK, NEW p \in Peer, C!OnConnect(p)
  PROVE  ClientGoal
<1>1. UNCHANGED <<networkEntities, handleMap>>
  BY DEF C!OnConnect, C!entitySync
<1>2. SessionType'
  BY DEF C!OnConnect, C!entitySync, C!roster, ClientTypeOK, SessionType
<1>3. PICK hello \in Hello : C!SendPackets(p, <<[id |-> "HELLO", hello |-> hello]>>)
  BY DEF C!OnConnect, C!SendHello
<1>4. [id |-> "HELLO", hello |-> hello] \in ClientPacket
  BY DEF ClientPacket
<1>5. <<[id |-> "HELLO", hello |-> hello]>> \in Seq(ClientPacket)
  BY <1>4
<1>6. InboxType'
  BY <1>3, <1>5, ClientSends DEF ClientTypeOK
<1> QED  BY <1>1, <1>2, <1>6, SyncUnchanged DEF ClientTypeOK, ClientGoal

\* The entities a client announces, deletes or updates are in range.
LEMMA EntityPacket ==
  ASSUME NEW g \in EntityGuid,
         NEW k \in {"SPAWN_ENTITY", "DESTROY_ENTITY", "ENTITY_DATA", "ENTITY_ANIMATION_START"}
  PROVE  /\ [id |-> k, guid |-> g] \in ClientPacket
         /\ <<[id |-> k, guid |-> g]>> \in Seq(ClientPacket)
<1>1. [id |-> k, guid |-> g] \in ClientPacket
  BY DEF ClientPacket, EntityUpdateId
<1> QED  BY <1>1

\* on_enter_server numbers what is there and announces it.
LEMMA EnterType ==
  ASSUME ClientTypeOK, NEW p \in Peer, NEW first \in EntityGuid \cup {0}, NEW b,
         C!OnEnterServer(p, first, b)
  PROVE  /\ maxGuid' \in [Peer -> Nat]
         /\ SyncType' /\ (AllKept => AllKept')
         /\ InboxType'
<1> DEFINE S == IF b THEN alive[p] ELSE {}
<1>1. IsFiniteSet(S) /\ S \subseteq Handle /\ first \in Nat
  <2>1. S \subseteq Handle
    BY DEF ClientTypeOK, SessionType
  <2>2. first \in Nat
    BY EntityGuidAssumption
  <2> QED  BY <2>1, <2>2, HandleAssumption, FS_Subset
<1> PICK list \in SetToSeqs(S) :
      LET fresh == first .. first + Len(list) - 1
          numbered == [g \in fresh |-> list[g - first + 1]]
      IN /\ fresh \subseteq EntityGuid
         /\ maxGuid' = [maxGuid EXCEPT ![p] = first + Len(list)]
         /\ networkEntities' = [networkEntities EXCEPT ![p] = numbered]
         /\ handleMap' = [handleMap EXCEPT ![p] = AntiFunction(numbered)]
         /\ C!SendPackets(p, [i \in 1 .. Len(list) |->
                               [id |-> "SPAWN_ENTITY", guid |-> first + i - 1]])
  BY SameLists, SameInverse DEF C!OnEnterServer
<1> HIDE DEF S
<1> DEFINE ne == [g \in first .. first + Len(list) - 1 |-> list[g - first + 1]]
           hm == AntiFunction(ne)
<1>2. Len(list) \in Nat
  BY <1>1, ListType
<1>3. first .. first + Len(list) - 1 \subseteq EntityGuid
  OBVIOUS
<1>4. MapsType(ne, hm) /\ Kept(ne, hm)
  <2> DEFINE f == ne
  <2>1. f = [g \in first .. first + Len(list) - 1 |-> list[g - first + 1]]
    OBVIOUS
  <2> HIDE DEF f
  <2>2. MapsType(f, AntiFunction(f)) /\ Kept(f, AntiFunction(f))
    BY <1>1, <1>3, <2>1, NumberedMaps
  <2> QED  BY <2>2 DEF f
<1>5. /\ networkEntities' = [networkEntities EXCEPT ![p] = ne]
      /\ handleMap' = [handleMap EXCEPT ![p] = hm]
  OBVIOUS
<1>6. SyncType' /\ (AllKept => AllKept')
  <2> HIDE DEF ne, hm
  <2> QED  BY <1>4, <1>5, SyncStep DEF ClientTypeOK
<1>7. maxGuid' \in [Peer -> Nat]
  BY <1>1, <1>2 DEF ClientTypeOK, SessionType
<1>8. InboxType'
  <2> DEFINE news == [i \in 1 .. Len(list) |-> [id |-> "SPAWN_ENTITY", guid |-> first + i - 1]]
  <2>1. \A i \in 1 .. Len(list) :
          [id |-> "SPAWN_ENTITY", guid |-> first + i - 1] \in ClientPacket
    <3> SUFFICES ASSUME NEW i \in 1 .. Len(list)
                 PROVE  [id |-> "SPAWN_ENTITY", guid |-> first + i - 1] \in ClientPacket
      OBVIOUS
    <3>1. first + i - 1 \in first .. first + Len(list) - 1
      BY <1>1, <1>2
    <3> QED  BY <1>3, <3>1, EntityPacket
  <2>2. news \in Seq(ClientPacket)
    BY <1>2, <2>1
  <2>3. C!SendPackets(p, news)
    OBVIOUS
  <2> HIDE DEF news
  <2> QED  BY <2>2, <2>3, ClientSends DEF ClientTypeOK
<1> QED  BY <1>6, <1>7, <1>8

\* on_packet_received, of a packet that the server may have sent.
LEMMA ConsumeType ==
  ASSUME TypeOK, ClientTypeOK, NEW p \in Peer, C!Consume(p)
  PROVE  ClientGoal
<1> DEFINE pkt == Head(outbox[p])
<1>1. pkt \in Packet
  BY DEF C!Consume, TypeOK
<1>2. /\ pkt.id = "WELCOME" => /\ pkt.guid \in Guid
                               /\ pkt.highestEntityGuid \in EntityGuid \cup {0}
                               /\ pkt.isMasterClient \in BOOLEAN
      /\ pkt.id \in {"CREATE_PLAYER", "DESTROY_PLAYER"} => pkt.guid \in Guid
      /\ pkt.id = "SPAWN_ENTITY" => pkt.guid \in EntityGuid
  BY <1>1 DEF Packet, PlayerPacketId, EntityUpdateId
<1> HIDE DEF pkt
<1>3. session' = session
  BY DEF C!Consume
<1>4. \/ UNCHANGED <<C!roster, C!entitySync, alive, inbox>>
      \/ C!HandleWelcome(p, pkt)
      \/ C!HandleSetMasterClient(p, pkt)
      \/ C!HandleCreatePlayer(p, pkt) \/ C!HandleDestroyPlayer(p, pkt)
      \/ C!HandleCreateEntity(p, pkt) \/ C!HandleDestroyEntity(p, pkt)
  BY DEF C!Consume, C!HandleStreaming, pkt
<1>5. CASE UNCHANGED <<C!roster, C!entitySync, alive, inbox>>
  <2>1. SyncType' /\ (AllKept => AllKept')
    BY <1>5, SyncUnchanged DEF C!entitySync, ClientTypeOK
  <2> QED  BY <1>3, <1>5, <2>1
           DEF C!roster, C!entitySync, ClientGoal, ClientTypeOK, SessionType, InboxType
<1>6. CASE C!HandleWelcome(p, pkt)
  <2>1. pkt.id = "WELCOME"
    BY <1>6 DEF C!HandleWelcome
  <2>2. /\ maxGuid' \in [Peer -> Nat]
        /\ SyncType' /\ (AllKept => AllKept')
        /\ InboxType'
    BY <1>2, <1>6, <2>1, EnterType DEF C!HandleWelcome
  <2>3. SessionType'
    BY <1>2, <1>3, <1>6, <2>1, <2>2 DEF C!HandleWelcome, ClientTypeOK, SessionType
  <2> QED  BY <2>2, <2>3 DEF ClientGoal, ClientTypeOK
<1>7. CASE \/ C!HandleSetMasterClient(p, pkt)
           \/ C!HandleCreatePlayer(p, pkt) \/ C!HandleDestroyPlayer(p, pkt)
  <2>1. SyncType' /\ (AllKept => AllKept')
    BY <1>7, SyncUnchanged DEF C!HandleSetMasterClient, C!HandleCreatePlayer,
         C!HandleDestroyPlayer, C!entitySync, ClientTypeOK
  <2>2. players[p] \in SUBSET Guid
    BY DEF ClientTypeOK, SessionType
  <2>3. /\ isMaster' = isMaster \/ isMaster' = [isMaster EXCEPT ![p] = TRUE]
        /\ \/ players' = players
           \/ \E ps \in SUBSET Guid : players' = [players EXCEPT ![p] = ps]
    BY <1>2, <1>7, <2>2 DEF C!HandleSetMasterClient, C!HandleCreatePlayer, C!HandleDestroyPlayer
  <2>4. isMaster' \in [Peer -> BOOLEAN] /\ players' \in [Peer -> SUBSET Guid]
    BY <2>3 DEF ClientTypeOK, SessionType
  <2>5. UNCHANGED <<welcomed, guid, maxGuid, alive, inbox>>
    BY <1>7 DEF C!HandleSetMasterClient, C!HandleCreatePlayer, C!HandleDestroyPlayer, C!entitySync
  <2> QED  BY <1>3, <2>1, <2>4, <2>5 DEF ClientGoal, ClientTypeOK, SessionType, InboxType
<1>8. CASE C!HandleCreateEntity(p, pkt)
  <2>1. pkt.guid \in EntityGuid /\ pkt.guid \in Nat
    BY <1>2, <1>8, EntityGuidAssumption DEF C!HandleCreateEntity
  <2>2. InboxType' /\ UNCHANGED <<C!roster, inbox>>
    BY <1>8 DEF C!HandleCreateEntity, ClientTypeOK, InboxType
  <2>3. ASSUME NEW h \in C!FreeHandles(p), C!AddEntity(p, h, pkt.guid),
               alive' = [alive EXCEPT ![p] = @ \cup {h}]
        PROVE  ClientGoal
    <3>1. h \in Handle /\ h \notin DOMAIN handleMap[p]
      BY DEF C!FreeHandles
    <3>2. SyncType' /\ (AllKept => AllKept')
      <4> DEFINE ne == C!Put(networkEntities[p], pkt.guid, h)
                 hm == C!Put(handleMap[p], h, pkt.guid)
      <4>1. MapsType(networkEntities[p], handleMap[p])
        BY DEF ClientTypeOK, SyncType
      <4>2. MapsType(ne, hm) /\ (Kept(networkEntities[p], handleMap[p]) => Kept(ne, hm))
        BY <2>1, <3>1, <4>1, PutMaps
      <4>3. /\ networkEntities' = [networkEntities EXCEPT ![p] = ne]
            /\ handleMap' = [handleMap EXCEPT ![p] = hm]
        BY <2>3 DEF C!AddEntity
      <4> HIDE DEF ne, hm
      <4> QED  BY <4>2, <4>3, SyncStep DEF ClientTypeOK
    <3>3. SessionType'
      <4>1. alive[p] \cup {h} \in SUBSET Handle
        BY <3>1 DEF ClientTypeOK, SessionType
      <4>2. alive' \in [Peer -> SUBSET Handle]
        BY <2>3, <4>1 DEF ClientTypeOK, SessionType
      <4>3. maxGuid' \in [Peer -> Nat]
        BY <2>1, <2>3 DEF C!AddEntity, ClientTypeOK, SessionType
      <4> QED  BY <1>3, <2>2, <4>2, <4>3 DEF C!roster, ClientTypeOK, SessionType
    <3> QED  BY <2>2, <3>2, <3>3 DEF ClientGoal, ClientTypeOK
  <2>4. CASE UNCHANGED <<alive, C!entitySync>>
    <3>1. SyncType' /\ (AllKept => AllKept')
      BY <2>4, SyncUnchanged DEF C!entitySync, ClientTypeOK
    <3> QED  BY <1>3, <2>2, <2>4, <3>1
             DEF C!roster, C!entitySync, ClientGoal, ClientTypeOK, SessionType, InboxType
  <2> QED  BY <1>8, <2>3, <2>4 DEF C!HandleCreateEntity
<1>9. CASE C!HandleDestroyEntity(p, pkt)
  <2>1. SyncType' /\ (AllKept => AllKept')
    <3> DEFINE ne == C!Erase(networkEntities[p], pkt.guid)
               hm == handleMap[p]
    <3>1. MapsType(networkEntities[p], handleMap[p]) /\ DOMAIN handleMap = Peer
      BY DEF ClientTypeOK, SyncType
    <3>2. MapsType(ne, hm) /\ (Kept(networkEntities[p], handleMap[p]) => Kept(ne, hm))
      BY <3>1, EraseGuid
    <3>3. networkEntities' = [networkEntities EXCEPT ![p] = ne]
      BY <1>9 DEF C!HandleDestroyEntity
    <3>4. handleMap' = handleMap /\ hm = handleMap[p]
      BY <1>9 DEF C!HandleDestroyEntity
    <3> HIDE DEF ne, hm
    <3> QED  BY <3>2, <3>3, <3>4, SyncStep DEF ClientTypeOK
  <2>2. SessionType' /\ InboxType'
    BY <1>3, <1>9 DEF C!HandleDestroyEntity, C!roster, ClientTypeOK, SessionType, InboxType
  <2> QED  BY <2>1, <2>2 DEF ClientGoal, ClientTypeOK
<1> QED  BY <1>4, <1>5, <1>6, <1>7, <1>8, <1>9

\* What think() sends after the packets.
LEMMA StreamedPackets ==
  ASSUME ClientTypeOK, NEW p \in Peer
  PROVE  /\ C!OwnPlayerData \in Seq(ClientPacket)
         /\ \A updates \in C!EntityUpdates(p) : updates \in Seq(ClientPacket)
<1>1. [id |-> "PLAYER_DATA"] \in ClientPacket
  BY DEF ClientPacket, PlayerPacketId
<1>2. C!OwnPlayerData \in Seq(ClientPacket)
  BY <1>1 DEF C!OwnPlayerData
<1>3. ASSUME NEW updates \in C!EntityUpdates(p)
      PROVE  updates \in Seq(ClientPacket)
  <2> DEFINE S == {g \in DOMAIN networkEntities[p] :
                     "ENTITY_DATA" \in Streamed /\ networkEntities[p][g] \in alive[p]}
  <2>1. PICK list \in SetToSeqs(S) :
          updates = [i \in 1 .. Len(list) |-> [id |-> "ENTITY_DATA", guid |-> list[i]]]
    BY <1>3, SameLists DEF C!EntityUpdates
  <2>2. S \subseteq EntityGuid
    BY DEF ClientTypeOK, SyncType, MapsType
  <2> HIDE DEF S
  <2>3. Len(list) \in Nat /\ \A i \in 1 .. Len(list) : list[i] \in EntityGuid
    BY <2>2, EntityGuidAssumption, FS_Subset, ListType
  <2>4. \A i \in 1 .. Len(list) : [id |-> "ENTITY_DATA", guid |-> list[i]] \in ClientPacket
    BY <2>3, EntityPacket
  <2> QED  BY <2>1, <2>3, <2>4
<1> QED  BY <1>2, <1>3

LEMMA ThinkType ==
  ASSUME ClientTypeOK, NEW p \in Peer, C!ThinkTail(p)
  PROVE  ClientGoal
<1>1. SyncType' /\ (AllKept => AllKept')
  BY SyncUnchanged DEF C!ThinkTail, C!entitySync, ClientTypeOK
<1>2. InboxType'
  <2>1. CASE C!SendPackets(p, C!OwnPlayerData)
    BY <2>1, StreamedPackets, ClientSends DEF ClientTypeOK
  <2>2. ASSUME NEW updates \in C!EntityUpdates(p),
               C!SendPackets(p, C!OwnPlayerData \o updates)
        PROVE  InboxType'
    <3> DEFINE data == C!OwnPlayerData \o updates
    <3>1. data \in Seq(ClientPacket)
      BY StreamedPackets
    <3> HIDE DEF data
    <3> QED  BY <2>2, <3>1, ClientSends DEF ClientTypeOK, data
  <2> QED  BY <2>1, <2>2 DEF C!ThinkTail
<1>3. alive' \in [Peer -> SUBSET Handle]
  <2>1. alive[p] \cap DOMAIN handleMap[p] \in SUBSET Handle
    BY DEF ClientTypeOK, SessionType
  <2> QED  BY <2>1 DEF C!ThinkTail, C!Prune, ClientTypeOK, SessionType
<1>4. SessionType'
  BY <1>3 DEF C!ThinkTail, C!entitySync, C!roster, ClientTypeOK, SessionType
<1> QED  BY <1>1, <1>2, <1>4 DEF ClientGoal, ClientTypeOK

LEMMA HookSendsType ==
  ASSUME ClientTypeOK, NEW p \in Peer, NEW id \in PlayerPacketId, C!HookSends(p, id)
  PROVE  ClientGoal
<1>1. [id |-> id] \in ClientPacket
  BY DEF ClientPacket
<1>2. <<[id |-> id]>> \in Seq(ClientPacket)
  BY <1>1
<1>3. InboxType'
  BY <1>2, ClientSends DEF C!HookSends, ClientTypeOK
<1>4. SyncType' /\ (AllKept => AllKept')
  BY SyncUnchanged DEF C!HookSends, C!entitySync, ClientTypeOK
<1>5. SessionType'
  BY DEF C!HookSends, C!entitySync, C!roster, ClientTypeOK, SessionType
<1> QED  BY <1>3, <1>4, <1>5 DEF ClientGoal, ClientTypeOK

\* The game spawns an enemy.
LEMMA GameSpawnsType ==
  ASSUME ClientTypeOK, NEW p \in Peer, NEW h \in Handle, C!GameSpawns(p, h)
  PROVE  ClientGoal
<1>1. alive' \in [Peer -> SUBSET Handle]
  <2>1. alive[p] \cup {h} \in SUBSET Handle
    BY DEF ClientTypeOK, SessionType
  <2>2. alive' = [alive EXCEPT ![p] = @ \cup {h}]
    BY DEF C!GameSpawns
  <2> QED  BY <2>1, <2>2 DEF ClientTypeOK, SessionType
<1>2. CASE UNCHANGED <<C!entitySync, inbox>>
  <2>1. SyncType' /\ (AllKept => AllKept')
    BY <1>2, SyncUnchanged DEF C!entitySync, ClientTypeOK
  <2>2. SessionType' /\ InboxType'
    BY <1>1, <1>2 DEF C!GameSpawns, C!entitySync, C!roster, ClientTypeOK, SessionType, InboxType
  <2> QED  BY <2>1, <2>2 DEF ClientGoal, ClientTypeOK
<1>3. CASE C!OnEntityCreated(p, h)
  <2>1. maxGuid[p] \in EntityGuid /\ maxGuid[p] \in Nat
    BY <1>3 DEF C!OnEntityCreated, ClientTypeOK, SessionType
  <2>2. SyncType' /\ (AllKept => AllKept')
    <3> DEFINE ne == C!Put(networkEntities[p], maxGuid[p], h)
               hm == C!Put(handleMap[p], h, maxGuid[p])
    <3>1. MapsType(networkEntities[p], handleMap[p])
      BY DEF ClientTypeOK, SyncType
    <3>2. h \notin DOMAIN handleMap[p]
      BY DEF C!GameSpawns, C!FreeHandles
    <3>3. MapsType(ne, hm) /\ (Kept(networkEntities[p], handleMap[p]) => Kept(ne, hm))
      BY <2>1, <3>1, <3>2, PutMaps
    <3>4. /\ networkEntities' = [networkEntities EXCEPT ![p] = ne]
          /\ handleMap' = [handleMap EXCEPT ![p] = hm]
      BY <1>3 DEF C!OnEntityCreated
    <3> HIDE DEF ne, hm
    <3> QED  BY <3>3, <3>4, SyncStep DEF ClientTypeOK
  <2>3. InboxType'
    BY <1>3, <2>1, EntityPacket, ClientSends DEF C!OnEntityCreated, ClientTypeOK
  <2>4. SessionType'
    BY <1>1, <1>3, <2>1 DEF C!GameSpawns, C!OnEntityCreated, C!roster, ClientTypeOK, SessionType
  <2> QED  BY <2>2, <2>3, <2>4 DEF ClientGoal, ClientTypeOK
<1> QED  BY <1>2, <1>3 DEF C!GameSpawns

\* The game terminates an enemy.
LEMMA GameTerminatesType ==
  ASSUME ClientTypeOK, NEW p \in Peer, NEW h \in Handle, C!GameTerminates(p, h)
  PROVE  ClientGoal
<1>1. alive' \in [Peer -> SUBSET Handle]
  <2>1. alive[p] \ {h} \in SUBSET Handle
    BY DEF ClientTypeOK, SessionType
  <2>2. alive' = [alive EXCEPT ![p] = @ \ {h}]
    BY DEF C!GameTerminates
  <2> QED  BY <2>1, <2>2 DEF ClientTypeOK, SessionType
<1>2. CASE UNCHANGED <<C!entitySync, inbox>>
  <2>1. SyncType' /\ (AllKept => AllKept')
    BY <1>2, SyncUnchanged DEF C!entitySync, ClientTypeOK
  <2>2. SessionType' /\ InboxType'
    BY <1>1, <1>2 DEF C!GameTerminates, C!entitySync, C!roster, ClientTypeOK, SessionType,
         InboxType
  <2> QED  BY <2>1, <2>2 DEF ClientGoal, ClientTypeOK
<1>3. CASE /\ C!OnEntityDeleted(p, h)
           /\ h \in DOMAIN handleMap[p]
           /\ handleMap[p][h] \in DOMAIN networkEntities[p]
  <2> DEFINE g == handleMap[p][h]
  <2>1. MapsType(networkEntities[p], handleMap[p])
    BY DEF ClientTypeOK, SyncType
  <2>2. g \in EntityGuid
    BY <1>3, <2>1 DEF MapsType
  <2>3. SyncType' /\ (AllKept => AllKept')
    <3> DEFINE ne == C!Erase(networkEntities[p], handleMap[p][h])
               hm == C!Erase(handleMap[p], h)
    <3>1. MapsType(ne, hm) /\ (Kept(networkEntities[p], handleMap[p]) => Kept(ne, hm))
      BY <1>3, <2>1, EraseBoth
    <3>2. /\ networkEntities' = [networkEntities EXCEPT ![p] = ne]
          /\ handleMap' = [handleMap EXCEPT ![p] = hm]
      BY <1>3 DEF C!OnEntityDeleted
    <3> HIDE DEF ne, hm
    <3> QED  BY <3>1, <3>2, SyncStep DEF ClientTypeOK
  <2>4. InboxType'
    <3>1. \/ C!SendPackets(p, <<[id |-> "DESTROY_ENTITY", guid |-> g]>>)
          \/ UNCHANGED inbox
      BY <1>3 DEF C!OnEntityDeleted
    <3> HIDE DEF g
    <3> QED  BY <2>2, <3>1, EntityPacket, ClientSends DEF ClientTypeOK, InboxType
  <2>5. SessionType'
    BY <1>1, <1>3 DEF C!GameTerminates, C!OnEntityDeleted, C!roster, ClientTypeOK, SessionType
  <2> QED  BY <2>3, <2>4, <2>5 DEF ClientGoal, ClientTypeOK
<1> QED  BY <1>2, <1>3 DEF C!GameTerminates, C!OnEntityDeleted

\* A packet that the server takes off the link, and the loss of a link.
LEMMA InboxCut ==
  ASSUME InboxType, NEW p \in Peer,
         \/ inbox' = inbox
         \/ inbox' = [inbox EXCEPT ![p] = <<>>]
         \/ inbox[p] # <<>> /\ inbox' = [inbox EXCEPT ![p] = Tail(@)]
  PROVE  InboxType'
<1>1. inbox[p] # <<>> => Tail(inbox[p]) \in Seq(ClientPacket)
  BY DEF InboxType
<1>2. \/ inbox' = inbox
      \/ \E l \in Seq(ClientPacket) : inbox' = [inbox EXCEPT ![p] = l]
  <2>1. <<>> \in Seq(ClientPacket)
    OBVIOUS
  <2> QED  BY <1>1, <2>1, Zenon
<1> QED  BY <1>2 DEF InboxType

LEMMA ClientUnchanged == ClientTypeOK /\ UNCHANGED clientVars /\ InboxType' => ClientGoal
BY SyncUnchanged DEF clientVars, ClientGoal, ClientTypeOK, SessionType

\* Every step of the game keeps the clients' types, and what is networked.
LEMMA GameType ==
  ASSUME TypeOK, ClientTypeOK, [MultiplayerNext]_allVars
  PROVE  ClientGoal
<1>1. CASE UNCHANGED allVars
  BY <1>1, ClientUnchanged DEF allVars, ClientTypeOK, InboxType
<1>2. ASSUME NEW p \in Peer, Begin(p) \/ Quit(p) \/ Break(p)
      PROVE  ClientGoal
  <2>1. InboxType'
    BY <1>2, InboxCut DEF Begin, Quit, Break, ClientTypeOK
  <2> QED  BY <1>2, <2>1, SessionSteps DEF Begin, Quit, Break
<1>3. ASSUME NEW p \in Peer, ServerDisconnect(p) PROVE ClientGoal
  BY <1>3, ClientUnchanged DEF ServerDisconnect, ClientTypeOK, InboxType
<1>4. ASSUME NEW p \in Peer, ServerReceive(p) PROVE ClientGoal
  <2>1. InboxType'
    BY <1>4, InboxCut DEF ServerReceive, ClientTypeOK
  <2>2. UNCHANGED clientVars \/ C!OnDisconnect(p)
    BY <1>4 DEF ServerReceive
  <2> QED  BY <2>1, <2>2, ClientUnchanged, SessionSteps
<1>5. ASSUME NEW p \in Peer, HandleEvent(p) PROVE ClientGoal
  BY <1>5, GreetType, ConsumeType DEF HandleEvent
<1>6. ASSUME NEW p \in Peer, EndThink(p) PROVE ClientGoal
  BY <1>6, ThinkType DEF EndThink
<1>7. ASSUME NEW p \in Peer, CallHook(p) PROVE ClientGoal
  BY <1>7, HookSendsType, GameSpawnsType, GameTerminatesType DEF CallHook
<1> QED  BY <1>1, <1>2, <1>3, <1>4, <1>5, <1>6, <1>7 DEF MultiplayerNext

\* Of the game, the server sees steps of its own.
LEMMA GameIsServerStep ==
  ASSUME ClientTypeOK, [MultiplayerNext]_allVars
  PROVE  [ServerStep]_vars
<1>1. CASE UNCHANGED allVars
  BY <1>1 DEF allVars
<1>2. ASSUME NEW p \in Peer, Begin(p) \/ Quit(p) \/ Break(p) \/ ServerDisconnect(p)
      PROVE  [ServerStep]_vars
  BY <1>2 DEF Begin, Quit, Break, ServerDisconnect, ServerStep
<1>3. ASSUME NEW p \in Peer, ServerReceive(p) PROVE [ServerStep]_vars
  <2>1. Head(inbox[p]) \in ClientPacket
    BY <1>3 DEF ServerReceive, ClientTypeOK, InboxType
  <2> QED  BY <1>3, <2>1 DEF ServerReceive, ServerStep
<1>4. ASSUME NEW p \in Peer, C!Consume(p), Serverless PROVE [ServerStep]_vars
  <2>1. Deliver(p)
    BY <1>4 DEF C!Consume, Serverless, Deliver, room, world
  <2> QED  BY <2>1 DEF ServerStep
<1>5. ASSUME NEW p \in Peer, UNCHANGED outbox, Serverless PROVE [ServerStep]_vars
  BY <1>5 DEF Serverless, vars
<1>6. ASSUME NEW p \in Peer, HandleEvent(p) PROVE [ServerStep]_vars
  BY <1>4, <1>5, <1>6 DEF HandleEvent, C!OnConnect
<1>7. ASSUME NEW p \in Peer, EndThink(p) PROVE [ServerStep]_vars
  BY <1>5, <1>7 DEF EndThink, C!ThinkTail
<1>8. ASSUME NEW p \in Peer, CallHook(p) PROVE [ServerStep]_vars
  BY <1>5, <1>8 DEF CallHook, C!HookSends, C!GameSpawns, C!GameTerminates
<1> QED  BY <1>1, <1>2, <1>3, <1>6, <1>7, <1>8 DEF MultiplayerNext

LEMMA GameInit == MultiplayerInit => TypeOK /\ ClientTypeOK /\ AllKept
BY InitType, ClientInit DEF MultiplayerInit

LEMMA GameTypes == MultiplayerSpec => [](TypeOK /\ ClientTypeOK)
<1>1. TypeOK /\ ClientTypeOK /\ [MultiplayerNext]_allVars => (TypeOK /\ ClientTypeOK)'
  BY GameType, GameIsServerStep, NextType DEF ClientGoal
<1> QED  BY <1>1, GameInit, PTL DEF MultiplayerSpec

\* Every variable of the server, the links and the games keeps its type.
THEOREM GameTypeCorrect == MultiplayerSpec => []MultiplayerTypeOK
BY GameTypes, TypesOfBoth, PTL

\* What the server does in a whole game is what it does by itself, so everything proved
\* of the server holds of the game.
THEOREM GameHasServer == MultiplayerSpec => UnboundedSpec
<1>1. MultiplayerInit => Init
  BY DEF MultiplayerInit
<1>2. ClientTypeOK /\ [MultiplayerNext]_allVars => [ServerStep]_vars
  BY GameIsServerStep
<1> QED  BY <1>1, <1>2, GameTypes, PTL DEF MultiplayerSpec, UnboundedSpec

\* m_network_entities and m_handle_map stay inverse on what is networked, through
\* numbering, copies, removals by packet and terminations by the game.
THEOREM NetworkedAreKeptAlways == MultiplayerSpec => []NetworkedAreKept
<1>1. TypeOK /\ ClientTypeOK /\ AllKept /\ [MultiplayerNext]_allVars => AllKept'
  BY GameType DEF ClientGoal
<1> QED  BY <1>1, GameInit, GameTypes, AllKeptIs, PTL DEF MultiplayerSpec

\* The server of a game keeps its promises, the order on the links included.
THEOREM GameServerSafe == MultiplayerSpec => [](Safety /\ LinkSafety)
BY GameHasServer, UnboundedSafe, UnboundedLinkSafety, PTL

\* Seen through its members, its master client and its entities, a whole game is a Room.
THEOREM GameIsARoom == MultiplayerSpec => IsARoom
BY GameHasServer, UnboundedIsARoom, PTL

\* Mastership is never taken from a client that stays in a game.
THEOREM GameMasterStays == MultiplayerSpec => MasterStays
BY GameHasServer, UnboundedMasterStays, PTL

-----------------------------------------------------------------------------
(* What the packets of a link add up to.  The lemmas say of After what the    *)
(* equations of a fold would say: nothing for no packets, one more packet at  *)
(* the end, one fewer at the front.                                           *)

Stays(x, set, l, n, add, del) ==
  \/ x \in set /\ ~ TakenAway(l, 0, n, del, x)
  \/ \E i \in 1 .. n : l[i].id = add /\ l[i].guid = x /\ ~ TakenAway(l, i, n, del, x)

LEMMA AfterMember ==
  ASSUME NEW set, NEW l, NEW n, NEW add, NEW del, NEW x
  PROVE  x \in After(set, l, n, add, del) <=> Stays(x, set, l, n, add, del)
BY DEF After, Stays

\* What one packet does to a set.
Told(set, pkt, add, del) == IF pkt.id = add THEN set \cup {pkt.guid}
                            ELSE IF pkt.id = del THEN set \ {pkt.guid}
                            ELSE set

LEMMA AfterNone ==
  ASSUME NEW set, NEW l, NEW add, NEW del
  PROVE  After(set, l, 0, add, del) = set
BY DEF After, TakenAway

LEMMA TakenLast ==
  ASSUME NEW l, NEW n \in Nat, NEW i \in 0 .. n, NEW del, NEW x
  PROVE  TakenAway(l, i, n + 1, del, x)
           <=> TakenAway(l, i, n, del, x) \/ (l[n + 1].id = del /\ l[n + 1].guid = x)
BY DEF TakenAway

LEMMA AfterLast ==
  ASSUME NEW set, NEW l, NEW n \in Nat, NEW add, NEW del, add # del
  PROVE  After(set, l, n + 1, add, del) = Told(After(set, l, n, add, del), l[n + 1], add, del)
<1> SUFFICES ASSUME NEW x
             PROVE  Stays(x, set, l, n + 1, add, del)
                      <=> x \in Told(After(set, l, n, add, del), l[n + 1], add, del)
  BY AfterMember
<1>1. \A i \in 0 .. n :
        TakenAway(l, i, n + 1, del, x)
          <=> TakenAway(l, i, n, del, x) \/ (l[n + 1].id = del /\ l[n + 1].guid = x)
  BY TakenLast
<1>2. ~ TakenAway(l, n + 1, n + 1, del, x)
  BY DEF TakenAway
<1>3. Stays(x, set, l, n + 1, add, del)
        <=> \/ /\ Stays(x, set, l, n, add, del)
               /\ ~ (l[n + 1].id = del /\ l[n + 1].guid = x)
            \/ l[n + 1].id = add /\ l[n + 1].guid = x
  <2>1. 1 .. n + 1 = 1 .. n \cup {n + 1} /\ 0 \in 0 .. n /\ 1 .. n \subseteq 0 .. n
    OBVIOUS
  <2> QED  BY <1>1, <1>2, <2>1 DEF Stays
<1> QED  BY <1>3, AfterMember DEF Told

LEMMA AfterFirst ==
  ASSUME NEW set, NEW l, NEW n \in Nat, NEW add, NEW del, add # del,
         NEW m, \A i \in 1 .. n : m[i] = l[i + 1]
  PROVE  After(set, l, n + 1, add, del) = After(Told(set, l[1], add, del), m, n, add, del)
<1> SUFFICES ASSUME NEW x
             PROVE  Stays(x, set, l, n + 1, add, del)
                      <=> Stays(x, Told(set, l[1], add, del), m, n, add, del)
  BY AfterMember
<1>1. ASSUME NEW i \in 0 .. n
      PROVE  TakenAway(l, i + 1, n + 1, del, x) <=> TakenAway(m, i, n, del, x)
  <2>1. ASSUME NEW j \in i + 2 .. n + 1, l[j].id = del, l[j].guid = x
        PROVE  \E k \in i + 1 .. n : m[k].id = del /\ m[k].guid = x
    <3>1. j - 1 \in i + 1 .. n /\ m[j - 1] = l[j]
      OBVIOUS
    <3> QED  BY <2>1, <3>1
  <2>2. ASSUME NEW j \in i + 1 .. n, m[j].id = del, m[j].guid = x
        PROVE  \E k \in i + 2 .. n + 1 : l[k].id = del /\ l[k].guid = x
    <3>1. j + 1 \in i + 2 .. n + 1 /\ m[j] = l[j + 1]
      OBVIOUS
    <3> QED  BY <2>2, <3>1
  <2>3. (i + 1) + 1 = i + 2
    OBVIOUS
  <2> QED  BY <2>1, <2>2, <2>3 DEF TakenAway
<1>2. TakenAway(l, 0, n + 1, del, x)
        <=> TakenAway(m, 0, n, del, x) \/ (l[1].id = del /\ l[1].guid = x)
  <2>1. 1 .. n + 1 = {1} \cup (2 .. n + 1)
    OBVIOUS
  <2>2. TakenAway(l, 0, n + 1, del, x)
          <=> TakenAway(l, 1, n + 1, del, x) \/ (l[1].id = del /\ l[1].guid = x)
    BY <2>1 DEF TakenAway
  <2> QED  BY <1>1, <2>2
<1>3. (\E i \in 1 .. n + 1 : l[i].id = add /\ l[i].guid = x /\ ~ TakenAway(l, i, n + 1, del, x))
        <=> \/ l[1].id = add /\ l[1].guid = x /\ ~ TakenAway(m, 0, n, del, x)
            \/ \E i \in 1 .. n : m[i].id = add /\ m[i].guid = x /\ ~ TakenAway(m, i, n, del, x)
  <2>1. ASSUME NEW i \in 1 .. n + 1,
               l[i].id = add, l[i].guid = x, ~ TakenAway(l, i, n + 1, del, x), i # 1
        PROVE  \E k \in 1 .. n : m[k].id = add /\ m[k].guid = x /\ ~ TakenAway(m, k, n, del, x)
    <3>1. i - 1 \in 1 .. n /\ i - 1 \in 0 .. n /\ (i - 1) + 1 = i /\ m[i - 1] = l[i]
      BY <2>1
    <3>2. ~ TakenAway(m, i - 1, n, del, x)
      BY <1>1, <2>1, <3>1
    <3> QED  BY <2>1, <3>1, <3>2
  <2>2. ASSUME NEW i \in 1 .. n,
               m[i].id = add, m[i].guid = x, ~ TakenAway(m, i, n, del, x)
        PROVE  /\ i + 1 \in 1 .. n + 1
               /\ l[i + 1].id = add /\ l[i + 1].guid = x /\ ~ TakenAway(l, i + 1, n + 1, del, x)
    BY <1>1, <2>2
  <2>3. 1 \in 1 .. n + 1 /\ (TakenAway(l, 1, n + 1, del, x) <=> TakenAway(m, 0, n, del, x))
    BY <1>1
  <2> QED  BY <2>1, <2>2, <2>3
<1> QED  BY <1>2, <1>3 DEF Stays, Told

LEMMA AfterSame ==
  ASSUME NEW set, NEW l, NEW m, NEW n \in Nat, NEW add, NEW del,
         \A i \in 1 .. n : l[i] = m[i]
  PROVE  After(set, l, n, add, del) = After(set, m, n, add, del)
<1> SUFFICES ASSUME NEW x
             PROVE  Stays(x, set, l, n, add, del) <=> Stays(x, set, m, n, add, del)
  BY AfterMember
<1>1. \A i \in 0 .. n : TakenAway(l, i, n, del, x) <=> TakenAway(m, i, n, del, x)
  BY DEF TakenAway
<1> QED  BY <1>1 DEF Stays

LEMMA AfterMonotone ==
  ASSUME NEW S, NEW T, S \subseteq T, NEW l, NEW n, NEW add, NEW del
  PROVE  After(S, l, n, add, del) \subseteq After(T, l, n, add, del)
BY DEF After

\* Links on which nothing is taken away.
LEMMA AfterAdded ==
  ASSUME NEW set, NEW l, NEW n \in Nat, NEW add, NEW del,
         \A i \in 1 .. n : l[i].id # del
  PROVE  After(set, l, n, add, del) = set \cup {l[i].guid : i \in {k \in 1 .. n : l[k].id = add}}
BY DEF After, TakenAway

LEMMA AfterQuiet ==
  ASSUME NEW set, NEW l, NEW n \in Nat, NEW add, NEW del,
         \A i \in 1 .. n : l[i].id \notin {add, del}
  PROVE  After(set, l, n, add, del) = set
BY AfterAdded

\* Link n is link l and one packet more; link t is link l without its first packet.
Longer(n, l, pkt) ==
  /\ Len(l) \in Nat /\ Len(n) = Len(l) + 1
  /\ \A i \in 1 .. Len(l) : n[i] = l[i]
  /\ n[Len(l) + 1] = pkt

Shorter(t, l) ==
  /\ Len(t) \in Nat /\ Len(l) = Len(t) + 1
  /\ \A i \in 1 .. Len(t) : t[i] = l[i + 1]

LEMMA AppendIsLonger ==
  ASSUME NEW P, NEW l \in Seq(P), NEW pkt \in P
  PROVE  l \o <<pkt>> \in Seq(P) /\ Longer(l \o <<pkt>>, l, pkt)
BY DEF Longer

LEMMA TailIsShorter ==
  ASSUME NEW P, NEW l \in Seq(P), l # <<>>
  PROVE  /\ Shorter(Tail(l), l)
         /\ l[1] = Head(l) /\ l[1] \in P /\ Tail(l) \in Seq(P) /\ 1 \in 1 .. Len(l)
<1>1. Len(l) \in Nat /\ Len(l) > 0
  OBVIOUS
<1>2. Len(Tail(l)) = Len(l) - 1 /\ Tail(l) \in Seq(P)
  BY HeadTailProperties
<1>3. \A i \in 1 .. Len(Tail(l)) : Tail(l)[i] = l[i + 1]
  BY HeadTailProperties
<1>4. Shorter(Tail(l), l)
  BY <1>1, <1>2, <1>3 DEF Shorter
<1> QED  BY <1>1, <1>2, <1>4

LEMMA AfterLongerSame ==
  ASSUME NEW n, NEW l, NEW pkt, Longer(n, l, pkt), NEW set, NEW add, NEW del,
         NEW k \in 0 .. Len(l)
  PROVE  After(set, n, k, add, del) = After(set, l, k, add, del)
<1>1. k \in Nat /\ \A i \in 1 .. k : n[i] = l[i]
  BY DEF Longer
<1> QED  BY <1>1, AfterSame

LEMMA AfterLonger ==
  ASSUME NEW n, NEW l, NEW pkt, Longer(n, l, pkt), NEW set, NEW add, NEW del, add # del
  PROVE  After(set, n, Len(n), add, del) = Told(After(set, l, Len(l), add, del), pkt, add, del)
<1>1. Len(l) \in Nat /\ Len(l) \in 0 .. Len(l)
  BY DEF Longer
<1>2. After(set, n, Len(l), add, del) = After(set, l, Len(l), add, del)
  BY <1>1, AfterLongerSame
<1>3. After(set, n, Len(l) + 1, add, del)
        = Told(After(set, n, Len(l), add, del), n[Len(l) + 1], add, del)
  BY <1>1, AfterLast
<1> QED  BY <1>2, <1>3 DEF Longer

LEMMA AfterShorter ==
  ASSUME NEW t, NEW l, Shorter(t, l), NEW set, NEW add, NEW del, add # del
  PROVE  \A k \in 0 .. Len(t) :
           After(set, l, k + 1, add, del) = After(Told(set, l[1], add, del), t, k, add, del)
<1> SUFFICES ASSUME NEW k \in 0 .. Len(t)
             PROVE  After(set, l, k + 1, add, del)
                      = After(Told(set, l[1], add, del), t, k, add, del)
  OBVIOUS
<1>1. k \in Nat /\ \A i \in 1 .. k : t[i] = l[i + 1]
  BY DEF Shorter
<1> QED  BY <1>1, AfterFirst

-----------------------------------------------------------------------------
(* What a client and the packets under way to and from it owe each other.     *)

Lifecycle == {"SPAWN_ENTITY", "DESTROY_ENTITY"}

Speaks(l, ids) == \E i \in 1 .. Len(l) : l[i].id \in ids

\* A client that has not been welcomed will be by the next packet, and one that has been
\* will not be again.
WelcomeFits(w, l) ==
  IF w THEN \A i \in 1 .. Len(l) : l[i].id # "WELCOME"
       ELSE /\ Len(l) # 0 /\ l[1].id = "WELCOME"
            /\ \A i \in 1 .. Len(l) : l[i].id = "WELCOME" => i = 1

\* The client is, or will be, the master client when the server says so; no entity of
\* another game reaches it after that.
FlagFits(m, l, leads) ==
  /\ (m \/ \E i \in 1 .. Len(l) : Promotes(l[i])) <=> leads
  /\ m => ~ Speaks(l, Lifecycle)
  /\ \A i, j \in 1 .. Len(l) : i < j /\ Promotes(l[i]) => l[j].id \notin Lifecycle

Roster(ps, l, n) == After(ps, l, n, "CREATE_PLAYER", "DESTROY_PLAYER")

RosterFits(ps, l, members) ==
  /\ Roster(ps, l, Len(l)) = members
  /\ \A n \in 1 .. Len(l) : l[n].id \in PlayerPacketId => l[n].guid \in Roster(ps, l, n - 1)

WorldFits(es, l, things, c) == Spawned(es, l) \subseteq Spawned(things, c)

\* w, m, ps, es: what the client knows.  l, c: the packets to it and from it.
\* leads, members, things: what the server knows.
Fits(w, m, ps, es, l, c, leads, members, things) ==
  /\ WelcomeFits(w, l)
  /\ FlagFits(m, l, leads)
  /\ RosterFits(ps, l, members)
  /\ WorldFits(es, l, things, c)

ToldPlayer(set, pkt) == Told(set, pkt, "CREATE_PLAYER", "DESTROY_PLAYER")
ToldEntity(set, pkt) == Told(set, pkt, "SPAWN_ENTITY", "DESTROY_ENTITY")

LEMMA SpawnedLonger ==
  ASSUME NEW n, NEW l, NEW pkt, Longer(n, l, pkt), NEW set
  PROVE  Spawned(set, n) = ToldEntity(Spawned(set, l), pkt)
BY AfterLonger DEF Spawned, ToldEntity

LEMMA SpawnedShorter ==
  ASSUME NEW t, NEW l, Shorter(t, l), NEW set
  PROVE  Spawned(set, l) = Spawned(ToldEntity(set, l[1]), t)
<1>1. Len(t) \in 0 .. Len(t)
  BY DEF Shorter
<1> QED  BY <1>1, AfterShorter DEF Spawned, ToldEntity, Shorter

LEMMA SpawnedQuiet ==
  ASSUME NEW l, Len(l) \in Nat, ~ Speaks(l, Lifecycle), NEW set
  PROVE  Spawned(set, l) = set
<1>1. \A i \in 1 .. Len(l) : l[i].id \notin {"SPAWN_ENTITY", "DESTROY_ENTITY"}
  BY DEF Speaks, Lifecycle
<1> QED  BY <1>1, AfterQuiet DEF Spawned

LEMMA SpawnedMonotone ==
  ASSUME NEW S, NEW T, S \subseteq T, NEW l
  PROVE  Spawned(S, l) \subseteq Spawned(T, l)
BY AfterMonotone DEF Spawned

\* Another packet is sent to the client.
LEMMA FitsSent ==
  ASSUME NEW w, NEW m, NEW ps, NEW es, NEW l, NEW c, NEW leads, NEW members, NEW things,
         Fits(w, m, ps, es, l, c, leads, members, things), Len(c) \in Nat,
         NEW n, NEW pkt, Longer(n, l, pkt),
         pkt.id # "WELCOME",
         pkt.id \in PlayerPacketId => pkt.guid \in members,
         pkt.id \in Lifecycle => ~ leads /\ ~ Speaks(c, Lifecycle),
         NEW leadsNow, leadsNow <=> leads \/ pkt.id = "SET_MASTER_CLIENT"
  PROVE  Fits(w, m, ps, es, n, c, leadsNow, ToldPlayer(members, pkt), ToldEntity(things, pkt))
<1>1. Len(l) \in Nat /\ Len(n) = Len(l) + 1
  BY DEF Longer
<1>2. \A i \in 1 .. Len(n) : (i \in 1 .. Len(l) /\ n[i] = l[i]) \/ (i = Len(n) /\ n[i] = pkt)
  BY <1>1 DEF Longer
<1>3. \A i \in 1 .. Len(l) : i \in 1 .. Len(n) /\ i < Len(n) /\ n[i] = l[i]
  BY <1>1 DEF Longer
<1>4. Len(n) \in 1 .. Len(n) /\ n[Len(n)] = pkt
  BY <1>1 DEF Longer
<1>5. WelcomeFits(w, n)
  <2>1. CASE w
    BY <1>2, <2>1 DEF Fits, WelcomeFits
  <2>2. CASE ~ w
    <3>1. Len(l) # 0 /\ l[1].id = "WELCOME" /\ 1 \in 1 .. Len(l)
      BY <1>1, <2>2 DEF Fits, WelcomeFits
    <3>2. Len(n) # 0 /\ n[1].id = "WELCOME"
      BY <1>1, <1>3, <3>1
    <3>3. \A i \in 1 .. Len(n) : n[i].id = "WELCOME" => i = 1
      BY <1>2, <2>2 DEF Fits, WelcomeFits
    <3> QED  BY <2>2, <3>2, <3>3, Zenon DEF WelcomeFits
  <2> QED  BY <2>1, <2>2
<1>6. FlagFits(m, n, leadsNow)
  <2>1. Promotes(pkt) <=> pkt.id = "SET_MASTER_CLIENT"
    BY DEF Promotes
  <2>2. (\E i \in 1 .. Len(n) : Promotes(n[i]))
          <=> (\E i \in 1 .. Len(l) : Promotes(l[i])) \/ Promotes(pkt)
    BY <1>2, <1>3, <1>4
  <2>3. m => ~ Speaks(n, Lifecycle)
    BY <1>2 DEF Fits, FlagFits, Speaks
  <2>4. ASSUME NEW i \in 1 .. Len(n), NEW j \in 1 .. Len(n), i < j, Promotes(n[i])
        PROVE  n[j].id \notin Lifecycle
    <3>1. i \in 1 .. Len(l) /\ n[i] = l[i]
      BY <1>1, <1>2, <2>4
    <3>2. leads
      BY <2>4, <3>1 DEF Fits, FlagFits
    <3> QED  BY <1>2, <2>4, <3>1, <3>2 DEF Fits, FlagFits
  <2> QED  BY <2>1, <2>2, <2>3, <2>4 DEF Fits, FlagFits
<1>7. RosterFits(ps, n, ToldPlayer(members, pkt))
  <2>1. Roster(ps, n, Len(n)) = ToldPlayer(Roster(ps, l, Len(l)), pkt)
    BY AfterLonger DEF Roster, ToldPlayer
  <2>2. \A k \in 0 .. Len(l) : Roster(ps, n, k) = Roster(ps, l, k)
    BY AfterLongerSame DEF Roster
  <2>3. ASSUME NEW i \in 1 .. Len(n), n[i].id \in PlayerPacketId
        PROVE  n[i].guid \in Roster(ps, n, i - 1)
    <3>1. i - 1 \in 0 .. Len(l) /\ (i = Len(n) => i - 1 = Len(l))
      BY <1>1
    <3>2. Roster(ps, n, i - 1) = Roster(ps, l, i - 1)
      BY <2>2, <3>1
    <3> QED  BY <1>2, <2>3, <3>1, <3>2 DEF Fits, RosterFits
  <2> QED  BY <2>1, <2>3 DEF Fits, RosterFits
<1>8. WorldFits(es, n, ToldEntity(things, pkt), c)
  <2>1. Spawned(es, n) = ToldEntity(Spawned(es, l), pkt)
    BY SpawnedLonger
  <2>2. Spawned(es, l) \subseteq Spawned(things, c)
    BY DEF Fits, WorldFits
  <2>3. CASE pkt.id \in Lifecycle
    <3>1. /\ Spawned(things, c) = things
          /\ Spawned(ToldEntity(things, pkt), c) = ToldEntity(things, pkt)
      BY <2>3, SpawnedQuiet
    <3>2. ToldEntity(Spawned(es, l), pkt) \subseteq ToldEntity(things, pkt)
      BY <2>2, <3>1 DEF ToldEntity, Told
    <3> QED  BY <2>1, <3>1, <3>2 DEF WorldFits
  <2>4. CASE pkt.id \notin Lifecycle
    <3>1. \A S : ToldEntity(S, pkt) = S
      BY <2>4 DEF ToldEntity, Told, Lifecycle
    <3> QED  BY <2>1, <2>2, <3>1 DEF WorldFits
  <2> QED  BY <2>3, <2>4
<1> QED  BY <1>5, <1>6, <1>7, <1>8 DEF Fits

\* The client handles a packet: what it knows and has said, before and after.
Handles(pkt, w, m, ps, es, c, things, w2, m2, ps2, es2, c2) ==
  /\ w2 <=> w \/ pkt.id = "WELCOME"
  /\ m2 <=> m \/ Promotes(pkt)
  /\ ps2 = ToldPlayer(ps, pkt)
  /\ \/ c2 = c /\ es2 \subseteq ToldEntity(es, pkt)
     \/ m2 /\ es2 \subseteq Spawned(things, c2)

LEMMA FitsHandled ==
  ASSUME NEW w, NEW m, NEW ps, NEW es, NEW l, NEW c, NEW leads, NEW members, NEW things,
         Fits(w, m, ps, es, l, c, leads, members, things),
         NEW t, Shorter(t, l),
         NEW w2, NEW m2, NEW ps2, NEW es2, NEW c2,
         Handles(l[1], w, m, ps, es, c, things, w2, m2, ps2, es2, c2)
  PROVE  Fits(w2, m2, ps2, es2, t, c2, leads, members, things)
<1> USE DEF Handles
<1>1. Len(t) \in Nat /\ Len(l) = Len(t) + 1
  BY DEF Shorter
<1>2. \A i \in 1 .. Len(t) : i + 1 \in 1 .. Len(l) /\ i + 1 # 1 /\ 1 < i + 1 /\ t[i] = l[i + 1]
  BY <1>1 DEF Shorter
<1>3. \A i \in 1 .. Len(l) : i # 1 => i - 1 \in 1 .. Len(t) /\ t[i - 1] = l[i]
  BY <1>1 DEF Shorter
<1>4. 1 \in 1 .. Len(l)
  BY <1>1
<1>5. WelcomeFits(w2, t)
  <2>1. w2 /\ \A i \in 1 .. Len(l) : l[i].id = "WELCOME" => i = 1
    BY <1>4 DEF Fits, WelcomeFits
  <2> QED  BY <1>2, <2>1 DEF WelcomeFits
<1>6. FlagFits(m2, t, leads)
  <2>1. (m2 \/ \E i \in 1 .. Len(t) : Promotes(t[i]))
          <=> (m \/ \E i \in 1 .. Len(l) : Promotes(l[i]))
    BY <1>2, <1>3, <1>4
  <2>2. m2 => ~ Speaks(t, Lifecycle)
    BY <1>2, <1>4 DEF Fits, FlagFits, Speaks
  <2>3. ASSUME NEW i \in 1 .. Len(t), NEW j \in 1 .. Len(t), i < j, Promotes(t[i])
        PROVE  t[j].id \notin Lifecycle
    <3>1. i + 1 < j + 1
      BY <2>3
    <3> QED  BY <1>2, <2>3, <3>1 DEF Fits, FlagFits
  <2> QED  BY <2>1, <2>2, <2>3 DEF Fits, FlagFits
<1>7. RosterFits(ps2, t, members)
  <2>1. \A k \in 0 .. Len(t) : Roster(ps, l, k + 1) = Roster(ps2, t, k)
    BY AfterShorter DEF Roster, ToldPlayer
  <2>2. Roster(ps2, t, Len(t)) = Roster(ps, l, Len(l))
    BY <1>1, <2>1
  <2>3. ASSUME NEW i \in 1 .. Len(t), t[i].id \in PlayerPacketId
        PROVE  t[i].guid \in Roster(ps2, t, i - 1)
    <3>1. i - 1 \in 0 .. Len(t) /\ (i - 1) + 1 = (i + 1) - 1
      BY <1>1
    <3>2. l[i + 1].guid \in Roster(ps, l, (i + 1) - 1)
      BY <1>2, <2>3 DEF Fits, RosterFits
    <3> QED  BY <1>2, <2>1, <3>1, <3>2
  <2> QED  BY <2>2, <2>3 DEF Fits, RosterFits
<1>8. WorldFits(es2, t, things, c2)
  <2>1. CASE c2 = c /\ es2 \subseteq ToldEntity(es, l[1])
    <3>1. Spawned(es, l) = Spawned(ToldEntity(es, l[1]), t)
      BY SpawnedShorter
    <3>2. Spawned(es2, t) \subseteq Spawned(ToldEntity(es, l[1]), t)
      BY <2>1, SpawnedMonotone
    <3> QED  BY <2>1, <3>1, <3>2 DEF Fits, WorldFits
  <2>2. CASE m2 /\ es2 \subseteq Spawned(things, c2)
    <3>1. Spawned(es2, t) = es2
      BY <1>1, <1>6, <2>2, SpawnedQuiet DEF FlagFits
    <3> QED  BY <2>2, <3>1 DEF WorldFits
  <2> QED  BY <2>1, <2>2
<1> QED  BY <1>5, <1>6, <1>7, <1>8 DEF Fits

\* The server takes the next packet of the client.
LEMMA FitsReceived ==
  ASSUME NEW w, NEW m, NEW ps, NEW es, NEW l, NEW c, NEW leads, NEW members, NEW things,
         Fits(w, m, ps, es, l, c, leads, members, things),
         NEW t, Shorter(t, c)
  PROVE  Fits(w, m, ps, es, l, t, leads, members, ToldEntity(things, c[1]))
BY SpawnedShorter DEF Fits, WorldFits

\* The client's entities and what it says change together.
LEMMA FitsWorld ==
  ASSUME NEW w, NEW m, NEW ps, NEW es, NEW l, NEW c, NEW leads, NEW members, NEW things,
         Fits(w, m, ps, es, l, c, leads, members, things),
         NEW es2, NEW c2, WorldFits(es2, l, things, c2)
  PROVE  Fits(w, m, ps, es2, l, c2, leads, members, things)
BY DEF Fits

\* The master client spawns or terminates an enemy and says so.
LEMMA FitsSaid ==
  ASSUME NEW w, NEW m, NEW ps, NEW es, NEW l, NEW c, NEW leads, NEW members, NEW things,
         Fits(w, m, ps, es, l, c, leads, members, things), m, Len(l) \in Nat,
         NEW c2, NEW pkt, Longer(c2, c, pkt)
  PROVE  Fits(w, m, ps, ToldEntity(es, pkt), l, c2, leads, members, things)
<1>1. ~ Speaks(l, Lifecycle)
  BY DEF Fits, FlagFits
<1>2. Spawned(es, l) = es /\ Spawned(ToldEntity(es, pkt), l) = ToldEntity(es, pkt)
  BY <1>1, SpawnedQuiet
<1>3. Spawned(things, c2) = ToldEntity(Spawned(things, c), pkt)
  BY SpawnedLonger
<1>4. es \subseteq Spawned(things, c)
  BY <1>2 DEF Fits, WorldFits
<1>5. ToldEntity(es, pkt) \subseteq ToldEntity(Spawned(things, c), pkt)
  BY <1>4 DEF ToldEntity, Told
<1> QED  BY <1>2, <1>3, <1>5, FitsWorld DEF WorldFits

\* Another client's enemy is terminated by the game, and nobody is told.
LEMMA FitsForgotten ==
  ASSUME NEW w, NEW m, NEW ps, NEW es, NEW l, NEW c, NEW leads, NEW members, NEW things,
         Fits(w, m, ps, es, l, c, leads, members, things),
         NEW es2, es2 \subseteq es
  PROVE  Fits(w, m, ps, es2, l, c, leads, members, things)
<1>1. Spawned(es2, l) \subseteq Spawned(es, l)
  BY SpawnedMonotone
<1> QED  BY <1>1, FitsWorld DEF Fits, WorldFits

\* Packets that say nothing of entities add nothing.
LEMMA SpawnedThenQuiet ==
  ASSUME NEW P, NEW c \in Seq(P), NEW d \in Seq(P), ~ Speaks(d, Lifecycle), NEW set
  PROVE  Spawned(set, c \o d) = Spawned(set, c)
<1> DEFINE n == c \o d
<1>1. /\ Len(c) \in Nat /\ Len(d) \in Nat /\ Len(n) = Len(c) + Len(d)
      /\ \A i \in 1 .. Len(c) : n[i] = c[i]
      /\ \A i \in 1 .. Len(n) : i > Len(c) => i - Len(c) \in 1 .. Len(d) /\ n[i] = d[i - Len(c)]
  OBVIOUS
<1> HIDE DEF n
<1>2. \A i \in 1 .. Len(n) : i > Len(c) => n[i].id \notin {"SPAWN_ENTITY", "DESTROY_ENTITY"}
  BY <1>1 DEF Speaks, Lifecycle
<1> SUFFICES ASSUME NEW x
             PROVE  Stays(x, set, n, Len(n), "SPAWN_ENTITY", "DESTROY_ENTITY")
                      <=> Stays(x, set, c, Len(c), "SPAWN_ENTITY", "DESTROY_ENTITY")
  BY AfterMember DEF Spawned, n
<1>3. \A i \in 0 .. Len(c) : TakenAway(n, i, Len(n), "DESTROY_ENTITY", x)
                               <=> TakenAway(c, i, Len(c), "DESTROY_ENTITY", x)
  BY <1>1, <1>2 DEF TakenAway
<1> QED  BY <1>1, <1>2, <1>3 DEF Stays

LEMMA FitsChatter ==
  ASSUME NEW w, NEW m, NEW ps, NEW es, NEW l, NEW c \in Seq(ClientPacket),
         NEW leads, NEW members, NEW things,
         Fits(w, m, ps, es, l, c, leads, members, things),
         NEW d \in Seq(ClientPacket), ~ Speaks(d, Lifecycle)
  PROVE  Fits(w, m, ps, es, l, c \o d, leads, members, things)
BY SpawnedThenQuiet DEF Fits, WorldFits

-----------------------------------------------------------------------------
(* The introduction of a newcomer *)

\* A list of the members of a set leaves nobody out.
LEMMA ListCovers ==
  ASSUME NEW S, IsFiniteSet(S), NEW s \in SetToSeqs(S)
  PROVE  \A x \in S : \E i \in 1 .. Len(s) : s[i] = x
<1> DEFINE D == 1 .. Cardinality(S)
<1>1. Cardinality(S) \in Nat
  BY FS_CardinalityType
<1>2. s \in [D -> S] /\ \A i, j \in D : s[i] = s[j] => i = j
  BY DEF SetToSeqs
<1>3. Len(s) = Cardinality(S)
  BY <1>1, <1>2
<1>4. IsFiniteSet(D) /\ Cardinality(D) = Cardinality(S)
  BY <1>1, FS_Interval
<1> HIDE DEF D
<1>5. s \in Injection(D, S)
  BY <1>2 DEF Injection, IsInjective
<1>6. s \in Surjection(D, S)
  BY <1>4, <1>5, FS_Injection
<1> QED  BY <1>3, <1>6 DEF Surjection, D

\* List n begins with lists a and b, and is longer by k.
BeginsWith(n, a, b, k) ==
  /\ Len(n) = Len(a) + Len(b) + k
  /\ \A i \in 1 .. Len(a) : i \in 1 .. Len(n) /\ n[i] = a[i]
  /\ \A i \in 1 .. Len(b) : Len(a) + i \in 1 .. Len(n) /\ n[Len(a) + i] = b[i]

LEMMA FrontItems ==
  ASSUME NEW S, NEW a \in Seq(S), NEW b \in Seq(S), NEW c \in Seq(S), NEW n, n = a \o b \o c
  PROVE  BeginsWith(n, a, b, Len(c))
BY DEF BeginsWith

\* What the introduction says: WELCOME, all members of the room, and only entities
\* that the server has.
Introduced(l, b, members, T) ==
  /\ Len(l) \in Nat /\ 1 \in 1 .. Len(l)
  /\ l[1].id = "WELCOME" /\ l[1].isMasterClient = b
  /\ \A i \in 1 .. Len(l) : i # 1 =>
       \/ l[i].id = "CREATE_PLAYER" /\ l[i].guid \in members
       \/ l[i].id = "SPAWN_ENTITY" /\ l[i].guid \in T
  /\ \A x \in members : \E i \in 1 .. Len(l) : l[i].id = "CREATE_PLAYER" /\ l[i].guid = x

LEMMA IntroductionContents ==
  ASSUME NEW g, NEW b, NEW S, IsFiniteSet(S), NEW ordered \in SetToSeqs(S),
         NEW T, IsFiniteSet(T), NEW spawned \in SetToSeqs(T)
  PROVE  Introduced(Introduction(g, b, ordered, spawned), b, S \cup {g}, T)
<1> DEFINE hello == [id |-> "WELCOME", guid |-> g, isMasterClient |-> b,
                     highestEntityGuid |-> highestEntityGuid]
           own == [id |-> "CREATE_PLAYER", guid |-> g]
           first == <<hello, own>>
           others == [i \in 1 .. Len(ordered) |->
                        [id |-> "CREATE_PLAYER", guid |-> ordered[i]]]
           things == [i \in 1 .. Len(spawned) |->
                        [id |-> "SPAWN_ENTITY", guid |-> spawned[i]]]
           l == Introduction(g, b, ordered, spawned)
           U == {hello, own} \cup {others[k] : k \in 1 .. Len(ordered)}
                  \cup {things[k] : k \in 1 .. Len(spawned)}
<1>1. l = first \o others \o things
  BY DEF Introduction
<1>2. /\ Len(ordered) \in Nat /\ \A i \in 1 .. Len(ordered) : ordered[i] \in S
      /\ Len(spawned) \in Nat /\ \A i \in 1 .. Len(spawned) : spawned[i] \in T
  BY ListType
<1>3. /\ first \in Seq(U) /\ Len(first) = 2 /\ first[1] = hello /\ first[2] = own
  OBVIOUS
<1>4. /\ others \in Seq(U) /\ Len(others) = Len(ordered)
      /\ things \in Seq(U) /\ Len(things) = Len(spawned)
  <2>1. others \in [1 .. Len(ordered) -> U] /\ things \in [1 .. Len(spawned) -> U]
    OBVIOUS
  <2>2. ASSUME NEW n \in Nat, NEW x \in [1 .. n -> U] PROVE x \in Seq(U) /\ Len(x) = n
    OBVIOUS
  <2> HIDE DEF hello, own, first, others, things, U
  <2> QED  BY <1>2, <2>1, <2>2
<1>5. /\ \A k \in 1 .. Len(ordered) :
           others[k].id = "CREATE_PLAYER" /\ others[k].guid = ordered[k]
      /\ \A k \in 1 .. Len(spawned) :
           things[k].id = "SPAWN_ENTITY" /\ things[k].guid = spawned[k]
  OBVIOUS
<1>6. /\ hello.id = "WELCOME" /\ hello.isMasterClient = b
      /\ own.id = "CREATE_PLAYER" /\ own.guid = g
  OBVIOUS
<1>7. \A x \in S : \E i \in 1 .. Len(ordered) : ordered[i] = x
  BY ListCovers
<1> HIDE DEF hello, own, first, others, things, U, l
<1>8. /\ Len(l) = 2 + Len(ordered) + Len(spawned)
      /\ l[1] = hello /\ l[2] = own
      /\ \A k \in 1 .. Len(ordered) : 2 + k \in 1 .. Len(l) /\ l[2 + k] = others[k]
  <2>1. BeginsWith(l, first, others, Len(things))
    BY <1>1, <1>3, <1>4, FrontItems
  <2>2. 1 \in 1 .. Len(first) /\ 2 \in 1 .. Len(first)
    BY <1>3
  <2> QED  BY <1>3, <1>4, <2>1, <2>2 DEF BeginsWith
<1>9. \A i \in 1 .. Len(l) : IsItem(l[i], i, first, others, things)
  BY <1>1, <1>3, <1>4, ThreeLists
<1>10. ASSUME NEW i \in 1 .. Len(l), i # 1
       PROVE  \/ l[i].id = "CREATE_PLAYER" /\ l[i].guid \in S \cup {g}
              \/ l[i].id = "SPAWN_ENTITY" /\ l[i].guid \in T
  <2>1. CASE i \in 1 .. 2 /\ l[i] = first[i]
    <3>1. i = 2
      BY <1>10, <2>1
    <3> QED  BY <1>6, <1>8, <3>1
  <2>2. ASSUME NEW k \in 1 .. Len(others), l[i] = others[k]
        PROVE  l[i].id = "CREATE_PLAYER" /\ l[i].guid \in S \cup {g}
    BY <1>2, <1>4, <1>5, <2>2
  <2>3. ASSUME NEW k \in 1 .. Len(things), l[i] = things[k]
        PROVE  l[i].id = "SPAWN_ENTITY" /\ l[i].guid \in T
    BY <1>2, <1>4, <1>5, <2>3
  <2> QED  BY <1>3, <1>9, <2>1, <2>2, <2>3 DEF IsItem
<1>11. ASSUME NEW x \in S \cup {g}
       PROVE  \E i \in 1 .. Len(l) : l[i].id = "CREATE_PLAYER" /\ l[i].guid = x
  <2>1. CASE x = g
    <3>1. 2 \in 1 .. Len(l)
      BY <1>2, <1>8
    <3> QED  BY <1>6, <1>8, <2>1, <3>1
  <2>2. CASE x \in S
    <3>1. PICK k \in 1 .. Len(ordered) : ordered[k] = x
      BY <1>7, <2>2
    <3> QED  BY <1>5, <1>8, <3>1
  <2> QED  BY <2>1, <2>2
<1> QED  BY <1>2, <1>6, <1>8, <1>10, <1>11 DEF Introduced, l

\* A newcomer that is introduced fits: nothing has been said to it or by it before.
LEMMA FitsIntroduced ==
  ASSUME NEW l, NEW b \in BOOLEAN, NEW members, NEW T, Introduced(l, b, members, T),
         NEW c, Len(c) \in Nat, ~ Speaks(c, Lifecycle), b => T = {}
  PROVE  Fits(FALSE, FALSE, {}, {}, l, c, b, members, T)
<1>1. /\ Len(l) \in Nat /\ 1 \in 1 .. Len(l)
      /\ l[1].id = "WELCOME" /\ l[1].isMasterClient = b
      /\ \A i \in 1 .. Len(l) : i # 1 =>
           \/ l[i].id = "CREATE_PLAYER" /\ l[i].guid \in members
           \/ l[i].id = "SPAWN_ENTITY" /\ l[i].guid \in T
      /\ \A x \in members : \E i \in 1 .. Len(l) : l[i].id = "CREATE_PLAYER" /\ l[i].guid = x
  BY DEF Introduced
<1>2. WelcomeFits(FALSE, l)
  BY <1>1 DEF WelcomeFits
<1>3. FlagFits(FALSE, l, b)
  <2>1. \A i \in 1 .. Len(l) : Promotes(l[i]) <=> i = 1 /\ b
    BY <1>1 DEF Promotes
  <2>2. b => \A i \in 1 .. Len(l) : l[i].id \notin Lifecycle
    BY <1>1 DEF Lifecycle
  <2> QED  BY <1>1, <2>1, <2>2 DEF FlagFits
<1>4. RosterFits({}, l, members)
  <2>1. Roster({}, l, Len(l)) = {l[i].guid : i \in {k \in 1 .. Len(l) : l[k].id = "CREATE_PLAYER"}}
    <3>1. \A i \in 1 .. Len(l) : l[i].id # "DESTROY_PLAYER"
      BY <1>1
    <3> QED  BY <1>1, <3>1, AfterAdded DEF Roster
  <2>2. \A n \in 1 .. Len(l) : l[n].id \notin PlayerPacketId
    BY <1>1 DEF PlayerPacketId
  <2>3. {l[i].guid : i \in {k \in 1 .. Len(l) : l[k].id = "CREATE_PLAYER"}} = members
    <3>1. \A i \in 1 .. Len(l) : l[i].id = "CREATE_PLAYER" => l[i].guid \in members
      BY <1>1
    <3> QED  BY <1>1, <3>1
  <2> QED  BY <2>1, <2>2, <2>3 DEF RosterFits
<1>5. WorldFits({}, l, T, c)
  <2>1. \A i \in 1 .. Len(l) : l[i].id # "DESTROY_ENTITY"
    BY <1>1
  <2>2. Spawned({}, l) = {l[i].guid : i \in {k \in 1 .. Len(l) : l[k].id = "SPAWN_ENTITY"}}
    BY <1>1, <2>1, AfterAdded DEF Spawned
  <2>3. Spawned({}, l) \subseteq T
    BY <1>1, <2>2
  <2> QED  BY <2>3, SpawnedQuiet DEF WorldFits
<1> QED  BY <1>2, <1>3, <1>4, <1>5 DEF Fits

-----------------------------------------------------------------------------
(* The inductive invariant of a whole game: of each client, what its session, *)
(* its link and its flags have to do with each other, and, once the server    *)
(* has admitted it, that it fits the server.                                  *)

\* s, w, m, ps, es: what the client knows of its session.  c: what it has said.
\* o, j: whether its link is open, and whether it is admitted.
SessionFits(s, w, m, ps, es, c, o, j) ==
  /\ o <=> s \in {"connecting", "greeted"}
  /\ s = "none" => c = <<>>
  /\ s \in {"none", "connecting"} => ~ w
  /\ s = "connecting" => ~ j /\ ~ Speaks(c, {"HELLO"})
  /\ o /\ ~ j => ~ w
  /\ ~ w => ~ m /\ ps = {} /\ es = {}
  /\ o /\ Speaks(c, Lifecycle) => m

Settled(q) == SessionFits(session[q], welcomed[q], isMaster[q], players[q],
                          DOMAIN networkEntities[q], inbox[q],
                          link[q] = "open", q \in Joined)

Reached(q) == link[q] = "open" /\ q \in Joined

ClientFits(q) == Fits(welcomed[q], isMaster[q], players[q], DOMAIN networkEntities[q],
                      outbox[q], inbox[q], clients[q] \in masters, Members, entities)

PeerSafety(q) == Settled(q) /\ (Reached(q) => ClientFits(q))

Agreement == \A q \in Peer : PeerSafety(q)

\* What the proof of every step starts from.
Ground == Safety /\ LinkSafety /\ ClientTypeOK /\ Agreement

LEMMA ReachedIsGreeted ==
  ASSUME NEW q \in Peer, Settled(q), Reached(q)
  PROVE  session[q] = "greeted"
BY DEF Settled, Reached, SessionFits

-----------------------------------------------------------------------------
(* Those who do not act *)

\* The game of q takes no step, and the server receives nothing from it.
Rests(q) == /\ session'[q] = session[q] /\ welcomed'[q] = welcomed[q]
            /\ isMaster'[q] = isMaster[q] /\ players'[q] = players[q]
            /\ networkEntities'[q] = networkEntities[q] /\ inbox'[q] = inbox[q]
            /\ link'[q] = link[q] /\ clients'[q] = clients[q]

LEMMA RestsSettled ==
  ASSUME NEW q \in Peer, Settled(q), Rests(q)
  PROVE  Settled(q)' /\ (Reached(q)' <=> Reached(q))
<1>1. (q \in Joined)' <=> q \in Joined
  BY DEF Joined, Rests
<1> QED  BY <1>1 DEF Settled, Rests, Reached

\* The server says nothing to q, and nothing that q should be told changes.
LEMMA RestsUntold ==
  ASSUME NEW q \in Peer, PeerSafety(q), Rests(q), outbox'[q] = outbox[q],
         Reached(q) => UNCHANGED <<masters, Members, entities>>
  PROVE  PeerSafety(q)'
<1>1. Settled(q)' /\ (Reached(q)' <=> Reached(q))
  BY RestsSettled DEF PeerSafety
<1>2. ASSUME Reached(q) PROVE ClientFits(q)'
  BY <1>2 DEF PeerSafety, ClientFits, Rests
<1> QED  BY <1>1, <1>2 DEF PeerSafety

LEMMA SpeakersLead ==
  ASSUME NEW q \in Peer, PeerSafety(q), Reached(q), Speaks(inbox[q], Lifecycle)
  PROVE  isMaster[q] /\ clients[q] \in masters
BY DEF PeerSafety, Settled, SessionFits, Reached, ClientFits, Fits, FlagFits

\* The server says one thing to q, and that is what has changed.
LEMMA RestsTold ==
  ASSUME Ground, NEW q \in Peer, Rests(q), Reached(q),
         NEW pkt \in Packet, outbox'[q] = outbox[q] \o <<pkt>>,
         pkt.id # "WELCOME",
         pkt.id \in PlayerPacketId => pkt.guid \in Members,
         pkt.id \in Lifecycle => clients[q] \notin masters,
         (clients[q] \in masters)' <=> clients[q] \in masters \/ pkt.id = "SET_MASTER_CLIENT",
         Members' = ToldPlayer(Members, pkt),
         entities' = ToldEntity(entities, pkt)
  PROVE  PeerSafety(q)'
<1>1. Settled(q)' /\ (Reached(q)' <=> Reached(q))
  BY RestsSettled DEF Ground, Agreement, PeerSafety
<1>2. Longer(outbox'[q], outbox[q], pkt)
  BY AppendIsLonger DEF Ground, Safety, TypeOK
<1>3. Len(inbox[q]) \in Nat
  BY DEF Ground, ClientTypeOK, InboxType
<1>4. pkt.id \in Lifecycle => clients[q] \notin masters /\ ~ Speaks(inbox[q], Lifecycle)
  BY SpeakersLead DEF Ground, Agreement
<1>5. ClientFits(q)
  BY DEF Ground, Agreement, PeerSafety
<1>6. Fits(welcomed[q], isMaster[q], players[q], DOMAIN networkEntities[q], outbox'[q], inbox[q],
           (clients[q] \in masters)', ToldPlayer(Members, pkt), ToldEntity(entities, pkt))
  <2> DEFINE w == welcomed[q]
             m == isMaster[q]
             ps == players[q]
             es == DOMAIN networkEntities[q]
             l == outbox[q]
             n == outbox'[q]
             c == inbox[q]
             old == clients[q] \in masters
             new == (clients[q] \in masters)'
  <2>1. Fits(w, m, ps, es, l, c, old, Members, entities)
    BY <1>5 DEF ClientFits
  <2>2. Longer(n, l, pkt) /\ Len(c) \in Nat
    BY <1>2, <1>3
  <2>3. new <=> old \/ pkt.id = "SET_MASTER_CLIENT"
    OBVIOUS
  <2>4. pkt.id \in Lifecycle => ~ old /\ ~ Speaks(c, Lifecycle)
    BY <1>4
  <2> HIDE DEF w, m, ps, es, l, n, c, old, new
  <2>5. Fits(w, m, ps, es, n, c, new, ToldPlayer(Members, pkt), ToldEntity(entities, pkt))
    BY <2>1, <2>2, <2>3, <2>4, FitsSent
  <2> QED  BY <2>5 DEF w, m, ps, es, n, c, new
<1>7. ClientFits(q)'
  BY <1>6 DEF ClientFits, Rests
<1> QED  BY <1>1, <1>7 DEF PeerSafety

\* The session and the entities of q are left alone; what it has said is.
Idle(q) == /\ session'[q] = session[q] /\ welcomed'[q] = welcomed[q]
           /\ isMaster'[q] = isMaster[q] /\ players'[q] = players[q]
           /\ networkEntities'[q] = networkEntities[q]
Silent(q) == inbox'[q] = inbox[q]
Unserved(q) == link'[q] = link[q] /\ clients'[q] = clients[q]

LEMMA RestsIs == ASSUME NEW q PROVE Rests(q) <=> Idle(q) /\ Silent(q) /\ Unserved(q)
BY DEF Rests, Idle, Silent, Unserved

\* Games do not share anything.
LEMMA OthersSend ==
  ASSUME ClientTypeOK, NEW p \in Peer, NEW q \in Peer, q # p, NEW pkts, C!SendPackets(p, pkts)
  PROVE  Silent(q)
BY DEF C!SendPackets, Silent, ClientTypeOK, InboxType

LEMMA OthersIdle ==
  ASSUME ClientTypeOK, NEW p \in Peer, NEW q \in Peer, q # p,
         \/ UNCHANGED clientVars
         \/ C!NewClient(p) \/ C!OnConnect(p) \/ C!OnDisconnect(p) \/ C!EndSession(p)
         \/ C!Consume(p) \/ C!ThinkTail(p)
         \/ \E id : C!HookSends(p, id)
         \/ \E h : C!GameSpawns(p, h) \/ C!GameTerminates(p, h)
  PROVE  Idle(q)
<1> USE DEF ClientTypeOK, SessionType, SyncType
<1>1. CASE \/ UNCHANGED clientVars \/ C!NewClient(p) \/ C!OnConnect(p) \/ C!OnDisconnect(p)
           \/ C!ThinkTail(p) \/ \E id : C!HookSends(p, id)
  BY <1>1 DEF C!NewClient, C!OnConnect, C!OnDisconnect, C!ThinkTail, C!HookSends,
              C!roster, C!entitySync, clientVars, Idle
<1>2. CASE C!EndSession(p)
  BY <1>2 DEF C!EndSession, Idle
<1>3. CASE C!Consume(p)
  <2> DEFINE pkt == Head(outbox[p])
  <2>1. session' = session
    BY <1>3 DEF C!Consume
  <2>2. \/ UNCHANGED <<C!roster, C!entitySync>>
        \/ C!HandleWelcome(p, pkt)
        \/ C!HandleSetMasterClient(p, pkt)
        \/ C!HandleCreatePlayer(p, pkt) \/ C!HandleDestroyPlayer(p, pkt)
        \/ C!HandleCreateEntity(p, pkt) \/ C!HandleDestroyEntity(p, pkt)
    BY <1>3 DEF C!Consume, C!HandleStreaming
  <2> HIDE DEF pkt
  <2>3. CASE UNCHANGED <<C!roster, C!entitySync>>
    BY <2>1, <2>3 DEF C!roster, C!entitySync, Idle
  <2>4. CASE C!HandleWelcome(p, pkt)
    BY <2>1, <2>4 DEF C!HandleWelcome, C!OnEnterServer, Idle
  <2>5. CASE \/ C!HandleSetMasterClient(p, pkt)
             \/ C!HandleCreatePlayer(p, pkt) \/ C!HandleDestroyPlayer(p, pkt)
    BY <2>1, <2>5 DEF C!HandleSetMasterClient, C!HandleCreatePlayer, C!HandleDestroyPlayer,
                      C!entitySync, Idle
  <2>6. CASE C!HandleCreateEntity(p, pkt)
    BY <2>1, <2>6 DEF C!HandleCreateEntity, C!AddEntity, C!roster, C!entitySync, Idle
  <2>7. CASE C!HandleDestroyEntity(p, pkt)
    BY <2>1, <2>7 DEF C!HandleDestroyEntity, C!roster, Idle
  <2> QED  BY <2>2, <2>3, <2>4, <2>5, <2>6, <2>7
<1>4. CASE \E h : C!GameSpawns(p, h) \/ C!GameTerminates(p, h)
  BY <1>4 DEF C!GameSpawns, C!GameTerminates, C!OnEntityCreated, C!OnEntityDeleted,
              C!roster, C!entitySync, Idle
<1> QED  BY <1>1, <1>2, <1>3, <1>4

LEMMA OthersSilent ==
  ASSUME ClientTypeOK, NEW p \in Peer, NEW q \in Peer, q # p,
         \/ C!OnConnect(p) \/ C!Consume(p) \/ C!ThinkTail(p)
         \/ \E id : C!HookSends(p, id)
         \/ \E h : C!GameSpawns(p, h) \/ C!GameTerminates(p, h)
  PROVE  Silent(q)
<1>1. CASE C!OnConnect(p)
  BY <1>1, OthersSend DEF C!OnConnect, C!SendHello
<1>2. CASE C!ThinkTail(p)
  BY <1>2, OthersSend DEF C!ThinkTail
<1>3. CASE \E id : C!HookSends(p, id)
  BY <1>3, OthersSend DEF C!HookSends
<1>4. CASE \E h : C!GameSpawns(p, h) \/ C!GameTerminates(p, h)
  <2>1. \/ UNCHANGED inbox
        \/ \E pkts : C!SendPackets(p, pkts)
    BY <1>4 DEF C!GameSpawns, C!GameTerminates, C!OnEntityCreated, C!OnEntityDeleted
  <2> QED  BY <2>1, OthersSend DEF Silent
<1>5. CASE C!Consume(p)
  <2>1. \/ UNCHANGED inbox
        \/ C!HandleWelcome(p, Head(outbox[p]))
    BY <1>5 DEF C!Consume, C!HandleStreaming, C!HandleSetMasterClient, C!HandleCreatePlayer,
                C!HandleDestroyPlayer, C!HandleCreateEntity, C!HandleDestroyEntity
  <2>2. \/ UNCHANGED inbox
        \/ \E pkts : C!SendPackets(p, pkts)
    BY <2>1 DEF C!HandleWelcome, C!OnEnterServer
  <2> QED  BY <2>2, OthersSend DEF Silent
<1> QED  BY <1>1, <1>2, <1>3, <1>4, <1>5

\* The server deals with one link at a time.
LEMMA OthersUnserved ==
  ASSUME Safety, NEW p \in Peer, NEW q \in Peer, q # p,
         \/ Connect(p) \/ LinkDown(p) \/ Disconnect(p)
         \/ \E pkt : PacketHandler(p, pkt)
         \/ UNCHANGED <<link, room>>
  PROVE  Unserved(q)
<1> USE DEF Safety, TypeOK
<1>1. CASE Connect(p) \/ LinkDown(p) \/ UNCHANGED <<link, room>>
  BY <1>1 DEF Connect, LinkDown, room, Unserved
<1>2. CASE Disconnect(p)
  BY <1>2 DEF Disconnect, HandleDisconnect, ForgetClient, room, Unserved
<1>3. ASSUME NEW pkt, PacketHandler(p, pkt) PROVE Unserved(q)
  <2>1. CASE UNCHANGED <<link, room>>
    BY <2>1 DEF room, Unserved
  <2>2. CASE RejectHello(p, pkt.hello)
    BY <2>2 DEF RejectHello, room, Unserved
  <2>3. CASE AcceptHello(p, pkt.hello)
    BY <2>3 DEF AcceptHello, Unserved
  <2> QED  BY <1>3, <2>1, <2>2, <2>3 DEF PacketHandler, HandlePing, HandlePlayerPacket,
                HandleSpawnEntity, HandleDestroyEntity, HandleEntityUpdate
<1> QED  BY <1>1, <1>2, <1>3

-----------------------------------------------------------------------------
(* Sessions begin and end, and links break *)

\* When the room and the world stay as they are, those who do not act stay as they are.
LEMMA OthersUntold ==
  ASSUME Ground, NEW p \in Peer, \A q \in Peer \ {p} : Rests(q) /\ outbox'[q] = outbox[q],
         UNCHANGED <<masters, clients, entities>>, PeerSafety(p)'
  PROVE  Agreement'
<1>1. Members' = Members
  BY DEF Members, Joined
<1>2. ASSUME NEW q \in Peer \ {p} PROVE PeerSafety(q)'
  BY <1>1, RestsUntold DEF Ground, Agreement
<1> QED  BY <1>2 DEF Agreement

\* A link that is down, and a client that knows it.
LEMMA LostIsSettled ==
  ASSUME NEW q \in Peer, Settled(q), link'[q] # "open",
         \/ /\ session'[q] = "lost"
            /\ UNCHANGED <<welcomed, isMaster, players, networkEntities>>
         \/ /\ session'[q] = "none" /\ inbox'[q] = <<>>
            /\ ~ welcomed'[q] /\ ~ isMaster'[q]
            /\ players'[q] = {} /\ networkEntities'[q] = C!Empty
  PROVE  PeerSafety(q)'
<1>1. DOMAIN C!Empty = {}
  BY DEF C!Empty
<1>2. Settled(q)'
  BY <1>1 DEF Settled, SessionFits
<1>3. ~ Reached(q)'
  BY DEF Reached
<1> QED  BY <1>2, <1>3 DEF PeerSafety

LEMMA BeginAgrees ==
  ASSUME Ground, NEW p \in Peer, Begin(p)
  PROVE  Agreement'
<1>1. \A q \in Peer \ {p} : Rests(q) /\ outbox'[q] = outbox[q]
  BY OthersIdle, OthersUnserved, RestsIs DEF Begin, Connect, Silent, Ground
<1>2. /\ session[p] = "none" /\ session'[p] = "connecting"
      /\ link[p] = "free" /\ link'[p] = "open"
      /\ UNCHANGED <<welcomed, isMaster, players, networkEntities, inbox>>
  BY DEF Begin, C!NewClient, C!roster, C!entitySync, Connect, Ground, Safety, TypeOK,
         ClientTypeOK, SessionType
<1>3. UNCHANGED <<masters, clients, entities>> /\ Joined' = Joined
  BY DEF Begin, Connect, world, Joined
<1>4. p \notin Joined
  BY <1>2 DEF Ground, Safety, RoomSafety, MapsAgree
<1>5. Settled(p)
  BY DEF Ground, Agreement, PeerSafety
<1>6. ~ Speaks(<<>>, {"HELLO"}) /\ ~ Speaks(<<>>, Lifecycle)
  BY DEF Speaks
<1>7. Settled(p)'
  BY <1>2, <1>3, <1>4, <1>5, <1>6 DEF Settled, SessionFits
<1>8. PeerSafety(p)'
  BY <1>3, <1>4, <1>7 DEF PeerSafety, Reached
<1> QED  BY <1>1, <1>3, <1>8, OthersUntold

LEMMA QuitAgrees ==
  ASSUME Ground, NEW p \in Peer, Quit(p)
  PROVE  Agreement'
<1>1. LinkDown(p) \/ (link[p] # "open" /\ UNCHANGED vars)
  BY DEF Quit
<1>2. UNCHANGED <<masters, clients, entities>> /\ (UNCHANGED <<link, room>> \/ LinkDown(p))
  BY <1>1 DEF LinkDown, room, world, vars
<1>3. \A q \in Peer \ {p} : Rests(q) /\ outbox'[q] = outbox[q]
  <2> SUFFICES ASSUME NEW q \in Peer \ {p} PROVE Rests(q) /\ outbox'[q] = outbox[q]
    OBVIOUS
  <2>1. Idle(q)
    BY OthersIdle DEF Quit, Ground
  <2>2. Silent(q)
    BY DEF Quit, Silent, Ground, ClientTypeOK, InboxType
  <2>3. Unserved(q)
    BY <1>2, OthersUnserved DEF Ground
  <2>4. outbox'[q] = outbox[q]
    BY <1>1 DEF LinkDown, vars, Ground, Safety, TypeOK
  <2> QED  BY <2>1, <2>2, <2>3, <2>4, RestsIs
<1>4. link'[p] # "open"
  BY <1>1 DEF LinkDown, vars, Ground, Safety, TypeOK
<1>5. /\ session'[p] = "none" /\ inbox'[p] = <<>>
      /\ ~ welcomed'[p] /\ ~ isMaster'[p]
      /\ players'[p] = {} /\ networkEntities'[p] = C!Empty
  BY DEF Quit, C!EndSession, Ground, ClientTypeOK, SessionType, SyncType, InboxType
<1>6. PeerSafety(p)'
  BY <1>4, <1>5, LostIsSettled DEF Ground, Agreement, PeerSafety
<1> QED  BY <1>2, <1>3, <1>6, OthersUntold

LEMMA BreakAgrees ==
  ASSUME Ground, NEW p \in Peer, Break(p)
  PROVE  Agreement'
<1>1. UNCHANGED <<masters, clients, entities>>
  BY DEF Break, LinkDown, room, world
<1>2. \A q \in Peer \ {p} : Rests(q) /\ outbox'[q] = outbox[q]
  <2> SUFFICES ASSUME NEW q \in Peer \ {p} PROVE Rests(q) /\ outbox'[q] = outbox[q]
    OBVIOUS
  <2>1. Idle(q) /\ Unserved(q)
    BY OthersIdle, OthersUnserved DEF Break, Ground
  <2>2. Silent(q)
    BY DEF Break, Silent, Ground, ClientTypeOK, InboxType
  <2>3. outbox'[q] = outbox[q]
    BY DEF Break, LinkDown, Ground, Safety, TypeOK
  <2> QED  BY <2>1, <2>2, <2>3, RestsIs
<1>3. link'[p] # "open"
  BY DEF Break, LinkDown, Ground, Safety, TypeOK
<1>4. session'[p] = "lost" /\ UNCHANGED <<welcomed, isMaster, players, networkEntities>>
  BY DEF Break, C!OnDisconnect, C!roster, C!entitySync, Ground, ClientTypeOK, SessionType
<1>5. PeerSafety(p)'
  BY <1>3, <1>4, LostIsSettled DEF Ground, Agreement, PeerSafety
<1> QED  BY <1>1, <1>2, <1>5, OthersUntold

-----------------------------------------------------------------------------
(* The server learns that a link is gone *)

\* Those who stay are told who has left, and the heir that it is the master now.
LEMMA DisconnectAgrees ==
  ASSUME Ground, NEW p \in Peer, ServerDisconnect(p)
  PROVE  Agreement'
<1>1. Disconnect(p) /\ UNCHANGED <<clientVars, inbox>>
  BY DEF ServerDisconnect
<1>2. \A q \in Peer \ {p} : Rests(q)
  BY <1>1, OthersIdle, OthersUnserved, RestsIs DEF Silent, Ground
<1>3. PeerSafety(p)'
  <2>1. link[p] # "open" /\ link'[p] # "open"
    BY <1>1 DEF Disconnect, Ground, Safety, TypeOK
  <2>2. Settled(p)
    BY DEF Ground, Agreement, PeerSafety
  <2>3. Settled(p)'
    BY <1>1, <2>1, <2>2 DEF Settled, SessionFits, clientVars
  <2> QED  BY <2>1, <2>3 DEF PeerSafety, Reached
<1>4. CASE p \notin connections
  <2>1. UNCHANGED <<masters, clients, entities, outbox>>
    BY <1>1, <1>4 DEF Disconnect, room, world
  <2> QED  BY <1>2, <1>3, <2>1, OthersUntold
<1>5. CASE p \in connections
  <2>1. HandleDisconnect(p)
    BY <1>1, <1>5 DEF Disconnect
  <2>2. /\ Joined' = Joined \ {p}
        /\ \A q \in Joined \ {p} : clients'[q] = clients[q]
        /\ clientOf[p] = clients[p]
    BY <2>1, HandleDisconnectRoom DEF Ground
  <2>3. PICK heirs \in Successors(p) :
          /\ masters' = (masters \ {clientOf[p]}) \cup {clients[q] : q \in heirs}
          /\ Send([q \in Peer |->
                    HandleDestroyPlayer(p)[q]
                      \o IF q \in heirs THEN <<[id |-> "SET_MASTER_CLIENT"]>> ELSE <<>>])
    BY <2>1 DEF HandleDisconnect
  <2>4. heirs \subseteq Joined \ {p} /\ (heirs # {} => clients[p] \in masters)
    BY <2>2 DEF Successors
  <2>5. ASSUME NEW q \in Peer \ {p}, ~ Reached(q)
        PROVE  PeerSafety(q)'
    <3>1. Settled(q)' /\ ~ Reached(q)'
      BY <1>2, <2>5, RestsSettled DEF Ground, Agreement, PeerSafety
    <3> QED  BY <3>1 DEF PeerSafety
  <2>6. ASSUME NEW q \in Peer \ {p}, Reached(q)
        PROVE  PeerSafety(q)'
    <3> DEFINE w == welcomed[q]
               m == isMaster[q]
               ps == players[q]
               es == DOMAIN networkEntities[q]
               l == outbox[q]
               c == inbox[q]
               old == clients[q] \in masters
               new == (clients[q] \in masters)'
               bye == [id |-> "DESTROY_PLAYER", guid |-> clients[p]]
               appoint == [id |-> "SET_MASTER_CLIENT"]
               d == HandleDestroyPlayer(p)[q]
               e == IF q \in heirs THEN <<appoint>> ELSE <<>>
    <3>1. q \in Joined \ {p} /\ q \in Joined' /\ link[q] = "open" /\ q # p
      BY <2>2, <2>6 DEF Reached
    <3>2. Fits(w, m, ps, es, l, c, old, Members, entities) /\ Len(c) \in Nat /\ l \in Seq(Packet)
      BY <2>6 DEF Ground, Agreement, PeerSafety, ClientFits, ClientTypeOK, InboxType,
                  Safety, TypeOK
    <3>3. entities' = entities
      BY <2>1, <3>1 DEF HandleDisconnect, ResetEmptyRoom, Joined, world
    <3>4. new <=> old \/ q \in heirs
      <4>1. clients[q] # clients[p] /\ \A h \in heirs : clients[h] = clients[q] => h = q
        BY <2>4, <3>1 DEF Ground, Safety, RoomSafety, MapsAgree, Joined
      <4> QED  BY <2>2, <2>3, <3>1, <4>1
    <3>5. \/ p \in Joined /\ d = <<bye>> /\ Members' = ToldPlayer(Members, bye)
          \/ d = <<>> /\ Members' = Members
      <4>1. CASE p \in Joined
        <5>1. d = <<bye>>
          BY <2>2, <3>1, <4>1 DEF HandleDestroyPlayer, BroadcastExceptSender, Joined
        <5>2. Members' = Members \ {clients[p]}
          <6>1. \A x \in Joined \ {p} : clients[x] # clients[p]
            BY <4>1 DEF Ground, Safety, RoomSafety, MapsAgree
          <6> QED  BY <2>2, <6>1 DEF Members
        <5>3. ToldPlayer(Members, bye) = Members \ {clients[p]}
          BY DEF ToldPlayer, Told
        <5> QED  BY <4>1, <5>1, <5>2, <5>3
      <4>2. CASE p \notin Joined
        <5>1. d = <<>>
          BY <2>2, <4>2 DEF HandleDestroyPlayer, Joined
        <5>2. Members' = Members
          BY <2>2, <4>2 DEF Members
        <5> QED  BY <5>1, <5>2
      <4> QED  BY <4>1, <4>2
    <3>6. outbox'[q] = l \o (d \o e)
      BY <2>3, <3>1 DEF Send
    <3>7. appoint \in Packet /\ (p \in Joined => bye \in Packet)
      BY DEF Packet, Joined, Ground, Safety, TypeOK
    <3>8. (q \in heirs /\ e = <<appoint>>) \/ (q \notin heirs /\ e = <<>>)
      OBVIOUS
    <3>9. /\ bye.id = "DESTROY_PLAYER" /\ appoint.id = "SET_MASTER_CLIENT"
          /\ ToldEntity(entities, bye) = entities /\ ToldEntity(entities, appoint) = entities
          /\ \A S : ToldPlayer(S, appoint) = S
      BY DEF ToldEntity, ToldPlayer, Told
    <3> HIDE DEF w, m, ps, es, l, c, old, new, bye, appoint, d, e
    <3>10. d \in Seq(Packet) /\ e \in Seq(Packet)
      <4>1. <<>> \in Seq(Packet) /\ \A x \in Packet : <<x>> \in Seq(Packet)
        OBVIOUS
      <4> QED  BY <3>5, <3>7, <3>8, <4>1, Zenon
    <3> DEFINE r == l \o d
    <3>11. r \in Seq(Packet) /\ outbox'[q] = r \o e
      <4>1. (l \o d) \o e = l \o (d \o e)
        BY <3>2, <3>10, ConcatAssociative
      <4> QED  BY <3>2, <3>6, <3>10, <4>1
    <3>12. Fits(w, m, ps, es, r, c, old, Members', entities)
      <4>1. CASE d = <<>> /\ Members' = Members
        <5>1. r = l
          BY <3>2, <4>1
        <5> QED  BY <3>2, <4>1, <5>1
      <4>2. CASE p \in Joined /\ d = <<bye>> /\ Members' = ToldPlayer(Members, bye)
        <5>1. Longer(r, l, bye)
          BY <3>2, <3>7, <4>2, AppendIsLonger
        <5>2. bye.id # "WELCOME" /\ bye.id \notin PlayerPacketId \cup Lifecycle
          BY <3>9 DEF PlayerPacketId, Lifecycle
        <5>3. old <=> old \/ bye.id = "SET_MASTER_CLIENT"
          BY <3>9
        <5> HIDE DEF r
        <5>4. Fits(w, m, ps, es, r, c, old, ToldPlayer(Members, bye), ToldEntity(entities, bye))
          BY <3>2, <5>1, <5>2, <5>3, FitsSent
        <5> QED  BY <3>9, <4>2, <5>4
      <4> QED  BY <3>5, <4>1, <4>2
    <3> HIDE DEF r
    <3>13. Fits(w, m, ps, es, outbox'[q], c, new, Members', entities)
      <4>1. CASE q \notin heirs /\ e = <<>>
        <5>1. outbox'[q] = r
          BY <3>11, <4>1
        <5>2. new <=> old
          BY <3>4, <4>1
        <5> QED  BY <3>12, <5>1, <5>2 DEF Fits, FlagFits
      <4>2. CASE q \in heirs /\ e = <<appoint>>
        <5> DEFINE n == outbox'[q]
        <5>1. Longer(n, r, appoint)
          BY <3>7, <3>11, <4>2, AppendIsLonger
        <5>2. appoint.id # "WELCOME" /\ appoint.id \notin PlayerPacketId \cup Lifecycle
          BY <3>9 DEF PlayerPacketId, Lifecycle
        <5>3. new <=> old \/ appoint.id = "SET_MASTER_CLIENT"
          BY <3>4, <3>9, <4>2
        <5> DEFINE M == Members'
        <5>4. Fits(w, m, ps, es, r, c, old, M, entities)
          BY <3>12
        <5> HIDE DEF n, M
        <5>5. Fits(w, m, ps, es, n, c, new, ToldPlayer(M, appoint), ToldEntity(entities, appoint))
          BY <3>2, <5>1, <5>2, <5>3, <5>4, FitsSent
        <5> QED  BY <3>9, <5>5 DEF n, M
      <4> QED  BY <3>8, <4>1, <4>2
    <3>14. Settled(q)'
      BY <1>2, RestsSettled DEF Ground, Agreement, PeerSafety
    <3>15. ClientFits(q)'
      BY <1>2, <3>3, <3>13 DEF ClientFits, Rests, w, m, ps, es, c, new
    <3> QED  BY <3>14, <3>15 DEF PeerSafety
  <2> QED  BY <1>3, <2>5, <2>6 DEF Agreement
<1> QED  BY <1>4, <1>5

-----------------------------------------------------------------------------
(* The server receives a packet *)

\* The server takes the oldest packet off the link of p.
Takes(p) == /\ link[p] = "open" /\ inbox[p] # <<>>
            /\ inbox' = [inbox EXCEPT ![p] = Tail(@)]

LEMMA TakesOne ==
  ASSUME ClientTypeOK, NEW p \in Peer, Takes(p)
  PROVE  /\ Shorter(inbox'[p], inbox[p]) /\ 1 \in 1 .. Len(inbox[p])
         /\ inbox[p][1] = Head(inbox[p]) /\ inbox[p][1] \in ClientPacket
         /\ inbox'[p] \in Seq(ClientPacket)
         /\ \A ids : Speaks(inbox'[p], ids) => Speaks(inbox[p], ids)
         /\ \A q \in Peer \ {p} : Silent(q)
<1>1. inbox[p] \in Seq(ClientPacket) /\ inbox[p] # <<>> /\ inbox'[p] = Tail(inbox[p])
  BY DEF Takes, ClientTypeOK, InboxType
<1>2. /\ Shorter(inbox'[p], inbox[p]) /\ 1 \in 1 .. Len(inbox[p])
      /\ inbox[p][1] = Head(inbox[p]) /\ inbox[p][1] \in ClientPacket
      /\ inbox'[p] \in Seq(ClientPacket)
  BY <1>1, TailIsShorter
<1>3. ASSUME NEW ids, Speaks(inbox'[p], ids) PROVE Speaks(inbox[p], ids)
  <2>1. PICK i \in 1 .. Len(inbox'[p]) : inbox'[p][i].id \in ids
    BY <1>3 DEF Speaks
  <2>2. i + 1 \in 1 .. Len(inbox[p]) /\ inbox[p][i + 1] = inbox'[p][i]
    BY <1>2 DEF Shorter
  <2> QED  BY <2>1, <2>2 DEF Speaks
<1>4. \A q \in Peer \ {p} : Silent(q)
  BY DEF Takes, Silent, ClientTypeOK, InboxType
<1> QED  BY <1>2, <1>3, <1>4

\* The sender stays settled, if it stays.
LEMMA HeardSettled ==
  ASSUME Ground, NEW p \in Peer, Takes(p), UNCHANGED clientVars, link' = link,
         (p \in Joined)' <=> p \in Joined
  PROVE  Settled(p)'
<1>1. \A ids : Speaks(inbox'[p], ids) => Speaks(inbox[p], ids)
  BY TakesOne DEF Ground
<1>2. Settled(p) /\ link[p] = "open"
  BY DEF Ground, Agreement, PeerSafety, Takes
<1> QED  BY <1>1, <1>2 DEF Settled, SessionFits, clientVars

\* What the server has taken is among what it knows.
LEMMA HeardFits ==
  ASSUME Ground, NEW p \in Peer, Takes(p), Reached(p)
  PROVE  Fits(welcomed[p], isMaster[p], players[p], DOMAIN networkEntities[p], outbox[p],
              inbox'[p], clients[p] \in masters, Members, ToldEntity(entities, inbox[p][1]))
<1>1. ClientFits(p)
  BY DEF Ground, Agreement, PeerSafety
<1>2. Shorter(inbox'[p], inbox[p])
  BY TakesOne DEF Ground
<1> DEFINE w == welcomed[p]
           m == isMaster[p]
           ps == players[p]
           es == DOMAIN networkEntities[p]
           l == outbox[p]
           c == inbox[p]
           t == inbox'[p]
           leads == clients[p] \in masters
<1>3. Fits(w, m, ps, es, l, c, leads, Members, entities) /\ Shorter(t, c)
  BY <1>1, <1>2 DEF ClientFits
<1> HIDE DEF w, m, ps, es, l, c, t, leads
<1>4. Fits(w, m, ps, es, l, t, leads, Members, ToldEntity(entities, c[1]))
  BY <1>3, FitsReceived
<1> QED  BY <1>4 DEF w, m, ps, es, l, c, t, leads

\* A packet that changes nothing but the world, and is bounced to the other clients.
LEMMA RelayAgrees ==
  ASSUME Ground, NEW p \in Peer, Takes(p), Reached(p), UNCHANGED <<clientVars, link, room>>,
         NEW told \in Packet,
         told.id \notin {"WELCOME", "SET_MASTER_CLIENT", "CREATE_PLAYER", "DESTROY_PLAYER"},
         told.id \in PlayerPacketId => told.guid \in Members,
         told.id \in Lifecycle => clients[p] \in masters,
         Send(BroadcastExceptSender(p, told)),
         entities' = ToldEntity(entities, told),
         entities' = ToldEntity(entities, inbox[p][1])
  PROVE  Agreement'
<1>1. /\ UNCHANGED <<clients, masters>> /\ Members' = Members /\ Joined' = Joined
      /\ ToldPlayer(Members, told) = Members
  BY DEF room, Members, Joined, ToldPlayer, Told
<1>2. PeerSafety(p)'
  <2>1. Settled(p)'
    BY <1>1, HeardSettled
  <2>2. outbox'[p] = outbox[p]
    <3>1. outbox[p] \o <<>> = outbox[p]
      BY DEF Ground, Safety, TypeOK
    <3> QED  BY <3>1 DEF Send, BroadcastExceptSender
  <2>3. ClientFits(p)'
    BY <1>1, <2>2, HeardFits DEF ClientFits, clientVars
  <2> QED  BY <2>1, <2>3 DEF PeerSafety
<1>3. ASSUME NEW q \in Peer \ {p} PROVE PeerSafety(q)'
  <2>1. Rests(q)
    BY TakesOne, OthersIdle, OthersUnserved, RestsIs DEF Ground
  <2>2. CASE ~ Reached(q)
    BY <2>1, <2>2, RestsSettled DEF Ground, Agreement, PeerSafety
  <2>3. CASE Reached(q)
    <3>1. outbox'[q] = outbox[q] \o <<told>>
      BY <2>3 DEF Send, BroadcastExceptSender, Reached
    <3>2. clients[p] \in masters => clients[q] \notin masters
      BY <2>3 DEF Reached, Ground, Safety, RoomSafety, OneMaster, MapsAgree, Joined
    <3>3. told.id \in Lifecycle => clients[q] \notin masters
      BY <3>2
    <3>4. (clients[q] \in masters)' <=> clients[q] \in masters \/ told.id = "SET_MASTER_CLIENT"
      BY <1>1
    <3> QED  BY <1>1, <2>1, <2>3, <3>1, <3>3, <3>4, RestsTold
  <2> QED  BY <2>2, <2>3
<1> QED  BY <1>2, <1>3 DEF Agreement

LEMMA DiscardAgrees ==
  ASSUME Ground, NEW p \in Peer, Takes(p), UNCHANGED <<clientVars, vars>>,
         Discarded(p, Head(inbox[p]))
  PROVE  Agreement'
<1>1. UNCHANGED <<link, room, world, outbox>>
  BY DEF vars
<1>2. UNCHANGED <<clients, masters, entities>> /\ Members' = Members /\ Joined' = Joined
  BY <1>1 DEF room, world, Members, Joined
<1>3. Settled(p)'
  BY <1>1, <1>2, HeardSettled
<1>4. ASSUME Reached(p) PROVE ClientFits(p)'
  <2> DEFINE pkt == inbox[p][1]
  <2>1. pkt = Head(inbox[p]) /\ 1 \in 1 .. Len(inbox[p])
    BY TakesOne DEF Ground
  <2>2. clientOf[p] = clients[p] /\ clients[p] # NoClient
    BY <1>4 DEF Reached, Joined, Ground, Safety, RoomSafety, MapsAgree
  <2>3. pkt.id \notin Lifecycle
    <3>1. SUFFICES ASSUME pkt.id \in Lifecycle PROVE FALSE
      OBVIOUS
    <3>2. Speaks(inbox[p], Lifecycle)
      BY <2>1, <3>1 DEF Speaks
    <3>3. clients[p] \in masters
      BY <1>4, <3>2, SpeakersLead DEF Ground, Agreement
    <3> QED  BY <2>1, <2>2, <3>1, <3>3 DEF Discarded, Lifecycle, EntityUpdateId
  <2>4. ToldEntity(entities, pkt) = entities
    BY <2>3 DEF ToldEntity, Told, Lifecycle
  <2> HIDE DEF pkt
  <2> QED  BY <1>1, <1>2, <1>4, <2>4, HeardFits DEF ClientFits, clientVars, pkt
<1>5. PeerSafety(p)'
  <2>1. Reached(p)' <=> Reached(p)
    BY <1>1, <1>2 DEF Reached
  <2> QED  BY <1>3, <1>4, <2>1 DEF PeerSafety
<1>6. \A q \in Peer \ {p} : Rests(q) /\ outbox'[q] = outbox[q]
  BY <1>1, TakesOne, OthersIdle, OthersUnserved, RestsIs DEF Ground
<1> QED  BY <1>2, <1>5, <1>6, OthersUntold

LEMMA RejectAgrees ==
  ASSUME Ground, NEW p \in Peer, Takes(p), NEW pkt, pkt.id = "HELLO",
         RejectHello(p, pkt.hello), C!OnDisconnect(p)
  PROVE  Agreement'
<1>1. UNCHANGED <<masters, clients, entities>>
  BY DEF RejectHello, room, world
<1>2. \A q \in Peer \ {p} : Rests(q) /\ outbox'[q] = outbox[q]
  <2> SUFFICES ASSUME NEW q \in Peer \ {p} PROVE Rests(q) /\ outbox'[q] = outbox[q]
    OBVIOUS
  <2>1. PacketHandler(p, pkt)
    BY DEF PacketHandler
  <2>2. Idle(q) /\ Unserved(q)
    BY <2>1, OthersIdle, OthersUnserved DEF Ground
  <2>3. outbox'[q] = outbox[q]
    BY DEF RejectHello, Ground, Safety, TypeOK
  <2> QED  BY <2>2, <2>3, TakesOne, RestsIs DEF Ground
<1>3. link'[p] # "open"
  BY DEF RejectHello, Ground, Safety, TypeOK
<1>4. session'[p] = "lost" /\ UNCHANGED <<welcomed, isMaster, players, networkEntities>>
  BY DEF C!OnDisconnect, C!roster, C!entitySync, Ground, ClientTypeOK, SessionType
<1>5. PeerSafety(p)'
  BY <1>3, <1>4, LostIsSettled DEF Ground, Agreement, PeerSafety
<1> QED  BY <1>1, <1>2, <1>5, OthersUntold

LEMMA PingAgrees ==
  ASSUME Ground, NEW p \in Peer, Takes(p), UNCHANGED clientVars,
         Head(inbox[p]).id = "PING", HandlePing(p)
  PROVE  Agreement'
<1> DEFINE pong == [id |-> "PONG"]
<1>1. UNCHANGED <<link, clients, masters, entities>> /\ Members' = Members /\ Joined' = Joined
  BY DEF HandlePing, room, world, Members, Joined
<1>2. Reached(p)
  BY AuthorizedIsJoined DEF HandlePing, Authorized, Reached, Ground
<1>3. outbox'[p] = outbox[p] \o <<pong>> /\ \A q \in Peer \ {p} : outbox'[q] = outbox[q]
  <2>1. \A q \in Peer : outbox[q] \o <<>> = outbox[q]
    BY DEF Ground, Safety, TypeOK
  <2> QED  BY <1>2, <2>1 DEF HandlePing, Send, To, Reached
<1>4. pong \in Packet /\ pong.id = "PONG"
  BY DEF Packet
<1>5. ToldEntity(entities, pong) = entities /\ ToldPlayer(Members, pong) = Members
  BY DEF ToldEntity, ToldPlayer, Told
<1> HIDE DEF pong
<1>6. ToldEntity(entities, inbox[p][1]) = entities
  BY TakesOne DEF ToldEntity, Told, Ground
<1>7. ClientFits(p)'
  <2> DEFINE w == welcomed[p]
             m == isMaster[p]
             ps == players[p]
             es == DOMAIN networkEntities[p]
             l == outbox[p]
             n == outbox'[p]
             c == inbox'[p]
             leads == clients[p] \in masters
  <2>1. Fits(w, m, ps, es, l, c, leads, Members, entities)
    BY <1>2, <1>6, HeardFits
  <2>2. Longer(n, l, pong)
    BY <1>3, <1>4, AppendIsLonger DEF Ground, Safety, TypeOK
  <2>3. Len(c) \in Nat
    BY TakesOne DEF Ground
  <2>4. pong.id # "WELCOME" /\ pong.id \notin PlayerPacketId \cup Lifecycle
    BY <1>4 DEF PlayerPacketId, Lifecycle
  <2>5. leads <=> leads \/ pong.id = "SET_MASTER_CLIENT"
    BY <1>4
  <2> HIDE DEF w, m, ps, es, l, n, c, leads
  <2>6. Fits(w, m, ps, es, n, c, leads, ToldPlayer(Members, pong), ToldEntity(entities, pong))
    BY <2>1, <2>2, <2>3, <2>4, <2>5, FitsSent
  <2> QED  BY <1>1, <1>5, <2>6 DEF ClientFits, clientVars, w, m, ps, es, n, c, leads
<1>8. PeerSafety(p)'
  BY <1>1, <1>7, HeardSettled DEF PeerSafety
<1>9. \A q \in Peer \ {p} : Rests(q) /\ outbox'[q] = outbox[q]
  <2>1. UNCHANGED <<link, room>>
    BY DEF HandlePing
  <2> QED  BY <1>3, <2>1, TakesOne, OthersIdle, OthersUnserved, RestsIs DEF Ground
<1> QED  BY <1>1, <1>8, <1>9, OthersUntold

\* The newcomer is introduced to everybody, and everybody to the newcomer.
LEMMA AcceptAgrees ==
  ASSUME Ground, NEW p \in Peer, Takes(p), UNCHANGED clientVars,
         Head(inbox[p]).id = "HELLO", AcceptHello(p, Head(inbox[p]).hello)
  PROVE  Agreement'
<1> DEFINE g == connectionCount + 1
           hi == [id |-> "CREATE_PLAYER", guid |-> g]
           pkt == Head(inbox[p])
<1>1. /\ link' = link /\ link[p] = "open" /\ entities' = entities
      /\ clients' = [clients EXCEPT ![p] = g] /\ g \in Guid /\ connectionCount \in Nat
      /\ masters' = IF Joined = {} THEN masters \cup {g} ELSE masters
  BY BoundAssumption DEF AcceptHello, Anonymous, NewGuid, world, Guid, Ground, Safety, TypeOK
<1>2. p \notin Joined /\ Joined' = Joined \cup {p}
  BY AcceptHelloSafety DEF Ground
<1>3. /\ clients'[p] = g /\ \A q \in Joined : clients'[q] = clients[q]
      /\ Members' = Members \cup {g}
  <2>1. clients'[p] = g /\ \A q \in Joined : clients'[q] = clients[q]
    BY <1>1, <1>2 DEF Joined, Ground, Safety, TypeOK
  <2> QED  BY <1>2, <2>1 DEF Members
<1>4. \A q \in Joined : clients[q] # g
  <2>1. \A q \in Joined : clients[q] \in Nat /\ clients[q] <= connectionCount
    BY DEF Joined, Ground, Safety, TypeOK, RoomSafety, MapsAgree, Guid
  <2> QED  BY <1>1, <2>1
<1>5. PICK ps \in SetToSeqs({clients[q] : q \in Joined}), ts \in SetToSeqs(entities) :
        Send([q \in Peer |->
          IF q = p THEN Introduction(g, Joined = {}, ps, ts)
                   ELSE BroadcastExceptSender(p, hi)[q]])
  BY DEF AcceptHello, NewGuid
<1>6. /\ hi \in Packet /\ hi.id = "CREATE_PLAYER" /\ ToldEntity(entities, hi) = entities
      /\ ToldPlayer(Members, hi) = Members'
  BY <1>1, <1>3 DEF Packet, ToldEntity, ToldPlayer, Told
<1>7. PeerSafety(p)'
  <2>1. /\ session[p] = "greeted" /\ ~ welcomed[p] /\ ~ isMaster[p] /\ players[p] = {}
        /\ DOMAIN networkEntities[p] = {} /\ ~ Speaks(inbox[p], Lifecycle)
    <3>1. Settled(p)
      BY DEF Ground, Agreement, PeerSafety
    <3>2. Speaks(inbox[p], {"HELLO"})
      BY TakesOne DEF Speaks, Ground
    <3> QED  BY <1>1, <1>2, <3>1, <3>2 DEF Settled, SessionFits
  <2>2. ~ Speaks(inbox'[p], Lifecycle) /\ Len(inbox'[p]) \in Nat
    BY <2>1, TakesOne DEF Ground
  <2>3. Settled(p)'
    <3>1. /\ session'[p] = "greeted" /\ ~ isMaster'[p] /\ players'[p] = {}
          /\ DOMAIN networkEntities'[p] = {} /\ link'[p] = "open" /\ p \in Joined'
      BY <1>1, <1>2, <2>1 DEF clientVars
    <3> QED  BY <2>2, <3>1 DEF Settled, SessionFits
  <2>4. Fits(FALSE, FALSE, {}, {}, outbox'[p], inbox'[p], (clients[p] \in masters)', Members', entities)
    <3> DEFINE b == Joined = {}
               l == Introduction(g, b, ps, ts)
               leads == (clients[p] \in masters)'
               c == inbox'[p]
               M == Members'
    <3>1. Introduced(l, b, Members \cup {g}, entities)
      BY RoomIsFinite, IntroductionContents DEF Members, Ground, Safety
    <3>2. b => entities = {}
      BY DEF Ground, Safety, WorldSafety, EmptyRoomIsReset
    <3>3. leads <=> b
      BY <1>1, <1>3, <1>4 DEF Ground, Safety, RoomSafety, OneMaster
    <3>4. outbox'[p] = l
      <4>1. outbox[p] = <<>>
        BY <1>2 DEF Ground, LinkSafety, StrangersHearNothing
      <4>2. l \in Seq(Packet)
        BY <1>1, RoomIsFinite, IntroductionType DEF Members, Ground, Safety, TypeOK
      <4>3. outbox'[p] = <<>> \o l
        BY <1>1, <1>5, <4>1 DEF Send
      <4> HIDE DEF l
      <4> QED  BY <4>2, <4>3
    <3>5. M = Members \cup {g}
      BY <1>3
    <3>6. Len(c) \in Nat /\ ~ Speaks(c, Lifecycle)
      BY <2>2
    <3> HIDE DEF b, l, leads, c, M
    <3>7. Introduced(l, b, M, entities)
      BY <3>1, <3>5
    <3>8. Fits(FALSE, FALSE, {}, {}, l, c, b, M, entities)
      <4>1. b \in BOOLEAN
        BY DEF b
      <4> QED  BY <3>2, <3>6, <3>7, <4>1, FitsIntroduced
    <3>9. Fits(FALSE, FALSE, {}, {}, l, c, leads, M, entities)
      BY <3>3, <3>8 DEF Fits, FlagFits
    <3> QED  BY <3>4, <3>9 DEF leads, c, M
  <2>5. /\ welcomed'[p] = FALSE /\ isMaster'[p] = FALSE /\ players'[p] = {}
        /\ DOMAIN networkEntities'[p] = {}
    BY <2>1 DEF clientVars, Ground, ClientTypeOK, SessionType
  <2>6. ClientFits(p)'
    BY <1>1, <2>4, <2>5 DEF ClientFits
  <2> QED  BY <2>3, <2>6 DEF PeerSafety
<1>8. ASSUME NEW q \in Peer \ {p} PROVE PeerSafety(q)'
  <2>1. Rests(q)
    <3>1. PacketHandler(p, pkt)
      BY DEF PacketHandler
    <3> HIDE DEF pkt
    <3> QED  BY <3>1, TakesOne, OthersIdle, OthersUnserved, RestsIs DEF Ground
  <2>2. CASE ~ Reached(q)
    BY <2>1, <2>2, RestsSettled DEF Ground, Agreement, PeerSafety
  <2>3. CASE Reached(q)
    <3>1. outbox'[q] = outbox[q] \o <<hi>>
      BY <1>5, <2>3 DEF Send, BroadcastExceptSender, Reached
    <3>2. masters' = masters /\ clients'[q] = clients[q]
      BY <1>1, <1>3, <2>3 DEF Reached
    <3>3. /\ hi.id \notin PlayerPacketId \cup Lifecycle
          /\ hi.id # "WELCOME" /\ hi.id # "SET_MASTER_CLIENT"
      BY <1>6 DEF PlayerPacketId, Lifecycle
    <3> HIDE DEF hi
    <3> QED  BY <1>1, <1>6, <2>1, <2>3, <3>1, <3>2, <3>3, RestsTold
  <2> QED  BY <2>2, <2>3
<1> QED  BY <1>7, <1>8 DEF Agreement

LEMMA ReceiveAgrees ==
  ASSUME Ground, NEW p \in Peer, ServerReceive(p)
  PROVE  Agreement'
<1> DEFINE pkt == Head(inbox[p])
<1>1. /\ Takes(p)
      /\ IF link'[p] = "open" THEN UNCHANGED clientVars ELSE C!OnDisconnect(p)
      /\ PacketHandler(p, pkt) \/ (Discarded(p, pkt) /\ UNCHANGED vars)
  BY DEF ServerReceive, Takes
<1>2. pkt = inbox[p][1] /\ pkt \in ClientPacket
  BY <1>1, TakesOne DEF Ground
<1>3. link' = link => UNCHANGED clientVars
  BY <1>1 DEF Takes
<1>4. CASE Discarded(p, pkt) /\ UNCHANGED vars
  BY <1>1, <1>3, <1>4, DiscardAgrees DEF vars
<1>5. CASE pkt.id = "HELLO" /\ RejectHello(p, pkt.hello)
  <2>1. link'[p] # "open"
    BY <1>5 DEF RejectHello, Ground, Safety, TypeOK
  <2> QED  BY <1>1, <1>5, <2>1, RejectAgrees
<1>6. CASE pkt.id = "HELLO" /\ AcceptHello(p, pkt.hello)
  BY <1>1, <1>3, <1>6, AcceptAgrees DEF AcceptHello
<1>7. CASE pkt.id = "PING" /\ HandlePing(p)
  BY <1>1, <1>3, <1>7, PingAgrees DEF HandlePing
<1>8. CASE pkt.id \in PlayerPacketId /\ HandlePlayerPacket(p, pkt.id)
  <2> DEFINE told == [id |-> pkt.id, guid |-> clientOf[p]]
  <2>1. p \in Joined /\ clients[p] = clientOf[p] /\ Reached(p)
    BY <1>8, AuthorizedIsJoined DEF HandlePlayerPacket, Authorized, Reached, Ground
  <2>2. told \in Packet /\ told.guid \in Members
    BY <1>8, <2>1 DEF Packet, Members, Joined, Ground, Safety, TypeOK
  <2>3. /\ told.id \notin {"WELCOME", "SET_MASTER_CLIENT", "CREATE_PLAYER", "DESTROY_PLAYER"}
        /\ told.id \notin Lifecycle
    BY <1>8 DEF PlayerPacketId, Lifecycle
  <2>4. /\ Send(BroadcastExceptSender(p, told)) /\ UNCHANGED <<link, room, clientVars>>
        /\ entities' = entities
    BY <1>3, <1>8 DEF HandlePlayerPacket, world
  <2>5. ToldEntity(entities, told) = entities /\ ToldEntity(entities, inbox[p][1]) = entities
    <3>1. pkt.id \notin Lifecycle
      BY <2>3
    <3> HIDE DEF told
    <3> QED  BY <1>2, <2>3, <3>1 DEF ToldEntity, Told, Lifecycle
  <2> HIDE DEF told, pkt
  <2> QED  BY <1>1, <2>1, <2>2, <2>3, <2>4, <2>5, RelayAgrees
<1>9. CASE \/ pkt.id = "SPAWN_ENTITY" /\ HandleSpawnEntity(p, pkt.guid)
           \/ pkt.id = "DESTROY_ENTITY" /\ HandleDestroyEntity(p, pkt.guid)
           \/ pkt.id \in EntityUpdateId /\ HandleEntityUpdate(p, pkt.id, pkt.guid)
  <2> DEFINE told == [id |-> pkt.id, guid |-> pkt.guid]
  <2>1. pkt.id \in {"SPAWN_ENTITY", "DESTROY_ENTITY"} \cup EntityUpdateId
    BY <1>9
  <2>2. told \in Packet /\ told.id = pkt.id /\ told.guid = pkt.guid
    BY <1>2, <2>1, ClientPacketType DEF Packet
  <2>3. /\ told.id \notin {"WELCOME", "SET_MASTER_CLIENT", "CREATE_PLAYER", "DESTROY_PLAYER"}
        /\ told.id \notin PlayerPacketId
    BY <2>1 DEF PlayerPacketId, EntityUpdateId
  <2>4. FromMaster(p)
    BY <1>9 DEF HandleSpawnEntity, HandleDestroyEntity, HandleEntityUpdate
  <2>5. Reached(p) /\ clients[p] \in masters
    BY <2>4, AuthorizedIsJoined DEF FromMaster, Authorized, Reached, Ground
  <2>6. Send(BroadcastExceptSender(p, told)) /\ UNCHANGED <<link, room, clientVars>>
    BY <1>3, <1>9 DEF HandleSpawnEntity, HandleDestroyEntity, HandleEntityUpdate
  <2>7. entities' = ToldEntity(entities, pkt)
    BY <1>9 DEF HandleSpawnEntity, HandleDestroyEntity, HandleEntityUpdate, world,
                ToldEntity, Told, EntityUpdateId
  <2>8. ToldEntity(entities, told) = ToldEntity(entities, pkt)
    BY DEF ToldEntity, Told
  <2> HIDE DEF told, pkt
  <2> QED  BY <1>1, <1>2, <2>2, <2>3, <2>5, <2>6, <2>7, <2>8, RelayAgrees
<1> QED  BY <1>1, <1>4, <1>5, <1>6, <1>7, <1>8, <1>9 DEF PacketHandler

-----------------------------------------------------------------------------
(* The games' own steps *)

LEMMA SpeaksBoth ==
  ASSUME NEW P, NEW c \in Seq(P), NEW d \in Seq(P), NEW ids
  PROVE  Speaks(c \o d, ids) <=> Speaks(c, ids) \/ Speaks(d, ids)
<1> DEFINE n == c \o d
<1>1. /\ Len(c) \in Nat /\ Len(d) \in Nat /\ Len(n) = Len(c) + Len(d)
      /\ \A i \in 1 .. Len(c) : i \in 1 .. Len(n) /\ n[i] = c[i]
      /\ \A i \in 1 .. Len(d) : Len(c) + i \in 1 .. Len(n) /\ n[Len(c) + i] = d[i]
      /\ \A i \in 1 .. Len(n) : i > Len(c) => i - Len(c) \in 1 .. Len(d) /\ n[i] = d[i - Len(c)]
      /\ \A i \in 1 .. Len(n) : ~ (i > Len(c)) => i \in 1 .. Len(c)
  OBVIOUS
<1> HIDE DEF n
<1>2. Speaks(c, ids) => Speaks(n, ids)
  BY <1>1 DEF Speaks
<1>3. Speaks(d, ids) => Speaks(n, ids)
  BY <1>1 DEF Speaks
<1>4. Speaks(n, ids) => Speaks(c, ids) \/ Speaks(d, ids)
  BY <1>1 DEF Speaks
<1> QED  BY <1>2, <1>3, <1>4 DEF n

\* What packets say is what they say one by one.
LEMMA SpeaksOne ==
  ASSUME NEW pkt, NEW ids
  PROVE  Speaks(<<pkt>>, ids) <=> pkt.id \in ids
<1>1. 1 \in 1 .. Len(<<pkt>>) /\ <<pkt>>[1] = pkt /\ \A i \in 1 .. Len(<<pkt>>) : i = 1
  OBVIOUS
<1> QED  BY <1>1 DEF Speaks

\* A step of a game concerns that game.
LEMMA GameStep ==
  ASSUME Ground, NEW p \in Peer, Serverless, \A q \in Peer \ {p} : outbox'[q] = outbox[q],
         \/ C!OnConnect(p) \/ C!Consume(p) \/ C!ThinkTail(p)
         \/ \E id : C!HookSends(p, id)
         \/ \E h : C!GameSpawns(p, h) \/ C!GameTerminates(p, h),
         PeerSafety(p)'
  PROVE  Agreement'
<1>1. UNCHANGED <<masters, clients, entities, link, room>>
  BY DEF Serverless, room, world
<1>2. ASSUME NEW q \in Peer \ {p} PROVE Rests(q) /\ outbox'[q] = outbox[q]
  <2>1. Idle(q)
    BY OthersIdle DEF Ground
  <2>2. Silent(q)
    BY OthersSilent DEF Ground
  <2>3. Unserved(q)
    BY <1>1, OthersUnserved DEF Ground
  <2> QED  BY <2>1, <2>2, <2>3, RestsIs
<1> QED  BY <1>1, <1>2, OthersUntold

\* The server's side of p is as it was.
LEMMA ServerSame ==
  ASSUME Serverless
  PROVE  /\ UNCHANGED <<link, clients, masters, entities>>
         /\ Members' = Members /\ Joined' = Joined
BY DEF Serverless, room, world, Members, Joined

\* p says something that is neither a greeting nor about entities.
LEMMA ChatterAgrees ==
  ASSUME Ground, NEW p \in Peer, Serverless, UNCHANGED outbox, Idle(p), session[p] # "none",
         NEW d \in Seq(ClientPacket), ~ Speaks(d, Lifecycle), ~ Speaks(d, {"HELLO"}),
         C!SendPackets(p, d)
  PROVE  PeerSafety(p)'
<1>1. inbox[p] \in Seq(ClientPacket) /\ PeerSafety(p)
  BY DEF Ground, Agreement, ClientTypeOK, InboxType
<1>2. inbox'[p] = IF session[p] = "lost" THEN inbox[p] ELSE inbox[p] \o d
  BY DEF C!SendPackets, Ground, ClientTypeOK, InboxType
<1>3. /\ Speaks(inbox'[p], Lifecycle) <=> Speaks(inbox[p], Lifecycle)
      /\ Speaks(inbox'[p], {"HELLO"}) <=> Speaks(inbox[p], {"HELLO"})
  BY <1>1, <1>2, SpeaksBoth
<1>4. Settled(p)' /\ (Reached(p)' <=> Reached(p))
  BY <1>1, <1>3, ServerSame DEF PeerSafety, Settled, SessionFits, Idle, Reached
<1>5. ASSUME Reached(p) PROVE ClientFits(p)'
  <2> DEFINE w == welcomed[p]
             m == isMaster[p]
             ps == players[p]
             es == DOMAIN networkEntities[p]
             l == outbox[p]
             c == inbox[p]
             leads == clients[p] \in masters
  <2>1. Fits(w, m, ps, es, l, c, leads, Members, entities) /\ c \in Seq(ClientPacket)
    BY <1>1, <1>5 DEF PeerSafety, ClientFits
  <2>2. Fits(w, m, ps, es, l, c \o d, leads, Members, entities)
    <3> HIDE DEF w, m, ps, es, l, c, leads
    <3> QED  BY <2>1, FitsChatter
  <2> QED  BY <1>2, <2>1, <2>2, ServerSame DEF ClientFits, Idle
<1> QED  BY <1>4, <1>5 DEF PeerSafety

LEMMA GreetAgrees ==
  ASSUME Ground, NEW p \in Peer, Serverless, C!OnConnect(p)
  PROVE  Agreement'
<1>1. Settled(p) /\ inbox[p] \in Seq(ClientPacket)
  BY DEF Ground, Agreement, PeerSafety, ClientTypeOK, InboxType
<1>2. /\ session[p] = "connecting" /\ session'[p] = "greeted"
      /\ UNCHANGED <<welcomed, isMaster, players, networkEntities, outbox>>
  BY DEF C!OnConnect, C!roster, C!entitySync, Ground, ClientTypeOK, SessionType
<1>3. PICK hello \in Hello : C!SendPackets(p, <<[id |-> "HELLO", hello |-> hello]>>)
  BY DEF C!OnConnect, C!SendHello
<1> DEFINE pkt == [id |-> "HELLO", hello |-> hello]
<1>4. pkt \in ClientPacket /\ pkt.id = "HELLO" /\ <<pkt>> \in Seq(ClientPacket)
  <2>1. pkt \in ClientPacket
    BY DEF ClientPacket
  <2> QED  BY <2>1
<1>5. inbox'[p] = inbox[p] \o <<pkt>>
  BY <1>2, <1>3 DEF C!SendPackets, Ground, ClientTypeOK, InboxType
<1> HIDE DEF pkt
<1>6. Speaks(inbox'[p], Lifecycle) <=> Speaks(inbox[p], Lifecycle)
  <2>1. ~ Speaks(<<pkt>>, Lifecycle)
    BY <1>4, SpeaksOne DEF Lifecycle
  <2> DEFINE d == <<pkt>>
  <2>2. d \in Seq(ClientPacket) /\ inbox'[p] = inbox[p] \o d /\ ~ Speaks(d, Lifecycle)
    BY <1>4, <1>5, <2>1
  <2> HIDE DEF d
  <2> QED  BY <1>1, <2>2, SpeaksBoth
<1>7. p \notin Joined /\ p \notin Joined'
  BY <1>1, <1>2, ServerSame DEF Settled, SessionFits
<1>8. Settled(p)'
  BY <1>1, <1>2, <1>6, <1>7, ServerSame DEF Settled, SessionFits
<1>9. PeerSafety(p)'
  BY <1>7, <1>8 DEF PeerSafety, Reached
<1> QED  BY <1>2, <1>9, GameStep

LEMMA ThinkAgrees ==
  ASSUME Ground, NEW p \in Peer, Serverless, C!ThinkTail(p)
  PROVE  Agreement'
<1>1. Idle(p) /\ session[p] # "none" /\ UNCHANGED outbox
  BY DEF C!ThinkTail, C!Playing, C!roster, C!entitySync, Idle
<1>2. ~ Speaks(C!OwnPlayerData, Lifecycle \cup {"HELLO"})
  BY SpeaksOne DEF C!OwnPlayerData, Lifecycle, Speaks
<1>3. ASSUME NEW updates \in C!EntityUpdates(p)
      PROVE  ~ Speaks(updates, Lifecycle \cup {"HELLO"})
  <2>1. \A i \in 1 .. Len(updates) : updates[i].id = "ENTITY_DATA"
    <3> DEFINE S == {g \in DOMAIN networkEntities[p] :
                       "ENTITY_DATA" \in Streamed /\ networkEntities[p][g] \in alive[p]}
    <3>1. PICK list \in SetToSeqs(S) :
            updates = [i \in 1 .. Len(list) |-> [id |-> "ENTITY_DATA", guid |-> list[i]]]
      BY <1>3, SameLists DEF C!EntityUpdates
    <3>2. IsFiniteSet(S)
      BY EntityGuidAssumption, FS_Subset DEF Ground, ClientTypeOK, SyncType, MapsType
    <3> HIDE DEF S
    <3>3. Len(list) \in Nat
      BY <3>2, ListType
    <3> QED  BY <3>1, <3>3
  <2> QED  BY <2>1 DEF Speaks, Lifecycle
<1>4. PICK d \in Seq(ClientPacket) :
        ~ Speaks(d, Lifecycle \cup {"HELLO"}) /\ C!SendPackets(p, d)
  <2>1. CASE C!SendPackets(p, C!OwnPlayerData)
    BY <1>2, <2>1, StreamedPackets DEF Ground
  <2>2. ASSUME NEW updates \in C!EntityUpdates(p),
               C!SendPackets(p, C!OwnPlayerData \o updates)
        PROVE  \E d \in Seq(ClientPacket) :
                 ~ Speaks(d, Lifecycle \cup {"HELLO"}) /\ C!SendPackets(p, d)
    <3> DEFINE d == C!OwnPlayerData \o updates
    <3>1. C!OwnPlayerData \in Seq(ClientPacket) /\ updates \in Seq(ClientPacket)
      BY StreamedPackets DEF Ground
    <3>2. d \in Seq(ClientPacket)
      BY <3>1
    <3>3. ~ Speaks(d, Lifecycle \cup {"HELLO"})
      BY <1>2, <1>3, <3>1, SpeaksBoth
    <3>4. C!SendPackets(p, d)
      BY <2>2
    <3> HIDE DEF d
    <3> QED  BY <3>2, <3>3, <3>4
  <2> QED  BY <2>1, <2>2 DEF C!ThinkTail
<1>5. ~ Speaks(d, Lifecycle) /\ ~ Speaks(d, {"HELLO"})
  BY <1>4 DEF Speaks
<1>6. PeerSafety(p)'
  BY <1>1, <1>4, <1>5, ChatterAgrees
<1> QED  BY <1>1, <1>6, GameStep

LEMMA HookAgrees ==
  ASSUME Ground, NEW p \in Peer, Serverless, NEW id \in PlayerPacketId, C!HookSends(p, id)
  PROVE  Agreement'
<1>1. Idle(p) /\ session[p] # "none" /\ UNCHANGED outbox
  BY DEF C!HookSends, C!roster, C!entitySync, Idle
<1> DEFINE pkt == [id |-> id]
<1>2. pkt \in ClientPacket /\ pkt.id = id
  BY DEF ClientPacket
<1>3. C!SendPackets(p, <<pkt>>)
  BY DEF C!HookSends
<1> HIDE DEF pkt
<1>4. <<pkt>> \in Seq(ClientPacket)
  BY <1>2
<1>5. ~ Speaks(<<pkt>>, Lifecycle) /\ ~ Speaks(<<pkt>>, {"HELLO"})
  BY <1>2, SpeaksOne DEF Lifecycle, PlayerPacketId
<1>6. PeerSafety(p)'
  BY <1>1, <1>3, <1>4, <1>5, ChatterAgrees
<1> QED  BY <1>1, <1>6, GameStep

\* The session of q is left alone, whatever happens to its entities.
SessionSame(q) == /\ session'[q] = session[q] /\ welcomed'[q] = welcomed[q]
                  /\ isMaster'[q] = isMaster[q] /\ players'[q] = players[q]

\* The master client adds or removes an entity, and says so.
LEMMA SaidAgrees ==
  ASSUME Ground, NEW p \in Peer, Serverless, UNCHANGED outbox, SessionSame(p),
         session[p] # "none", isMaster[p], NEW pkt \in ClientPacket, C!SendPackets(p, <<pkt>>),
         DOMAIN networkEntities'[p] = ToldEntity(DOMAIN networkEntities[p], pkt)
  PROVE  PeerSafety(p)'
<1>1. inbox[p] \in Seq(ClientPacket) /\ PeerSafety(p)
  BY DEF Ground, Agreement, ClientTypeOK, InboxType
<1>2. inbox'[p] = IF session[p] = "lost" THEN inbox[p] ELSE inbox[p] \o <<pkt>>
  BY DEF C!SendPackets, Ground, ClientTypeOK, InboxType
<1>3. welcomed[p] /\ session[p] # "connecting"
  BY <1>1 DEF PeerSafety, Settled, SessionFits
<1>4. Settled(p)' /\ (Reached(p)' <=> Reached(p))
  BY <1>1, <1>3, ServerSame DEF PeerSafety, Settled, SessionFits, SessionSame, Reached
<1>5. ASSUME Reached(p) PROVE ClientFits(p)'
  <2> DEFINE w == welcomed[p]
             m == isMaster[p]
             ps == players[p]
             es == DOMAIN networkEntities[p]
             l == outbox[p]
             c == inbox[p]
             c2 == inbox'[p]
             leads == clients[p] \in masters
  <2>1. Fits(w, m, ps, es, l, c, leads, Members, entities)
    <3>1. ClientFits(p)
      BY <1>1, <1>5 DEF PeerSafety
    <3> QED  BY ONLY <3>1 DEF ClientFits
  <2>2. m /\ Len(l) \in Nat
    BY DEF Ground, Safety, TypeOK
  <2>3. Longer(c2, c, pkt)
    <3>1. c2 = c \o <<pkt>>
      BY <1>1, <1>2, <1>5, ReachedIsGreeted DEF PeerSafety
    <3> QED  BY <1>1, <3>1, AppendIsLonger
  <2>4. Fits(w, m, ps, ToldEntity(es, pkt), l, c2, leads, Members, entities)
    <3> HIDE DEF w, m, ps, es, l, c, c2, leads
    <3> QED  BY <2>1, <2>2, <2>3, FitsSaid
  <2> QED  BY <2>4, ServerSame DEF ClientFits, SessionSame
<1> QED  BY <1>4, <1>5 DEF PeerSafety

\* Entities are forgotten, and nothing is said.
LEMMA ForgottenAgrees ==
  ASSUME Ground, NEW p \in Peer, Serverless, UNCHANGED outbox, SessionSame(p), Silent(p),
         DOMAIN networkEntities'[p] \subseteq DOMAIN networkEntities[p]
  PROVE  PeerSafety(p)'
<1>1. PeerSafety(p)
  BY DEF Ground, Agreement
<1>2. Settled(p)' /\ (Reached(p)' <=> Reached(p))
  BY <1>1, ServerSame DEF PeerSafety, Settled, SessionFits, SessionSame, Silent, Reached
<1>3. ASSUME Reached(p) PROVE ClientFits(p)'
  <2> DEFINE w == welcomed[p]
             m == isMaster[p]
             ps == players[p]
             es == DOMAIN networkEntities[p]
             es2 == DOMAIN networkEntities'[p]
             l == outbox[p]
             c == inbox[p]
             leads == clients[p] \in masters
  <2>1. Fits(w, m, ps, es, l, c, leads, Members, entities) /\ es2 \subseteq es
    BY <1>1, <1>3 DEF PeerSafety, ClientFits
  <2>2. Fits(w, m, ps, es2, l, c, leads, Members, entities)
    <3> HIDE DEF w, m, ps, es, es2, l, c, leads
    <3> QED  BY <2>1, FitsForgotten
  <2> QED  BY <2>2, ServerSame DEF ClientFits, SessionSame, Silent
<1> QED  BY <1>2, <1>3 DEF PeerSafety

LEMMA SpawnsAgrees ==
  ASSUME Ground, NEW p \in Peer, Serverless, NEW h \in Handle, C!GameSpawns(p, h)
  PROVE  Agreement'
<1>1. UNCHANGED <<session, C!roster, outbox>> /\ SessionSame(p)
  BY DEF C!GameSpawns, C!roster, SessionSame
<1>2. PeerSafety(p)'
  <2>1. CASE UNCHANGED <<C!entitySync, inbox>>
    <3>1. Silent(p) /\ DOMAIN networkEntities'[p] \subseteq DOMAIN networkEntities[p]
      BY <2>1 DEF C!entitySync, Silent
    <3> QED  BY <1>1, <3>1, ForgottenAgrees
  <2>2. CASE session[p] # "none" /\ isMaster[p] /\ C!OnEntityCreated(p, h)
    <3> DEFINE pkt == [id |-> "SPAWN_ENTITY", guid |-> maxGuid[p]]
    <3>1. pkt \in ClientPacket /\ C!SendPackets(p, <<pkt>>)
      BY <2>2, EntityPacket DEF C!OnEntityCreated
    <3>2. networkEntities'[p] = C!Put(networkEntities[p], maxGuid[p], h)
      BY <2>2 DEF C!OnEntityCreated, Ground, ClientTypeOK, SyncType
    <3>3. DOMAIN networkEntities'[p] = ToldEntity(DOMAIN networkEntities[p], pkt)
      BY <3>2 DEF C!Put, ToldEntity, Told
    <3> HIDE DEF pkt
    <3> QED  BY <1>1, <2>2, <3>1, <3>3, SaidAgrees
  <2> QED  BY <2>1, <2>2 DEF C!GameSpawns
<1> QED  BY <1>1, <1>2, GameStep

LEMMA TerminatesAgrees ==
  ASSUME Ground, NEW p \in Peer, Serverless, NEW h \in Handle, C!GameTerminates(p, h)
  PROVE  Agreement'
<1>1. UNCHANGED <<session, C!roster, outbox>> /\ SessionSame(p)
  BY DEF C!GameTerminates, C!roster, SessionSame
<1>2. PeerSafety(p)'
  <2>1. CASE UNCHANGED <<C!entitySync, inbox>>
    <3>1. Silent(p) /\ DOMAIN networkEntities'[p] \subseteq DOMAIN networkEntities[p]
      BY <2>1 DEF C!entitySync, Silent
    <3> QED  BY <1>1, <3>1, ForgottenAgrees
  <2>2. CASE /\ session[p] # "none" /\ C!OnEntityDeleted(p, h)
             /\ h \in DOMAIN handleMap[p]
             /\ handleMap[p][h] \in DOMAIN networkEntities[p]
    <3> DEFINE g == handleMap[p][h]
               pkt == [id |-> "DESTROY_ENTITY", guid |-> g]
    <3>1. g \in EntityGuid
      BY <2>2 DEF Ground, ClientTypeOK, SyncType, MapsType
    <3>2. networkEntities'[p] = C!Erase(networkEntities[p], g)
      BY <2>2 DEF C!OnEntityDeleted, Ground, ClientTypeOK, SyncType
    <3>3. DOMAIN networkEntities'[p] = DOMAIN networkEntities[p] \ {g}
      BY <3>2 DEF C!Erase, C!Restrict
    <3>4. CASE isMaster[p]
      <4>1. pkt \in ClientPacket /\ C!SendPackets(p, <<pkt>>)
        BY <2>2, <3>1, <3>4, EntityPacket DEF C!OnEntityDeleted
      <4>2. DOMAIN networkEntities'[p] = ToldEntity(DOMAIN networkEntities[p], pkt)
        BY <3>3 DEF ToldEntity, Told
      <4> HIDE DEF pkt, g
      <4> QED  BY <1>1, <2>2, <3>4, <4>1, <4>2, SaidAgrees
    <3>5. CASE ~ isMaster[p]
      <4>1. Silent(p)
        BY <2>2, <3>5 DEF C!OnEntityDeleted, Silent
      <4> HIDE DEF g
      <4> QED  BY <1>1, <3>3, <4>1, ForgottenAgrees
    <3> QED  BY <3>4, <3>5
  <2> QED  BY <2>1, <2>2 DEF C!GameTerminates, C!OnEntityDeleted
<1> QED  BY <1>1, <1>2, GameStep

\* The items of n are those of c and then those of d.
Joins(n, c, d) ==
  /\ Len(c) \in Nat /\ Len(d) \in Nat /\ Len(n) = Len(c) + Len(d)
  /\ \A i \in 1 .. Len(d) : Len(c) + i \in 1 .. Len(n) /\ n[Len(c) + i] = d[i]
  /\ \A i \in 1 .. Len(n) : \/ i \in 1 .. Len(c) /\ n[i] = c[i]
                            \/ \E k \in 1 .. Len(d) : n[i] = d[k]

LEMMA ConcatItems ==
  ASSUME NEW P, NEW c \in Seq(P), NEW d \in Seq(P)
  PROVE  Joins(c \o d, c, d)
<1> DEFINE n == c \o d
<1>1. /\ Len(c) \in Nat /\ Len(d) \in Nat /\ Len(n) = Len(c) + Len(d)
      /\ \A i \in 1 .. Len(d) : Len(c) + i \in 1 .. Len(n) /\ n[Len(c) + i] = d[i]
  OBVIOUS
<1>2. ASSUME NEW i \in 1 .. Len(n)
      PROVE  \/ i \in 1 .. Len(c) /\ n[i] = c[i]
             \/ i - Len(c) \in 1 .. Len(d) /\ n[i] = d[i - Len(c)]
  OBVIOUS
<1> HIDE DEF n
<1> QED  BY <1>1, <1>2 DEF Joins, n

\* A packet is handled, with the effect that it should have.
LEMMA HandledAgrees ==
  ASSUME Ground, NEW p \in Peer, Serverless, Reached(p), outbox[p] # <<>>,
         outbox' = [outbox EXCEPT ![p] = Tail(@)],
         session'[p] = session[p], welcomed'[p],
         welcomed[p] \/ outbox[p][1].id = "WELCOME",
         isMaster'[p] <=> isMaster[p] \/ Promotes(outbox[p][1]),
         players'[p] = ToldPlayer(players[p], outbox[p][1]),
         Speaks(inbox'[p], Lifecycle) => isMaster'[p],
         \/ /\ inbox'[p] = inbox[p]
            /\ DOMAIN networkEntities'[p] \subseteq ToldEntity(DOMAIN networkEntities[p], outbox[p][1])
         \/ /\ isMaster'[p]
            /\ DOMAIN networkEntities'[p] \subseteq Spawned(entities, inbox'[p])
  PROVE  PeerSafety(p)'
<1>1. PeerSafety(p) /\ session[p] = "greeted"
  BY ReachedIsGreeted DEF Ground, Agreement, PeerSafety
<1>2. Settled(p)' /\ Reached(p)'
  BY <1>1, ServerSame DEF PeerSafety, Settled, SessionFits, Reached
<1>3. outbox'[p] = Tail(outbox[p]) /\ Shorter(outbox'[p], outbox[p])
  <2>1. outbox[p] \in Seq(Packet) /\ outbox'[p] = Tail(outbox[p])
    BY DEF Ground, Safety, TypeOK
  <2> QED  BY <2>1, TailIsShorter
<1>4. ClientFits(p)
  BY <1>1 DEF PeerSafety
<1>5. ClientFits(p)'
  <2> DEFINE w == welcomed[p]
             w2 == welcomed'[p]
             m == isMaster[p]
             m2 == isMaster'[p]
             ps == players[p]
             ps2 == players'[p]
             es == DOMAIN networkEntities[p]
             es2 == DOMAIN networkEntities'[p]
             l == outbox[p]
             t == outbox'[p]
             c == inbox[p]
             c2 == inbox'[p]
             leads == clients[p] \in masters
  <2>1. Fits(w, m, ps, es, l, c, leads, Members, entities)
    BY ONLY <1>4 DEF ClientFits
  <2>2. Shorter(t, l)
    BY <1>3
  <2>3. Handles(l[1], w, m, ps, es, c, entities, w2, m2, ps2, es2, c2)
    BY DEF Handles
  <2> HIDE DEF w, w2, m, m2, ps, ps2, es, es2, l, t, c, c2, leads
  <2>4. Fits(w2, m2, ps2, es2, t, c2, leads, Members, entities)
    BY <2>1, <2>2, <2>3, FitsHandled
  <2> QED  BY <2>4, ServerSame DEF ClientFits, w2, m2, ps2, es2, t, c2, leads
<1> QED  BY <1>2, <1>5 DEF PeerSafety

\* A master client announces all that it numbers when it enters, and any other client
\* numbers nothing.
LEMMA EnterSays ==
  ASSUME Ground, NEW p \in Peer, NEW first \in EntityGuid \cup {0}, NEW b \in BOOLEAN,
         C!OnEnterServer(p, first, b), session[p] # "lost", ~ Speaks(inbox[p], Lifecycle)
  PROVE  /\ ~ b => inbox'[p] = inbox[p] /\ DOMAIN networkEntities'[p] = {}
         /\ b => DOMAIN networkEntities'[p] \subseteq Spawned(entities, inbox'[p])
<1> DEFINE S == IF b THEN alive[p] ELSE {}
<1>1. IsFiniteSet(S) /\ first \in Nat
  <2>1. S \subseteq Handle
    BY DEF Ground, ClientTypeOK, SessionType
  <2>2. first \in Nat
    BY EntityGuidAssumption
  <2> QED  BY <2>1, <2>2, HandleAssumption, FS_Subset
<1> PICK list \in SetToSeqs(S) :
      /\ networkEntities' = [networkEntities EXCEPT ![p] =
                               [g \in first .. first + Len(list) - 1 |-> list[g - first + 1]]]
      /\ first .. first + Len(list) - 1 \subseteq EntityGuid
      /\ C!SendPackets(p, [i \in 1 .. Len(list) |->
                            [id |-> "SPAWN_ENTITY", guid |-> first + i - 1]])
  BY SameLists DEF C!OnEnterServer
<1>2. Len(list) \in Nat /\ (~ b => Len(list) = 0)
  <2>1. Len(list) \in Nat /\ \A i \in 1 .. Len(list) : list[i] \in S
    BY <1>1, ListType
  <2>2. ~ b => S = {}
    OBVIOUS
  <2> HIDE DEF S
  <2> QED  BY <2>1, <2>2
<1> HIDE DEF S
<1> DEFINE news == [i \in 1 .. Len(list) |-> [id |-> "SPAWN_ENTITY", guid |-> first + i - 1]]
           c == inbox[p]
           c2 == inbox'[p]
<1>3. DOMAIN networkEntities'[p] = first .. first + Len(list) - 1
  BY DEF Ground, ClientTypeOK, SyncType
<1>4. c2 = c \o news /\ c \in Seq(ClientPacket)
  BY DEF C!SendPackets, Ground, ClientTypeOK, InboxType
<1>5. news \in Seq(ClientPacket) /\ Len(news) = Len(list)
  <2>1. \A i \in 1 .. Len(list) :
          [id |-> "SPAWN_ENTITY", guid |-> first + i - 1] \in ClientPacket
    <3> SUFFICES ASSUME NEW i \in 1 .. Len(list)
                 PROVE  [id |-> "SPAWN_ENTITY", guid |-> first + i - 1] \in ClientPacket
      OBVIOUS
    <3>1. first + i - 1 \in first .. first + Len(list) - 1
      BY <1>1, <1>2
    <3> QED  BY <3>1, EntityPacket
  <2> QED  BY <1>2, <2>1
<1>6. \A i \in 1 .. Len(list) : news[i].id = "SPAWN_ENTITY" /\ news[i].guid = first + i - 1
  OBVIOUS
<1>7. ~ Speaks(c, Lifecycle)
  OBVIOUS
<1> HIDE DEF news, c, c2
<1>8. ASSUME ~ b PROVE c2 = c /\ DOMAIN networkEntities'[p] = {}
  <2>1. news = <<>>
    BY <1>2, <1>5, <1>8, EmptySeq
  <2>2. c2 = c
    BY <1>4, <2>1
  <2>3. first .. first + Len(list) - 1 = {}
    BY <1>1, <1>2, <1>8
  <2> QED  BY <1>3, <2>2, <2>3
<1>9. ASSUME NEW g \in DOMAIN networkEntities'[p]
      PROVE  g \in Spawned(entities, c2)
  <2>1. Joins(c2, c, news)
    BY <1>4, <1>5, ConcatItems
  <2>2. \A i \in 1 .. Len(c2) : c2[i].id # "DESTROY_ENTITY"
    <3> SUFFICES ASSUME NEW i \in 1 .. Len(c2) PROVE c2[i].id # "DESTROY_ENTITY"
      OBVIOUS
    <3>1. CASE i \in 1 .. Len(c) /\ c2[i] = c[i]
      BY <1>7, <3>1 DEF Speaks, Lifecycle
    <3>2. CASE \E k \in 1 .. Len(news) : c2[i] = news[k]
      BY <1>5, <1>6, <3>2
    <3> QED  BY <2>1, <3>1, <3>2 DEF Joins
  <2>3. Spawned(entities, c2)
          = entities \cup {c2[i].guid : i \in {k \in 1 .. Len(c2) : c2[k].id = "SPAWN_ENTITY"}}
    <3>1. Len(c2) \in Nat
      BY <2>1 DEF Joins
    <3> QED  BY <2>2, <3>1, AfterAdded DEF Spawned
  <2>4. g - first + 1 \in 1 .. Len(list) /\ first + (g - first + 1) - 1 = g
    BY <1>1, <1>2, <1>3, <1>9
  <2>5. PICK i \in 1 .. Len(c2) : c2[i].id = "SPAWN_ENTITY" /\ c2[i].guid = g
    <3>1. Len(c) + (g - first + 1) \in 1 .. Len(c2)
          /\ c2[Len(c) + (g - first + 1)] = news[g - first + 1]
      BY <1>5, <2>1, <2>4 DEF Joins
    <3> QED  BY <1>6, <2>4, <3>1
  <2> QED  BY <2>3, <2>5
<1> QED  BY <1>8, <1>9 DEF c, c2

\* What a client that is handed a packet is like: admitted, and due exactly this packet.
LEMMA ConsumeIsDue ==
  ASSUME Ground, NEW p \in Peer, C!Consume(p)
  PROVE  /\ Reached(p) /\ outbox[p] # <<>> /\ Head(outbox[p]) = outbox[p][1]
         /\ outbox[p][1] \in Packet
         /\ welcomed[p] <=> outbox[p][1].id # "WELCOME"
         /\ ~ welcomed[p] => ~ isMaster[p] /\ ~ Speaks(inbox[p], Lifecycle)
         /\ Speaks(inbox[p], Lifecycle) => isMaster[p]
<1>1. session[p] = "greeted" /\ outbox[p] # <<>> /\ outbox[p] \in Seq(Packet)
  BY DEF C!Consume, Ground, Safety, TypeOK
<1>2. PeerSafety(p)
  BY DEF Ground, Agreement
<1>3. Reached(p)
  BY <1>1, <1>2 DEF PeerSafety, Settled, SessionFits, Reached, Ground, LinkSafety,
                    StrangersHearNothing
<1>4. outbox[p][1] = Head(outbox[p]) /\ outbox[p][1] \in Packet /\ 1 \in 1 .. Len(outbox[p])
  BY <1>1, TailIsShorter
<1>5. WelcomeFits(welcomed[p], outbox[p])
  BY <1>2, <1>3 DEF PeerSafety, ClientFits, Fits
<1>6. welcomed[p] <=> outbox[p][1].id # "WELCOME"
  BY <1>4, <1>5 DEF WelcomeFits
<1>7. /\ ~ welcomed[p] => ~ isMaster[p] /\ ~ Speaks(inbox[p], Lifecycle)
      /\ Speaks(inbox[p], Lifecycle) => isMaster[p]
  BY <1>2, <1>3 DEF PeerSafety, Settled, SessionFits, Reached
<1> QED  BY <1>1, <1>3, <1>4, <1>6, <1>7

LEMMA WelcomeAgrees ==
  ASSUME Ground, NEW p \in Peer, Serverless, C!Consume(p), C!HandleWelcome(p, outbox[p][1])
  PROVE  PeerSafety(p)'
<1> DEFINE pkt == outbox[p][1]
<1>1. /\ Reached(p) /\ outbox[p] # <<>> /\ pkt \in Packet /\ pkt.id = "WELCOME"
      /\ ~ isMaster[p] /\ ~ Speaks(inbox[p], Lifecycle)
  BY ConsumeIsDue DEF C!HandleWelcome
<1>2. /\ outbox' = [outbox EXCEPT ![p] = Tail(@)] /\ session'[p] = session[p]
      /\ session[p] # "lost"
  BY DEF C!Consume
<1> DEFINE b == pkt.isMasterClient
           first == pkt.highestEntityGuid
<1>3. b \in BOOLEAN /\ first \in EntityGuid \cup {0}
  BY <1>1 DEF Packet, PlayerPacketId, EntityUpdateId
<1>4. /\ welcomed'[p] = TRUE /\ isMaster'[p] = b /\ players'[p] = players[p]
      /\ C!OnEnterServer(p, first, b)
  BY DEF C!HandleWelcome, Ground, ClientTypeOK, SessionType
<1>5. /\ Promotes(pkt) <=> b
      /\ ToldPlayer(players[p], pkt) = players[p]
      /\ ToldEntity(DOMAIN networkEntities[p], pkt) = DOMAIN networkEntities[p]
  BY <1>1, <1>3 DEF Promotes, ToldPlayer, ToldEntity, Told
<1> HIDE DEF b, first, pkt
<1>6. /\ ~ b => inbox'[p] = inbox[p] /\ DOMAIN networkEntities'[p] = {}
      /\ b => DOMAIN networkEntities'[p] \subseteq Spawned(entities, inbox'[p])
  BY <1>1, <1>2, <1>3, <1>4, EnterSays
<1>7. isMaster'[p] <=> isMaster[p] \/ Promotes(pkt)
  BY <1>1, <1>4, <1>5
<1>8. Speaks(inbox'[p], Lifecycle) => isMaster'[p]
  BY <1>1, <1>3, <1>4, <1>6
<1>9. \/ /\ inbox'[p] = inbox[p]
         /\ DOMAIN networkEntities'[p] \subseteq ToldEntity(DOMAIN networkEntities[p], pkt)
      \/ /\ isMaster'[p]
         /\ DOMAIN networkEntities'[p] \subseteq Spawned(entities, inbox'[p])
  BY <1>3, <1>4, <1>5, <1>6
<1>10. welcomed'[p] /\ (welcomed[p] \/ pkt.id = "WELCOME")
       /\ players'[p] = ToldPlayer(players[p], pkt)
  BY <1>1, <1>4, <1>5
<1> QED  BY <1>1, <1>2, <1>7, <1>8, <1>9, <1>10, HandledAgrees DEF pkt

\* Any other packet concerns the flag, the players or the entities, and is not answered.
LEMMA OtherPacketAgrees ==
  ASSUME Ground, NEW p \in Peer, Serverless, C!Consume(p), NEW pkt, pkt = outbox[p][1],
         inbox' = inbox, welcomed' = welcomed, pkt.id # "WELCOME",
         isMaster'[p] <=> isMaster[p] \/ pkt.id = "SET_MASTER_CLIENT",
         players'[p] = ToldPlayer(players[p], pkt),
         DOMAIN networkEntities'[p] \subseteq ToldEntity(DOMAIN networkEntities[p], pkt)
  PROVE  PeerSafety(p)'
<1>1. /\ Reached(p) /\ outbox[p] # <<>> /\ welcomed[p]
      /\ Speaks(inbox[p], Lifecycle) => isMaster[p]
  BY ConsumeIsDue
<1>2. outbox' = [outbox EXCEPT ![p] = Tail(@)] /\ session'[p] = session[p]
  BY DEF C!Consume
<1>3. Promotes(pkt) <=> pkt.id = "SET_MASTER_CLIENT"
  BY DEF Promotes
<1>4. isMaster'[p] <=> isMaster[p] \/ Promotes(outbox[p][1])
  BY <1>3
<1>5. Speaks(inbox'[p], Lifecycle) => isMaster'[p]
  BY <1>1
<1>6. inbox'[p] = inbox[p] /\ welcomed'[p]
  BY <1>1
<1>7. DOMAIN networkEntities'[p] \subseteq ToldEntity(DOMAIN networkEntities[p], outbox[p][1])
  OBVIOUS
<1>8. players'[p] = ToldPlayer(players[p], outbox[p][1])
  OBVIOUS
<1> QED  BY ONLY Ground, p \in Peer, Serverless, <1>1, <1>2, <1>4, <1>5, <1>6, <1>7, <1>8,
                 HandledAgrees

LEMMA ConsumeAgrees ==
  ASSUME Ground, NEW p \in Peer, Serverless, C!Consume(p)
  PROVE  Agreement'
<1> DEFINE pkt == outbox[p][1]
<1>1. pkt = Head(outbox[p]) /\ (welcomed[p] <=> pkt.id # "WELCOME")
  BY ConsumeIsDue
<1>2. \A q \in Peer \ {p} : outbox'[q] = outbox[q]
  BY DEF C!Consume, Ground, Safety, TypeOK
<1>3. PeerSafety(p)'
  <2>1. CASE C!HandleWelcome(p, pkt)
    BY <2>1, WelcomeAgrees
  <2>2. CASE C!HandleSetMasterClient(p, pkt)
    <3>1. /\ pkt.id = "SET_MASTER_CLIENT" /\ isMaster'[p] = TRUE
          /\ UNCHANGED <<inbox, welcomed, players, networkEntities>>
      BY <2>2 DEF C!HandleSetMasterClient, C!entitySync, Ground, ClientTypeOK, SessionType
    <3>2. /\ players'[p] = ToldPlayer(players[p], pkt)
          /\ DOMAIN networkEntities'[p] \subseteq ToldEntity(DOMAIN networkEntities[p], pkt)
      BY <3>1 DEF ToldPlayer, ToldEntity, Told
    <3> HIDE DEF pkt
    <3> QED  BY <3>1, <3>2, OtherPacketAgrees DEF pkt
  <2>3. CASE C!HandleCreatePlayer(p, pkt) \/ C!HandleDestroyPlayer(p, pkt)
    <3>1. /\ pkt.id \in {"CREATE_PLAYER", "DESTROY_PLAYER"}
          /\ players'[p] = IF pkt.id = "CREATE_PLAYER" THEN players[p] \cup {pkt.guid}
                                                       ELSE players[p] \ {pkt.guid}
          /\ UNCHANGED <<inbox, welcomed, isMaster, networkEntities>>
      BY <2>3 DEF C!HandleCreatePlayer, C!HandleDestroyPlayer, C!entitySync, Ground,
                  ClientTypeOK, SessionType
    <3>2. /\ players'[p] = ToldPlayer(players[p], pkt)
          /\ DOMAIN networkEntities'[p] \subseteq ToldEntity(DOMAIN networkEntities[p], pkt)
          /\ pkt.id # "WELCOME" /\ pkt.id # "SET_MASTER_CLIENT"
      BY <3>1 DEF ToldPlayer, ToldEntity, Told
    <3> HIDE DEF pkt
    <3> QED  BY <3>1, <3>2, OtherPacketAgrees DEF pkt
  <2>4. CASE C!HandleCreateEntity(p, pkt)
    <3>1. /\ pkt.id = "SPAWN_ENTITY"
          /\ UNCHANGED <<inbox, welcomed, isMaster, players>>
      BY <2>4 DEF C!HandleCreateEntity, C!roster
    <3>2. DOMAIN networkEntities'[p] \subseteq DOMAIN networkEntities[p] \cup {pkt.guid}
      <4>1. CASE networkEntities' = networkEntities
        BY <4>1
      <4>2. ASSUME NEW h, C!AddEntity(p, h, pkt.guid)
            PROVE  DOMAIN networkEntities'[p] \subseteq DOMAIN networkEntities[p] \cup {pkt.guid}
        <5>1. networkEntities'[p] = C!Put(networkEntities[p], pkt.guid, h)
          BY <4>2 DEF C!AddEntity, Ground, ClientTypeOK, SyncType
        <5> QED  BY <5>1 DEF C!Put
      <4> QED  BY <2>4, <4>1, <4>2 DEF C!HandleCreateEntity, C!entitySync
    <3>3. /\ players'[p] = ToldPlayer(players[p], pkt)
          /\ DOMAIN networkEntities'[p] \subseteq ToldEntity(DOMAIN networkEntities[p], pkt)
          /\ pkt.id # "WELCOME" /\ pkt.id # "SET_MASTER_CLIENT"
      BY <3>1, <3>2 DEF ToldPlayer, ToldEntity, Told
    <3> HIDE DEF pkt
    <3> QED  BY <3>1, <3>3, OtherPacketAgrees DEF pkt
  <2>5. CASE C!HandleDestroyEntity(p, pkt)
    <3>1. /\ pkt.id = "DESTROY_ENTITY"
          /\ UNCHANGED <<inbox, welcomed, isMaster, players>>
          /\ networkEntities'[p] = C!Erase(networkEntities[p], pkt.guid)
      BY <2>5 DEF C!HandleDestroyEntity, C!roster, Ground, ClientTypeOK, SyncType
    <3>2. DOMAIN networkEntities'[p] = DOMAIN networkEntities[p] \ {pkt.guid}
      BY <3>1 DEF C!Erase, C!Restrict
    <3>3. /\ players'[p] = ToldPlayer(players[p], pkt)
          /\ DOMAIN networkEntities'[p] \subseteq ToldEntity(DOMAIN networkEntities[p], pkt)
          /\ pkt.id # "WELCOME" /\ pkt.id # "SET_MASTER_CLIENT"
      BY <3>1, <3>2 DEF ToldPlayer, ToldEntity, Told
    <3> HIDE DEF pkt
    <3> QED  BY <3>1, <3>3, OtherPacketAgrees DEF pkt
  <2>6. CASE C!HandleStreaming(p, pkt)
    <3>1. /\ pkt.id \in C!Streaming
          /\ UNCHANGED <<inbox, welcomed, isMaster, players, networkEntities>>
      BY <2>6 DEF C!HandleStreaming, C!roster, C!entitySync
    <3>2. /\ players'[p] = ToldPlayer(players[p], pkt)
          /\ DOMAIN networkEntities'[p] \subseteq ToldEntity(DOMAIN networkEntities[p], pkt)
          /\ pkt.id # "WELCOME" /\ pkt.id # "SET_MASTER_CLIENT"
      BY <3>1 DEF ToldPlayer, ToldEntity, Told, C!Streaming
    <3> HIDE DEF pkt
    <3> QED  BY <3>1, <3>2, OtherPacketAgrees DEF pkt
  <2> QED  BY <1>1, <2>1, <2>2, <2>3, <2>4, <2>5, <2>6 DEF C!Consume
<1> QED  BY <1>2, <1>3, GameStep

-----------------------------------------------------------------------------
(* The whole of a game *)

LEMMA InitAgrees == MultiplayerInit => Agreement
<1> SUFFICES ASSUME MultiplayerInit, NEW q \in Peer PROVE PeerSafety(q)
  BY DEF Agreement
<1>1. link[q] = "free" /\ q \notin Joined
  BY DEF MultiplayerInit, Init, Joined
<1>2. /\ session[q] = "none" /\ ~ welcomed[q] /\ ~ isMaster[q]
      /\ players[q] = {} /\ networkEntities[q] = C!Empty /\ inbox[q] = <<>>
  BY DEF MultiplayerInit, C!Init
<1>3. DOMAIN networkEntities[q] = {} /\ \A ids : ~ Speaks(inbox[q], ids)
  BY <1>2 DEF C!Empty, Speaks
<1>4. Settled(q)
  BY <1>1, <1>2, <1>3 DEF Settled, SessionFits
<1> QED  BY <1>1, <1>4 DEF PeerSafety, Reached

LEMMA NextAgrees == Ground /\ [MultiplayerNext]_allVars => Agreement'
<1> SUFFICES ASSUME Ground, [MultiplayerNext]_allVars PROVE Agreement'
  OBVIOUS
<1>1. CASE UNCHANGED allVars
  <2>1. UNCHANGED <<link, clients, masters, entities, outbox, inbox, session, welcomed,
                    isMaster, players, networkEntities>>
    BY <1>1 DEF allVars, vars, clientVars, room, world
  <2>2. Members' = Members
    BY <2>1 DEF Members, Joined
  <2>3. \A q \in Peer : Rests(q) /\ outbox'[q] = outbox[q]
    BY <2>1 DEF Rests
  <2> QED  BY <2>1, <2>2, <2>3, RestsUntold DEF Ground, Agreement
<1>2. ASSUME NEW p \in Peer, Begin(p) \/ Quit(p) \/ Break(p) \/ ServerDisconnect(p)
      PROVE  Agreement'
  BY <1>2, BeginAgrees, QuitAgrees, BreakAgrees, DisconnectAgrees
<1>3. ASSUME NEW p \in Peer, ServerReceive(p) PROVE Agreement'
  BY <1>3, ReceiveAgrees
<1>4. ASSUME NEW p \in Peer, HandleEvent(p) PROVE Agreement'
  BY <1>4, GreetAgrees, ConsumeAgrees DEF HandleEvent
<1>5. ASSUME NEW p \in Peer, EndThink(p) PROVE Agreement'
  BY <1>5, ThinkAgrees DEF EndThink
<1>6. ASSUME NEW p \in Peer, CallHook(p) PROVE Agreement'
  BY <1>6, HookAgrees, SpawnsAgrees, TerminatesAgrees DEF CallHook
<1> QED  BY <1>1, <1>2, <1>3, <1>4, <1>5, <1>6 DEF MultiplayerNext

LEMMA GameIsGrounded == MultiplayerSpec => []Ground
<1>1. MultiplayerInit => Agreement
  BY InitAgrees
<1>2. Safety /\ LinkSafety /\ TypeOK /\ ClientTypeOK /\ Agreement /\ [MultiplayerNext]_allVars
        => Agreement'
  BY NextAgrees DEF Ground
<1>3. MultiplayerSpec => []Agreement
  BY <1>1, <1>2, GameTypes, GameServerSafe, PTL DEF MultiplayerSpec
<1>4. Safety /\ LinkSafety /\ ClientTypeOK /\ Agreement => Ground
  BY DEF Ground
<1> QED  BY <1>3, <1>4, GameTypes, GameServerSafe, PTL

\* A client that the server and the client itself take for one is reached and fits.
LEMMA InTouchFits ==
  ASSUME Ground, NEW p \in Peer, InTouch(p)
  PROVE  Reached(p) /\ ClientFits(p)
BY DEF Ground, Agreement, PeerSafety, InTouch, Reached

\* The packets under way to a client always add up to the server's roster: whoever joins
\* or leaves while the client is being introduced is neither missed nor kept.
THEOREM RosterConvergesAlways == MultiplayerSpec => []RosterConverges
<1>1. ASSUME Ground, NEW p \in Peer, InTouch(p)
      PROVE  Knows(p, Len(outbox[p])) = Members
  BY <1>1, InTouchFits DEF ClientFits, Fits, RosterFits, Roster, Knows
<1>2. Ground => RosterConverges
  BY <1>1 DEF RosterConverges
<1> QED  BY <1>2, GameIsGrounded, PTL

\* handle_player_data and its like never meet a guid they do not know.
THEOREM SendersAreKnownAlways == MultiplayerSpec => []SendersAreKnown
<1>1. ASSUME Ground, NEW p \in Peer, InTouch(p), NEW n \in 1 .. Len(outbox[p]),
             outbox[p][n].id \in PlayerPacketId
      PROVE  outbox[p][n].guid \in Knows(p, n - 1)
  BY <1>1, InTouchFits DEF ClientFits, Fits, RosterFits, Roster, Knows
<1>2. Ground => SendersAreKnown
  BY <1>1 DEF SendersAreKnown
<1> QED  BY <1>2, GameIsGrounded, PTL

\* The test for WELCOME in on_packet_received throws nothing away.
THEOREM NothingIsIgnored == MultiplayerSpec => []NothingIgnored
<1>1. ASSUME Ground, NEW p \in Peer, session[p] = "greeted", ~ welcomed[p], outbox[p] # <<>>
      PROVE  Head(outbox[p]).id = "WELCOME"
  <2>1. outbox[p] \in Seq(Packet) /\ PeerSafety(p)
    BY <1>1 DEF Ground, Safety, TypeOK, Agreement
  <2>2. Reached(p)
    BY <1>1, <2>1 DEF PeerSafety, Settled, SessionFits, Reached, Ground, LinkSafety,
                      StrangersHearNothing
  <2>3. outbox[p][1].id = "WELCOME"
    BY <1>1, <2>1, <2>2 DEF PeerSafety, ClientFits, Fits, WelcomeFits
  <2> QED  BY <1>1, <2>1, <2>3
<1>2. Ground => NothingIgnored
  BY <1>1 DEF NothingIgnored
<1> QED  BY <1>2, GameIsGrounded, PTL

\* A client's own flag follows the server's choice, and two games never simulate the
\* enemies of one room.
THEOREM MasterIsAgreedAlways == MultiplayerSpec => []MasterIsAgreed
<1>1. ASSUME Ground, NEW p \in Peer, InTouch(p)
      PROVE  (isMaster[p] \/ \E n \in 1 .. Len(outbox[p]) : Promotes(outbox[p][n]))
               <=> clients[p] \in masters
  BY <1>1, InTouchFits DEF ClientFits, Fits, FlagFits
<1>2. ASSUME Ground, NEW p \in Peer, NEW q \in Peer, InTouch(p), InTouch(q),
             isMaster[p], isMaster[q]
      PROVE  p = q
  <2>1. clients[p] \in masters /\ clients[q] \in masters /\ p \in Joined /\ q \in Joined
    BY <1>1, <1>2 DEF InTouch
  <2>2. clients[p] = clients[q]
    BY <1>2, <2>1 DEF Ground, Safety, RoomSafety, OneMaster
  <2>3. \A a, b \in Joined : clients[a] = clients[b] => a = b
    BY <1>2 DEF Ground, Safety, RoomSafety, MapsAgree
  <2> QED  BY <2>1, <2>2, <2>3
<1>3. Ground => MasterIsAgreed
  BY <1>1, <1>2 DEF MasterIsAgreed, MasterFlagFollows, OneSimulation
<1> QED  BY <1>3, GameIsGrounded, PTL

\* No client holds an entity that is, or will be, unknown to the server.
THEOREM NoGhosts == MultiplayerSpec => []NoGhostEntities
<1>1. ASSUME Ground, NEW p \in Peer, InTouch(p)
      PROVE  Spawned(DOMAIN networkEntities[p], outbox[p]) \subseteq Spawned(entities, inbox[p])
  BY <1>1, InTouchFits DEF ClientFits, Fits, WorldFits
<1>2. Ground => NoGhostEntities
  BY <1>1 DEF NoGhostEntities
<1> QED  BY <1>2, GameIsGrounded, PTL
=============================================================================
