---------------------------- MODULE Multiplayer ----------------------------
(***************************************************************************)
(* The whole of a game: the server (GameServer) and a mod in each player's *)
(* game (NierClient), joined by ENet links that keep the order of packets  *)
(* and lose what is under way when they break.                             *)
(***************************************************************************)
EXTENDS GameServer, Functions

CONSTANTS Handle,    \* the handles of each game's networkable entities
          Streamed,  \* the kinds of per-frame packets that are sent
          MaxInbox   \* no game step is taken that sends on a link this full

\* A game knows its entities by 32-bit handles.
ASSUME HandleAssumption == IsFiniteSet(Handle)

VARIABLES session, welcomed, guid, isMaster, players,
          maxGuid, networkEntities, handleMap, alive, inbox

clientVars == <<session, welcomed, guid, isMaster, players,
                maxGuid, networkEntities, handleMap, alive>>
allVars == <<vars, clientVars, inbox>>

C == INSTANCE NierClient

MultiplayerTypeOK ==
  /\ TypeOK
  /\ session \in [Peer -> {"none", "connecting", "greeted", "lost"}]
  /\ welcomed \in [Peer -> BOOLEAN]
  /\ guid \in [Peer -> Guid \cup {NoClient}]
  /\ isMaster \in [Peer -> BOOLEAN]
  /\ players \in [Peer -> SUBSET Guid]
  /\ maxGuid \in [Peer -> Nat]
  /\ alive \in [Peer -> SUBSET Handle]
  /\ inbox \in [Peer -> Seq(ClientPacket)]
  /\ DOMAIN networkEntities = Peer
  /\ DOMAIN handleMap = Peer
  /\ \A p \in Peer :
       /\ DOMAIN networkEntities[p] \subseteq EntityGuid
       /\ Range(networkEntities[p]) \subseteq Handle
       /\ DOMAIN handleMap[p] \subseteq Handle
       /\ Range(handleMap[p]) \subseteq EntityGuid

MultiplayerInit == Init /\ C!Init

-----------------------------------------------------------------------------
(* The bounds of an instance *)

\* Sessions are begun while the server can still number them all.
MayBegin == connectionCount
              + Cardinality({q \in Peer : link[q] = "open" /\ q \notin Joined})
              < MaxClients

\* Game steps that send packets wait while links are full.
Quiet(p) == /\ Len(inbox[p]) < MaxInbox
            /\ \A q \in Peer : Len(outbox[q]) < MaxOutbox

-----------------------------------------------------------------------------
(* Steps of the links *)

\* A player connects to the slot; ENet tells both ends.
Begin(p) == /\ MayBegin
            /\ C!NewClient(p)
            /\ Connect(p)
            /\ UNCHANGED inbox

\* A client is destroyed: its thread disconnects, and what it sent and the server
\* has not received is lost with the link.
Quit(p) == /\ C!EndSession(p)
           /\ inbox' = [inbox EXCEPT ![p] = <<>>]
           /\ IF link[p] = "open" THEN LinkDown(p) ELSE UNCHANGED vars

\* The link times out under a client that stays.
Break(p) == /\ C!OnDisconnect(p)
            /\ inbox' = [inbox EXCEPT ![p] = <<>>]
            /\ LinkDown(p)

ServerDisconnect(p) == Disconnect(p) /\ UNCHANGED <<clientVars, inbox>>

\* The server takes the oldest packet of a link.  Refusing a HELLO breaks the link
\* under the client.
ServerReceive(p) ==
  /\ link[p] = "open"
  /\ inbox[p] # <<>>
  /\ inbox' = [inbox EXCEPT ![p] = Tail(@)]
  /\ LET pkt == Head(inbox[p]) IN
       \/ PacketHandler(p, pkt)
       \/ Discarded(p, pkt) /\ UNCHANGED vars
  /\ IF link'[p] = "open" THEN UNCHANGED clientVars ELSE C!OnDisconnect(p)

\* Steps of the games leave the server untouched.
Serverless == UNCHANGED <<link, room, world>>

\* think() handles the event of the connection, or a packet.
HandleEvent(p) == (C!OnConnect(p) \/ C!Consume(p)) /\ Serverless

\* think() goes on after the events.
EndThink(p) == Quiet(p) /\ C!ThinkTail(p) /\ Serverless

\* A hook is called by the game.
CallHook(p) ==
  /\ Quiet(p)
  /\ \/ \E id \in PlayerPacketId : C!HookSends(p, id)
     \/ \E h \in Handle : C!GameSpawns(p, h) \/ C!GameTerminates(p, h)
  /\ Serverless

MultiplayerNext ==
  \E p \in Peer : \/ Begin(p) \/ Quit(p) \/ Break(p)
                 \/ ServerDisconnect(p) \/ ServerReceive(p)
                 \/ HandleEvent(p) \/ EndThink(p) \/ CallHook(p)

\* The server's loop and the game's frames go on, and there is a player in the game, or
\* the mod would not come to think(); players join, leave and play as they like, and
\* links break or hold.
MultiplayerFairness ==
  \A p \in Peer : /\ WF_allVars(ServerDisconnect(p))
                 /\ WF_allVars(ServerReceive(p))
                 /\ WF_allVars(HandleEvent(p))

MultiplayerSpec == MultiplayerInit /\ [][MultiplayerNext]_allVars
FairMultiplayer == MultiplayerSpec /\ MultiplayerFairness

-----------------------------------------------------------------------------
(* Properties *)

\* A client and the server that are in touch: the server has admitted the client
\* and the link holds.
InTouch(p) == link[p] = "open" /\ p \in Joined /\ session[p] = "greeted"

\* Packets i + 1 to n of a link take x away.
TakenAway(l, i, n, del, x) == \E j \in i + 1 .. n : l[j].id = del /\ l[j].guid = x

\* What is left of a set when the first n packets of a link are handled, which add
\* guids to it and take guids away.
After(set, l, n, add, del) ==
  {x \in set : ~ TakenAway(l, 0, n, del, x)}
    \cup {l[i].guid : i \in {k \in 1 .. n :
             l[k].id = add /\ ~ TakenAway(l, k, n, del, l[k].guid)}}

\* What p knows of the players once it has handled the first n packets under way.
Knows(p, n) == After(players[p], outbox[p], n, "CREATE_PLAYER", "DESTROY_PLAYER")

\* The packets under way to a client always add up to the server's roster: whoever
\* joins or leaves while a client is being introduced is neither missed nor kept.
RosterConverges ==
  \A p \in Peer : InTouch(p) => Knows(p, Len(outbox[p])) = Members

\* No bounced packet of a player is handled by a client that does not have the
\* player: handle_player_data never finds an unknown guid.
SendersAreKnown ==
  \A p \in Peer : InTouch(p) =>
    \A n \in 1 .. Len(outbox[p]) :
      outbox[p][n].id \in PlayerPacketId => outbox[p][n].guid \in Knows(p, n - 1)

\* Nothing is thrown away by the test for WELCOME in on_packet_received.
NothingIgnored ==
  \A p \in Peer :
    session[p] = "greeted" /\ ~ welcomed[p] /\ outbox[p] # <<>>
      => Head(outbox[p]).id = "WELCOME"

\* A client's own flag follows the server's choice: it is the master client, or will
\* be after the packets under way, exactly when the server says so.
Promotes(pkt) == \/ pkt.id = "SET_MASTER_CLIENT"
                 \/ pkt.id = "WELCOME" /\ pkt.isMasterClient

MasterFlagFollows ==
  \A p \in Peer : InTouch(p) =>
    ((isMaster[p] \/ \E n \in 1 .. Len(outbox[p]) : Promotes(outbox[p][n]))
       <=> clients[p] \in masters)

\* Two games never simulate the enemies of one room at the same time.
OneSimulation ==
  \A p, q \in Peer : InTouch(p) /\ InTouch(q) /\ isMaster[p] /\ isMaster[q] => p = q

\* Server and clients agree on who is the master client.
MasterIsAgreed == MasterFlagFollows /\ OneSimulation

\* What is left of a set of entities when all packets of a link are handled.
Spawned(set, l) == After(set, l, Len(l), "SPAWN_ENTITY", "DESTROY_ENTITY")

\* No client holds an entity that is, or will be, unknown to the server: the guids
\* it will know are among those the server will have heard of.
NoGhostEntities ==
  \A p \in Peer : InTouch(p) =>
    Spawned(DOMAIN networkEntities[p], outbox[p]) \subseteq Spawned(entities, inbox[p])

\* The two maps of EntitySync stay inverse to each other on what is networked, so
\* that think() never terminates an entity it has just written to.
NetworkedAreKept ==
  \A p \in Peer : \A g \in DOMAIN networkEntities[p] :
    /\ networkEntities[p][g] \in DOMAIN handleMap[p]
    /\ handleMap[p][networkEntities[p][g]] = g

\* A HELLO is answered: the client is welcomed or loses the link.
HelloIsAnswered ==
  \A p \in Peer : session[p] = "greeted" ~> (welcomed[p] \/ session[p] # "greeted")

\* A client the server makes the master learns of it, or its link breaks.
MasterLearns ==
  \A p \in Peer :
    (InTouch(p) /\ clients[p] \in masters) ~> (isMaster[p] \/ ~ InTouch(p))

\* When the master client's link is gone, mastership comes to a client whose link
\* holds, unless nobody is left.
MasterIsReplaced ==
  (\E p \in Joined : clients[p] \in masters /\ link[p] # "open")
    ~> (\/ Joined = {}
        \/ \E p \in Joined : clients[p] \in masters /\ link[p] = "open")

\* A client that numbers entities never gives out a guid that one of its entities
\* has: the promise of the comment in EntitySync::add_entity.
GuidsAreDistinct ==
  \A p \in Peer : \A h, k \in DOMAIN handleMap[p] \cap alive[p] :
    handleMap[p][h] = handleMap[p][k] => h = k

\* After think() a client that is not the master has only the entities that are
\* networked: the promise of the comment in EntitySync::think.
OnlyNetworkedEntities ==
  [][\A p \in Peer : EndThink(p) /\ ~ isMaster[p]
       => alive'[p] \subseteq Range(networkEntities[p])]_allVars
=============================================================================
