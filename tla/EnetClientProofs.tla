-------------------------- MODULE EnetClientProofs --------------------------
(***************************************************************************)
(* What TLAPS proves of EnetClient, for any number of packets.             *)
(***************************************************************************)
EXTENDS EnetClient, TLAPS

\* What the place of the thread says of the words it shares with the caller.
ThreadLife ==
  /\ net = "none" <=> caller \in {"new", "starting"}
  /\ hasThread => net # "none"
  /\ ~hasThread => net \in {"none", "done"}
  /\ caller \in {"destroying", "gone"} => ~hasThread
  /\ caller = "new" => connectionState = "NONE"
  /\ caller = "starting" => connectionState = "CONNECTING"
  /\ net = "done" => connectionState = "FAILED" /\ peer \in {"none", "gone"}
  /\ net \in {"none", "creating"} => peer = "none" /\ connectionState # "CONNECTED"
  /\ net = "creating" \/ peer = "connecting" => connectionState = "CONNECTING"
  /\ net = "sending" => ~disconnecting
  /\ net \in {"looping", "sending", "events"} /\ ~disconnecting
       => peer \in {"connecting", "connected"}
  /\ net = "leaving" => peer = "gone"

\* What the place of the caller says of the queues.
QueueLife ==
  /\ eventLock <=> caller = "copying"
  /\ caller = "copying" => eventQueueCopy = eventQueue
  /\ eventQueueCopy # <<>> => caller \in {"copying", "dispatching"}
  /\ ~hasThread /\ caller # "destroying" => packetQueue = <<>> /\ eventQueue = <<>>
  /\ ~helloSent => Len(packetQueue) <= MaxQueued

\* Nobody sends before the attempt to connect has ended.
SettledBeforeSending ==
  built \/ helloSent \/ packetQueue # <<>> =>
    net \notin {"none", "creating"} /\ peer # "connecting"

\* The events that have not been handled yet, in the order they will be.
Waiting == IF caller = "copying" THEN eventQueue ELSE eventQueueCopy \o eventQueue

\* The connect event is to come.
ToOpen == IF notified = "nothing" THEN 1 ELSE 0

\* The events to come continue what the session has been told: the connect event if it
\* has not been told of it, the packets from the next one on, the end at the end.
InOrder(w) ==
  /\ \A i \in 1 .. Len(w) :
       \/ w[i] = ConnectEvent /\ i = 1 /\ notified = "nothing"
       \/ /\ w[i] = ReceiveEvent(handled + i - ToOpen)
          /\ i > ToOpen /\ notified # "disconnected"
          /\ handled + i - ToOpen <= received
       \/ w[i] = DisconnectEvent /\ i = Len(w) /\ peer = "gone" /\ notified # "disconnected"
  /\ peer \in {"none", "connecting"} =>
       w = <<>> /\ notified = "nothing" /\ received = 0
  /\ peer = "connected" => Len(w) = received - handled + ToOpen
  /\ notified = "disconnected" => peer = "gone"
  /\ Len(w) <= received - handled + ToOpen + 1
  /\ Len(w) = received - handled + ToOpen + 1 => peer = "gone"

IInv == TypeOK /\ ThreadLife /\ QueueLife /\ SettledBeforeSending /\ InOrder(Waiting)

-----------------------------------------------------------------------------
(* What happens to the events that wait *)

\* What waits is a sequence of events.
LEMMA WaitingType == TypeOK => Waiting \in Seq(Event)
BY DEF TypeOK, QueueTypeOK, Waiting

\* An event that is pushed comes last.
LEMMA PushAppends ==
  ASSUME IInv, NEW e \in Event, PushEvent(e)
  PROVE  Waiting' = Append(Waiting, e)
<1>1. caller # "copying" /\ UNCHANGED <<caller, eventQueueCopy>>
  BY DEF PushEvent, IInv, QueueLife
<1>2. eventQueue \in Seq(Event) /\ eventQueueCopy \in Seq(Event)
  BY DEF IInv, TypeOK, QueueTypeOK
<1>3. eventQueue' = Append(eventQueue, e)
  BY DEF PushEvent
<1> QED  BY <1>1, <1>2, <1>3 DEF Waiting

\* The event that is handled is the first.
LEMMA HandlePops ==
  ASSUME IInv, NEW type, Handles(type)
  PROVE  /\ Waiting # <<>>
         /\ Waiting[1] = Head(eventQueueCopy) /\ Waiting[1].type = type
         /\ Waiting' = Tail(Waiting)
<1>1. /\ caller = "dispatching" /\ UNCHANGED <<caller, eventQueue>>
      /\ eventQueueCopy # <<>> /\ Head(eventQueueCopy).type = type
      /\ eventQueueCopy' = Tail(eventQueueCopy)
  BY DEF Handles
<1>2. eventQueue \in Seq(Event) /\ eventQueueCopy \in Seq(Event)
  BY DEF IInv, TypeOK, QueueTypeOK
<1>3. Waiting = eventQueueCopy \o eventQueue /\ Waiting' = Tail(eventQueueCopy) \o eventQueue
  BY <1>1 DEF Waiting
<1> QED  BY <1>1, <1>2, <1>3

\* Every other step of the two threads leaves the events that wait as they are.
LEMMA WaitingStays ==
  ASSUME IInv,
         \/ UNCHANGED <<eventQueue, eventQueueCopy>> /\ caller # "copying" /\ caller' # "copying"
         \/ CopyEvents \/ ClearEvents
  PROVE  Waiting' = Waiting
<1>1. eventQueue \in Seq(Event) /\ eventQueueCopy \in Seq(Event)
  BY DEF IInv, TypeOK, QueueTypeOK
<1>2. CASE CopyEvents
  <2>1. eventQueueCopy = <<>> /\ caller # "copying"
    BY <1>2 DEF CopyEvents, Thinks, IInv, QueueLife
  <2> QED  BY <1>1, <1>2, <2>1 DEF CopyEvents, Waiting
<1>3. CASE ClearEvents
  BY <1>1, <1>3 DEF ClearEvents, Waiting, IInv, QueueLife
<1> QED  BY <1>2, <1>3 DEF Waiting

-----------------------------------------------------------------------------
(* The steps *)

\* Every step is one of these.
LEMMA StepCases ==
  ASSUME [Next]_vars
  PROVE  \/ Connect \/ StartThread \/ Construct
         \/ FindNoEvents \/ CopyEvents \/ ClearEvents
         \/ OnConnected \/ OnDataReceived \/ OnDisconnected
         \/ FinishConsuming \/ CleanUp \/ SendPlayerData
         \/ HookSends \/ Destroy \/ Join \/ Forget \/ Renew
         \/ HostFails \/ CreateHost \/ CheckExit \/ GiveUp \/ SendQueuedPackets
         \/ PeerConnects \/ PeerSends \/ PeerDisconnects \/ NoMoreEvents \/ Leave
         \/ UNCHANGED vars
BY DEF Next, Constructor, Think, Disconnect, RunInThread

\* The invariant holds at first.
LEMMA InitInv == Init => IInv
<1> SUFFICES ASSUME Init PROVE IInv
  OBVIOUS
<1> USE BoundsAssumption DEF Init
<1>1. TypeOK
  <2>1. <<>> \in Seq({"HELLO", "DATA"}) /\ <<>> \in Seq(Event) /\ Len(<<>>) = 0
    OBVIOUS
  <2>2. QueueTypeOK
    BY <2>1 DEF QueueTypeOK
  <2>3. PlaceTypeOK /\ FlagTypeOK
    BY DEF PlaceTypeOK, FlagTypeOK
  <2>4. CountTypeOK
    BY DEF CountTypeOK
  <2> QED  BY <2>2, <2>3, <2>4 DEF TypeOK
<1>2. ThreadLife /\ QueueLife /\ SettledBeforeSending
  BY DEF ThreadLife, QueueLife, SettledBeforeSending
<1>3. Waiting = <<>>
  BY DEF Waiting
<1>4. InOrder(<<>>)
  BY DEF InOrder, ToOpen
<1> QED  BY <1>1, <1>2, <1>3, <1>4 DEF IInv

\* No step of caller or thread breaks what the place of the thread says.
LEMMA ThreadLifeStep ==
  ASSUME IInv, [Next]_vars
  PROVE  ThreadLife'
<1> USE DEF IInv, TypeOK, FlagTypeOK, ThreadLife, life, enet
<1>1. CASE Connect
  BY <1>1 DEF Connect
<1>2. CASE StartThread
  BY <1>2 DEF StartThread
<1>3. CASE Construct
  BY <1>3 DEF Construct
<1>4. CASE FindNoEvents
  BY <1>4 DEF FindNoEvents, Thinks
<1>5. CASE CopyEvents
  BY <1>5 DEF CopyEvents, Thinks
<1>6. CASE ClearEvents
  BY <1>6 DEF ClearEvents
<1>7. CASE OnConnected
  BY <1>7 DEF OnConnected, Handles, SendPacket
<1>8. CASE OnDataReceived
  BY <1>8 DEF OnDataReceived, Handles
<1>9. CASE OnDisconnected
  BY <1>9 DEF OnDisconnected, Handles
<1>10. CASE FinishConsuming
  BY <1>10 DEF FinishConsuming, AllHandled
<1>11. CASE CleanUp
  BY <1>11 DEF CleanUp, AllHandled, RequestExit
<1>12. CASE SendPlayerData
  BY <1>12 DEF SendPlayerData, SendPacket, Playing
<1>13. CASE HookSends
  BY <1>13 DEF HookSends, SendPacket
<1>14. CASE Destroy
  BY <1>14 DEF Destroy, RequestExit
<1>15. CASE Join
  BY <1>15 DEF Join
<1>16. CASE Forget
  BY <1>16 DEF Forget, DestroyQueues
<1>17. CASE Renew
  BY <1>17 DEF Renew
<1>18. CASE HostFails
  BY <1>18 DEF HostFails
<1>19. CASE CreateHost
  BY <1>19 DEF CreateHost
<1>20. CASE CheckExit
  BY <1>20 DEF CheckExit
<1>21. CASE GiveUp
  BY <1>21 DEF GiveUp
<1>22. CASE SendQueuedPackets
  BY <1>22 DEF SendQueuedPackets
<1>23. CASE PeerConnects
  BY <1>23 DEF PeerConnects, PushEvent
<1>24. CASE PeerSends
  BY <1>24 DEF PeerSends, PushEvent
<1>25. CASE PeerDisconnects
  BY <1>25 DEF PeerDisconnects, PushEvent
<1>26. CASE NoMoreEvents
  BY <1>26 DEF NoMoreEvents
<1>27. CASE Leave
  BY <1>27 DEF Leave
<1>28. CASE UNCHANGED vars
  BY <1>28 DEF vars
<1> QED
  BY <1>1, <1>2, <1>3, <1>4, <1>5, <1>6, <1>7, <1>8, <1>9, <1>10, <1>11, <1>12, <1>13,
     <1>14, <1>15, <1>16, <1>17, <1>18, <1>19, <1>20, <1>21, <1>22, <1>23, <1>24, <1>25,
     <1>26, <1>27, <1>28, StepCases

\* Before the attempt has ended nobody can send: the constructor has not returned, and a
\* connect event that is handled comes from a peer that is connected.
LEMMA SettledStep ==
  ASSUME IInv, [Next]_vars
  PROVE  SettledBeforeSending'
<1> USE DEF IInv, TypeOK, FlagTypeOK, QueueTypeOK, ThreadLife, SettledBeforeSending, QueueLife,
            life, enet, queues, session
<1>1. CASE \/ Connect \/ StartThread \/ Construct \/ FindNoEvents \/ CopyEvents
           \/ ClearEvents \/ OnDataReceived \/ OnDisconnected \/ FinishConsuming
           \/ CleanUp \/ SendPlayerData \/ HookSends \/ Destroy \/ Join \/ Forget
           \/ Renew \/ HostFails \/ CreateHost \/ CheckExit \/ GiveUp
           \/ SendQueuedPackets \/ PeerConnects \/ PeerSends \/ PeerDisconnects
           \/ NoMoreEvents \/ Leave \/ UNCHANGED vars
  BY <1>1 DEF Connect, StartThread, Construct, FindNoEvents, Thinks, CopyEvents,
              ClearEvents, OnDataReceived, Handles, OnDisconnected, FinishConsuming,
              AllHandled, CleanUp, RequestExit, SendPlayerData, SendPacket, Playing,
              HookSends, Destroy, Join, Forget, DestroyQueues, Renew, HostFails,
              CreateHost, CheckExit, GiveUp, SendQueuedPackets, PeerConnects,
              PushEvent, PeerSends, PeerDisconnects, NoMoreEvents, Leave, vars
<1>2. CASE OnConnected
  <2>1. Waiting # <<>>
    BY <1>2, HandlePops DEF OnConnected
  <2>2. peer \notin {"none", "connecting"}
    BY <2>1 DEF InOrder
  <2> QED  BY <1>2, <2>2 DEF OnConnected, Handles
<1> QED  BY <1>1, <1>2, StepCases

\* No step breaks what the place of the caller says of the queues.
LEMMA QueueLifeStep ==
  ASSUME IInv, [Next]_vars
  PROVE  QueueLife'
<1> USE BoundsAssumption
    DEF IInv, TypeOK, FlagTypeOK, QueueTypeOK, ThreadLife, QueueLife, life, queues, session
<1>1. CASE Connect
  BY <1>1 DEF Connect
<1>2. CASE StartThread
  BY <1>2 DEF StartThread
<1>3. CASE Construct
  BY <1>3 DEF Construct
<1>4. CASE FindNoEvents
  BY <1>4 DEF FindNoEvents, Thinks
<1>5. CASE CopyEvents
  BY <1>5 DEF CopyEvents, Thinks
<1>6. CASE ClearEvents
  BY <1>6 DEF ClearEvents
<1>7. CASE OnConnected
  BY <1>7 DEF OnConnected, Handles, SendPacket
<1>8. CASE OnDataReceived
  BY <1>8 DEF OnDataReceived, Handles
<1>9. CASE OnDisconnected
  BY <1>9 DEF OnDisconnected, Handles
<1>10. CASE FinishConsuming
  BY <1>10 DEF FinishConsuming, AllHandled
<1>11. CASE CleanUp
  BY <1>11 DEF CleanUp, AllHandled, RequestExit
<1>12. CASE SendPlayerData
  BY <1>12 DEF SendPlayerData, SendPacket, Playing
<1>13. CASE HookSends
  BY <1>13 DEF HookSends, SendPacket
<1>14. CASE Destroy
  BY <1>14 DEF Destroy, RequestExit
<1>15. CASE Join
  BY <1>15 DEF Join
<1>16. CASE Forget
  BY <1>16 DEF Forget, DestroyQueues
<1>17. CASE Renew
  BY <1>17 DEF Renew
<1>18. CASE HostFails
  BY <1>18 DEF HostFails
<1>19. CASE CreateHost
  BY <1>19 DEF CreateHost
<1>20. CASE CheckExit
  BY <1>20 DEF CheckExit
<1>21. CASE GiveUp
  BY <1>21 DEF GiveUp
<1>22. CASE SendQueuedPackets
  BY <1>22 DEF SendQueuedPackets
<1>23. CASE PeerConnects
  BY <1>23 DEF PeerConnects, PushEvent
<1>24. CASE PeerSends
  BY <1>24 DEF PeerSends, PushEvent
<1>25. CASE PeerDisconnects
  BY <1>25 DEF PeerDisconnects, PushEvent
<1>26. CASE NoMoreEvents
  BY <1>26 DEF NoMoreEvents
<1>27. CASE Leave
  BY <1>27 DEF Leave
<1>28. CASE UNCHANGED vars
  BY <1>28 DEF vars
<1> QED
  BY <1>1, <1>2, <1>3, <1>4, <1>5, <1>6, <1>7, <1>8, <1>9, <1>10, <1>11, <1>12, <1>13,
     <1>14, <1>15, <1>16, <1>17, <1>18, <1>19, <1>20, <1>21, <1>22, <1>23, <1>24, <1>25,
     <1>26, <1>27, <1>28, StepCases

\* A packet that is handled is the next one.
LEMMA FirstReceived ==
  ASSUME TypeOK, InOrder(Waiting), Waiting # <<>>, Waiting[1].type = "RECEIVE"
  PROVE  /\ Waiting[1] = ReceiveEvent(handled + 1) /\ handled + 1 <= received
         /\ notified = "connected"
<1>1. 1 \in 1 .. Len(Waiting)
  BY WaitingType
<1>2. Waiting[1] = ReceiveEvent(handled + 1 - ToOpen) /\ 1 > ToOpen
      /\ notified # "disconnected" /\ handled + 1 - ToOpen <= received
  BY <1>1 DEF InOrder, ConnectEvent, DisconnectEvent, ReceiveEvent
<1> QED  BY <1>2 DEF ToOpen, TypeOK, CountTypeOK, PlaceTypeOK

\* There is room for one more event as long as the end has not been pushed.
LEMMA RoomForEvent ==
  ASSUME IInv, peer # "gone", net = "events", ~eventLock
  PROVE  Len(eventQueue) <= MaxPackets + 1
<1>1. Waiting = eventQueueCopy \o eventQueue
  BY DEF IInv, QueueLife, Waiting
<1>2. eventQueue \in Seq(Event) /\ eventQueueCopy \in Seq(Event)
  BY DEF IInv, TypeOK, QueueTypeOK
<1>3. Len(Waiting) >= Len(eventQueue) /\ Len(Waiting) \in Nat /\ Len(eventQueue) \in Nat
  BY <1>1, <1>2
<1>4. Len(Waiting) <= received - handled + ToOpen
  BY <1>3 DEF IInv, InOrder, TypeOK, CountTypeOK, ToOpen
<1> QED  BY <1>3, <1>4, BoundsAssumption DEF IInv, TypeOK, CountTypeOK, ToOpen

\* What is sent is a packet, and there is room for one HELLO above the bound.
LEMMA SendPacketType ==
  ASSUME QueueTypeOK, NEW packet \in {"HELLO", "DATA"}, SendPacket(packet),
         packet = "HELLO" => Len(packetQueue) <= MaxQueued
  PROVE  packetQueue' \in Seq({"HELLO", "DATA"}) /\ Len(packetQueue') <= MaxQueued + 1
<1>1. Len(packetQueue) \in Nat /\ MaxQueued \in Nat
  BY BoundsAssumption DEF QueueTypeOK
<1>2. packetQueue' \in {packetQueue, Append(packetQueue, packet)}
  BY DEF SendPacket
<1>3. packetQueue' # packetQueue => Len(packetQueue) <= MaxQueued
  <2>1. packet = "DATA" \/ packet = "HELLO"
    OBVIOUS
  <2> QED  BY <1>1, <2>1 DEF SendPacket
<1>4. /\ Len(Append(packetQueue, packet)) = Len(packetQueue) + 1
      /\ Append(packetQueue, packet) \in Seq({"HELLO", "DATA"})
  BY DEF QueueTypeOK
<1>5. CASE packetQueue' = packetQueue
  BY <1>5 DEF QueueTypeOK
<1>6. CASE packetQueue' # packetQueue
  BY <1>1, <1>2, <1>3, <1>4, <1>6
<1> QED  BY <1>5, <1>6

\* The queues keep their types and bounds.
LEMMA QueueTypeStep ==
  ASSUME IInv, [Next]_vars
  PROVE  QueueTypeOK'
<1> USE BoundsAssumption DEF IInv, TypeOK, QueueTypeOK, QueueLife, queues, session
<1>1. CASE \/ Connect \/ StartThread \/ Construct \/ FindNoEvents \/ FinishConsuming
           \/ CleanUp \/ Destroy \/ Join \/ HostFails \/ CreateHost \/ CheckExit
           \/ GiveUp \/ NoMoreEvents \/ Leave \/ UNCHANGED vars
  <2>1. UNCHANGED queues
    BY <1>1 DEF Connect, StartThread, Construct, FindNoEvents, FinishConsuming, CleanUp,
                Destroy, RequestExit, Join, HostFails, CreateHost, CheckExit, GiveUp,
                NoMoreEvents, Leave, vars
  <2> QED  BY <2>1
<1>2. CASE \/ CopyEvents \/ ClearEvents \/ OnDataReceived \/ OnDisconnected \/ Forget
           \/ Renew \/ SendQueuedPackets
  <2>1. CASE CopyEvents
    BY <2>1 DEF CopyEvents
  <2>2. CASE ClearEvents
    BY <2>2 DEF ClearEvents
  <2>3. CASE OnDataReceived
    BY <2>3 DEF OnDataReceived, Handles
  <2>4. CASE OnDisconnected
    BY <2>4 DEF OnDisconnected, Handles
  <2>5. CASE Forget
    BY <2>5 DEF Forget, DestroyQueues
  <2>6. CASE Renew
    BY <2>6 DEF Renew
  <2>7. CASE SendQueuedPackets
    BY <2>7 DEF SendQueuedPackets
  <2> QED  BY <1>2, <2>1, <2>2, <2>3, <2>4, <2>5, <2>6, <2>7
<1>3. CASE OnConnected
  <2>1. Tail(eventQueueCopy) \in Seq(Event)
    BY <1>3 DEF OnConnected, Handles
  <2>2. packetQueue' \in Seq({"HELLO", "DATA"}) /\ Len(packetQueue') <= MaxQueued + 1
    BY <1>3, SendPacketType DEF OnConnected
  <2> QED  BY <1>3, <2>1, <2>2 DEF OnConnected, Handles
<1>4. CASE SendPlayerData
  <2>1. packetQueue' \in Seq({"HELLO", "DATA"}) /\ Len(packetQueue') <= MaxQueued + 1
    BY <1>4, SendPacketType DEF SendPlayerData
  <2> QED  BY <1>4, <2>1 DEF SendPlayerData
<1>5. CASE HookSends
  <2>1. packetQueue' \in Seq({"HELLO", "DATA"}) /\ Len(packetQueue') <= MaxQueued + 1
    BY <1>5, SendPacketType DEF HookSends
  <2> QED  BY <1>5, <2>1 DEF HookSends
<1>6. CASE PeerConnects
  <2>1. Len(eventQueue) <= MaxPackets + 1
    BY <1>6, RoomForEvent DEF PeerConnects, PushEvent
  <2>2. ConnectEvent \in Event
    BY <1>6 DEF PeerConnects, Event, TypeOK, CountTypeOK
  <2>3. Append(eventQueue, ConnectEvent) \in Seq(Event)
    BY <2>2
  <2> QED  BY <1>6, <2>1, <2>3 DEF PeerConnects, PushEvent
<1>7. CASE PeerSends
  <2>1. Len(eventQueue) <= MaxPackets + 1
    BY <1>7, RoomForEvent DEF PeerSends, PushEvent
  <2>2. ReceiveEvent(received') \in Event
    BY <1>7 DEF PeerSends, Event, TypeOK, CountTypeOK
  <2>3. Append(eventQueue, ReceiveEvent(received')) \in Seq(Event)
    BY <2>2
  <2> QED  BY <1>7, <2>1, <2>3 DEF PeerSends, PushEvent
<1>8. CASE PeerDisconnects
  <2>1. Len(eventQueue) <= MaxPackets + 1
    BY <1>8, RoomForEvent DEF PeerDisconnects, PushEvent
  <2>2. DisconnectEvent \in Event
    BY <1>8 DEF PeerDisconnects, Event, TypeOK, CountTypeOK
  <2>3. Append(eventQueue, DisconnectEvent) \in Seq(Event)
    BY <2>2
  <2> QED  BY <1>8, <2>1, <2>3 DEF PeerDisconnects, PushEvent
<1> QED  BY <1>1, <1>2, <1>3, <1>4, <1>5, <1>6, <1>7, <1>8, StepCases

\* Places and states keep their types.
LEMMA PlaceTypeStep ==
  ASSUME IInv, [Next]_vars
  PROVE  PlaceTypeOK'
<1> USE DEF IInv, TypeOK, PlaceTypeOK, life, queues, session, enet
<1>1. CASE \/ Connect \/ StartThread \/ Construct \/ FindNoEvents \/ CopyEvents
           \/ ClearEvents \/ OnConnected \/ OnDataReceived \/ OnDisconnected
           \/ FinishConsuming \/ CleanUp \/ SendPlayerData \/ HookSends \/ Destroy
           \/ Join \/ Forget \/ Renew \/ HostFails \/ CreateHost \/ CheckExit \/ GiveUp
           \/ SendQueuedPackets \/ PeerConnects \/ PeerSends \/ PeerDisconnects
           \/ NoMoreEvents \/ Leave \/ UNCHANGED vars
  BY <1>1 DEF Connect, StartThread, Construct, FindNoEvents, Thinks, CopyEvents,
              ClearEvents, OnConnected, Handles, SendPacket, OnDataReceived,
              OnDisconnected, FinishConsuming, AllHandled, CleanUp, RequestExit,
              SendPlayerData, Playing, HookSends, Destroy, Join, Forget,
              DestroyQueues, Renew, HostFails, CreateHost, CheckExit, GiveUp,
              SendQueuedPackets, PeerConnects, PushEvent, PeerSends, PeerDisconnects,
              NoMoreEvents, Leave, vars
<1> QED  BY <1>1, StepCases

\* Flags keep their types.
LEMMA FlagTypeStep ==
  ASSUME IInv, [Next]_vars
  PROVE  FlagTypeOK'
<1> USE DEF IInv, TypeOK, FlagTypeOK, life, queues, session, enet
<1>1. CASE Constructor \/ Destroy \/ Disconnect \/ Renew
  BY <1>1 DEF Constructor, Connect, StartThread, Construct, Destroy, RequestExit,
              Disconnect, Join, Forget, DestroyQueues, Renew
<1>2. CASE Think \/ HookSends
  BY <1>2 DEF Think, FindNoEvents, Thinks, CopyEvents, ClearEvents, OnConnected, Handles,
              SendPacket, OnDataReceived, OnDisconnected, FinishConsuming, AllHandled,
              CleanUp, RequestExit, SendPlayerData, Playing, HookSends
<1>3. CASE RunInThread
  BY <1>3 DEF RunInThread, HostFails, CreateHost, CheckExit, GiveUp, SendQueuedPackets,
              PeerConnects, PushEvent, PeerSends, PeerDisconnects, NoMoreEvents, Leave
<1>4. CASE UNCHANGED vars
  BY <1>4 DEF vars
<1> QED  BY <1>1, <1>2, <1>3, <1>4 DEF Next

\* No packet is handled before it is received.
LEMMA CountTypeStep ==
  ASSUME IInv, [Next]_vars
  PROVE  CountTypeOK'
<1> USE BoundsAssumption DEF IInv, TypeOK, CountTypeOK, session, enet
<1>1. CASE \/ Connect \/ StartThread \/ Construct \/ FindNoEvents \/ CopyEvents
           \/ ClearEvents \/ OnConnected \/ OnDisconnected \/ FinishConsuming
           \/ CleanUp \/ SendPlayerData \/ HookSends \/ Destroy \/ Join \/ Forget
           \/ Renew \/ HostFails \/ CreateHost \/ CheckExit \/ GiveUp
           \/ SendQueuedPackets \/ PeerConnects \/ PeerSends \/ PeerDisconnects
           \/ NoMoreEvents \/ Leave \/ UNCHANGED vars
  BY <1>1 DEF Connect, StartThread, Construct, FindNoEvents, Thinks, CopyEvents,
              ClearEvents, OnConnected, Handles, SendPacket, OnDisconnected,
              FinishConsuming, AllHandled, CleanUp, RequestExit, SendPlayerData,
              Playing, HookSends, Destroy, Join, Forget, DestroyQueues, Renew,
              HostFails, CreateHost, CheckExit, GiveUp, SendQueuedPackets,
              PeerConnects, PushEvent, PeerSends, PeerDisconnects, NoMoreEvents,
              Leave, vars
<1>2. CASE OnDataReceived
  <2>1. Waiting[1] = Head(eventQueueCopy) /\ Waiting[1].type = "RECEIVE" /\ Waiting # <<>>
    BY <1>2, HandlePops DEF OnDataReceived
  <2>2. Head(eventQueueCopy) = ReceiveEvent(handled + 1) /\ handled + 1 <= received
    BY <2>1, FirstReceived DEF IInv
  <2> QED  BY <1>2, <2>2 DEF OnDataReceived, Handles, ReceiveEvent
<1> QED  BY <1>1, <1>2, StepCases

\* The order holds on while no event comes or goes, whatever becomes of the peer.
LEMMA OrderKept ==
  ASSUME IInv, Waiting' = Waiting, UNCHANGED <<notified, handled, received>>,
         \/ peer' \in {peer, "gone"}
         \/ peer = "none" /\ peer' = "connecting"
         \/ peer = "connecting" /\ peer' = "reset"
         \/ peer = "connected" /\ peer' = "closing"
  PROVE  InOrder(Waiting)'
<1>1. Waiting \in Seq(Event)
  BY WaitingType DEF IInv
<1>2. InOrder(Waiting) /\ ToOpen' = ToOpen
  BY DEF IInv, ToOpen
<1>3. Len(Waiting) \in Nat /\ received \in Nat /\ handled \in Nat /\ handled <= received
      /\ ToOpen \in {0, 1}
  BY <1>1, BoundsAssumption DEF IInv, TypeOK, CountTypeOK, ToOpen
<1> HIDE DEF ToOpen, Waiting
<1> QED  BY <1>1, <1>2, <1>3 DEF InOrder, ToOpen, ReceiveEvent

\* No two kinds of events are taken for each other.
LEMMA EventsDiffer ==
  /\ ConnectEvent # DisconnectEvent
  /\ \A k : ReceiveEvent(k) # DisconnectEvent /\ ReceiveEvent(k) # ConnectEvent
BY DEF ConnectEvent, DisconnectEvent, ReceiveEvent

\* The order holds when the thread pushes what has come.
LEMMA OrderPushed ==
  ASSUME IInv, NEW e \in Event, Waiting' = Append(Waiting, e), UNCHANGED <<notified, handled>>,
         \/ /\ e = ConnectEvent /\ received' = received
            /\ peer = "connecting" /\ peer' = "connected"
         \/ /\ e = ReceiveEvent(received + 1) /\ received' = received + 1
            /\ peer = "connected" /\ peer' = peer
         \/ /\ e = DisconnectEvent /\ received' = received
            /\ peer \in {"connecting", "connected", "closing"} /\ peer' = "gone"
  PROVE  InOrder(Waiting)'
<1> DEFINE w == Waiting
           n == Len(w)
<1>1. w \in Seq(Event) /\ n \in Nat
  BY WaitingType DEF IInv
<1>2. InOrder(w) /\ ToOpen' = ToOpen
  BY DEF IInv, ToOpen
<1>3. received \in Nat /\ handled \in Nat /\ handled <= received /\ ToOpen \in {0, 1}
      /\ (ToOpen = 1 <=> notified = "nothing")
  BY BoundsAssumption DEF IInv, TypeOK, CountTypeOK, ToOpen
<1>4. /\ Len(Waiting') = n + 1 /\ Waiting'[n + 1] = e
      /\ \A i \in 1 .. n : Waiting'[i] = w[i]
  BY <1>1
<1>5. notified # "disconnected"
  BY <1>2 DEF InOrder
<1>6. n <= received - handled + ToOpen
  BY <1>1, <1>2, <1>3 DEF InOrder
<1> HIDE DEF w, n
<1>7. \A i \in 1 .. n : w[i] # DisconnectEvent \/ peer = "gone"
  BY <1>2, EventsDiffer DEF InOrder, n
<1>8. \A i \in 1 .. n : \/ w[i] = ConnectEvent /\ i = 1 /\ notified = "nothing"
                        \/ /\ w[i] = ReceiveEvent(handled + i - ToOpen)
                           /\ i > ToOpen /\ notified # "disconnected"
                           /\ handled + i - ToOpen <= received
  BY <1>2, <1>7 DEF InOrder, n
<1>9. \/ e = ConnectEvent /\ n = 0 /\ notified = "nothing" /\ received = 0
      \/ /\ e = ReceiveEvent(handled + n + 1 - ToOpen) /\ n + 1 > ToOpen
         /\ handled + n + 1 - ToOpen <= received'
      \/ e = DisconnectEvent
  <2>1. CASE peer = "connecting"
    BY <1>1, <1>2, <2>1 DEF InOrder, n
  <2>2. CASE peer = "connected"
    <3>1. n = received - handled + ToOpen
      BY <1>2, <2>2 DEF InOrder, n
    <3>2. handled + n + 1 - ToOpen = received + 1
      BY <1>1, <1>3, <3>1
    <3> QED  BY <1>1, <1>3, <2>2, <3>1, <3>2
  <2> QED  BY <2>1, <2>2
<1>10. \A i \in 1 .. n + 1 :
         \/ Waiting'[i] = ConnectEvent /\ i = 1 /\ notified = "nothing"
         \/ /\ Waiting'[i] = ReceiveEvent(handled + i - ToOpen)
            /\ i > ToOpen /\ notified # "disconnected"
            /\ handled + i - ToOpen <= received'
         \/ /\ Waiting'[i] = DisconnectEvent /\ i = n + 1 /\ peer' = "gone"
            /\ notified # "disconnected"
  <2> SUFFICES ASSUME NEW i \in 1 .. n + 1
               PROVE
         \/ Waiting'[i] = ConnectEvent /\ i = 1 /\ notified = "nothing"
         \/ /\ Waiting'[i] = ReceiveEvent(handled + i - ToOpen)
            /\ i > ToOpen /\ notified # "disconnected"
            /\ handled + i - ToOpen <= received'
         \/ /\ Waiting'[i] = DisconnectEvent /\ i = n + 1 /\ peer' = "gone"
            /\ notified # "disconnected"
    OBVIOUS
  <2>1. CASE i \in 1 .. n
    BY <1>1, <1>3, <1>4, <1>8, <2>1
  <2>2. CASE i = n + 1
    <3>1. handled + n + 1 - ToOpen = handled + i - ToOpen
      BY <1>1, <1>3, <2>2
    <3>2. Waiting'[i] = e
      BY <1>4, <2>2
    <3>3. CASE e = ConnectEvent /\ n = 0 /\ notified = "nothing"
      BY <2>2, <3>2, <3>3
    <3>4. CASE /\ e = ReceiveEvent(handled + n + 1 - ToOpen) /\ n + 1 > ToOpen
               /\ handled + n + 1 - ToOpen <= received'
      BY <1>5, <2>2, <3>1, <3>2, <3>4
    <3>5. CASE e = DisconnectEvent
      BY <1>5, <2>2, <3>2, <3>5, EventsDiffer
    <3> QED  BY <1>9, <3>3, <3>4, <3>5
  <2>3. i \in 1 .. n \/ i = n + 1
    BY <1>1
  <2> QED  BY <2>1, <2>2, <2>3
<1>11. /\ peer' \notin {"none", "connecting"}
       /\ peer' = "connected" => n + 1 = received' - handled + ToOpen
       /\ n + 1 <= received' - handled + ToOpen + 1
       /\ n + 1 = received' - handled + ToOpen + 1 => peer' = "gone"
  <2>1. CASE peer = "connecting"
    <3>1. n = 0 /\ notified = "nothing" /\ received = 0 /\ handled = 0 /\ ToOpen = 1
      BY <1>1, <1>2, <1>3, <2>1 DEF InOrder, n
    <3> QED  BY <2>1, <3>1
  <2>2. CASE peer = "connected"
    <3>1. n = received - handled + ToOpen
      BY <1>2, <2>2 DEF InOrder, n
    <3> QED  BY <1>1, <1>3, <2>2, <3>1
  <2>3. CASE peer = "closing"
    BY <1>1, <1>3, <1>6, <2>3
  <2> QED  BY <2>1, <2>2, <2>3
<1> QED  BY <1>2, <1>4, <1>5, <1>10, <1>11 DEF InOrder

\* The type of an event tells what it is.
LEMMA EventTypes ==
  /\ ConnectEvent.type = "CONNECT" /\ DisconnectEvent.type = "DISCONNECT"
  /\ \A k : ReceiveEvent(k).type = "RECEIVE"
BY DEF ConnectEvent, DisconnectEvent, ReceiveEvent

\* The connect event is handled before anything else, and the end is the last.
LEMMA FirstConnect ==
  ASSUME TypeOK, InOrder(Waiting), Waiting # <<>>, Waiting[1].type = "CONNECT"
  PROVE  notified = "nothing"
<1>1. 1 \in 1 .. Len(Waiting)
  BY WaitingType
<1>2. notified = "nothing" \/ Waiting[1].type # "CONNECT"
  BY <1>1, EventTypes DEF InOrder
<1> QED  BY <1>2

LEMMA FirstDisconnect ==
  ASSUME TypeOK, InOrder(Waiting), Waiting # <<>>, Waiting[1].type = "DISCONNECT"
  PROVE  Len(Waiting) = 1 /\ peer = "gone" /\ notified # "disconnected"
<1>1. 1 \in 1 .. Len(Waiting)
  BY WaitingType
<1>2. \/ Len(Waiting) = 1 /\ peer = "gone" /\ notified # "disconnected"
      \/ Waiting[1].type # "DISCONNECT"
  BY <1>1, EventTypes DEF InOrder
<1> QED  BY <1>2

\* The order holds when nothing is to come.
LEMMA OrderEmpty ==
  ASSUME Waiting' = <<>>, peer' # "connected",
         received' \in Nat, handled' \in 0 .. received',
         peer' \in {"none", "connecting"} => notified' = "nothing" /\ received' = 0,
         notified' = "disconnected" => peer' = "gone"
  PROVE  InOrder(Waiting)'
<1>1. ToOpen' \in Nat
  BY DEF ToOpen
<1>2. Len(Waiting') = 0
  OBVIOUS
<1>3. \A r \in Nat : \A h \in 0 .. r : \A t \in Nat :
        0 <= r - h + t + 1 /\ 0 # r - h + t + 1
  OBVIOUS
<1>4. 0 <= received' - handled' + ToOpen' + 1 /\ 0 # received' - handled' + ToOpen' + 1
  BY <1>1, <1>3
<1> QED  BY <1>2, <1>4 DEF InOrder

\* The order holds when the caller handles the event that has waited longest.
LEMMA OrderPopped ==
  ASSUME IInv, Waiting # <<>>, Waiting' = Tail(Waiting), UNCHANGED <<peer, received>>,
         \/ /\ Waiting[1].type = "CONNECT"
            /\ notified' = "connected" /\ handled' = handled
         \/ /\ Waiting[1].type = "RECEIVE"
            /\ notified' = notified /\ handled' = Waiting[1].packet
         \/ /\ Waiting[1].type = "DISCONNECT"
            /\ notified' = "disconnected" /\ handled' = handled
  PROVE  InOrder(Waiting)'
<1> DEFINE w == Waiting
           n == Len(w)
<1>1. w \in Seq(Event) /\ n \in Nat \ {0}
  BY WaitingType DEF IInv
<1>2. InOrder(w) /\ peer \notin {"none", "connecting"}
  BY DEF IInv, InOrder
<1>3. received \in Nat /\ handled \in Nat /\ handled <= received
  BY BoundsAssumption DEF IInv, TypeOK, CountTypeOK
<1>4. /\ Len(Waiting') = n - 1
      /\ \A i \in 1 .. n - 1 : Waiting'[i] = w[i + 1]
  BY <1>1
<1>5. CASE Waiting[1].type = "DISCONNECT"
  <2>1. n = 1 /\ peer = "gone"
    BY <1>5, FirstDisconnect DEF IInv
  <2>2. notified' = "disconnected" /\ handled' = handled
    BY <1>5
  <2>3. Waiting' = <<>>
    BY <1>1, <2>1
  <2>4. received' \in Nat /\ handled' \in 0 .. received'
    BY <1>3, <2>2
  <2> QED  BY <2>1, <2>2, <2>3, <2>4, OrderEmpty
<1>6. CASE Waiting[1].type # "DISCONNECT"
  <2>1. /\ handled' = handled - ToOpen + 1
        /\ notified' = "connected" /\ notified # "disconnected"
        /\ ToOpen' = 0 /\ ToOpen \in Nat
    <3>1. CASE Waiting[1].type = "CONNECT"
      BY <1>3, <3>1, FirstConnect DEF IInv, ToOpen
    <3>2. CASE Waiting[1].type = "RECEIVE"
      <4>1. handled' = handled + 1 /\ notified = "connected" /\ notified' = notified
        BY <3>2, FirstReceived DEF IInv, ReceiveEvent
      <4> QED  BY <1>3, <4>1 DEF ToOpen
    <3> QED  BY <1>6, <3>1, <3>2
  <2> HIDE DEF w, n
  <2>2. \A i \in 1 .. n - 1 :
          \/ Waiting'[i] = ReceiveEvent(handled' + i - ToOpen') /\ i > ToOpen'
             /\ handled' + i - ToOpen' <= received'
          \/ Waiting'[i] = DisconnectEvent /\ i = n - 1 /\ peer' = "gone"
    <3> SUFFICES ASSUME NEW i \in 1 .. n - 1
                 PROVE \/ Waiting'[i] = ReceiveEvent(handled' + i - ToOpen') /\ i > ToOpen'
                          /\ handled' + i - ToOpen' <= received'
                       \/ Waiting'[i] = DisconnectEvent /\ i = n - 1 /\ peer' = "gone"
      OBVIOUS
    <3>1. i + 1 \in 1 .. n /\ i + 1 # 1
      BY <1>1
    <3>2. \/ /\ w[i + 1] = ReceiveEvent(handled + (i + 1) - ToOpen)
             /\ handled + (i + 1) - ToOpen <= received
          \/ w[i + 1] = DisconnectEvent /\ i + 1 = n /\ peer = "gone"
      BY <1>2, <3>1 DEF InOrder, n
    <3>3. handled + (i + 1) - ToOpen = handled' + i - ToOpen'
      BY <1>1, <1>3, <2>1
    <3>4. i > ToOpen' /\ (i + 1 = n => i = n - 1)
      BY <1>1, <2>1
    <3> QED  BY <1>4, <3>2, <3>3, <3>4
  <2>3. /\ n <= received - handled + ToOpen + 1
        /\ n = received - handled + ToOpen + 1 => peer = "gone"
        /\ peer = "connected" => n = received - handled + ToOpen
    BY <1>2 DEF InOrder, n
  <2>4. /\ n - 1 <= received' - handled' + ToOpen' + 1
        /\ n - 1 = received' - handled' + ToOpen' + 1 => peer' = "gone"
        /\ peer' = "connected" => n - 1 = received' - handled' + ToOpen'
    BY <1>1, <1>3, <2>1, <2>3
  <2> QED  BY <1>2, <1>4, <2>1, <2>2, <2>4 DEF InOrder
<1> QED  BY <1>5, <1>6

\* Every step keeps the order of events: it pushes one, handles one, or neither.
LEMMA OrderStep ==
  ASSUME IInv, [Next]_vars
  PROVE  InOrder(Waiting)'
<1> USE DEF life, queues, session, enet
<1>1. CASE \/ Connect \/ StartThread \/ Construct \/ FindNoEvents \/ FinishConsuming
           \/ CleanUp \/ SendPlayerData \/ HookSends \/ Destroy \/ Join
           \/ HostFails \/ CreateHost \/ CheckExit \/ GiveUp \/ SendQueuedPackets
           \/ NoMoreEvents \/ Leave \/ UNCHANGED vars
  <2>1. UNCHANGED <<eventQueue, eventQueueCopy, notified, handled, received>>
    BY <1>1 DEF Connect, StartThread, Construct, FindNoEvents, FinishConsuming, CleanUp,
                RequestExit, SendPlayerData, HookSends, Destroy, Join, HostFails,
                CreateHost, CheckExit, GiveUp, SendQueuedPackets, NoMoreEvents, Leave, vars
  <2>2. caller' # caller => caller # "copying" /\ caller' # "copying"
    BY <1>1 DEF Connect, StartThread, Construct, FindNoEvents, Thinks, FinishConsuming,
                AllHandled, CleanUp, RequestExit, SendPlayerData, HookSends, Destroy, Join,
                HostFails, CreateHost, CheckExit, GiveUp, SendQueuedPackets, NoMoreEvents,
                Leave, vars
  <2>3. \/ peer' \in {peer, "gone"}
        \/ peer = "none" /\ peer' = "connecting"
        \/ peer = "connecting" /\ peer' = "reset"
        \/ peer = "connected" /\ peer' = "closing"
    BY <1>1 DEF Connect, StartThread, Construct, FindNoEvents, FinishConsuming, CleanUp,
                RequestExit, SendPlayerData, HookSends, Destroy, Join, HostFails,
                CreateHost, CheckExit, GiveUp, SendQueuedPackets, NoMoreEvents, Leave, vars,
                IInv, ThreadLife
  <2>4. Waiting' = Waiting
    BY <2>1, <2>2 DEF Waiting
  <2> QED  BY <2>1, <2>3, <2>4, OrderKept
<1>2. CASE CopyEvents \/ ClearEvents
  <2>1. Waiting' = Waiting
    BY <1>2, WaitingStays
  <2>2. UNCHANGED <<notified, handled, received, peer>>
    BY <1>2 DEF CopyEvents, ClearEvents
  <2> QED  BY <2>1, <2>2, OrderKept
<1>3. CASE OnConnected \/ OnDataReceived \/ OnDisconnected
  <2>1. /\ Waiting # <<>> /\ Waiting' = Tail(Waiting)
        /\ Waiting[1] = Head(eventQueueCopy)
        /\ OnConnected => Waiting[1].type = "CONNECT"
        /\ OnDataReceived => Waiting[1].type = "RECEIVE"
        /\ OnDisconnected => Waiting[1].type = "DISCONNECT"
    BY <1>3, HandlePops DEF OnConnected, OnDataReceived, OnDisconnected
  <2>2. UNCHANGED <<peer, received>>
    BY <1>3 DEF OnConnected, OnDataReceived, OnDisconnected, Handles
  <2>3. \/ Waiting[1].type = "CONNECT" /\ notified' = "connected" /\ handled' = handled
        \/ Waiting[1].type = "RECEIVE" /\ notified' = notified /\ handled' = Waiting[1].packet
        \/ Waiting[1].type = "DISCONNECT" /\ notified' = "disconnected" /\ handled' = handled
    BY <1>3, <2>1 DEF OnConnected, OnDataReceived, OnDisconnected
  <2> QED  BY <2>1, <2>2, <2>3, OrderPopped
<1>4. CASE PeerConnects
  <2>1. ConnectEvent \in Event /\ PushEvent(ConnectEvent)
    BY <1>4 DEF PeerConnects, Event
  <2>2. Waiting' = Append(Waiting, ConnectEvent)
    BY <2>1, PushAppends
  <2> QED  BY <1>4, <2>1, <2>2, OrderPushed DEF PeerConnects, PushEvent
<1>5. CASE PeerSends
  <2>1. received' = received + 1 /\ peer = "connected" /\ peer' = peer
        /\ UNCHANGED <<notified, handled>>
    BY <1>5 DEF PeerSends, PushEvent
  <2>2. ReceiveEvent(received + 1) \in Event /\ PushEvent(ReceiveEvent(received + 1))
    BY <1>5, <2>1, BoundsAssumption DEF PeerSends, Event, IInv, TypeOK, CountTypeOK
  <2>3. Waiting' = Append(Waiting, ReceiveEvent(received + 1))
    BY <2>2, PushAppends
  <2> QED  BY <2>1, <2>2, <2>3, OrderPushed
<1>6. CASE PeerDisconnects
  <2>1. DisconnectEvent \in Event /\ PushEvent(DisconnectEvent)
    BY <1>6 DEF PeerDisconnects, Event
  <2>2. Waiting' = Append(Waiting, DisconnectEvent)
    BY <2>1, PushAppends
  <2> QED  BY <1>6, <2>1, <2>2, OrderPushed DEF PeerDisconnects, PushEvent
<1>7. CASE Forget \/ Renew
  <2>1. TypeOK'
    BY PlaceTypeStep, FlagTypeStep, QueueTypeStep, CountTypeStep DEF TypeOK
  <2>2. CASE Forget
    <3>1. Waiting' = <<>>
      BY <2>2 DEF Forget, DestroyQueues, Waiting, IInv, QueueLife
    <3>2. peer \in {"none", "gone"}
      BY <2>2 DEF Forget, IInv, ThreadLife
    <3>3. InOrder(Waiting)
      BY DEF IInv
    <3>4. received' \in Nat /\ handled' \in 0 .. received'
      BY <2>1, BoundsAssumption DEF TypeOK, CountTypeOK
    <3>5. /\ peer' \in {"none", "connecting"} => notified' = "nothing" /\ received' = 0
          /\ notified' = "disconnected" => peer' = "gone"
      BY <2>2, <3>3 DEF Forget, InOrder
    <3>6. peer' # "connected"
      BY <2>2, <3>2 DEF Forget
    <3> QED  BY <3>1, <3>4, <3>5, <3>6, OrderEmpty
  <2>3. CASE Renew
    BY <2>1, <2>3, OrderEmpty DEF Renew, Waiting
  <2> QED  BY <1>7, <2>2, <2>3
<1> QED  BY <1>1, <1>2, <1>3, <1>4, <1>5, <1>6, <1>7, StepCases

-----------------------------------------------------------------------------
\* The invariant holds in every state, for any number of packets.
THEOREM Inductive == Spec => []IInv
<1>1. IInv /\ [Next]_vars => IInv'
  BY ThreadLifeStep, QueueLifeStep, SettledStep, OrderStep, PlaceTypeStep, FlagTypeStep,
     QueueTypeStep, CountTypeStep DEF IInv, TypeOK
<1> QED  BY <1>1, InitInv, PTL DEF Spec

\* Every variable has its type: the two queues keep within their bounds, and no packet
\* is handled that the peer has not received.
THEOREM TypeCorrect == Spec => []TypeOK
BY Inductive, PTL DEF IInv

\* Wherever the two threads were when disconnect() began, the object that is destroyed
\* has joined its thread and holds neither a packet nor an event; _connection_state never
\* shows an attempt or a connection that has no thread; and no packet gets to the thread
\* before the peer is connected.
THEOREM ClientIsSoundAlways == Spec => []ClientIsSound
<1>1. IInv => NothingIsLeaked
  BY DEF IInv, ThreadLife, QueueLife, NothingIsLeaked
<1>2. IInv => StateHasThread
  BY DEF IInv, TypeOK, PlaceTypeOK, ThreadLife, StateHasThread
<1>3. IInv => NothingIsSentTooEarly
  BY DEF IInv, ThreadLife, SettledBeforeSending, NothingIsSentTooEarly
<1> QED  BY <1>1, <1>2, <1>3, Inductive, PTL DEF ClientIsSound

\* The client is a connection: what the session is told of is the connection once, each
\* packet once and in order, and the end once, whatever the two threads do.
THEOREM ClientIsAConnection == Spec => IsAConnection
<1>1. Init => C!Init
  BY DEF Init, C!Init
<1>2. IInv /\ [Next]_vars => [C!Next]_(C!vars)
  <2> SUFFICES ASSUME IInv, [Next]_vars
               PROVE  [C!Next]_(C!vars)
    OBVIOUS
  <2> USE DEF life, queues, session, enet, C!Next, C!vars
  <2>1. CASE OnConnected
    <3>1. Waiting # <<>> /\ Waiting[1].type = "CONNECT"
      BY <2>1, HandlePops DEF OnConnected
    <3>2. notified = "nothing"
      BY <3>1, FirstConnect DEF IInv
    <3> QED  BY <2>1, <3>2 DEF OnConnected, C!Opens
  <2>2. CASE OnDataReceived
    <3>1. /\ Waiting # <<>> /\ Waiting[1].type = "RECEIVE"
          /\ handled' = Waiting[1].packet /\ notified' = notified
      BY <2>2, HandlePops DEF OnDataReceived
    <3>2. handled' = handled + 1 /\ handled + 1 <= received /\ notified = "connected"
      BY <3>1, FirstReceived DEF IInv, ReceiveEvent
    <3>3. handled < MaxPackets
      BY <3>2, BoundsAssumption DEF IInv, TypeOK, CountTypeOK
    <3> QED  BY <3>1, <3>2, <3>3 DEF C!Receives
  <2>3. CASE OnDisconnected
    <3>1. Waiting # <<>> /\ Waiting[1].type = "DISCONNECT"
      BY <2>3, HandlePops DEF OnDisconnected
    <3>2. notified # "disconnected"
      BY <3>1, FirstDisconnect DEF IInv
    <3> QED  BY <2>3, <3>2 DEF OnDisconnected, C!Ends
  <2>4. CASE Renew
    BY <2>4 DEF Renew, C!Restarts
  <2>5. CASE ~(OnConnected \/ OnDataReceived \/ OnDisconnected \/ Renew)
    <3>1. UNCHANGED <<notified, handled>>
      BY <2>5, StepCases
         DEF Connect, StartThread, Construct, FindNoEvents, CopyEvents, ClearEvents,
             FinishConsuming, CleanUp, RequestExit, SendPlayerData, HookSends, Destroy, Join,
             Forget, HostFails, CreateHost, CheckExit, GiveUp, SendQueuedPackets,
             PeerConnects, PeerSends, PeerDisconnects, PushEvent, NoMoreEvents, Leave, vars
    <3> QED  BY <3>1
  <2> QED  BY <2>1, <2>2, <2>3, <2>4, <2>5
<1> QED  BY <1>1, <1>2, Inductive, PTL DEF Spec, IsAConnection, C!Spec
=============================================================================
