----------------------------- MODULE EnetClient -----------------------------
(***************************************************************************)
(* enetpp::client under one NierClient: the thread that owns the ENet host *)
(* (net), and the thread of the game that creates the client, calls its    *)
(* think() and destroys it (caller).  They share two queues, one of        *)
(* packets to be sent and one of events to be handled, each with a mutex,  *)
(* and two words that are read and written without one: _connection_state  *)
(* and _should_exit_thread.                                                *)
(*                                                                         *)
(* NierClient's own mutex makes the calls of think() and of the two ends   *)
(* of the client's life those of one caller.  A critical section is one    *)
(* step, but for the one that copies and clears the event queue: two.      *)
(***************************************************************************)
EXTENDS Naturals, Sequences, SequencesExt

CONSTANTS MaxPackets,  \* bound on the packets the server sends in one connection
          MaxQueued    \* _packet_queue keeps no more player data than this

ASSUME BoundsAssumption == MaxPackets \in Nat /\ MaxQueued \in Nat \ {0}

VARIABLES
  caller,           \* where the caller is
  built,            \* NierClient's constructor has returned
  ending,           \* NierClient's destructor has been called
  hasThread,        \* _thread is not null
  shouldExit,       \* _should_exit_thread
  connectionState,  \* _connection_state
  packetQueue,      \* _packet_queue
  eventQueue,       \* _event_queue
  eventQueueCopy,   \* _event_queue_copy
  eventLock,        \* the caller holds _event_queue_mutex between two steps
  isDisconnected,   \* is_disconnected of consume_events
  notified,         \* the last of on_connected and on_disconnected to be called
  helloSent,        \* m_hello_sent
  handled,          \* number of the last packet given to on_data_received
  net,              \* where run_in_thread is
  disconnecting,    \* is_disconnecting of run_in_thread
  peer,             \* the peer of run_in_thread, as ENet sees it
  received          \* number of packets ENet has received on it

queues == <<packetQueue, eventQueue, eventQueueCopy, eventLock>>
session == <<isDisconnected, notified, helloSent, handled>>
life == <<built, ending, hasThread, shouldExit>>
enet == <<disconnecting, peer, received>>
vars == <<caller, life, connectionState, queues, session, net, enet>>

ConnectEvent == [type |-> "CONNECT", packet |-> 0]
DisconnectEvent == [type |-> "DISCONNECT", packet |-> 0]
ReceiveEvent(n) == [type |-> "RECEIVE", packet |-> n]
Event == {ConnectEvent, DisconnectEvent} \cup {ReceiveEvent(n) : n \in 1 .. MaxPackets}

PlaceTypeOK ==
  /\ caller \in {"new", "starting", "idle", "copying", "dispatching", "joining",
                 "destroying", "sending", "gone"}
  /\ net \in {"none", "creating", "looping", "sending", "events", "leaving", "done"}
  /\ connectionState \in {"NONE", "CONNECTING", "FAILED", "CONNECTED"}
  /\ notified \in {"nothing", "connected", "disconnected"}
  /\ peer \in {"none", "connecting", "connected", "closing", "reset", "gone"}

FlagTypeOK ==
  /\ built \in BOOLEAN /\ ending \in BOOLEAN
  /\ hasThread \in BOOLEAN /\ shouldExit \in BOOLEAN
  /\ eventLock \in BOOLEAN /\ isDisconnected \in BOOLEAN
  /\ helloSent \in BOOLEAN /\ disconnecting \in BOOLEAN

QueueTypeOK ==
  /\ packetQueue \in Seq({"HELLO", "DATA"})
  /\ eventQueue \in Seq(Event)
  /\ eventQueueCopy \in Seq(Event)
  /\ Len(packetQueue) <= MaxQueued + 1
  /\ Len(eventQueue) <= MaxPackets + 2

CountTypeOK ==
  /\ received \in 0 .. MaxPackets
  /\ handled \in 0 .. received

TypeOK == PlaceTypeOK /\ FlagTypeOK /\ QueueTypeOK /\ CountTypeOK

Init ==
  /\ caller = "new"
  /\ built = FALSE /\ ending = FALSE
  /\ hasThread = FALSE /\ shouldExit = FALSE
  /\ connectionState = "NONE"
  /\ packetQueue = <<>> /\ eventQueue = <<>> /\ eventQueueCopy = <<>>
  /\ eventLock = FALSE
  /\ isDisconnected = FALSE
  /\ notified = "nothing"
  /\ helloSent = FALSE
  /\ handled = 0
  /\ net = "none"
  /\ disconnecting = FALSE /\ peer = "none" /\ received = 0

-----------------------------------------------------------------------------
(* The caller: NierClient's constructor *)

Connect == /\ caller = "new"
           /\ connectionState' = "CONNECTING"
           /\ shouldExit' = FALSE
           /\ caller' = "starting"
           /\ UNCHANGED <<built, ending, hasThread, queues, session, net, enet>>

StartThread == /\ caller = "starting"
               /\ hasThread' = TRUE
               /\ net' = "creating"
               /\ caller' = "idle"
               /\ UNCHANGED <<built, ending, shouldExit, connectionState, queues,
                              session, enet>>

\* The constructor thinks for as long as it finds the attempt under way.
Construct == /\ caller = "idle" /\ ~built
             /\ connectionState # "CONNECTING"
             /\ built' = TRUE
             /\ UNCHANGED <<caller, ending, hasThread, shouldExit, connectionState,
                            queues, session, net, enet>>

-----------------------------------------------------------------------------
(* The caller: think() *)

Thinks == caller = "idle" /\ (built \/ connectionState = "CONNECTING")

\* send_packet; a queue full of data stands for one that is longer still.
SendPacket(packet) ==
  packetQueue' = IF hasThread /\ (packet = "DATA" => Len(packetQueue) < MaxQueued)
                 THEN Append(packetQueue, packet)
                 ELSE packetQueue

\* The queue is tested without the mutex, so the test may miss an event.
FindNoEvents == /\ Thinks
                /\ caller' = "sending"
                /\ UNCHANGED <<life, connectionState, queues, session, net, enet>>

\* Mutant: the queue is copied and cleared without the mutex.
CopyEvents_Unlocked ==
  /\ Thinks
  /\ eventQueue # <<>>
  /\ eventQueueCopy' = eventQueue
  /\ isDisconnected' = FALSE
  /\ caller' = "copying"
  /\ UNCHANGED <<life, connectionState, packetQueue, eventQueue, eventLock, notified,
                 helloSent, handled, net, enet>>

CopyEvents ==
  /\ Thinks
  /\ eventQueue # <<>>
  /\ eventLock' = TRUE
  /\ eventQueueCopy' = eventQueue
  /\ isDisconnected' = FALSE
  /\ caller' = "copying"
  /\ UNCHANGED <<life, connectionState, packetQueue, eventQueue, notified, helloSent,
                 handled, net, enet>>

ClearEvents ==
  /\ caller = "copying"
  /\ eventQueue' = <<>>
  /\ eventLock' = FALSE
  /\ caller' = "dispatching"
  /\ UNCHANGED <<life, connectionState, packetQueue, eventQueueCopy, session, net, enet>>

\* The event at the head of the copy is of this type, and is popped.
Handles(type) == /\ caller = "dispatching"
                 /\ eventQueueCopy # <<>>
                 /\ Head(eventQueueCopy).type = type
                 /\ eventQueueCopy' = Tail(eventQueueCopy)
                 /\ UNCHANGED <<caller, life, connectionState, eventQueue, eventLock,
                                net, enet>>

\* Without a possessed entity there is no HELLO, and the client is to be destroyed.
OnConnected == /\ Handles("CONNECT")
               /\ notified' = "connected"
               /\ \/ ~helloSent /\ helloSent' = TRUE /\ SendPacket("HELLO")
                  \/ UNCHANGED <<helloSent, packetQueue>>
               /\ UNCHANGED <<isDisconnected, handled>>

OnDataReceived == /\ Handles("RECEIVE")
                  /\ handled' = Head(eventQueueCopy).packet
                  /\ UNCHANGED <<packetQueue, isDisconnected, notified, helloSent>>

OnDisconnected == /\ Handles("DISCONNECT")
                  /\ notified' = "disconnected"
                  /\ isDisconnected' = TRUE
                  /\ UNCHANGED <<packetQueue, helloSent, handled>>

AllHandled == caller = "dispatching" /\ eventQueueCopy = <<>>

FinishConsuming == /\ AllHandled /\ ~isDisconnected
                   /\ caller' = "sending"
                   /\ UNCHANGED <<life, connectionState, queues, session, net, enet>>

\* HELLO was sent, and WELCOME and the player's own CREATE_PLAYER, the first two
\* packets of a server, have been handled.
Playing == helloSent /\ handled >= 2

\* The rest of think() sends whether or not there is a connection any more.
SendPlayerData == /\ caller = "sending"
                  /\ IF Playing THEN SendPacket("DATA") ELSE UNCHANGED packetQueue
                  /\ caller' = "idle"
                  /\ UNCHANGED <<life, connectionState, eventQueue, eventQueueCopy,
                                 eventLock, session, net, enet>>

\* The hooks send between two frames, as soon as there is a client.
HookSends == /\ caller = "idle" /\ built
             /\ SendPacket("DATA")
             /\ UNCHANGED <<caller, life, connectionState, eventQueue, eventQueueCopy,
                            eventLock, session, net, enet>>

-----------------------------------------------------------------------------
(* The caller: disconnect() *)

RequestExit == /\ shouldExit' = (hasThread \/ shouldExit)
               /\ caller' = "joining"
               /\ UNCHANGED <<built, hasThread, connectionState, queues, session,
                              net, enet>>

\* consume_events has handled a disconnect event.
CleanUp == AllHandled /\ isDisconnected /\ RequestExit /\ UNCHANGED ending

\* The player, a loading screen or a failed attempt ends the client.
Destroy == caller = "idle" /\ built /\ RequestExit /\ ending' = TRUE

Join == /\ caller = "joining"
        /\ hasThread => net = "done"
        /\ hasThread' = FALSE
        /\ caller' = "destroying"
        /\ UNCHANGED <<built, ending, shouldExit, connectionState, queues, session,
                       net, enet>>

\* Mutant: events that nobody will handle any more are left in the queue.
DestroyQueues_Packets == /\ packetQueue' = <<>>
                         /\ UNCHANGED eventQueue

DestroyQueues == /\ packetQueue' = <<>>
                 /\ eventQueue' = <<>>

Forget == /\ caller = "destroying"
          /\ ~eventLock
          /\ DestroyQueues
          /\ caller' = IF ending THEN "gone" ELSE "sending"
          /\ UNCHANGED <<life, connectionState, eventQueueCopy, eventLock, session,
                         net, enet>>

\* The next client is another object.
Renew == /\ caller = "gone"
         /\ caller' = "new"
         /\ built' = FALSE /\ ending' = FALSE
         /\ hasThread' = FALSE /\ shouldExit' = FALSE
         /\ connectionState' = "NONE"
         /\ packetQueue' = <<>> /\ eventQueue' = <<>> /\ eventQueueCopy' = <<>>
         /\ eventLock' = FALSE
         /\ isDisconnected' = FALSE /\ notified' = "nothing"
         /\ helloSent' = FALSE /\ handled' = 0
         /\ net' = "none"
         /\ disconnecting' = FALSE /\ peer' = "none" /\ received' = 0

-----------------------------------------------------------------------------
(* The thread *)

\* Mutant: a failed enet_host_create leaves the state as it was.
HostFails_Silent == /\ net = "creating"
                    /\ net' = "done"
                    /\ UNCHANGED <<caller, life, connectionState, queues, session, enet>>

\* enet_host_create or enet_host_connect fails.
HostFails == /\ net = "creating"
             /\ connectionState' = "FAILED"
             /\ net' = "done"
             /\ UNCHANGED <<caller, life, queues, session, enet>>

CreateHost == /\ net = "creating"
              /\ peer' = "connecting"
              /\ net' = "looping"
              /\ UNCHANGED <<caller, life, connectionState, queues, session,
                             disconnecting, received>>

\* The top of the loop: _should_exit_thread turns into a disconnect, once.  ENet
\* resets a peer that is not connected yet without a word.
CheckExit ==
  /\ net = "looping"
  /\ disconnecting' = (disconnecting \/ shouldExit)
  /\ peer' = IF shouldExit /\ ~disconnecting
             THEN IF peer = "connected" THEN "closing" ELSE "reset"
             ELSE peer
  /\ net' = IF disconnecting' THEN "events" ELSE "sending"
  /\ UNCHANGED <<caller, life, connectionState, queues, session, received>>

\* Mutant: the second starts anew in every round.
GiveUp_Never == FALSE /\ UNCHANGED vars

\* More than a second has gone by since.
GiveUp == /\ net = "looping" /\ shouldExit /\ disconnecting
          /\ peer' = "gone"
          /\ net' = "leaving"
          /\ UNCHANGED <<caller, life, connectionState, queues, session,
                         disconnecting, received>>

SendQueuedPackets == /\ net = "sending"
                     /\ packetQueue' = <<>>
                     /\ net' = "events"
                     /\ UNCHANGED <<caller, life, connectionState, eventQueue,
                                    eventQueueCopy, eventLock, session, enet>>

PushEvent(e) == /\ net = "events"
                /\ ~eventLock
                /\ eventQueue' = Append(eventQueue, e)
                /\ UNCHANGED <<caller, life, packetQueue, eventQueueCopy, eventLock,
                               session, disconnecting>>

PeerConnects == /\ peer = "connecting"
                /\ PushEvent(ConnectEvent)
                /\ connectionState' = "CONNECTED"
                /\ peer' = "connected"
                /\ UNCHANGED <<net, received>>

\* A server sends nothing before it has had a HELLO.
PeerSends == /\ peer = "connected"
             /\ helloSent /\ "HELLO" \notin ToSet(packetQueue)
             /\ received < MaxPackets
             /\ received' = received + 1
             /\ PushEvent(ReceiveEvent(received'))
             /\ UNCHANGED <<connectionState, net, peer>>

\* Mutant: the loop goes on with a peer that is gone.
PeerDisconnects_GoesOn == /\ peer \in {"connecting", "connected", "closing"}
                          /\ PushEvent(DisconnectEvent)
                          /\ UNCHANGED <<connectionState, net, peer, received>>

\* The server, a time-out, or the answer to a disconnect.
PeerDisconnects == /\ peer \in {"connecting", "connected", "closing"}
                   /\ PushEvent(DisconnectEvent)
                   /\ peer' = "gone"
                   /\ net' = "leaving"
                   /\ UNCHANGED <<connectionState, received>>

NoMoreEvents == /\ net = "events"
                /\ net' = "looping"
                /\ UNCHANGED <<caller, life, connectionState, queues, session, enet>>

Leave == /\ net = "leaving"
         /\ connectionState' = "FAILED"
         /\ net' = "done"
         /\ UNCHANGED <<caller, life, queues, session, enet>>

-----------------------------------------------------------------------------
Constructor == Connect \/ StartThread \/ Construct

Think == \/ FindNoEvents \/ CopyEvents \/ ClearEvents
         \/ OnConnected \/ OnDataReceived \/ OnDisconnected
         \/ FinishConsuming \/ CleanUp
         \/ SendPlayerData

Disconnect == Join \/ Forget

RunInThread == \/ HostFails \/ CreateHost
               \/ CheckExit \/ GiveUp \/ SendQueuedPackets
               \/ PeerConnects \/ PeerSends \/ PeerDisconnects \/ NoMoreEvents
               \/ Leave

Next == Constructor \/ Think \/ HookSends \/ Destroy \/ Disconnect \/ Renew \/ RunInThread

Spec == Init /\ [][Next]_vars

\* Both threads run.  ENet ends an attempt to connect by its time-outs, the second
\* after a request to disconnect goes by, and a think() finds what is in the queue
\* sooner or later.
Fairness == /\ WF_vars(Constructor)
            /\ WF_vars(Think)
            /\ WF_vars(Disconnect)
            /\ WF_vars(RunInThread)
            /\ SF_vars(PeerConnects \/ (peer = "connecting" /\ PeerDisconnects))
            /\ SF_vars(GiveUp)
            /\ SF_vars(CopyEvents)

FairSpec == Spec /\ Fairness

-----------------------------------------------------------------------------
(* Properties *)

\* The assertions of ~client: an object that is destroyed has joined its thread and
\* holds no packet and no event, wherever its two threads were when disconnect() began.
NothingIsLeaked == caller = "gone" => /\ ~hasThread
                                      /\ packetQueue = <<>>
                                      /\ eventQueue = <<>>
                                      /\ eventQueueCopy = <<>>

\* _connection_state, which the two threads share without a lock, never shows an
\* attempt or a connection that has no thread: NierClient's constructor spins on the
\* one, and AutomataMPMod keeps the client on account of the other.
StateHasThread == /\ connectionState = "CONNECTED" => hasThread
                  /\ connectionState = "CONNECTING" => hasThread \/ caller = "starting"

\* ENet refuses what is sent before the peer is connected, and enetpp drops what is
\* refused: no packet, of the session or of a hook, gets to the thread that early.
NothingIsSentTooEarly ==
  net = "sending" /\ packetQueue # <<>> => peer = "connected"

\* The client, its thread and its queues fit together at every point of its life.
ClientIsSound == NothingIsLeaked /\ StateHasThread /\ NothingIsSentTooEarly

\* The session is told what Connection promises: every packet once and in order, after
\* the connection and before its end, however pushes, copies and clears interleave.
C == INSTANCE Connection
IsAConnection == C!Spec

\* The constructor returns: the thread ends CONNECT_CONNECTING in every case.
ConstructorReturns == (caller = "starting") ~> built

\* disconnect() returns, whatever its thread was doing and whatever the server answers:
\* no mutex is held by the one who waits, and a silent server is given up.
DisconnectReturns == (caller = "joining") ~> (caller \in {"sending", "gone"})

\* A game that keeps thinking learns that its connection has ended.
LossIsNoticed == (peer = "gone" /\ ~disconnecting)
                   ~> (notified = "disconnected" \/ ending)

\* The assertion at the head of send_packet (client.h:95), for the packets of think():
\* whoever sends has a thread to send for it.
SendersHaveThread == caller = "sending" /\ Playing => hasThread
=============================================================================
