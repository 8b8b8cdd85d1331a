-------------------------- MODULE ClientLifecycle --------------------------
(***************************************************************************)
(* The life of the NierClient object that AutomataMPMod::m_client points   *)
(* to.  The menu is drawn in Present, by what is called the ui thread      *)
(* here: its buttons create the client and destroy it.  The game updates   *)
(* the mod every frame as long as there is a player, which calls think()   *)
(* and destroys the client when a level is loading or when the client      *)
(* asked for it (signal_destroy_client).                                   *)
(*                                                                         *)
(* A game may present from the thread that simulates, or from one of its   *)
(* own: both are initial states.  In the first the two never overlap.      *)
(***************************************************************************)
EXTENDS Naturals, FiniteSets

CONSTANTS Client,      \* the client objects there may be, one after the other
          None         \* no object, no thread

ASSUME LifecycleAssumption == None \notin Client

Thread == {"ui", "game"}
Other(t) == IF t = "ui" THEN "game" ELSE "ui"

VARIABLES
  ptr,       \* m_client
  life,      \* of each object; "up" and "down" is its connection
  mtx,       \* who holds NierClient::m_mtx of each object
  wants,     \* m_wants_destroy_client
  at,        \* where each thread is
  obj,       \* the object it got from m_client, or is constructing
  renewing,  \* the ui thread resets m_client to make a new client
  world,     \* what is so of the game: "loading", there is a "player", one is "possessed"
  together,  \* the game presents from the thread that simulates
  unwanted,  \* ghost: the objects that have asked to be destroyed
  raced      \* ghost: a client was reset while the other thread was in the mod

vars == <<ptr, life, mtx, wants, at, obj, renewing, world, together, unwanted, raced>>

Facts == {"loading", "player", "possessed"}

Free == {"idle", "reset", "clear"}     \* a thread here has no object in hand
Using == {"draw", "check", "disconnect", "think", "thinking", "delete"}

TypeOK == /\ ptr \in Client \cup {None}
          /\ life \in [Client -> {"unborn", "connecting", "up", "down", "dying", "destroyed"}]
          /\ mtx \in [Client -> Thread \cup {None}]
          /\ wants \in BOOLEAN
          /\ at \in [Thread -> Free \cup Using \cup
                       {"null", "dying", "connecting", "assign", "assigned"}]
          /\ obj \in [Thread -> Client \cup {None}]
          /\ \A t \in Thread : at[t] \in Using => obj[t] \in Client
          /\ renewing \in BOOLEAN
          /\ world \subseteq Facts
          /\ together \in BOOLEAN
          /\ unwanted \subseteq Client
          /\ raced \in BOOLEAN

Init == /\ ptr = None
        /\ life = [c \in Client |-> "unborn"]
        /\ mtx = [c \in Client |-> None]
        /\ wants = FALSE
        /\ at = [t \in Thread |-> "idle"]
        /\ obj = [t \in Thread |-> None]
        /\ renewing = FALSE
        /\ world = {}
        /\ together \in BOOLEAN
        /\ unwanted = {}
        /\ raced = FALSE

\* A thread is about to reset a client, or does so, and the other is in the mod.
Resetting(t) == IF at[t] = "reset" THEN ptr # None
                ELSE at[t] \in {"null", "delete", "dying"} /\ obj[t] # None
Overlap == \E t \in Thread : Resetting(t) /\ at[Other(t)] # "idle"
Race == raced \/ Overlap
Watch == raced' = Race /\ UNCHANGED together

May(t) == together => at[Other(t)] = "idle"
Go(t, from, to) == at[t] = from /\ May(t) /\ at' = [at EXCEPT ![t] = to] /\ Watch
Take(t, c) == obj' = [obj EXCEPT ![t] = c]
Live(t, state) == life' = [life EXCEPT ![obj[t]] = state]
Lock(t) == mtx[obj[t]] \in {None, t} /\ mtx' = [mtx EXCEPT ![obj[t]] = t]
Unlock(t) == mtx' = [mtx EXCEPT ![obj[t]] = None]

-----------------------------------------------------------------------------
(* unique_ptr::reset(): the pointer is read and nulled, then the object deleted *)

ReadOld(t) == /\ Go(t, "reset", "null")
              /\ Take(t, ptr)
              /\ UNCHANGED <<ptr, life, mtx, wants, renewing, world, unwanted>>

\* What a thread does when the old object is gone, or there was none.
AfterReset(t) == IF t = "game" THEN "clear" ELSE IF renewing THEN "connecting" ELSE "idle"

NullPointer(t) == /\ Go(t, "null", IF obj[t] = None THEN AfterReset(t) ELSE "delete")
                  /\ ptr' = None
                  /\ UNCHANGED <<life, mtx, wants, obj, renewing, world, unwanted>>

\* ~NierClient locks the object's own mutex to disconnect ...
BeginDelete(t) == /\ Go(t, "delete", "dying")
                  /\ Lock(t)
                  /\ Live(t, "dying")
                  /\ UNCHANGED <<ptr, wants, obj, renewing, world, unwanted>>

\* ... and lets go of it before the members are destroyed.
EndDelete(t) == /\ Go(t, "dying", AfterReset(t))
                /\ Unlock(t)
                /\ Live(t, "destroyed")
                /\ Take(t, None)
                /\ UNCHANGED <<ptr, wants, renewing, world, unwanted>>

Reset(t) == ReadOld(t) \/ NullPointer(t) \/ BeginDelete(t) \/ EndDelete(t)

-----------------------------------------------------------------------------
(* The thread that draws the menu *)

\* Mutant: the old client is not destroyed before the new one is made.
ClickConnect_Keeps == /\ Go("ui", "idle", "connecting")
                      /\ UNCHANGED <<ptr, life, mtx, wants, obj, renewing, world, unwanted>>

\* Either "Connect" button: both reset m_client first.
ClickConnect == /\ Go("ui", "idle", "reset")
                /\ renewing' = TRUE
                /\ UNCHANGED <<ptr, life, mtx, wants, obj, world, unwanted>>

\* "Disconnect" ends after the reset.
ClickDisconnect == /\ ptr # None
                   /\ Go("ui", "idle", "reset")
                   /\ UNCHANGED <<ptr, life, mtx, wants, obj, renewing, world, unwanted>>

\* The address is refused (validate_connection), or the port is no number.
GiveUpConnecting == /\ obj["ui"] = None
                    /\ Go("ui", "connecting", "idle")
                    /\ renewing' = FALSE
                    /\ UNCHANGED <<ptr, life, mtx, wants, obj, world, unwanted>>

\* The constructor holds the mutex and calls think() until the attempt has ended.
BeginConnecting == \E c \in Client :
  /\ life[c] = "unborn" /\ at["ui"] = "connecting" /\ obj["ui"] = None
  /\ May("ui") /\ Watch
  /\ Take("ui", c)
  /\ life' = [life EXCEPT ![c] = "connecting"]
  /\ mtx' = [mtx EXCEPT ![c] = "ui"]
  /\ renewing' = FALSE
  /\ UNCHANGED <<ptr, wants, at, world, unwanted>>

Constructing == obj["ui"] # None /\ life[obj["ui"]] = "connecting"

ConnectFails == /\ Constructing
                /\ Go("ui", "connecting", "assign")
                /\ Live("ui", "down")
                /\ UNCHANGED <<ptr, mtx, wants, obj, renewing, world, unwanted>>

\* Mutant: nobody is told that there is no player yet.
OnConnect_Silent == /\ Constructing
                    /\ Go("ui", "connecting", "assign")
                    /\ Live("ui", "up")
                    /\ unwanted' = IF "possessed" \in world THEN unwanted
                                                             ELSE unwanted \cup {obj["ui"]}
                    /\ UNCHANGED <<ptr, mtx, wants, obj, renewing, world>>

\* Without a player to send no HELLO is said: the client is to be destroyed.
OnConnect == /\ Constructing
             /\ Go("ui", "connecting", "assign")
             /\ Live("ui", "up")
             /\ IF "possessed" \in world
                THEN UNCHANGED <<wants, unwanted>>
                ELSE wants' = TRUE /\ unwanted' = unwanted \cup {obj["ui"]}
             /\ UNCHANGED <<ptr, mtx, obj, renewing, world>>

Assign == /\ Go("ui", "assign", "assigned")
          /\ ptr' = obj["ui"]
          /\ Unlock("ui")
          /\ Take("ui", None)
          /\ UNCHANGED <<life, wants, renewing, world, unwanted>>

\* m_client is read again; if it were null by now the program would end here.
ReadAssigned == /\ ptr # None
                /\ Go("ui", "assigned", "check")
                /\ Take("ui", ptr)
                /\ UNCHANGED <<ptr, life, mtx, wants, renewing, world, unwanted>>

\* if (!m_client->is_connected()) m_client.reset();
CheckConnected == /\ Go("ui", "check", IF life[obj["ui"]] = "up" THEN "idle" ELSE "reset")
                  /\ Take("ui", None)
                  /\ UNCHANGED <<ptr, life, mtx, wants, renewing, world, unwanted>>

\* on_frame() and on_draw_ui() of the mod call the client's.
BeginDraw == /\ ptr # None
             /\ Go("ui", "idle", "draw")
             /\ Take("ui", ptr)
             /\ UNCHANGED <<ptr, life, mtx, wants, renewing, world, unwanted>>

EndDraw == /\ Go("ui", "draw", "idle")
           /\ Take("ui", None)
           /\ UNCHANGED <<ptr, life, mtx, wants, renewing, world, unwanted>>

Construction == \/ BeginConnecting \/ ConnectFails \/ OnConnect
                \/ Assign \/ ReadAssigned \/ CheckConnected
Menu == ClickConnect \/ ClickDisconnect \/ BeginDraw \/ EndDraw

-----------------------------------------------------------------------------
(* The game's thread: on_think() and shared_think(), called by on_update() *)

\* on_update() returns as long as there is no player, before any mod thinks.
Updated == "player" \in world

Unwanted == "loading" \in world \/ wants

ThinkDestroys == /\ Updated /\ Unwanted
                 /\ Go("game", "idle", IF ptr = None THEN "clear" ELSE "disconnect")
                 /\ Take("game", ptr)
                 /\ UNCHANGED <<ptr, life, mtx, wants, renewing, world, unwanted>>

\* m_client->disconnect() is called without the client's mutex.
ThinkDisconnects == /\ Go("game", "disconnect", "reset")
                    /\ life' = [life EXCEPT ![obj["game"]] = IF @ = "up" THEN "down" ELSE @]
                    /\ Take("game", None)
                    /\ UNCHANGED <<ptr, mtx, wants, renewing, world, unwanted>>

\* The signal is cleared whether or not there was a client.
ThinkClears == /\ Go("game", "clear", "idle")
               /\ wants' = FALSE
               /\ UNCHANGED <<ptr, life, mtx, obj, renewing, world, unwanted>>

\* shared_think() wants a possessed entity, too, before it comes to the client.
BeginThink == /\ Updated /\ ~Unwanted /\ "possessed" \in world /\ ptr # None
              /\ Go("game", "idle", "think")
              /\ Take("game", ptr)
              /\ UNCHANGED <<ptr, life, mtx, wants, renewing, world, unwanted>>

LockThink == /\ Go("game", "think", "thinking")
             /\ Lock("game")
             /\ UNCHANGED <<ptr, life, wants, obj, renewing, world, unwanted>>

EndThink == /\ Go("game", "thinking", "idle")
            /\ Unlock("game")
            /\ Take("game", None)
            /\ UNCHANGED <<ptr, life, wants, renewing, world, unwanted>>

Think == \/ ThinkDestroys \/ ThinkDisconnects \/ ThinkClears
         \/ BeginThink \/ LockThink \/ EndThink

-----------------------------------------------------------------------------
(* The world outside *)

\* Levels load, players come and go and are possessed between two updates of the mod.
World == /\ at["game"] = "idle" /\ May("game") /\ Watch
         /\ world' \in SUBSET Facts \ {world}
         /\ UNCHANGED <<ptr, life, mtx, wants, at, obj, renewing, unwanted>>

LinkBreaks == \E c \in Client : /\ life[c] = "up" /\ Watch
                                /\ life' = [life EXCEPT ![c] = "down"]
                                /\ UNCHANGED <<ptr, mtx, wants, at, obj, renewing, world, unwanted>>

Next == \/ Menu \/ Construction \/ GiveUpConnecting
        \/ \E t \in Thread : Reset(t)
        \/ Think \/ World \/ LinkBreaks

Spec == Init /\ [][Next]_vars

\* Both threads go on, one after the other where they are one: menu and game are run
\* once a frame.  The constructor's attempt to connect ends.
Fairness == /\ SF_vars(Think)
            /\ \A t \in Thread : WF_vars(Reset(t))
            /\ WF_vars(Construction \/ GiveUpConnecting) /\ WF_vars(EndDraw)
FairSpec == Spec /\ Fairness

-----------------------------------------------------------------------------
(* Properties *)

\* Whoever is in a function of a client, or deletes it, has an object that exists.
\* "from_present is so we don't accidentally run script/game code within the present
\* thread" (AutomataMP.cpp:329-330): the menu is drawn there all the same, and its
\* buttons destroy what the game's thread is in.
UsedClientLives == \A t \in Thread : at[t] \in Using => life[obj[t]] # "destroyed"

\* The constructor shuts ENet down and starts it again, so the object before must
\* be gone by then.
OneClientAtATime ==
  Cardinality({c \in Client : life[c] \in {"connecting", "up", "down", "dying"}}) <= 1

\* With one thread or two, nothing but a reset while the other thread is in the mod can
\* do harm, neither drawing nor thinking nor connecting: as long as there was none
\* clients follow one another, nobody is in one that is gone, and the menu does not
\* lose the one it has made.  With one thread there is none.
OnlyResetsRace ==
  /\ TypeOK
  /\ together => ~Race
  /\ ~Race => /\ UsedClientLives /\ OneClientAtATime
              /\ at["ui"] = "assigned" => ptr # None

\* Where the game presents from the thread that simulates, a client that connected
\* without a player and asked to be destroyed does not stay, if ever a player comes
\* to stay: until then nobody looks at the signal.  (A second thread may look at it, and
\* clear it, when m_client does not point to the new client yet.)
UnwantedClientGoes ==
  together /\ <>[]("player" \in world) =>
    \A c \in Client : (c \in unwanted) ~> (life[c] = "destroyed")
=============================================================================
