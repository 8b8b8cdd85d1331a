--------------------------- MODULE ServerBrowser ---------------------------
(***************************************************************************)
(* The server list of the menu in front of the master server, and the ways *)
(* to connect from it: AutomataMPMod::display_servers(),                   *)
(* display_manual_connect() and validate_connection().  A list is asked    *)
(* for with std::async at most every five seconds; the thread of the       *)
(* request gets the answer, notes the time and then fulfils the future,    *)
(* while the UI thread draws frames.                                       *)
(*                                                                         *)
(* An answer is a sequence of servers, one for an ip, or None when the     *)
(* request failed.  Answers that are no JSON are left out.  The client     *)
(* that a button makes or destroys is the subject of ClientLifecycle.      *)
(***************************************************************************)
EXTENDS MasterServer, Sequences, SequencesExt

CONSTANTS Ip,             \* what may be typed as an address
          Malformed,      \* those that the pattern of an address rejects
          DefaultIp,      \* DEFAULT_IP, "127.0.0.1"
          Port,
          DefaultPort,    \* DEFAULT_PORT, "6969"
          PortOf,         \* the port each game server tells the master server
          Gap,            \* ticks in the five seconds between two requests
          None

ASSUME BrowserAssumption ==
  /\ Malformed \subseteq Ip
  /\ Server \subseteq Ip \ Malformed
  /\ DefaultIp \in Ip \ Malformed
  /\ DefaultPort \in Port
  /\ PortOf \in [Server -> Port]
  /\ Gap \in Nat \ {0}
  /\ IsFiniteSet(Server)

VARIABLES
  servers,   \* m_servers
  request,   \* m_server_future and how far the thread behind it has come
  answer,    \* what that thread got
  since,     \* ticks since m_last_server_update, up to Gap
  pc         \* where the UI thread is in display_servers()

browserVars == <<servers, request, answer, since, pc>>
allVars == <<vars, browserVars>>

Address == [ip : Ip, port : Port]
DefaultAddress == [ip |-> DefaultIp, port |-> DefaultPort]
AddressOf(s) == [ip |-> s, port |-> PortOf[s]]
Listing == {l \in Seq({AddressOf(s) : s \in Server}) : IsInjective(l)}
Listed(s) == AddressOf(s) \in Range(servers)

BrowserTypeOK ==
  /\ TypeOK
  /\ servers \in Listing
  /\ request \in {"none", "sent", "fetched", "stamped", "ready"}
  /\ answer # None => answer \in Listing
  /\ since \in 0 .. Gap
  /\ pc \in {"idle", "gap", "request"}

BrowserInit == /\ Init
               /\ servers = <<>>
               /\ request = "none" /\ answer = None
               /\ since = Gap
               /\ pc = "idle"

-----------------------------------------------------------------------------
(* display_servers() *)

\* Mutant: the list is kept until there is an answer that is not empty.
ReadAnswer_Keeps == servers' = IF answer = None THEN servers ELSE answer

ReadAnswer == servers' = IF answer = None THEN <<>> ELSE answer

\* An answer that has come is read; after an empty one the frame is over.
BeginFrame ==
  /\ pc = "idle"
  /\ IF request = "ready"
     THEN /\ ReadAnswer
          /\ request' = "none"
          /\ pc' = IF answer = None THEN "idle" ELSE "gap"
     ELSE pc' = "gap" /\ UNCHANGED <<servers, request>>
  /\ UNCHANGED <<vars, answer, since>>

\* The button of a listed server ends the list of this frame.
Connect == /\ pc = "gap" /\ pc' = "idle"
           /\ servers # <<>>
           /\ UNCHANGED <<vars, servers, request, answer, since>>

\* Mutant: the time of the last answer is not looked at.
TestGap_Not == /\ pc = "gap" /\ pc' = "request"
               /\ UNCHANGED <<vars, servers, request, answer, since>>

TestGap == /\ pc = "gap"
           /\ pc' = IF since < Gap THEN "idle" ELSE "request"
           /\ UNCHANGED <<vars, servers, request, answer, since>>

\* A running request is left alone; an answer that nobody has read yet is not.
Request == /\ pc = "request" /\ pc' = "idle"
           /\ request' = IF request \in {"none", "ready"} THEN "sent" ELSE request
           /\ UNCHANGED <<vars, servers, answer, since>>

-----------------------------------------------------------------------------
(* The thread of the request *)

\* The master server answers with its table.
Fetch == /\ request = "sent" /\ request' = "fetched"
         /\ ShowServers
         /\ answer' \in SetToSeqs({AddressOf(s) : s \in DOMAIN age'})
         /\ UNCHANGED <<servers, since, pc>>

FetchFails == /\ request = "sent" /\ request' = "fetched"
              /\ answer' = None
              /\ UNCHANGED <<vars, servers, since, pc>>

Stamp == /\ request = "fetched" /\ request' = "stamped"
         /\ since' = 0
         /\ UNCHANGED <<vars, servers, answer, pc>>

Fulfil == /\ request = "stamped" /\ request' = "ready"
          /\ UNCHANGED <<vars, servers, answer, since, pc>>

-----------------------------------------------------------------------------
(* display_manual_connect(): what is typed is a matter of the user, and what is  *)
(* made of it depends on the list that is there at the moment                    *)

\* Mutant: the list is not searched, and every address is given the default port.
Validate_Unlisted(in) ==
  IF in.ip \in Malformed THEN DefaultAddress ELSE [in EXCEPT !.port = DefaultPort]

\* validate_connection(): a listed server is accepted; another ip is given the port of
\* the last server of the list, or the default one if the list is empty.
Validate(in) ==
  IF in.ip \in Malformed THEN DefaultAddress
  ELSE IF in \in Range(servers) THEN in
  ELSE [in EXCEPT !.port = IF servers = <<>> THEN DefaultPort ELSE Last(servers).port]

\* Input that is not accepted is overwritten with what would be, and nothing is made.
Accepted(in) == Validate(in) = in

-----------------------------------------------------------------------------
(* The servers, and time *)

Heartbeats(s) == \/ Start(s) \/ Stop(s)
                 \/ SendHeartbeat(s) \/ HeartbeatFails(s) \/ HandleHeartbeat(s)

World == \/ \E s \in Server : Heartbeats(s)
         \/ ShowServers
         \/ Restart

\* display_servers() reads the clock once, when the frame begins.
BrowserTick == /\ pc = "idle"
               /\ Tick
               /\ since' = Older(since, Gap)
               /\ UNCHANGED <<servers, request, answer, pc>>

BrowserNext == \/ BeginFrame \/ Connect \/ TestGap \/ Request
               \/ Fetch \/ FetchFails \/ Stamp \/ Fulfil
               \/ World /\ UNCHANGED browserVars
               \/ BrowserTick

BrowserSpec == BrowserInit /\ [][BrowserNext]_allVars

\* The menu stays open and nobody clicks in every frame; time passes; requests end, and
\* not always between the two tests of a frame, where their answer would be lost; game
\* servers do what is due, and not every heartbeat is lost.
FairBrowser ==
  /\ BrowserSpec
  /\ WF_allVars(BeginFrame) /\ SF_allVars(TestGap) /\ WF_allVars(Request)
  /\ SF_allVars(pc = "idle" /\ (Fetch \/ FetchFails))
  /\ SF_allVars(pc = "idle" /\ Stamp) /\ SF_allVars(pc = "idle" /\ Fulfil)
  /\ SF_allVars(BrowserTick)
  /\ \A s \in Server : /\ WF_allVars(SendHeartbeat(s) /\ UNCHANGED browserVars)
                       /\ SF_allVars(HandleHeartbeat(s) /\ UNCHANGED browserVars)

-----------------------------------------------------------------------------
(* Properties *)

\* A server of the list is accepted when it is typed in, wherever it stands.
ListedServersAreAccepted == \A k \in DOMAIN servers : Accepted(servers[k])

\* Whatever has been typed, what the second correction leaves is accepted, so that the
\* third click connects; one correction is not enough when the default server is not in
\* the list.
CorrectionsEnd == \A in \in Address : Accepted(Validate(Validate(in)))

\* The list is one that the master server can have sent, and typed addresses are
\* corrected to ones that are accepted, whatever list is there at the moment.
MenuIsSound == BrowserTypeOK /\ ListedServersAreAccepted /\ CorrectionsEnd

\* After an answer, good or bad, the master server is left alone for five seconds; the
\* one exception is a frame that passed the test of the time before the answer came.
RequestsAreSpaced ==
  [][request # "sent" /\ request' = "sent" => since = Gap \/ request = "ready"]_allVars

\* A game server that goes on running and whose heartbeats arrive is seen in the menu
\* again and again, as long as the master server goes on answering between frames.
RunningServersAreListed ==
  []<>(pc = "idle" /\ request = "ready" /\ answer # None)
    => \A s \in Server : <>[](s \in running \cap heard) => []<>Listed(s)

\* A game server that has stopped leaves the menu for good, even if the menu's requests
\* fail from then on, and whoever else keeps asking for the table.
StoppedServersLeaveTheMenu ==
  \A s \in Server : <>[](s \notin running) => <>[]~Listed(s)
=============================================================================
