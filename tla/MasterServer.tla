---------------------------- MODULE MasterServer ----------------------------
(***************************************************************************)
(* The master server's table of game servers, the heartbeats by which they *)
(* stay in it, and the requests of players that show it.  Time is counted  *)
(* in ticks, and what the code compares are ages: the time since the last  *)
(* heartbeat of an entry, since the table was cleaned, and since a game    *)
(* server sent its last heartbeat.  An age stops at the bound beyond which *)
(* no comparison tells it from a greater one.                              *)
(*                                                                         *)
(* A game server is known by its address, as in the code: two servers at   *)
(* one address are one entry, which shows the one that was heard of last.  *)
(***************************************************************************)
EXTENDS Naturals, Functions

CONSTANTS Server,    \* the addresses of game servers
          Period,    \* time from heartbeat to heartbeat (30 s)
          Poll,      \* how much later heartbeatGoroutine may notice (1 s)
          Limit,     \* an entry older than this is dead (60 s)
          CleanGap,  \* the table is cleaned no more often than this (5 s)
          MaxDelay   \* a heartbeat is on its way no longer than this

ASSUME ConstantsAssumption ==
  /\ {Period, Poll, Limit, CleanGap, MaxDelay} \subseteq Nat
  /\ CleanGap > 0
  /\ MaxDelay < Period
  /\ Period + Poll + MaxDelay <= Limit

VARIABLES
  running,     \* the game servers that run
  sending,     \* those whose heartbeat is on its way
  sinceBeat,   \* the age of Server.LastHeartbeat, for each game server
  heard,       \* ghost: the last heartbeat of the server came to this master server
  age,         \* MasterServer.servers: the age of lastBeat, for each entry
  sinceClean,  \* the age of MasterServer.lastCleanTime
  shown        \* ghost: the ages in the last answer to a player, until time goes on

vars == <<running, sending, sinceBeat, heard, age, sinceClean, shown>>

Dead == Limit + CleanGap      \* no age is told from this one by being greater
Older(a, bound) == IF a < bound THEN a + 1 ELSE bound

TypeOK == /\ running \subseteq Server
          /\ sending \subseteq Server
          /\ sinceBeat \in [Server -> 0 .. Period + Poll]
          /\ \A s \in sending : sinceBeat[s] <= MaxDelay
          /\ heard \subseteq Server
          /\ DOMAIN age \subseteq Server
          /\ \A s \in DOMAIN age : age[s] \in 0 .. Dead
          /\ sinceClean \in 0 .. CleanGap
          /\ shown \subseteq 0 .. Dead

\* The zero time.Time is long ago: the first heartbeat and the first cleaning are due.
Init == /\ running = {}
        /\ sending = {}
        /\ sinceBeat = [s \in Server |-> Period]
        /\ heard = {}
        /\ age = [s \in {} |-> 0]
        /\ sinceClean = CleanGap
        /\ shown = {}

-----------------------------------------------------------------------------
(* Game servers *)

Start(s) == /\ s \notin running \cup sending
            /\ running' = running \cup {s}
            /\ sinceBeat' = [sinceBeat EXCEPT ![s] = Period]
            /\ heard' = heard \ {s}
            /\ UNCHANGED <<sending, age, sinceClean, shown>>

\* A heartbeat that is on its way survives the server that sent it.
Stop(s) == /\ s \in running
           /\ running' = running \ {s}
           /\ UNCHANGED <<sending, sinceBeat, heard, age, sinceClean, shown>>

\* LastHeartbeat is set before the request is made, and whatever becomes of it.
SendHeartbeat(s) == /\ s \in running \ sending
                    /\ sinceBeat[s] >= Period
                    /\ sending' = sending \cup {s}
                    /\ sinceBeat' = [sinceBeat EXCEPT ![s] = 0]
                    /\ UNCHANGED <<running, heard, age, sinceClean, shown>>

\* The request fails, and is not repeated before the next heartbeat is due.
HeartbeatFails(s) == /\ s \in sending
                     /\ sending' = sending \ {s}
                     /\ heard' = heard \ {s}
                     /\ UNCHANGED <<running, sinceBeat, age, sinceClean, shown>>

-----------------------------------------------------------------------------
(* The master server; its mutex makes a request one step *)

\* Mutant: the time of the cleaning is set by requests that do not clean, too.
CleanDeadServers_Stamps(table) ==
  /\ sinceClean' = 0
  /\ age' = IF sinceClean < CleanGap
            THEN table
            ELSE Restrict(table, {s \in DOMAIN table : table[s] <= Limit})

\* Mutant: a server is dead when its next heartbeat is due.
CleanDeadServers_Strict(table) ==
  IF sinceClean < CleanGap
  THEN age' = table /\ UNCHANGED sinceClean
  ELSE /\ age' = Restrict(table, {s \in DOMAIN table : table[s] <= Period})
       /\ sinceClean' = 0

CleanDeadServers(table) ==
  IF sinceClean < CleanGap
  THEN age' = table /\ UNCHANGED sinceClean
  ELSE /\ age' = Restrict(table, {s \in DOMAIN table : table[s] <= Limit})
       /\ sinceClean' = 0

\* Mutant: only a server that is in the table already is entered.
HandleHeartbeat_Known(s) ==
  /\ s \in sending
  /\ CleanDeadServers([x \in DOMAIN age |-> IF x = s THEN 0 ELSE age[x]])
  /\ sending' = sending \ {s}
  /\ heard' = heard \cup {s}
  /\ UNCHANGED <<running, sinceBeat, shown>>

HandleHeartbeat(s) ==
  /\ s \in sending
  /\ CleanDeadServers([x \in DOMAIN age \cup {s} |-> IF x = s THEN 0 ELSE age[x]])
  /\ sending' = sending \ {s}
  /\ heard' = heard \cup {s}
  /\ UNCHANGED <<running, sinceBeat, shown>>

\* The master server ends and is started again: the table is in its memory only.
Restart == /\ age' = [s \in {} |-> 0]
           /\ sinceClean' = CleanGap
           /\ heard' = {}
           /\ UNCHANGED <<running, sending, sinceBeat, shown>>

\* A request of any player: the whole table, cleaned or not, is the answer.
ShowServers == /\ CleanDeadServers(age)
               /\ shown' = Range(age')
               /\ UNCHANGED <<running, sending, sinceBeat, heard>>

-----------------------------------------------------------------------------
(* Time *)

\* A running server looks at its clock once in Poll, and a request takes at most
\* MaxDelay: neither lets more time go by before it has acted.
OnTime(s) == IF s \in sending THEN sinceBeat[s] < MaxDelay
                              ELSE s \in running => sinceBeat[s] < Period + Poll

Tick == /\ \A s \in Server : OnTime(s)
        /\ sinceBeat' = [s \in Server |-> Older(sinceBeat[s], Period + Poll)]
        /\ age' = [s \in DOMAIN age |-> Older(age[s], Dead)]
        /\ sinceClean' = Older(sinceClean, CleanGap)
        /\ shown' = {}
        /\ UNCHANGED <<running, sending, heard>>

Next == \/ \E s \in Server : \/ Start(s) \/ Stop(s)
                             \/ SendHeartbeat(s) \/ HeartbeatFails(s)
                             \/ HandleHeartbeat(s)
        \/ ShowServers \/ Restart
        \/ Tick

Spec == Init /\ [][Next]_vars

-----------------------------------------------------------------------------
(* Properties *)

\* A server whose heartbeats arrive is in the table all the time, although entries age
\* between heartbeats, heartbeats are late, and everybody's requests clean the table.
LiveServersStay == running \cap heard \subseteq DOMAIN age

\* No answer that a player is given holds a server that was last heard of longer ago
\* than the limit and the gap between two cleanings together: not one that is given
\* within the gap, which is not cleaned, and however often the table is asked for.
ShownServersAreFresh == \A a \in shown : a < Limit + CleanGap
=============================================================================
