------------------------- MODULE MasterServerProofs -------------------------
(***************************************************************************)
(* What TLAPS proves of MasterServer, for any number of game servers and   *)
(* any times that satisfy ConstantsAssumption.                             *)
(***************************************************************************)
EXTENDS MasterServer, TLAPS

\* An entry is no older than the limit and the time since the last cleaning, as long
\* as that time still tells when the next cleaning may be.
EntriesAreRecent ==
  sinceClean < CleanGap => \A s \in DOMAIN age : age[s] <= Limit + sinceClean

\* The entry of a server whose heartbeats arrive is no older than the heartbeat that
\* made it; while the next one is on its way, a period and a poll are added.
EntriesFollowBeats ==
  \A s \in running \cap heard :
    /\ s \in DOMAIN age
    /\ age[s] <= sinceBeat[s] + (IF s \in sending THEN Period + Poll ELSE 0)

Safety == TypeOK /\ EntriesAreRecent /\ EntriesFollowBeats /\ ShownServersAreFresh

-----------------------------------------------------------------------------
(* Lemmas *)

\* An age grows by at most one, and stays within its bound.
LEMMA OlderType ==
  ASSUME NEW bound \in Nat, NEW a \in 0 .. bound
  PROVE  /\ Older(a, bound) \in 0 .. bound
         /\ Older(a, bound) <= a + 1
         /\ a < bound => Older(a, bound) = a + 1
BY DEF Older

\* Cleaning keeps the entries that are not older than the limit, at their age.
LEMMA CleanKeeps ==
  ASSUME NEW table, CleanDeadServers(table)
  PROVE  /\ DOMAIN age' \subseteq DOMAIN table
         /\ \A s \in DOMAIN age' : age'[s] = table[s]
         /\ \A s \in DOMAIN table : table[s] <= Limit => s \in DOMAIN age'
<1>1. CASE sinceClean < CleanGap
  BY <1>1 DEF CleanDeadServers
<1>2. CASE ~(sinceClean < CleanGap)
  BY <1>2 DEF CleanDeadServers, Restrict
<1> QED  BY <1>1, <1>2

\* After a request the table is as recent as EntriesAreRecent says, whether or not the
\* request has cleaned it, if it was as recent before.
LEMMA CleanIsRecent ==
  ASSUME NEW table, CleanDeadServers(table), sinceClean \in 0 .. CleanGap,
         \A s \in DOMAIN table : table[s] \in Nat,
         sinceClean < CleanGap => \A s \in DOMAIN table : table[s] <= Limit + sinceClean
  PROVE  /\ sinceClean' \in 0 .. CleanGap
         /\ sinceClean' < CleanGap
         /\ \A s \in DOMAIN age' : age'[s] <= Limit + sinceClean'
<1>1. CASE sinceClean < CleanGap
  BY <1>1 DEF CleanDeadServers
<1>2. CASE ~(sinceClean < CleanGap)
  BY <1>2, ConstantsAssumption DEF CleanDeadServers, Restrict
<1> QED  BY <1>1, <1>2

\* A server whose heartbeats arrive is not too old for a cleaning.
LEMMA BeatsAreInTime ==
  ASSUME Safety, NEW s \in running \cap heard
  PROVE  s \in DOMAIN age /\ age[s] \in Nat /\ age[s] <= Limit
BY ConstantsAssumption DEF Safety, TypeOK, EntriesFollowBeats

-----------------------------------------------------------------------------
(* The inductive invariant *)

LEMMA InitSafety == Init => Safety
BY ConstantsAssumption
   DEF Init, Safety, TypeOK, EntriesAreRecent, EntriesFollowBeats, ShownServersAreFresh, Dead

\* The steps of a game server do not touch the table.
LEMMA ServerSafety ==
  ASSUME Safety, NEW s \in Server,
         Start(s) \/ Stop(s) \/ SendHeartbeat(s) \/ HeartbeatFails(s)
  PROVE  Safety'
<1> USE ConstantsAssumption
    DEF Safety, TypeOK, EntriesAreRecent, EntriesFollowBeats, ShownServersAreFresh, Dead
<1>1. CASE Start(s)
  BY <1>1 DEF Start
<1>2. CASE Stop(s)
  BY <1>2 DEF Stop
<1>3. CASE SendHeartbeat(s)
  BY <1>3 DEF SendHeartbeat
<1>4. CASE HeartbeatFails(s)
  BY <1>4 DEF HeartbeatFails
<1> QED  BY <1>1, <1>2, <1>3, <1>4

LEMMA HeartbeatSafety ==
  ASSUME Safety, NEW s \in Server, HandleHeartbeat(s)
  PROVE  Safety'
<1> DEFINE table == [x \in DOMAIN age \cup {s} |-> IF x = s THEN 0 ELSE age[x]]
<1>1. /\ CleanDeadServers(table)
      /\ s \in sending /\ sending' = sending \ {s}
      /\ heard' = heard \cup {s}
      /\ UNCHANGED <<running, sinceBeat, shown>>
  BY DEF HandleHeartbeat
<1>2. DOMAIN table = DOMAIN age \cup {s} /\ table[s] = 0
  OBVIOUS
<1>3. \A x \in DOMAIN table : x # s => table[x] = age[x]
  OBVIOUS
<1>4. \A x \in DOMAIN table : table[x] \in 0 .. Dead
  BY <1>2, <1>3, ConstantsAssumption DEF Safety, TypeOK, Dead
<1> HIDE DEF table
<1>5. /\ sinceClean' \in 0 .. CleanGap
      /\ \A x \in DOMAIN age' : age'[x] <= Limit + sinceClean'
  <2>1. sinceClean < CleanGap => \A x \in DOMAIN table : table[x] <= Limit + sinceClean
    BY <1>2, <1>3, ConstantsAssumption DEF Safety, TypeOK, EntriesAreRecent
  <2> QED  BY <1>1, <1>4, <2>1, CleanIsRecent, ConstantsAssumption DEF Safety, TypeOK, Dead
<1>6. TypeOK'
  BY <1>1, <1>2, <1>4, <1>5, CleanKeeps DEF Safety, TypeOK
<1>7. EntriesFollowBeats'
  <2> SUFFICES ASSUME NEW x \in (running \cap heard)'
               PROVE  /\ x \in DOMAIN age'
                      /\ age'[x] <= sinceBeat'[x]
                           + (IF x \in sending' THEN Period + Poll ELSE 0)
    BY DEF EntriesFollowBeats
  <2>1. CASE x = s
    BY <1>1, <1>2, <2>1, CleanKeeps, ConstantsAssumption DEF Safety, TypeOK
  <2>2. CASE x # s
    <3>1. x \in running \cap heard
      BY <1>1, <2>2
    <3>2. x \in DOMAIN table /\ table[x] = age[x] /\ age[x] <= Limit
      BY <1>2, <1>3, <2>2, <3>1, BeatsAreInTime
    <3>3. x \in DOMAIN age' /\ age'[x] = age[x]
      BY <1>1, <3>2, CleanKeeps
    <3> QED  BY <1>1, <2>2, <3>1, <3>3 DEF Safety, EntriesFollowBeats
  <2> QED  BY <2>1, <2>2
<1>8. ShownServersAreFresh'
  BY <1>1 DEF Safety, ShownServersAreFresh
<1> QED  BY <1>5, <1>6, <1>7, <1>8 DEF Safety, EntriesAreRecent

LEMMA RestartSafety ==
  ASSUME Safety, Restart
  PROVE  Safety'
BY ConstantsAssumption
   DEF Restart, Safety, TypeOK, EntriesAreRecent, EntriesFollowBeats, ShownServersAreFresh,
       Dead

\* What a player is shown is the table after the request, cleaned or not.
LEMMA ShowSafety ==
  ASSUME Safety, ShowServers
  PROVE  Safety'
<1>1. /\ CleanDeadServers(age)
      /\ shown' = Range(age')
      /\ UNCHANGED <<running, sending, sinceBeat, heard>>
  BY DEF ShowServers
<1>2. \A s \in DOMAIN age : age[s] \in 0 .. Dead
  BY DEF Safety, TypeOK
<1>3. /\ sinceClean' \in 0 .. CleanGap /\ sinceClean' < CleanGap
      /\ \A s \in DOMAIN age' : age'[s] <= Limit + sinceClean'
  BY <1>1, <1>2, CleanIsRecent, ConstantsAssumption DEF Safety, TypeOK, EntriesAreRecent, Dead
<1>4. \A s \in DOMAIN age' : age'[s] \in 0 .. Dead /\ age'[s] < Limit + CleanGap
  BY <1>1, <1>2, <1>3, CleanKeeps, ConstantsAssumption DEF Dead
<1>5. \A a \in shown' : a \in 0 .. Dead /\ a < Limit + CleanGap
  BY <1>1, <1>4 DEF Range
<1>6. TypeOK'
  BY <1>1, <1>3, <1>5, CleanKeeps DEF Safety, TypeOK
<1>7. EntriesFollowBeats'
  BY <1>1, CleanKeeps, BeatsAreInTime DEF Safety, EntriesFollowBeats
<1> QED  BY <1>3, <1>5, <1>6, <1>7 DEF Safety, EntriesAreRecent, ShownServersAreFresh

LEMMA TickSafety ==
  ASSUME Safety, Tick
  PROVE  Safety'
<1>1. /\ \A s \in Server : OnTime(s)
      /\ sinceBeat' = [s \in Server |-> Older(sinceBeat[s], Period + Poll)]
      /\ age' = [s \in DOMAIN age |-> Older(age[s], Dead)]
      /\ sinceClean' = Older(sinceClean, CleanGap)
      /\ shown' = {}
      /\ UNCHANGED <<running, sending, heard>>
  BY DEF Tick
<1>2. Period + Poll \in Nat /\ Dead \in Nat /\ CleanGap \in Nat
  BY ConstantsAssumption DEF Dead
<1>3. \A s \in Server : /\ sinceBeat'[s] \in 0 .. Period + Poll
                        /\ sinceBeat[s] < Period + Poll => sinceBeat'[s] = sinceBeat[s] + 1
  BY <1>1, <1>2, OlderType DEF Safety, TypeOK
<1>4. \A s \in DOMAIN age : age'[s] \in 0 .. Dead /\ age'[s] <= age[s] + 1
  BY <1>1, <1>2, OlderType DEF Safety, TypeOK
<1>5. /\ sinceClean' \in 0 .. CleanGap
      /\ sinceClean < CleanGap => sinceClean' = sinceClean + 1
      /\ sinceClean' < CleanGap => sinceClean < CleanGap
  BY <1>1, <1>2, OlderType DEF Safety, TypeOK, Older
<1>6. \A s \in sending : sinceBeat'[s] <= MaxDelay /\ sinceBeat'[s] = sinceBeat[s] + 1
  <2> SUFFICES ASSUME NEW s \in sending
               PROVE  sinceBeat'[s] <= MaxDelay /\ sinceBeat'[s] = sinceBeat[s] + 1
    OBVIOUS
  <2>1. s \in Server /\ sinceBeat[s] \in Nat
    BY <1>2 DEF Safety, TypeOK
  <2>2. sinceBeat[s] < MaxDelay
    BY <1>1, <2>1 DEF OnTime
  <2> QED  BY <1>3, <2>1, <2>2, ConstantsAssumption
<1>7. TypeOK'
  BY <1>1, <1>3, <1>4, <1>5, <1>6 DEF Safety, TypeOK
<1>8. EntriesAreRecent'
  <2> SUFFICES ASSUME sinceClean' < CleanGap, NEW s \in DOMAIN age
               PROVE  age'[s] <= Limit + sinceClean'
    BY <1>1 DEF EntriesAreRecent
  <2>1. age[s] <= Limit + sinceClean /\ age[s] \in Nat
    BY <1>2, <1>5 DEF Safety, TypeOK, EntriesAreRecent
  <2>2. age'[s] <= age[s] + 1 /\ age'[s] \in Nat
    BY <1>2, <1>4
  <2> QED  BY <1>5, <2>1, <2>2, ConstantsAssumption DEF Safety, TypeOK
<1>9. EntriesFollowBeats'
  <2> SUFFICES ASSUME NEW s \in running \cap heard
               PROVE  /\ s \in DOMAIN age'
                      /\ age'[s] <= sinceBeat'[s]
                           + (IF s \in sending THEN Period + Poll ELSE 0)
    BY <1>1 DEF EntriesFollowBeats
  <2>1. s \in Server /\ sinceBeat[s] \in Nat
    BY <1>2 DEF Safety, TypeOK
  <2>2. sinceBeat'[s] = sinceBeat[s] + 1
    BY <1>1, <1>3, <1>6, <2>1 DEF OnTime
  <2>3. /\ s \in DOMAIN age /\ age[s] \in Nat
        /\ age[s] <= sinceBeat[s] + (IF s \in sending THEN Period + Poll ELSE 0)
    BY BeatsAreInTime DEF Safety, EntriesFollowBeats
  <2>4. age'[s] <= age[s] + 1 /\ age'[s] \in Nat
    BY <1>2, <1>4, <2>3
  <2> QED  BY <1>1, <1>2, <2>1, <2>2, <2>3, <2>4
<1> QED  BY <1>1, <1>7, <1>8, <1>9 DEF Safety, ShownServersAreFresh

\* The inductive invariant of the master server and those that send to it.
THEOREM TableIsSafe == Spec => []Safety
<1>1. Init => Safety
  BY InitSafety
<1>2. Safety /\ [Next]_vars => Safety'
  <2> SUFFICES ASSUME Safety, [Next]_vars PROVE Safety'
    OBVIOUS
  <2>1. CASE UNCHANGED vars
    BY <2>1 DEF vars, Safety, TypeOK, EntriesAreRecent, EntriesFollowBeats,
                ShownServersAreFresh
  <2> QED  BY <2>1, ServerSafety, HeartbeatSafety, ShowSafety, RestartSafety, TickSafety DEF Next
<1> QED  BY <1>1, <1>2, PTL DEF Spec

\* Every variable keeps its type: no age passes its bound, and no heartbeat is on its
\* way for longer than MaxDelay.
THEOREM TypeCorrect == Spec => []TypeOK
BY TableIsSafe, PTL DEF Safety

\* A game server whose heartbeats arrive never falls out of the table, if a period, a
\* poll and the way of a heartbeat take no longer than the limit.
THEOREM LiveServersStayAlways == Spec => []LiveServersStay
<1>1. Safety => LiveServersStay
  BY DEF Safety, EntriesFollowBeats, LiveServersStay
<1> QED  BY <1>1, TableIsSafe, PTL

\* No answer to a player, whether or not the request cleaned the table, holds an entry
\* older than limit and cleaning gap allow.
THEOREM ShownServersAreFreshAlways == Spec => []ShownServersAreFresh
BY TableIsSafe, PTL DEF Safety
=============================================================================
