------------------------ MODULE ServerBrowserProofs ------------------------
(***************************************************************************)
(* What TLAPS proves of ServerBrowser: the composition of menu and master  *)
(* server, for any number of game servers, ports and things to type.       *)
(***************************************************************************)
EXTENDS ServerBrowser, MasterServerProofs, FiniteSetTheorems

\* Between the test of the time and the request that follows it, an answer may come.
TestStands == pc = "request" => since = Gap \/ request \in {"stamped", "ready"}

IInv == BrowserTypeOK /\ TestStands

-----------------------------------------------------------------------------
(* The master server does not mind the menu *)

\* Each step of the composition is one of the master server's or leaves it alone.
LEMMA StepsOfMaster == [BrowserNext]_allVars => [Next]_vars
<1> SUFFICES ASSUME [BrowserNext]_allVars PROVE [Next]_vars
  OBVIOUS
<1>1. CASE World /\ UNCHANGED browserVars
  BY <1>1 DEF World, Heartbeats, Next
<1>2. CASE BrowserTick
  BY <1>2 DEF BrowserTick, Next
<1>3. CASE Fetch
  BY <1>3 DEF Fetch, Next
<1>4. CASE BeginFrame \/ Connect \/ TestGap \/ Request \/ FetchFails \/ Stamp \/ Fulfil
  BY <1>4 DEF BeginFrame, Connect, TestGap, Request, FetchFails, Stamp, Fulfil
<1>5. CASE UNCHANGED allVars
  BY <1>5 DEF allVars
<1> QED  BY <1>1, <1>2, <1>3, <1>4, <1>5 DEF BrowserNext

\* The composition implements the master server with its game servers, so that all that
\* is proved of the one holds of the other.
THEOREM BrowserUsesMaster == BrowserSpec => Spec
<1>1. BrowserInit => Init
  BY DEF BrowserInit
<1> QED  BY <1>1, StepsOfMaster, PTL DEF BrowserSpec, Spec

\* Live servers stay in the table, and no answer shows one that is long dead, however
\* often menus ask and whatever becomes of the answers.
THEOREM TableIsSafeBehindMenu == BrowserSpec => []LiveServersStay /\ []ShownServersAreFresh
BY BrowserUsesMaster, LiveServersStayAlways, ShownServersAreFreshAlways, PTL

-----------------------------------------------------------------------------
(* The list in the menu *)

\* Whatever order the table is sent in, it arrives as a list.
LEMMA AnswerIsListing ==
  ASSUME NEW D \in SUBSET Server,
         NEW l \in SetToSeqs({AddressOf(s) : s \in D})
  PROVE  l \in Listing
<1> DEFINE S == {AddressOf(s) : s \in D}
<1>1. IsFiniteSet(D)
  BY FS_Subset, BrowserAssumption
<1>2. IsFiniteSet(S)
  <2> DEFINE f == [s \in D |-> AddressOf(s)]
  <2>1. f \in Surjection(D, S)
    BY DEF Surjection
  <2> QED  BY <1>1, <2>1, FS_Surjection DEF ExistsSurjection
<1>3. Cardinality(S) \in Nat
  BY <1>2, FS_CardinalityType
<1>4. /\ l \in [1 .. Cardinality(S) -> S]
      /\ \A i, j \in 1 .. Cardinality(S) : i # j => l[i] # l[j]
  BY DEF SetToSeqs
<1>5. l \in Seq({AddressOf(s) : s \in Server})
  BY <1>3, <1>4
<1>6. IsInjective(l)
  BY <1>4 DEF IsInjective
<1> QED  BY <1>5, <1>6 DEF Listing

LEMMA EmptyIsListing == <<>> \in Listing
BY DEF Listing, IsInjective

LEMMA InitBrowser == BrowserInit => IInv
<1> SUFFICES ASSUME BrowserInit PROVE IInv
  OBVIOUS
<1>1. TypeOK
  BY InitSafety DEF BrowserInit, Safety
<1>2. Gap \in 0 .. Gap
  BY BrowserAssumption
<1> QED  BY <1>1, <1>2, EmptyIsListing DEF BrowserInit, IInv, BrowserTypeOK, TestStands

\* The steps of the menu and of the thread behind it.
LEMMA MenuStep ==
  ASSUME IInv, TypeOK',
         BeginFrame \/ Connect \/ TestGap \/ Request \/ FetchFails \/ Stamp \/ Fulfil
  PROVE  IInv'
<1> USE DEF IInv, BrowserTypeOK, TestStands, Listing
<1>1. CASE BeginFrame
  <2>1. servers' \in Listing
    BY <1>1, EmptyIsListing DEF BeginFrame, ReadAnswer
  <2> QED  BY <1>1, <2>1 DEF BeginFrame
<1>2. CASE Connect
  BY <1>2 DEF Connect
<1>3. CASE TestGap
  <2>1. pc' = "request" => since = Gap
    BY <1>3, BrowserAssumption DEF TestGap
  <2> QED  BY <1>3, <2>1 DEF TestGap
<1>4. CASE Request
  BY <1>4 DEF Request
<1>5. CASE FetchFails
  BY <1>5 DEF FetchFails
<1>6. CASE Stamp
  BY <1>6, BrowserAssumption DEF Stamp
<1>7. CASE Fulfil
  BY <1>7 DEF Fulfil
<1> QED  BY <1>1, <1>2, <1>3, <1>4, <1>5, <1>6, <1>7

LEMMA BrowserStep == IInv /\ TypeOK' /\ [BrowserNext]_allVars => IInv'
<1> SUFFICES ASSUME IInv, TypeOK', [BrowserNext]_allVars PROVE IInv'
  OBVIOUS
<1>1. CASE UNCHANGED browserVars
  BY <1>1 DEF browserVars, IInv, BrowserTypeOK, TestStands
<1>2. CASE BrowserTick
  <2>1. since' \in 0 .. Gap
    BY <1>2, BrowserAssumption DEF BrowserTick, Older, IInv, BrowserTypeOK
  <2> QED  BY <1>2, <2>1 DEF BrowserTick, IInv, BrowserTypeOK, TestStands
<1>3. CASE Fetch
  <2>1. DOMAIN age' \subseteq Server
    BY DEF TypeOK
  <2>2. answer' \in Listing
    BY <1>3, <2>1, AnswerIsListing DEF Fetch
  <2> QED  BY <1>3, <2>2 DEF Fetch, IInv, BrowserTypeOK, TestStands
<1> QED  BY <1>1, <1>2, <1>3, MenuStep DEF BrowserNext, allVars

LEMMA BrowserInvariant == BrowserSpec => []IInv
<1>1. BrowserSpec => []TypeOK
  BY BrowserUsesMaster, TypeCorrect, PTL
<1> QED  BY <1>1, InitBrowser, BrowserStep, PTL DEF BrowserSpec

-----------------------------------------------------------------------------
(* What validate_connection() does *)

\* An address that is not rejected is accepted as it has been corrected.
LEMMA CorrectedOnce ==
  ASSUME NEW in \in Address, in.ip \notin Malformed
  PROVE  Accepted(Validate(in))
<1> DEFINE p == IF servers = <<>> THEN DefaultPort ELSE Last(servers).port
<1>1. Validate(in) = in \/ Validate(in) = [in EXCEPT !.port = p]
  BY DEF Validate
<1>2. CASE Validate(in) = in
  BY <1>2 DEF Accepted
<1>3. CASE Validate(in) = [in EXCEPT !.port = p]
  <2> DEFINE c == [in EXCEPT !.port = p]
  <2>1. c.ip = in.ip /\ [c EXCEPT !.port = p] = c
    BY DEF Address
  <2>2. Validate(c) = c
    BY <2>1 DEF Validate
  <2> QED  BY <1>3, <2>2 DEF Accepted
<1> QED  BY <1>1, <1>2, <1>3

\* Two corrections are always enough.
LEMMA CorrectionsDoEnd == CorrectionsEnd
<1> SUFFICES ASSUME NEW in \in Address PROVE Accepted(Validate(Validate(in)))
  BY DEF CorrectionsEnd
<1>1. CASE in.ip \in Malformed
  <2>1. Validate(in) = DefaultAddress
    BY <1>1 DEF Validate
  <2>2. DefaultAddress \in Address /\ DefaultAddress.ip \notin Malformed
    BY BrowserAssumption DEF DefaultAddress, Address
  <2> QED  BY <2>1, <2>2, CorrectedOnce
<1>2. CASE in.ip \notin Malformed
  BY <1>2, CorrectedOnce DEF Accepted
<1> QED  BY <1>1, <1>2

\* The list is always one that the master server can have sent; every server in it is
\* accepted when it is typed in; and nobody who clicks "Connect" three times is refused.
THEOREM MenuIsSoundAlways == BrowserSpec => []MenuIsSound
<1>1. IInv => ListedServersAreAccepted
  <2> SUFFICES ASSUME IInv, NEW k \in DOMAIN servers PROVE Accepted(servers[k])
    BY DEF ListedServersAreAccepted
  <2>1. servers \in Seq({AddressOf(s) : s \in Server})
    BY DEF IInv, BrowserTypeOK, Listing
  <2>2. PICK s \in Server : servers[k] = AddressOf(s)
    BY <2>1
  <2>3. servers[k].ip \notin Malformed
    BY <2>2, BrowserAssumption DEF AddressOf
  <2>4. servers[k] \in Range(servers)
    BY DEF Range
  <2> QED  BY <2>3, <2>4 DEF Accepted, Validate
<1>2. IInv => MenuIsSound
  BY <1>1, CorrectionsDoEnd DEF IInv, MenuIsSound
<1> QED  BY <1>2, BrowserInvariant, PTL

\* However frames and answers fall together, requests keep their distance.
THEOREM RequestsAreSpacedAlways == BrowserSpec => RequestsAreSpaced
<1>1. IInv /\ [BrowserNext]_allVars =>
        [request # "sent" /\ request' = "sent" => since = Gap \/ request = "ready"]_allVars
  <2> SUFFICES ASSUME IInv, BrowserNext, request # "sent", request' = "sent"
               PROVE  since = Gap \/ request = "ready"
    OBVIOUS
  <2>1. Request
    BY DEF BrowserNext, BeginFrame, Connect, TestGap, Fetch, FetchFails, Stamp, Fulfil,
           BrowserTick, browserVars
  <2> QED  BY <2>1 DEF Request, IInv, TestStands
<1> QED  BY <1>1, BrowserInvariant, PTL DEF BrowserSpec, RequestsAreSpaced
=============================================================================
