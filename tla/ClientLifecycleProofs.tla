----------------------- MODULE ClientLifecycleProofs -----------------------
(***************************************************************************)
(* What TLAPS proves of ClientLifecycle, for any number of clients one     *)
(* after the other, whether or not the game presents from the thread that  *)
(* simulates.                                                              *)
(***************************************************************************)
EXTENDS ClientLifecycle, FiniteSetTheorems, TLAPS

LiveStates == {"connecting", "up", "down", "dying"}

\* One thread is in the mod at a time.
Alone == \A t \in Thread : at[t] = "idle" \/ at[Other(t)] = "idle"

\* What m_client points to is a client whose constructor has returned.
Pointer == ptr # None => life[ptr] \in {"up", "down"}

\* What a thread has in hand, for the place it is at.
InHand(t) ==
  /\ at[t] \in Free \cup {"assigned"} => obj[t] = None
  /\ at[t] \in {"draw", "check", "disconnect", "think", "thinking", "null"} => obj[t] = ptr
  /\ at[t] \in {"delete", "assign"} =>
       ptr = None /\ obj[t] \in Client /\ life[obj[t]] \in {"up", "down"}
  /\ at[t] = "dying" => ptr = None /\ obj[t] \in Client /\ life[obj[t]] = "dying"
  /\ at[t] = "connecting" =>
       /\ ptr = None
       /\ obj[t] # None => life[obj[t]] = "connecting"

\* Where there must be a client: the game resets none without one.
Needed == at["game"] \in {"reset", "null"} \/ at["ui"] = "assigned" => ptr # None

\* The menu alone makes clients.
Maker == at["game"] \notin {"connecting", "assign", "assigned"}

\* No client is forgotten.
Owned == \A c \in Client : life[c] \in LiveStates => c = ptr \/ \E t \in Thread : obj[t] = c

Sound == Pointer /\ (\A t \in Thread : InHand(t)) /\ Needed /\ Maker /\ Owned

IInv == /\ TypeOK
        /\ together => Alone /\ ~Race
        /\ ~Race => Sound

-----------------------------------------------------------------------------

LEMMA InitInv == Init => IInv
BY LifecycleAssumption DEF Init, IInv, TypeOK, Alone, Race, Overlap, Resetting, Sound, Pointer,
   InHand, Needed, Maker, Owned, LiveStates, Thread, Other, Free, Using, Facts

\* A step leaves the other thread where it is, and keeps what has raced in mind.
OtherStays(t) == May(t) /\ at'[Other(t)] = at[Other(t)]

LEMMA GoStep ==
  ASSUME TypeOK, NEW t \in Thread, NEW from, NEW to, Go(t, from, to)
  PROVE  Watch /\ OtherStays(t)
BY DEF TypeOK, Go, OtherStays, Thread, Other

LEMMA StepOfOne ==
  ASSUME TypeOK, Next
  PROVE  Watch /\ (at' = at \/ \E t \in Thread : OtherStays(t))
<1>0. "ui" \in Thread /\ "game" \in Thread
  BY DEF Thread
<1>1. CASE Menu
  BY <1>0, <1>1, GoStep DEF Menu, ClickConnect, ClickDisconnect, BeginDraw, EndDraw
<1>2. CASE Construction \/ GiveUpConnecting
  <2>1. CASE BeginConnecting
    BY <2>1 DEF BeginConnecting
  <2> QED  BY <1>0, <1>2, <2>1, GoStep DEF Construction, ConnectFails, OnConnect, Assign,
              ReadAssigned, CheckConnected, GiveUpConnecting
<1>3. CASE \E t \in Thread : Reset(t)
  BY <1>3, GoStep DEF Reset, ReadOld, NullPointer, BeginDelete, EndDelete
<1>4. CASE Think
  BY <1>0, <1>4, GoStep DEF Think, ThinkDestroys, ThinkDisconnects, ThinkClears, BeginThink,
              LockThink, EndThink
<1>5. CASE World \/ LinkBreaks
  BY <1>5 DEF World, LinkBreaks
<1> QED  BY <1>1, <1>2, <1>3, <1>4, <1>5 DEF Next

\* What has raced has raced.
LEMMA RaceStays == Watch /\ ~Race' => ~Race
BY DEF Watch, Race

\* One thread alone does not race.
LEMMA TogetherStep ==
  ASSUME IInv, Next, together'
  PROVE  (Alone /\ ~Race)'
<1>1. Watch /\ together /\ Alone /\ ~Race
  BY StepOfOne DEF Watch, IInv
<1>2. Alone'
  BY <1>1, StepOfOne DEF IInv, TypeOK, Alone, OtherStays, May, Other, Thread
<1>3. ~Overlap'
  BY <1>2 DEF Alone, Overlap, Resetting, Thread, Other
<1> QED  BY <1>1, <1>2, <1>3 DEF Watch, Race

\* After a race a thread may hold what is gone, but every variable keeps its type.
LEMMA TypeStep ==
  ASSUME TypeOK, Next
  PROVE  TypeOK'
<1> USE LifecycleAssumption DEF TypeOK, Thread, Free, Using, Facts, Go, Watch, Race
<1>1. ASSUME NEW t \in Thread, Reset(t) PROVE TypeOK'
  <2>1. CASE ReadOld(t)
    BY <2>1 DEF ReadOld, Take
  <2>2. CASE NullPointer(t)
    BY <2>2 DEF NullPointer, AfterReset
  <2>3. CASE BeginDelete(t)
    BY <2>3 DEF BeginDelete, Lock, Live
  <2>4. CASE EndDelete(t)
    BY <2>4 DEF EndDelete, Unlock, Live, Take, AfterReset
  <2> QED  BY <1>1, <2>1, <2>2, <2>3, <2>4 DEF Reset
<1>2. CASE Menu
  <2>1. CASE ClickConnect \/ ClickDisconnect
    BY <2>1 DEF ClickConnect, ClickDisconnect
  <2>2. CASE BeginDraw
    BY <2>2 DEF BeginDraw, Take
  <2>3. CASE EndDraw
    BY <2>3 DEF EndDraw, Take
  <2> QED  BY <1>2, <2>1, <2>2, <2>3 DEF Menu
<1>3. CASE Construction
  <2>1. CASE BeginConnecting
    <3>1. PICK c \in Client : life' = [life EXCEPT ![c] = "connecting"]
                             /\ mtx' = [mtx EXCEPT ![c] = "ui"]
                             /\ obj' = [obj EXCEPT !["ui"] = c]
      BY <2>1 DEF BeginConnecting, Take
    <3>2. /\ renewing' = FALSE /\ at["ui"] = "connecting" /\ raced' = (raced \/ Overlap)
          /\ UNCHANGED <<ptr, wants, at, world, together, unwanted>>
      BY <2>1 DEF BeginConnecting
    <3>3. raced' \in BOOLEAN
      BY <3>2 DEF Overlap
    <3> QED  BY <3>1, <3>2, <3>3
  <2>2. CASE ConnectFails
    BY <2>2 DEF ConnectFails, Constructing, Live
  <2>3. CASE OnConnect
    <3>1. obj["ui"] \in Client
      BY <2>3 DEF OnConnect, Constructing
    <3>2. wants' \in BOOLEAN /\ unwanted' \subseteq Client
      BY <2>3, <3>1 DEF OnConnect
    <3> QED  BY <2>3, <3>1, <3>2 DEF OnConnect, Live
  <2>4. CASE Assign
    BY <2>4 DEF Assign, Unlock, Take
  <2>5. CASE ReadAssigned
    BY <2>5 DEF ReadAssigned, Take
  <2>6. CASE CheckConnected
    BY <2>6 DEF CheckConnected, Take
  <2> QED  BY <1>3, <2>1, <2>2, <2>3, <2>4, <2>5, <2>6 DEF Construction
<1>4. CASE GiveUpConnecting
  BY <1>4 DEF GiveUpConnecting
<1>5. CASE Think
  <2>1. CASE ThinkDestroys
    BY <2>1 DEF ThinkDestroys, Take
  <2>2. CASE ThinkDisconnects
    BY <2>2 DEF ThinkDisconnects, Take
  <2>3. CASE ThinkClears
    BY <2>3 DEF ThinkClears
  <2>4. CASE BeginThink
    BY <2>4 DEF BeginThink, Take
  <2>5. CASE LockThink
    BY <2>5 DEF LockThink, Lock
  <2>6. CASE EndThink
    BY <2>6 DEF EndThink, Unlock, Take
  <2> QED  BY <1>5, <2>1, <2>2, <2>3, <2>4, <2>5, <2>6 DEF Think
<1>6. CASE World \/ LinkBreaks
  BY <1>6 DEF World, LinkBreaks
<1> QED  BY <1>1, <1>2, <1>3, <1>4, <1>5, <1>6 DEF Next

-----------------------------------------------------------------------------
(* While nothing has raced *)

\* What the lemmas below may use: a client that is reset is reset alone.
ResetAlone == \A t \in Thread : Resetting(t) => at[Other(t)] = "idle"

LEMMA NoRace == ~Race => ResetAlone
BY DEF Race, Overlap, ResetAlone

\* While the menu makes a client, the game's thread has none.
LEMMA GameHasNone ==
  ASSUME TypeOK, Sound, ResetAlone, at["ui"] \in {"connecting", "assign"}
  PROVE  /\ ptr = None
         /\ at["game"] \in {"idle", "clear"} /\ obj["game"] = None
<1>1. ptr = None
  BY DEF Sound, InHand, Thread
<1>2. ~Resetting("game")
  BY DEF ResetAlone, Thread, Other
<1>3. at["game"] \notin {"reset", "null", "connecting", "assign", "assigned", "dying", "delete"}
  BY <1>1, <1>2, LifecycleAssumption DEF TypeOK, Sound, Needed, Maker, InHand, Resetting, Thread
<1> QED  BY <1>1, <1>3, LifecycleAssumption
         DEF TypeOK, Sound, InHand, Thread, Free, Using

LEMMA ResetStep ==
  ASSUME TypeOK, Sound, ResetAlone, NEW t \in Thread, Reset(t)
  PROVE  Sound'
<1> USE LifecycleAssumption
    DEF TypeOK, Sound, Thread, Other, Free, Using, Facts, Go, Watch, Race, ResetAlone, Resetting
<1>1. CASE ReadOld(t)
  BY <1>1 DEF ReadOld, Take, Pointer, InHand, Needed, Maker, Owned, LiveStates
<1>2. CASE NullPointer(t)
  BY <1>2 DEF NullPointer, AfterReset, Pointer, InHand, Needed, Maker, Owned, LiveStates
<1>3. CASE BeginDelete(t)
  BY <1>3 DEF BeginDelete, Lock, Live, Pointer, InHand, Needed, Maker, Owned, LiveStates
<1>4. CASE EndDelete(t)
  BY <1>4 DEF EndDelete, Unlock, Live, Take, AfterReset, Pointer, InHand, Needed, Maker,
              Owned, LiveStates
<1> QED  BY <1>1, <1>2, <1>3, <1>4 DEF Reset

LEMMA MenuStep ==
  ASSUME TypeOK, Sound, ResetAlone, Menu \/ GiveUpConnecting
  PROVE  Sound'
<1> USE LifecycleAssumption
    DEF TypeOK, Sound, Thread, Other, Free, Using, Facts, Go, Watch, Race
<1>1. CASE ClickConnect
  BY <1>1 DEF ClickConnect, Pointer, InHand, Needed, Maker, Owned, LiveStates
<1>2. CASE ClickDisconnect
  BY <1>2 DEF ClickDisconnect, Pointer, InHand, Needed, Maker, Owned, LiveStates
<1>3. CASE BeginDraw
  BY <1>3 DEF BeginDraw, Take, Pointer, InHand, Needed, Maker, Owned, LiveStates
<1>4. CASE EndDraw
  BY <1>4 DEF EndDraw, Take, Pointer, InHand, Needed, Maker, Owned, LiveStates
<1>5. CASE GiveUpConnecting
  BY <1>5 DEF GiveUpConnecting, Pointer, InHand, Needed, Maker, Owned, LiveStates
<1> QED  BY <1>1, <1>2, <1>3, <1>4, <1>5 DEF Menu

LEMMA ConstructionStep ==
  ASSUME TypeOK, Sound, ResetAlone, Construction
  PROVE  Sound'
<1> USE LifecycleAssumption
    DEF TypeOK, Sound, Thread, Other, Free, Using, Facts, Go, Watch, Race
<1>1. CASE BeginConnecting
  <2>1. PICK c \in Client :
          /\ life[c] = "unborn" /\ at["ui"] = "connecting" /\ obj["ui"] = None
          /\ obj' = [obj EXCEPT !["ui"] = c]
          /\ life' = [life EXCEPT ![c] = "connecting"]
          /\ mtx' = [mtx EXCEPT ![c] = "ui"]
          /\ UNCHANGED <<ptr, wants, at, world, together, unwanted>>
          /\ renewing' = FALSE /\ raced' \in BOOLEAN
    BY <1>1 DEF BeginConnecting, Take
  <2>2. Pointer' /\ Needed' /\ Maker' /\ Owned'
    BY <2>1 DEF Pointer, Needed, Maker, Owned, LiveStates
  <2>3. (\A t \in Thread : InHand(t))'
    BY <2>1 DEF InHand, Pointer
  <2> QED  BY <2>2, <2>3
<1>2. CASE ConnectFails
  <2>1. ptr = None /\ at["game"] \in {"idle", "clear"} /\ obj["game"] = None
    BY <1>2, GameHasNone DEF ConnectFails
  <2> QED  BY <1>2, <2>1
           DEF ConnectFails, Constructing, Live, Pointer, InHand, Needed, Maker, Owned, LiveStates
<1>3. CASE OnConnect
  <2>1. /\ obj["ui"] \in Client /\ life[obj["ui"]] = "connecting"
        /\ at["ui"] = "connecting" /\ at' = [at EXCEPT !["ui"] = "assign"]
        /\ life' = [life EXCEPT ![obj["ui"]] = "up"]
        /\ UNCHANGED <<ptr, obj>>
    BY <1>3 DEF OnConnect, Constructing, Live
  <2>2. ptr = None /\ at["game"] \in {"idle", "clear"} /\ obj["game"] = None
    BY <2>1, GameHasNone
  <2>3. Pointer' /\ Needed' /\ Maker' /\ Owned'
    BY <2>1, <2>2 DEF Pointer, Needed, Maker, Owned, LiveStates
  <2>4. (\A t \in Thread : InHand(t))'
    BY <2>1, <2>2 DEF InHand
  <2> QED  BY <2>3, <2>4
<1>4. CASE Assign
  <2>1. ptr = None /\ at["game"] \in {"idle", "clear"} /\ obj["game"] = None
    BY <1>4, GameHasNone DEF Assign
  <2> QED  BY <1>4, <2>1
           DEF Assign, Unlock, Take, Pointer, InHand, Needed, Maker, Owned, LiveStates
<1>5. CASE ReadAssigned
  BY <1>5 DEF ReadAssigned, Take, Pointer, InHand, Needed, Maker, Owned, LiveStates
<1>6. CASE CheckConnected
  BY <1>6 DEF CheckConnected, Take, Pointer, InHand, Needed, Maker, Owned, LiveStates
<1> QED  BY <1>1, <1>2, <1>3, <1>4, <1>5, <1>6 DEF Construction

LEMMA ThinkStep ==
  ASSUME TypeOK, Sound, ResetAlone, Think
  PROVE  Sound'
<1> USE LifecycleAssumption
    DEF TypeOK, Sound, Thread, Other, Free, Using, Facts, Go, Watch, Race
<1>1. CASE ThinkDestroys
  BY <1>1 DEF ThinkDestroys, Take, Pointer, InHand, Needed, Maker, Owned, LiveStates
<1>2. CASE ThinkDisconnects
  BY <1>2 DEF ThinkDisconnects, Take, Pointer, InHand, Needed, Maker, Owned, LiveStates
<1>3. CASE ThinkClears
  BY <1>3 DEF ThinkClears, Pointer, InHand, Needed, Maker, Owned, LiveStates
<1>4. CASE BeginThink
  BY <1>4 DEF BeginThink, Take, Pointer, InHand, Needed, Maker, Owned, LiveStates
<1>5. CASE LockThink
  BY <1>5 DEF LockThink, Lock, Pointer, InHand, Needed, Maker, Owned, LiveStates
<1>6. CASE EndThink
  BY <1>6 DEF EndThink, Unlock, Take, Pointer, InHand, Needed, Maker, Owned, LiveStates
<1> QED  BY <1>1, <1>2, <1>3, <1>4, <1>5, <1>6 DEF Think

LEMMA OutsideStep ==
  ASSUME TypeOK, Sound, World \/ LinkBreaks
  PROVE  Sound'
<1> USE LifecycleAssumption
    DEF TypeOK, Sound, Thread, Other, Free, Using, Facts, Watch, Race, Pointer, InHand, Needed,
        Maker, Owned, LiveStates
<1>1. CASE World
  BY <1>1 DEF World
<1>2. CASE LinkBreaks
  BY <1>2 DEF LinkBreaks
<1> QED  BY <1>1, <1>2

LEMMA NextInv == IInv /\ [Next]_vars => IInv'
<1> SUFFICES ASSUME IInv, [Next]_vars PROVE IInv'
  OBVIOUS
<1>1. CASE UNCHANGED vars
  BY <1>1 DEF vars, IInv, TypeOK, Alone, Race, Overlap, Resetting, Sound, Pointer, InHand,
              Needed, Maker, Owned
<1>2. CASE Next
  <2>1. TypeOK'
    BY <1>2, TypeStep DEF IInv
  <2>2. together' => (Alone /\ ~Race)'
    BY <1>2, TogetherStep
  <2>3. ASSUME ~Race' PROVE Sound'
    <3>1. TypeOK /\ Sound /\ ResetAlone
      BY <1>2, <2>3, StepOfOne, RaceStays, NoRace DEF IInv
    <3> QED  BY <1>2, <3>1, ResetStep, MenuStep, ConstructionStep, ThinkStep, OutsideStep
             DEF Next
  <2> QED  BY <2>1, <2>2, <2>3 DEF IInv
<1> QED  BY <1>1, <1>2

-----------------------------------------------------------------------------

\* What owns a client owns no second one.
LEMMA OneOwner ==
  ASSUME TypeOK, Sound, ResetAlone
  PROVE  OneClientAtATime
<1> DEFINE S == {c \in Client : life[c] \in LiveStates}
<1>1. ASSUME NEW t \in Thread, obj[t] # None, obj[t] # ptr PROVE obj[Other(t)] \in {None, ptr}
  <2>1. at[t] \in {"null", "delete", "dying", "connecting", "assign"}
    BY <1>1 DEF TypeOK, Sound, InHand, Free, Using
  <2>2. CASE at[t] \in {"null", "delete", "dying"}
    <3>1. at[Other(t)] = "idle"
      BY <1>1, <2>2 DEF ResetAlone, Resetting
    <3> QED  BY <3>1 DEF Sound, InHand, Free, Thread, Other
  <2>3. CASE at[t] \in {"connecting", "assign"}
    BY <2>3, GameHasNone, LifecycleAssumption DEF TypeOK, Sound, Maker, InHand, Thread, Other
  <2> QED  BY <2>1, <2>2, <2>3
<1>2. ASSUME NEW t \in Thread, obj[t] # None, obj[t] # ptr, life[obj[t]] \in LiveStates
      PROVE  ptr = None
  BY <1>2 DEF TypeOK, Sound, InHand, Free, Using
<1>3. \A c, d \in S : c = d
  BY <1>1, <1>2, LifecycleAssumption DEF Sound, Owned, Thread, Other
<1> HIDE DEF S
<1>4. ASSUME S = {} PROVE Cardinality(S) <= 1
  BY <1>4, FS_EmptySet
<1>5. ASSUME S # {} PROVE Cardinality(S) <= 1
  <2>1. PICK c \in S : TRUE
    BY <1>5
  <2>2. S = {c}
    BY <1>3, <2>1
  <2>3. Cardinality({c}) = 1
    BY FS_Singleton
  <2> QED  BY <2>2, <2>3
<1>6. Cardinality(S) <= 1
  BY <1>4, <1>5
<1> QED  BY <1>6 DEF S, OneClientAtATime, LiveStates

\* Whether or not the game presents from the thread that simulates: as long as no thread
\* resets a client while the other is in the mod, nobody is in a function of a client
\* that is gone or deletes one a second time, clients follow one another, and the menu
\* finds the one it has made; a single thread never does.
THEOREM OnlyResetsRaceAlways == Spec => []OnlyResetsRace
<1>1. IInv => OnlyResetsRace
  <2> SUFFICES ASSUME IInv PROVE OnlyResetsRace
    OBVIOUS
  <2>1. TypeOK /\ (together => ~Race)
    BY DEF IInv
  <2>2. ASSUME ~Race
        PROVE  UsedClientLives /\ OneClientAtATime /\ (at["ui"] = "assigned" => ptr # None)
    <3>1. Sound /\ ResetAlone
      BY <2>2, NoRace DEF IInv
    <3>2. UsedClientLives
      BY <2>1, <3>1, LifecycleAssumption
         DEF TypeOK, Sound, InHand, Pointer, UsedClientLives, Using
    <3> QED  BY <2>1, <3>1, <3>2, OneOwner DEF Sound, Needed
  <2> QED  BY <2>1, <2>2 DEF OnlyResetsRace
<1> QED  BY <1>1, InitInv, NextInv, PTL DEF Spec
=============================================================================
