------------------------- MODULE HookMonitorProofs -------------------------
(***************************************************************************)
(* Proofs about HookMonitor, for all limits, periods and budgets:          *)
(*                                                                         *)
(*   HooksTypeCorrect         the types (TypeInv)                          *)
(*   TablesAreSoundAlways     flags and tables (HooksFit), window and test *)
(*                            messages (WindowFits)                        *)
(*   NothingReplacesInPresent at most one activation (AloneInPresent)      *)
(*   RehooksAreNoAccident     the last chance is waited for (Patient)      *)
(*   OutagesAreBounded        the polls that are still to go (Outage)      *)
(*                                                                         *)
(* What the model does to a vtable it does by operators on tables, so the  *)
(* proofs are first about any table (Attempt, GivenUp) and then about      *)
(* states.                                                                 *)
(***************************************************************************)
EXTENDS HookMonitor, FiniteSetTheorems, SequenceTheorems, TLAPS

-----------------------------------------------------------------------------
(* The types of the state, and what the operators of the model return *)

HookType == [hooked : BOOLEAN, patched : BOOLEAN, below : Proc, id : 0 .. 1]
TableType == [slot : Proc, is : SUBSET Renderer, loads : BOOLEAN,
              hook : [Renderer -> HookType]]
CallType == [by : Renderer, id : 0 .. 1, original : Proc, called : BOOLEAN]
InitType == [first : BOOLEAN, frames : 0 .. InitFrames, done : BOOLEAN]
WindowType == [top : {"game", "ours", "other"}, hooked : BOOLEAN,
               below : {"game", "other"}, otherBelow : {"game", "ours"},
               forwards : BOOLEAN]
MonType == [present : -Limit .. Limit + 1, message : -Limit .. Limit + 1,
            chance : -Chance .. Chance + 1, send : 0 .. Chance + 1,
            lastChance : BOOLEAN, sent : BOOLEAN]

LEMMA Numbers ==
  /\ Limit \in Nat /\ Limit > 0 /\ Chance \in Nat /\ Chance > 0 /\ Chance < Limit
  /\ InitFrames \in Nat /\ InitFrames > 0 /\ MaxLate \in Nat
  /\ MaxStall \in Nat /\ MaxStall <= Chance
  /\ Patience = 4 * Limit + 2 * Chance + 3 /\ Patience \in Nat
  BY MonitorAssumption DEF Patience

LEMMA TypeParts ==
  TypeOK <=> /\ d3d \in TableType
             /\ calls \in Seq(CallType)
             /\ init \in InitType
             /\ window \in WindowType
             /\ mon \in MonType
             /\ requested \in BOOLEAN
             /\ due \in 0 .. MaxLate + 1
             /\ left \in [Mishap -> Nat]
             /\ quiet \in 0 .. Chance + 1
             /\ untried \in 0 .. Patience + 1
  BY DEF TypeOK, TableType, HookType, CallType, InitType, WindowType, MonType

\* The same of the state a step leads to.
LEMMA TypePartsNext ==
  TypeOK' <=> /\ d3d' \in TableType
              /\ calls' \in Seq(CallType)
              /\ init' \in InitType
              /\ window' \in WindowType
              /\ mon' \in MonType
              /\ requested' \in BOOLEAN
              /\ due' \in 0 .. MaxLate + 1
              /\ left' \in [Mishap -> Nat]
              /\ quiet' \in 0 .. Chance + 1
              /\ untried' \in 0 .. Patience + 1
  BY DEF TypeOK, TableType, HookType, CallType, InitType, WindowType, MonType

\* PointerHook::remove() changes the entry of the vtable and nothing else.
LEMMA RemovedTable ==
  ASSUME NEW s \in TableType, NEW h \in Renderer
  PROVE  /\ Removed(s, h) \in TableType
         /\ Removed(s, h).is = s.is /\ Removed(s, h).loads = s.loads
         /\ Removed(s, h).hook = s.hook
         /\ Removed(s, h).slot = IF s.hook[h].patched /\ s.slot = h
                                 THEN s.hook[h].below ELSE s.slot
<1> USE DEF TableType, HookType, Removed
<1>1. s.hook[h].below \in Proc
  OBVIOUS
<1>2. CASE s.hook[h].patched /\ s.slot = h
  BY <1>1, <1>2
<1>3. CASE ~ (s.hook[h].patched /\ s.slot = h)
  BY <1>3
<1> QED  BY <1>2, <1>3

\* One hook is written anew: the other one and everything else stay.
LEMMA OneHook ==
  ASSUME NEW s \in TableType, NEW h \in Renderer, NEW v \in HookType
  PROVE  /\ [s EXCEPT !.hook[h] = v] \in TableType
         /\ [s EXCEPT !.hook[h] = v].slot = s.slot
         /\ [s EXCEPT !.hook[h] = v].is = s.is /\ [s EXCEPT !.hook[h] = v].loads = s.loads
         /\ [s EXCEPT !.hook[h] = v].hook[h] = v
         /\ \A o \in Renderer \ {h} : [s EXCEPT !.hook[h] = v].hook[o] = s.hook[o]
  BY DEF TableType

LEMMA UnhookedTable ==
  ASSUME NEW s \in TableType, NEW h \in Renderer
  PROVE  /\ Unhooked(s, h) \in TableType
         /\ Unhooked(s, h).is = s.is /\ Unhooked(s, h).loads = s.loads
         /\ Unhooked(s, h).hook[h] = [s.hook[h] EXCEPT !.hooked = FALSE]
         /\ \A o \in Renderer \ {h} : Unhooked(s, h).hook[o] = s.hook[o]
         /\ Unhooked(s, h).slot = IF s.hook[h].hooked /\ s.hook[h].patched /\ s.slot = h
                                  THEN s.hook[h].below ELSE s.slot
<1>1. CASE ~ s.hook[h].hooked
  BY <1>1 DEF Unhooked, TableType, HookType
<1>2. CASE s.hook[h].hooked
  <2> DEFINE r == Removed(s, h)
             v == [s.hook[h] EXCEPT !.hooked = FALSE]
  <2>1. v \in HookType
    BY DEF TableType, HookType
  <2>2. /\ r \in TableType /\ r.is = s.is /\ r.loads = s.loads /\ r.hook = s.hook
        /\ r.slot = IF s.hook[h].patched /\ s.slot = h THEN s.hook[h].below ELSE s.slot
    BY RemovedTable
  <2>3. Unhooked(s, h) = [r EXCEPT !.hook[h] = v]
    BY <1>2, <2>2 DEF Unhooked, TableType, HookType
  <2> HIDE DEF r, v
  <2>4. v = [s.hook[h] EXCEPT !.hooked = FALSE]
    BY DEF v
  <2>5. /\ Unhooked(s, h) \in TableType /\ Unhooked(s, h).slot = r.slot
        /\ Unhooked(s, h).is = r.is /\ Unhooked(s, h).loads = r.loads
        /\ Unhooked(s, h).hook[h] = v
        /\ \A o \in Renderer \ {h} : Unhooked(s, h).hook[o] = r.hook[o]
    BY <2>1, <2>2, <2>3, OneHook
  <2> QED  BY <1>2, <2>2, <2>4, <2>5
<1> QED  BY <1>1, <1>2

\* What a new hook object starts from.
Fresh(id) == [hooked |-> FALSE, patched |-> FALSE, below |-> "game", id |-> 1 - id]

LEMMA RenewedTable ==
  ASSUME NEW s \in TableType, NEW h \in Renderer
  PROVE  /\ Renewed(s, h) \in TableType
         /\ Renewed(s, h).is = s.is /\ Renewed(s, h).loads = s.loads
         /\ Renewed(s, h).hook[h] = Fresh(s.hook[h].id)
         /\ \A o \in Renderer \ {h} : Renewed(s, h).hook[o] = s.hook[o]
         /\ s.hook[h].patched /\ s.slot = h /\ s.hook[h].below # h
              => Renewed(s, h).slot = s.hook[h].below
         /\ ~ s.hook[h].patched \/ s.slot # h => Renewed(s, h).slot = s.slot
<1> DEFINE u == Unhooked(s, h)
           r == Removed(u, h)
           v == Fresh(s.hook[h].id)
<1>1. /\ u \in TableType /\ u.is = s.is /\ u.loads = s.loads
      /\ u.hook[h] = [s.hook[h] EXCEPT !.hooked = FALSE]
      /\ \A o \in Renderer \ {h} : u.hook[o] = s.hook[o]
      /\ u.slot = IF s.hook[h].hooked /\ s.hook[h].patched /\ s.slot = h
                  THEN s.hook[h].below ELSE s.slot
  BY UnhookedTable
<1>2. Renewed(s, h) = [r EXCEPT !.hook[h] = v]
  BY DEF Renewed, Fresh
<1> HIDE DEF u
<1>3. /\ r \in TableType /\ r.is = u.is /\ r.loads = u.loads /\ r.hook = u.hook
      /\ r.slot = IF u.hook[h].patched /\ u.slot = h THEN u.hook[h].below ELSE u.slot
  BY <1>1, RemovedTable
<1>4. v \in HookType
  BY DEF Fresh, TableType, HookType, Proc
<1>5. u.hook[h].patched = s.hook[h].patched /\ u.hook[h].below = s.hook[h].below
  BY <1>1 DEF TableType, HookType
<1> HIDE DEF r, v
<1>6. v = Fresh(s.hook[h].id)
  BY DEF v
<1>7. /\ Renewed(s, h) \in TableType /\ Renewed(s, h).slot = r.slot
      /\ Renewed(s, h).is = r.is /\ Renewed(s, h).loads = r.loads
      /\ Renewed(s, h).hook[h] = v
      /\ \A o \in Renderer \ {h} : Renewed(s, h).hook[o] = r.hook[o]
  BY <1>2, <1>3, <1>4, OneHook
<1>8. s.hook[h].patched /\ s.slot = h /\ s.hook[h].below # h => r.slot = s.hook[h].below
  BY <1>1, <1>3, <1>5
<1>9. ~ s.hook[h].patched \/ s.slot # h => r.slot = s.slot
  BY <1>1, <1>3, <1>5
<1> QED  BY <1>1, <1>3, <1>6, <1>7, <1>8, <1>9

LEMMA InstalledTable ==
  ASSUME NEW s \in TableType, NEW h \in Renderer, NEW out
  PROVE  /\ Installed(s, h, out) \in TableType
         /\ Installed(s, h, out).is = s.is /\ Installed(s, h, out).loads = s.loads
         /\ out = "fails" => Installed(s, h, out) = s
         /\ out # "fails" =>
              /\ Installed(s, h, out).slot = h
              /\ Installed(s, h, out).hook[h].hooked <=> out = "hooked"
              /\ Installed(s, h, out).hook[h].patched
              /\ Installed(s, h, out).hook[h].below = s.slot
              /\ Installed(s, h, out).hook[h].id = s.hook[h].id
              /\ \A o \in Renderer \ {h} : Installed(s, h, out).hook[o] = s.hook[o]
<1>1. CASE out = "fails"
  BY <1>1 DEF Installed
<1>2. CASE out # "fails"
  <2> DEFINE v == [hooked |-> (out = "hooked"), patched |-> TRUE,
                   below |-> s.slot, id |-> s.hook[h].id]
             r == [s EXCEPT !.slot = h]
  <2>1. v \in HookType
    BY DEF TableType, HookType
  <2>2. /\ r \in TableType /\ r.slot = h /\ r.is = s.is /\ r.loads = s.loads
        /\ r.hook = s.hook
    BY DEF TableType, Proc
  <2>3. Installed(s, h, out) = [s EXCEPT !.slot = h, !.hook[h] = v]
    BY <1>2 DEF Installed
  <2>5. Installed(s, h, out) = [r EXCEPT !.hook[h] = v]
    BY <2>3 DEF TableType
  <2> HIDE DEF r
  <2>6. (v.hooked <=> out = "hooked") /\ v.patched /\ v.below = s.slot /\ v.id = s.hook[h].id
    OBVIOUS
  <2> HIDE DEF v
  <2>7. /\ Installed(s, h, out) \in TableType
        /\ Installed(s, h, out).is = r.is /\ Installed(s, h, out).loads = r.loads
        /\ Installed(s, h, out).slot = r.slot
        /\ Installed(s, h, out).hook[h] = v
        /\ \A o \in Renderer \ {h} : Installed(s, h, out).hook[o] = r.hook[o]
    BY <2>1, <2>2, <2>5, OneHook
  <2> QED  BY <1>2, <2>2, <2>6, <2>7
<1> QED  BY <1>1, <1>2

-----------------------------------------------------------------------------
(* What keeps the two hooks sound: who is in the vtable and what he covers.  *)
(* k is what is left of the budget for hooks that are half installed.        *)

\* The flags say which hook is hooked as a whole, and that is one at most.
FlagsFit(s) == /\ \A h \in Renderer : s.hook[h].hooked <=> h \in s.is
               /\ s.is # Renderer
               /\ ~ s.loads => "d3d12" \notin s.is

\* A hook in the vtable covers the game's Present, or the other hook when that was
\* left half installed and nobody goes by it.
SlotFits(s, k) ==
  \A h \in Renderer : s.slot = h =>
     /\ s.hook[h].patched
     /\ \/ s.hook[h].below = "game" /\ (s.hook[h].hooked \/ k = 0)
        \/ /\ s.hook[h].below = OtherOf(h) /\ s.hook[h].hooked /\ k = 0
           /\ s.hook[OtherOf(h)].patched /\ ~ s.hook[OtherOf(h)].hooked
           /\ s.hook[OtherOf(h)].below = "game"

Sound(s, k) == FlagsFit(s) /\ SlotFits(s, k)

\* What an attempt that may be left half installed costs.
Costs(res, k, k2) == IF res = "partial" THEN k = 1 /\ k2 = 0 ELSE k2 = k

\* The flags are written alone.
WithFlags(s, f) == [s EXCEPT !.is = f]

LEMMA Flagged ==
  ASSUME NEW s \in TableType, NEW f \in SUBSET Renderer
  PROVE  /\ WithFlags(s, f) \in TableType
         /\ WithFlags(s, f).is = f
         /\ WithFlags(s, f).slot = s.slot /\ WithFlags(s, f).loads = s.loads
         /\ WithFlags(s, f).hook = s.hook
  BY DEF TableType, WithFlags

\* A hook that is given up, and one that is tried, with the flag that goes with it.
GivenUp(s, h) == WithFlags(Unhooked(s, h), Unhooked(s, h).is \ {h})
Attempt(s, h, res) ==
  LET t == Installed(Renewed(s, h), h, res)
  IN  IF res = "hooked" THEN WithFlags(t, t.is \cup {h}) ELSE GivenUp(t, h)

LEMMA Renderers ==
  /\ Renderer = {"d3d11", "d3d12"} /\ "game" \notin Renderer /\ "game" # "d3d11"
  /\ \A h \in Renderer : OtherOf(h) \in Renderer /\ OtherOf(h) # h /\ OtherOf(OtherOf(h)) = h
  /\ \A h \in Renderer : Renderer \ {h} = {OtherOf(h)}
  /\ OtherOf("d3d11") = "d3d12" /\ OtherOf("d3d12") = "d3d11"
  /\ Proc = {"d3d11", "d3d12", "game"}
  BY DEF Renderer, OtherOf, Proc

\* A hook that is taken out, while the other renderer is not the game's, leaves
\* the game's Present or the other hook in the vtable.
LEMMA UnhookedSound ==
  ASSUME NEW s \in TableType, NEW k \in Nat, Sound(s, k), NEW h \in Renderer, h \in s.is,
         NEW t, t = GivenUp(s, h)
  PROVE  t \in TableType /\ Sound(t, k) /\ t.is = {} /\ t.loads = s.loads
<1> DEFINE u == Unhooked(s, h)
           o == OtherOf(h)
<1>0. o \in Renderer \ {h}
  BY Renderers
<1> HIDE DEF o
<1>1. /\ u \in TableType /\ u.is = s.is /\ u.loads = s.loads
      /\ u.hook[h] = [s.hook[h] EXCEPT !.hooked = FALSE]
      /\ u.hook[o] = s.hook[o]
      /\ u.slot = IF s.hook[h].hooked /\ s.hook[h].patched /\ s.slot = h
                  THEN s.hook[h].below ELSE s.slot
  BY <1>0, UnhookedTable
<1>2. t = WithFlags(u, u.is \ {h})
  BY DEF GivenUp
<1> HIDE DEF u
<1> USE DEF o
<1>3. u.is \ {h} \in SUBSET Renderer
  BY <1>1 DEF TableType
<1>4. /\ t \in TableType /\ t.is = s.is \ {h} /\ t.loads = s.loads
      /\ t.slot = u.slot /\ t.hook = u.hook
  BY <1>1, <1>2, <1>3, Flagged
<1>5. /\ t.hook[h].hooked = FALSE /\ t.hook[h].patched = s.hook[h].patched
      /\ t.hook[h].below = s.hook[h].below /\ t.hook[o] = s.hook[o]
  BY <1>1, <1>4 DEF TableType, HookType
<1>6. s.hook[h].hooked /\ ~ s.hook[o].hooked /\ t.is = {} /\ s.slot \in Proc /\ s.is \subseteq Renderer
  BY <1>4, Renderers DEF Sound, FlagsFit, TableType
<1>7. FlagsFit(t)
  BY <1>4, <1>5, <1>6, Renderers DEF FlagsFit
<1>8. SlotFits(s, k)
  BY DEF Sound
<1>9. SlotFits(t, k)
  <2>1. CASE s.slot = h
    <3>1. /\ t.slot = s.hook[h].below
          /\ \/ t.slot = "game"
             \/ t.slot = o /\ k = 0 /\ s.hook[o].patched /\ s.hook[o].below = "game"
      BY <2>1, <1>1, <1>4, <1>6, <1>8, Renderers DEF SlotFits
    <3> QED  BY <3>1, <1>5, Renderers DEF SlotFits
  <2>2. CASE s.slot = o
    BY <2>2, <1>1, <1>4, <1>5, <1>6, <1>8, Renderers DEF SlotFits
  <2>3. CASE s.slot = "game"
    BY <2>3, <1>1, <1>4, <1>5, Renderers DEF SlotFits
  <2> QED  BY <2>1, <2>2, <2>3, <1>6, Renderers
<1> QED  BY <1>4, <1>6, <1>7, <1>9 DEF Sound

\* An attempt to hook one renderer while the other one is not the game's.
LEMMA AttemptSound ==
  ASSUME NEW s \in TableType, NEW k \in Nat, Sound(s, k),
         NEW h \in Renderer, OtherOf(h) \notin s.is, h = "d3d12" => s.loads,
         NEW res \in {"hooked", "fails", "partial"}, NEW k2 \in Nat, Costs(res, k, k2),
         NEW n, n = Attempt(s, h, res)
  PROVE  /\ n \in TableType /\ Sound(n, k2) /\ n.loads = s.loads
         /\ n.is = IF res = "hooked" THEN {h} ELSE {}
<1> DEFINE r == Renewed(s, h)
           t == Installed(r, h, res)
           o == OtherOf(h)
<1>1. /\ r \in TableType /\ r.is = s.is /\ r.loads = s.loads
      /\ r.hook[h] = Fresh(s.hook[h].id) /\ r.hook[o] = s.hook[o]
      /\ s.hook[h].patched /\ s.slot = h /\ s.hook[h].below # h => r.slot = s.hook[h].below
      /\ ~ s.hook[h].patched \/ s.slot # h => r.slot = s.slot
  BY RenewedTable, Renderers
<1>2. n = IF res = "hooked" THEN WithFlags(t, t.is \cup {h}) ELSE GivenUp(t, h)
  BY DEF Attempt
<1> HIDE DEF r
<1>3. /\ t \in TableType /\ t.is = r.is /\ t.loads = r.loads
      /\ res = "fails" => t = r
      /\ res # "fails" =>
           /\ t.slot = h /\ t.hook[o] = r.hook[o]
           /\ t.hook[h].hooked <=> res = "hooked"
           /\ t.hook[h].patched /\ t.hook[h].below = r.slot
  BY <1>1, InstalledTable, Renderers
<1> HIDE DEF t
<1>4. ~ s.hook[o].hooked /\ s.slot \in Proc /\ s.is \subseteq {h}
  BY Renderers DEF Sound, FlagsFit, TableType
<1>5. \/ r.slot = "game"
      \/ r.slot = o /\ s.hook[o].patched /\ s.hook[o].below = "game" /\ k = 0
  <2>1. CASE s.slot = h
    BY <2>1, <1>1, Renderers DEF Sound, SlotFits
  <2>2. CASE s.slot = o
    BY <2>2, <1>1, <1>4, Renderers DEF Sound, SlotFits
  <2>3. CASE s.slot = "game"
    BY <2>3, <1>1, Renderers
  <2> QED  BY <2>1, <2>2, <2>3, <1>4, Renderers
<1>6. CASE res = "hooked"
  <2>1. n = WithFlags(t, t.is \cup {h})
    BY <1>2, <1>6
  <2>2. t.is \cup {h} = {h} /\ {h} \in SUBSET Renderer
    BY <1>1, <1>3, <1>4
  <2>3. /\ n \in TableType /\ n.is = {h} /\ n.slot = t.slot /\ n.loads = t.loads
        /\ n.hook = t.hook
    BY <2>1, <2>2, <1>3, Flagged
  <2>4. /\ n.slot = h /\ n.hook[h].hooked /\ n.hook[h].patched /\ n.hook[h].below = r.slot
        /\ n.hook[o] = s.hook[o] /\ n.loads = s.loads
    BY <1>6, <2>3, <1>1, <1>3
  <2>5. k2 = k
    BY <1>6 DEF Costs
  <2>6. FlagsFit(n)
    BY <2>3, <2>4, <1>4, Renderers DEF FlagsFit
  <2>7. SlotFits(n, k2)
    BY <2>4, <2>5, <1>4, <1>5, Renderers DEF SlotFits
  <2> QED  BY <1>6, <2>3, <2>4, <2>6, <2>7 DEF Sound
<1>7. CASE res # "hooked"
  <2> DEFINE u == Unhooked(t, h)
  <2>1. n = WithFlags(u, u.is \ {h})
    BY <1>2, <1>7 DEF GivenUp
  <2>2. ~ t.hook[h].hooked
    <3>1. CASE res = "fails"
      BY <3>1, <1>1, <1>3 DEF Fresh
    <3>2. CASE res = "partial"
      BY <3>2, <1>3
    <3> QED  BY <1>7, <3>1, <3>2
  <2>3. u = t
    BY <2>2 DEF Unhooked
  <2> HIDE DEF u
  <2>4. u.is \ {h} = {} /\ {} \in SUBSET Renderer
    BY <2>3, <1>1, <1>3, <1>4
  <2>5. /\ n \in TableType /\ n.is = {} /\ n.slot = t.slot /\ n.loads = t.loads
        /\ n.hook = t.hook
    BY <2>1, <2>3, <2>4, <1>3, Flagged
  <2>6. n.hook[o] = s.hook[o] /\ n.loads = s.loads
    BY <2>5, <1>1, <1>3
  <2>7. FlagsFit(n)
    BY <2>2, <2>5, <2>6, <1>4, Renderers DEF FlagsFit
  <2>8. CASE res = "fails"
    <3>1. n.slot = r.slot /\ k2 = k
      BY <2>8, <2>5, <1>3 DEF Costs
    <3> QED  BY <1>7, <3>1, <2>5, <2>6, <2>7, <1>5, Renderers DEF SlotFits, Sound
  <2>9. CASE res = "partial"
    <3>1. n.slot = h /\ k = 1 /\ k2 = 0
      BY <2>9, <2>5, <1>3 DEF Costs
    <3>3. n.hook[h].patched /\ n.hook[h].below = "game"
      BY <2>9, <3>1, <2>5, <1>3, <1>5
    <3>4. SlotFits(n, k2)
      BY <3>1, <3>3, Renderers DEF SlotFits
    <3> QED  BY <1>7, <3>4, <2>5, <2>6, <2>7 DEF Sound
  <2> QED  BY <2>8, <2>9, <1>7
<1> QED  BY <1>6, <1>7

\* What an attempt at both renderers costs; nobody tries a renderer for nothing.
Pays(out, k, k2) == IF \E h \in Renderer : out[h] = "partial" THEN k = 1 /\ k2 = 0 ELSE k2 = k

LEMMA Outcomes ==
  ASSUME NEW out \in Outcome
  PROVE  /\ \A h \in Renderer : out[h] \in {"hooked", "fails", "partial"}
         /\ \A h \in Renderer : out[h] # "hooked" => out[OtherOf(h)] = "hooked"
<1>1. CASE out = Hooking
  BY <1>1, Renderers DEF Hooking
<1>2. CASE \E h \in Renderer, c \in {"fails", "partial"} : out = [Hooking EXCEPT ![h] = c]
  <2>1. PICK h \in Renderer, c \in {"fails", "partial"} : out = [Hooking EXCEPT ![h] = c]
    BY <1>2
  <2>2. out[h] = c /\ out[OtherOf(h)] = "hooked"
    BY <2>1, Renderers DEF Hooking
  <2> QED  BY <2>2, Renderers
<1> QED  BY <1>1, <1>2 DEF Outcome

LEMMA SoundLess ==
  ASSUME NEW s, NEW k \in Nat, Sound(s, k)
  PROVE  Sound(s, 0)
<1>1. FlagsFit(s) /\ SlotFits(s, k)
  BY DEF Sound
<1>2. SlotFits(s, 0)
  BY <1>1 DEF SlotFits
<1> QED  BY <1>1, <1>2 DEF Sound

LEMMA HookD3D11Sound ==
  ASSUME NEW s \in TableType, NEW k \in Nat, Sound(s, k), "d3d12" \notin s.is,
         NEW out \in Outcome, NEW k2 \in Nat, Costs(out["d3d11"], k, k2),
         NEW n, n = HookD3D11(s, out)
  PROVE  n \in TableType /\ Sound(n, k2) /\ n.loads = s.loads
<1> DEFINE res == out["d3d11"]
           m == Attempt(s, "d3d11", res)
<1>1. n = m
  BY DEF HookD3D11, Attempt, GivenUp, WithFlags, Succeeds
<1>2. /\ "d3d11" \in Renderer /\ OtherOf("d3d11") \notin s.is /\ ("d3d11" = "d3d12" => s.loads)
      /\ res \in {"hooked", "fails", "partial"}
  BY Renderers, Outcomes
<1> HIDE DEF res, m
<1>3. Costs(res, k, k2)
  BY DEF res
<1>4. m = Attempt(s, "d3d11", res)
  BY DEF m
<1>5. m \in TableType /\ Sound(m, k2) /\ m.loads = s.loads
  BY <1>2, <1>3, <1>4, AttemptSound
<1> QED  BY <1>1, <1>5

LEMMA HookD3D12Sound ==
  ASSUME NEW s \in TableType, NEW k \in Nat, Sound(s, k), "d3d11" \notin s.is,
         NEW out \in Outcome, NEW k2 \in Nat, Pays(out, k, k2),
         NEW n, n = HookD3D12(s, out)
  PROVE  n \in TableType /\ Sound(n, k2) /\ n.loads = s.loads
<1> DEFINE c == out["d3d12"]
           m == Attempt(s, "d3d12", c)
           w == WithFlags(s, s.is \ {"d3d12"})
<1>0. /\ c \in {"hooked", "fails", "partial"} /\ "d3d12" \in Renderer /\ "d3d11" \in Renderer
      /\ c # "hooked" => out["d3d11"] = "hooked"
      /\ out["d3d11"] \in {"hooked", "fails", "partial"}
  BY Renderers, Outcomes
<1>1. CASE ~ s.loads
  <2>1. "d3d12" \notin s.is
    BY <1>1 DEF Sound, FlagsFit
  <2>2. w = s
    <3>1. s.is \ {"d3d12"} = s.is
      BY <2>1
    <3> QED  BY <3>1 DEF WithFlags, TableType
  <2>3. n = HookD3D11(s, out)
    BY <1>1, <2>2 DEF HookD3D12, WithFlags
  <2>4. CASE out["d3d11"] = "partial" \/ \A h \in Renderer : out[h] # "partial"
    <3>1. Costs(out["d3d11"], k, k2)
      BY <2>4, <1>0 DEF Pays, Costs
    <3> QED  BY <2>1, <2>3, <3>1, HookD3D11Sound
  <2>5. CASE out["d3d11"] # "partial" /\ \E h \in Renderer : out[h] = "partial"
    <3>1. Costs(out["d3d11"], k, k) /\ k2 = 0
      BY <2>5 DEF Pays, Costs
    <3>2. n \in TableType /\ Sound(n, k) /\ n.loads = s.loads
      BY <2>1, <2>3, <3>1, HookD3D11Sound
    <3> QED  BY <3>1, <3>2, SoundLess
  <2> QED  BY <2>4, <2>5
<1>2. CASE s.loads
  <2> HIDE DEF c, m
  <2>1. c = out["d3d12"] /\ m = Attempt(s, "d3d12", c)
    BY DEF c, m
  <2>2. OtherOf("d3d12") \notin s.is /\ ("d3d12" = "d3d12" => s.loads)
    BY <1>2, Renderers
  <2>3. CASE c = "hooked"
    <3>1. n = m
      BY <1>2, <2>1, <2>3 DEF HookD3D12, Attempt, WithFlags, Succeeds
    <3>2. Costs(c, k, k)
      BY <2>3 DEF Costs
    <3>3. m \in TableType /\ Sound(m, k) /\ m.loads = s.loads
      BY <1>0, <2>1, <2>2, <3>2, AttemptSound
    <3>4. k2 = k \/ k2 = 0
      BY DEF Pays
    <3> QED  BY <3>1, <3>3, <3>4, SoundLess
  <2>4. CASE c # "hooked"
    <3>1. n = HookD3D11(m, out)
      BY <1>2, <2>1, <2>4 DEF HookD3D12, Attempt, GivenUp, WithFlags, Succeeds
    <3>2. Costs(c, k, k2)
      <4>1. (\E h \in Renderer : out[h] = "partial") <=> c = "partial"
        BY <1>0, <2>1, <2>4, Renderers
      <4> QED  BY <4>1 DEF Costs, Pays
    <3>3. m \in TableType /\ Sound(m, k2) /\ m.loads = s.loads /\ m.is = {}
      BY <1>0, <2>1, <2>2, <2>4, <3>2, AttemptSound
    <3>4. Costs(out["d3d11"], k2, k2) /\ "d3d12" \notin m.is
      BY <3>3, <1>0, <2>4 DEF Costs
    <3> QED  BY <3>1, <3>3, <3>4, HookD3D11Sound
  <2> QED  BY <2>3, <2>4
<1> QED  BY <1>1, <1>2

\* The monitor hooks again: Direct3D 11 if that is what the game is taken for.
LEMMA RehookSound ==
  ASSUME d3d \in TableType, NEW k \in Nat, Sound(d3d, k), NEW out \in Outcome,
         NEW k2 \in Nat, Pays(out, k, k2)
  PROVE  Rehook(out) \in TableType /\ Sound(Rehook(out), k2) /\ Rehook(out).loads = d3d.loads
<1>1. CASE "d3d11" \in d3d.is
  <2>1. Rehook(out) = HookD3D11(d3d, out) /\ "d3d12" \notin d3d.is
    BY <1>1, Renderers DEF Rehook, Sound, FlagsFit, TableType
  <2>2. CASE out["d3d11"] = "partial" \/ \A h \in Renderer : out[h] # "partial"
    <3>1. Costs(out["d3d11"], k, k2)
      BY <2>2, Renderers DEF Pays, Costs
    <3> QED  BY <2>1, <3>1, HookD3D11Sound
  <2>3. CASE out["d3d11"] # "partial" /\ \E h \in Renderer : out[h] = "partial"
    <3>1. Costs(out["d3d11"], k, k) /\ k2 = 0
      BY <2>3 DEF Pays, Costs
    <3> QED  BY <2>1, <3>1, HookD3D11Sound, SoundLess
  <2> QED  BY <2>2, <2>3
<1>2. CASE "d3d11" \notin d3d.is
  <2>1. Rehook(out) = HookD3D12(d3d, out)
    BY <1>2 DEF Rehook
  <2> QED  BY <1>2, <2>1, HookD3D12Sound
<1> QED  BY <1>1, <1>2

\* A renderer without a device is Direct3D 12: the game has one for the other.
LEMMA FallBackSound ==
  ASSUME d3d \in TableType, NEW k \in Nat, Sound(d3d, k), NEW out \in Outcome,
         NEW k2 \in Nat, Pays(out, k, k2), NEW h \in d3d.is, ~ HasDevice(h)
  PROVE  /\ FallBack(h, out) \in TableType /\ Sound(FallBack(h, out), k2)
         /\ FallBack(h, out).loads = d3d.loads
<1> DEFINE s == GivenUp(d3d, h)
<1>1. h \in Renderer /\ h = "d3d12"
  BY Renderers DEF TableType, HasDevice
<1>2. FallBack(h, out) = HookD3D11(s, out)
  BY <1>1 DEF FallBack, GivenUp, WithFlags
<1> HIDE DEF s
<1>3. s = GivenUp(d3d, h)
  BY DEF s
<1>4. s \in TableType /\ Sound(s, k) /\ s.is = {} /\ s.loads = d3d.loads
  BY <1>1, <1>3, UnhookedSound
<1>5. CASE out["d3d11"] = "partial" \/ \A g \in Renderer : out[g] # "partial"
  <2>1. Costs(out["d3d11"], k, k2)
    BY <1>5, Renderers DEF Pays, Costs
  <2> QED  BY <1>2, <1>4, <2>1, HookD3D11Sound
<1>6. CASE out["d3d11"] # "partial" /\ \E g \in Renderer : out[g] = "partial"
  <2>1. Costs(out["d3d11"], k, k) /\ k2 = 0
    BY <1>6 DEF Pays, Costs
  <2>2. FallBack(h, out) \in TableType /\ Sound(FallBack(h, out), k) /\ FallBack(h, out).loads = s.loads
    BY <1>2, <1>4, <2>1, HookD3D11Sound
  <2> QED  BY <1>4, <2>1, <2>2, SoundLess
<1> QED  BY <1>5, <1>6

-----------------------------------------------------------------------------
(* What the operators on the monitor's time stamps and on the window return *)

LEMMA MonFields ==
  ASSUME NEW m \in MonType
  PROVE  /\ m.present \in Int /\ m.present >= -Limit /\ m.present <= Limit + 1
         /\ m.message \in Int /\ m.message >= -Limit /\ m.message <= Limit + 1
         /\ m.chance \in Int /\ m.chance >= -Chance /\ m.chance <= Chance + 1
         /\ m.send \in Int /\ m.send >= 0 /\ m.send <= Chance + 1
         /\ m.lastChance \in BOOLEAN /\ m.sent \in BOOLEAN
  BY Numbers DEF MonType

LEMMA AgedMon ==
  ASSUME NEW m \in MonType
  PROVE  /\ Aged(m) \in MonType
         /\ Aged(m).present = (IF m.present <= Limit THEN m.present + 1 ELSE Limit + 1)
         /\ Aged(m).message = (IF m.message <= Limit THEN m.message + 1 ELSE Limit + 1)
         /\ Aged(m).chance = (IF m.chance <= Chance THEN m.chance + 1 ELSE Chance + 1)
         /\ Aged(m).send = (IF m.send <= Chance THEN m.send + 1 ELSE Chance + 1)
         /\ Aged(m).lastChance = m.lastChance /\ Aged(m).sent = m.sent
<1> DEFINE p == Later(m.present, Limit + 1)
           q == Later(m.message, Limit + 1)
           c == Later(m.chance, Chance + 1)
           s == Later(m.send, Chance + 1)
<1>1. /\ p = IF m.present <= Limit THEN m.present + 1 ELSE Limit + 1
      /\ q = IF m.message <= Limit THEN m.message + 1 ELSE Limit + 1
      /\ c = IF m.chance <= Chance THEN m.chance + 1 ELSE Chance + 1
      /\ s = IF m.send <= Chance THEN m.send + 1 ELSE Chance + 1
  BY MonFields, Numbers DEF Later
<1>2. /\ p \in -Limit .. Limit + 1 /\ q \in -Limit .. Limit + 1
      /\ c \in -Chance .. Chance + 1 /\ s \in 0 .. Chance + 1
  BY <1>1, MonFields, Numbers
<1>3. Aged(m) = [m EXCEPT !.present = p, !.message = q, !.chance = c, !.send = s]
  BY DEF Aged
<1> HIDE DEF p, q, c, s
<1>4. /\ Aged(m) \in MonType
      /\ Aged(m).present = p /\ Aged(m).message = q /\ Aged(m).chance = c /\ Aged(m).send = s
      /\ Aged(m).lastChance = m.lastChance /\ Aged(m).sent = m.sent
  BY <1>2, <1>3 DEF MonType
<1> QED  BY <1>1, <1>4

LEMMA TakeChanceMon ==
  ASSUME NEW m \in MonType
  PROVE  /\ TakeChance(m) \in MonType
         /\ TakeChance(m).present = m.present /\ TakeChance(m).message = m.message
         /\ TakeChance(m).send = m.send /\ TakeChance(m).sent = m.sent
         /\ m.present <= Limit => TakeChance(m).lastChance
         /\ m.present > Limit => ~ TakeChance(m).lastChance
         /\ m.present > Limit /\ ~ m.lastChance => TakeChance(m) = m
         /\ m.present <= Limit \/ m.lastChance => TakeChance(m).chance = 0
<1>1. 0 \in -Chance .. Chance + 1
  BY Numbers
<1>2. CASE m.present <= Limit
  <2>1. TakeChance(m) = [m EXCEPT !.chance = 0, !.lastChance = TRUE] /\ ~ (m.present > Limit)
    BY <1>2, MonFields, Numbers DEF TakeChance
  <2> QED  BY <1>1, <1>2, <2>1 DEF MonType
<1>3. CASE m.present > Limit /\ m.lastChance
  <2>1. TakeChance(m) = [m EXCEPT !.chance = 0, !.lastChance = FALSE] /\ ~ (m.present <= Limit)
    BY <1>3, MonFields, Numbers DEF TakeChance
  <2> QED  BY <1>1, <1>3, <2>1 DEF MonType
<1>4. CASE m.present > Limit /\ ~ m.lastChance
  BY <1>4, MonFields, Numbers DEF TakeChance
<1> QED  BY <1>2, <1>3, <1>4, MonFields, Numbers

LEMMA LeewayMon ==
  ASSUME NEW m \in MonType
  PROVE  /\ Leeway(m) \in MonType
         /\ Leeway(m).present = -Limit /\ Leeway(m).message = -Limit
         /\ Leeway(m).chance = -Chance /\ Leeway(m).lastChance
         /\ Leeway(m).send = m.send /\ Leeway(m).sent = m.sent
<1>1. -Limit \in -Limit .. Limit + 1 /\ -Chance \in -Chance .. Chance + 1
  BY Numbers
<1> QED  BY <1>1 DEF Leeway, MonType

\* Looking at the messages pushes the time stamps ahead when a hook is requested, and
\* writes the others only.
LEMMA CheckMessagesMon ==
  ASSUME NEW m \in MonType
  PROVE  /\ CheckMessages(m) \in MonType
         /\ CheckMessages(m).chance = m.chance
         /\ CheckMessages(m).lastChance = m.lastChance
         /\ Requests(m) => /\ CheckMessages(m).present = -Limit
                           /\ CheckMessages(m).message = -Limit
                           /\ ~ CheckMessages(m).sent
         /\ ~ Requests(m) => CheckMessages(m).present = m.present
<1>1. -Limit \in -Limit .. Limit + 1 /\ 0 \in -Limit .. Limit + 1 /\ 0 \in 0 .. Chance + 1
  BY Numbers
<1>2. CASE ~ Overdue(m)
  BY <1>2 DEF CheckMessages, Requests, MonType
<1>3. CASE Overdue(m) /\ window.top = "ours"
  BY <1>1, <1>3 DEF CheckMessages, Requests, MonType
<1>4. CASE Overdue(m) /\ window.top # "ours" /\ ~ m.sent
  <2>1. /\ CheckMessages(m) = [m EXCEPT !.send = 0, !.sent = TRUE,
                                   !.message = IF Reaches(window, window.top) THEN 0 ELSE m.message]
        /\ ~ Requests(m)
    BY <1>4 DEF CheckMessages, Requests
  <2>2. (IF Reaches(window, window.top) THEN 0 ELSE m.message) \in -Limit .. Limit + 1
    BY <1>1 DEF MonType
  <2> QED  BY <1>1, <2>1, <2>2 DEF MonType
<1>5. CASE Overdue(m) /\ window.top # "ours" /\ m.sent
  BY <1>1, <1>5 DEF CheckMessages, Requests, MonType
<1> QED  BY <1>2, <1>3, <1>4, <1>5

LEMMA PostPresentMon ==
  ASSUME NEW m \in MonType
  PROVE  /\ PostPresent(m) \in MonType
         /\ PostPresent(m).present = (IF m.present >= 0 THEN 0 ELSE m.present)
         /\ PostPresent(m).message = m.message /\ PostPresent(m).chance = m.chance
         /\ PostPresent(m).send = m.send /\ PostPresent(m).lastChance = m.lastChance
         /\ PostPresent(m).sent = m.sent
<1>1. 0 \in -Limit .. Limit + 1
  BY Numbers
<1> QED  BY <1>1 DEF PostPresent, MonType

LEMMA MessageMon ==
  ASSUME NEW m \in MonType, NEW n, n = [m EXCEPT !.message = 0]
  PROVE  /\ n \in MonType /\ n.message = 0
         /\ n.present = m.present /\ n.chance = m.chance /\ n.send = m.send
         /\ n.lastChance = m.lastChance /\ n.sent = m.sent
<1>1. 0 \in -Limit .. Limit + 1
  BY Numbers
<1> QED  BY <1>1 DEF MonType

LEMMA StopMon ==
  ASSUME NEW m \in MonType,
         NEW n, n = [m EXCEPT !.present = Limit + 1, !.message = Limit + 1,
                              !.chance = Chance + 1, !.send = Chance + 1]
  PROVE  /\ n \in MonType
         /\ n.present = Limit + 1 /\ n.message = Limit + 1
         /\ n.chance = Chance + 1 /\ n.send = Chance + 1
         /\ n.lastChance = m.lastChance /\ n.sent = m.sent
<1>1. /\ Limit + 1 \in -Limit .. Limit + 1 /\ Chance + 1 \in -Chance .. Chance + 1
      /\ Chance + 1 \in 0 .. Chance + 1
  BY Numbers
<1> QED  BY <1>1 DEF MonType

LEMMA HookWindowFields ==
  ASSUME NEW w \in WindowType, ~ w.hooked => w.top # "ours"
  PROVE  /\ HookWindow(w) \in WindowType
         /\ HookWindow(w).top = "ours" /\ HookWindow(w).hooked
         /\ HookWindow(w).below = IF w.top = "ours" THEN w.below ELSE w.top
         /\ HookWindow(w).otherBelow = w.otherBelow /\ HookWindow(w).forwards = w.forwards
<1> DEFINE found == IF w.hooked /\ w.top = "ours" THEN w.below ELSE w.top
<1>1. found \in {"game", "other"} /\ found = (IF w.top = "ours" THEN w.below ELSE w.top)
  BY DEF WindowType
<1>2. HookWindow(w) = [w EXCEPT !.top = "ours", !.hooked = TRUE, !.below = found]
  BY DEF HookWindow
<1> HIDE DEF found
<1> QED  BY <1>1, <1>2 DEF WindowType

-----------------------------------------------------------------------------
(* What a step does, in the terms the invariants are stated in *)

\* The type invariant, and that a procedure of ours in the window is a hooked one:
\* HookWindow covers whatever it finds.
TypeInv == TypeOK /\ (window.top = "ours" => window.hooked)

\* A frame leaves everything but init alone,
FrameIdles == /\ UNCHANGED <<d3d, left, window, requested, mon>>
              /\ init'.done => init.done \/ window.hooked

\* goes over to the other renderer,
FrameFalls(g, out) ==
  /\ ~ init.done /\ ~ init'.done
  /\ g \in d3d.is /\ ~ HasDevice(g) /\ out \in Outcome
  /\ Affordable(out) /\ d3d' = FallBack(g, out) /\ Spend(Troubles(out))
  /\ UNCHANGED <<window, requested, mon>>

\* or hooks the window anew.
FrameHooks == /\ RenewsMessageHook /\ window' = HookWindow(window)
              /\ mon' = [mon EXCEPT !.message = 0] /\ requested' = FALSE
              /\ UNCHANGED <<d3d, left>>

LEMMA FrameSteps ==
  ASSUME TypeInv, NEW h \in Renderer, OnFrame(h)
  PROVE  /\ init' \in InitType
         /\ FrameIdles \/ FrameHooks \/ \E g \in Renderer, out \in Outcome : FrameFalls(g, out)
<1>0. /\ init \in InitType /\ init.done \in BOOLEAN /\ requested \in BOOLEAN
      /\ d3d \in TableType /\ window.hooked \in BOOLEAN
  BY TypeParts DEF TypeInv, InitType, WindowType
<1>1. ASSUME InitializeMessageHook(mon), UNCHANGED <<d3d, left>>
      PROVE  FrameIdles \/ FrameHooks
  <2>1. CASE RenewsMessageHook
    BY <1>1, <2>1 DEF InitializeMessageHook, FrameHooks
  <2>2. CASE ~ RenewsMessageHook
    BY <1>0, <1>1, <2>2 DEF InitializeMessageHook, RenewsMessageHook, FrameIdles
  <2> QED  BY <2>1, <2>2
<1>2. CASE Wait
  <2>1. Frames + 1 \in 0 .. InitFrames
    BY <1>0, <1>2, Numbers DEF Wait, Frames, InitType
  <2>2. init' = [init EXCEPT !.first = FALSE, !.frames = Frames + 1]
    BY <1>2 DEF Wait
  <2> HIDE DEF Frames
  <2>3. init' \in InitType /\ init'.done = init.done
    BY <1>0, <2>1, <2>2 DEF InitType
  <2> QED  BY <1>2, <2>3 DEF Wait, LeaveMessageHook, FrameIdles
<1>3. CASE ~ init.done /\ \E g \in d3d.is : Initialize(g)
  <2>1. PICK g \in d3d.is : Initialize(g)
    BY <1>3
  <2>2. g \in Renderer
    BY <1>0 DEF TableType
  <2>3. CASE ~ Hooked(g) /\ LeaveMessageHook(mon) /\ UNCHANGED <<init, d3d, left>>
    BY <1>0, <2>3 DEF LeaveMessageHook, FrameIdles
  <2>4. CASE /\ Hooked(g) /\ ~ HasDevice(g)
             /\ \E out \in Outcome : /\ Affordable(out)
                                     /\ d3d' = FallBack(g, out)
                                     /\ Spend(Troubles(out))
             /\ init' = [init EXCEPT !.first = TRUE]
             /\ LeaveMessageHook(mon)
    <3>1. init' \in InitType /\ init'.done = init.done
      BY <1>0, <2>4 DEF InitType
    <3>2. PICK out \in Outcome : Affordable(out) /\ d3d' = FallBack(g, out) /\ Spend(Troubles(out))
      BY <2>4
    <3>3. FrameFalls(g, out)
      BY <1>3, <2>1, <2>4, <3>1, <3>2 DEF FrameFalls, LeaveMessageHook
    <3> QED  BY <2>2, <3>1, <3>3
  <2>5. CASE /\ Hooked(g) /\ HasDevice(g)
             /\ init' = [init EXCEPT !.done = TRUE]
             /\ InitializeMessageHook(mon)
             /\ UNCHANGED <<d3d, left>>
    <3>1. init' \in InitType
      BY <1>0, <2>5 DEF InitType
    <3>2. CASE RenewsMessageHook
      BY <2>5, <3>1, <3>2 DEF InitializeMessageHook, FrameHooks
    <3>3. CASE ~ RenewsMessageHook
      BY <1>0, <2>5, <3>1, <3>3 DEF InitializeMessageHook, RenewsMessageHook, FrameIdles
    <3> QED  BY <3>2, <3>3
  <2> QED  BY <2>1, <2>3, <2>4, <2>5 DEF Initialize
<1>4. CASE NothingToInitialize
  BY <1>0, <1>4 DEF NothingToInitialize, LeaveMessageHook, FrameIdles
<1>5. CASE OnFrameInitialized(h)
  <2>1. CASE requested /\ HasDevice(h)
    BY <1>0, <1>1, <1>5, <2>1 DEF OnFrameInitialized
  <2>2. CASE ~ (requested /\ HasDevice(h))
    BY <1>0, <1>5, <2>2 DEF OnFrameInitialized, LeaveMessageHook, FrameIdles
  <2> QED  BY <2>1, <2>2
<1> QED  BY <1>2, <1>3, <1>4, <1>5 DEF OnFrame, OnFrameInitializing

\* A poll hooks again,
PollRehooks(out) ==
  /\ mon.present > Limit /\ ~ mon.lastChance /\ mon.chance > Chance
  /\ out \in Outcome /\ Affordable(out) /\ d3d' = Rehook(out) /\ Spend(Troubles(out))
  /\ untried' = 0 /\ requested' = requested
  /\ mon' \in MonType /\ mon'.present = -Limit /\ mon'.message = -Limit
  /\ mon'.chance = -Chance /\ mon'.lastChance /\ ~ mon'.sent

\* or looks at the messages only.
PollWatches ==
  /\ ~ (mon.present > Limit /\ ~ mon.lastChance /\ mon.chance > Chance)
  /\ UNCHANGED <<d3d, left, untried>>
  /\ mon' \in MonType /\ mon' = CheckMessages(TakeChance(mon))
  /\ requested' = (requested \/ Requests(TakeChance(mon)))

LEMMA PollSteps ==
  ASSUME TypeInv, HookMonitor
  PROVE  /\ calls = <<>> /\ due > 0 /\ due' = 0 /\ UNCHANGED <<calls, init, window, quiet>>
         /\ PollWatches \/ \E out \in Outcome : PollRehooks(out)
<1> DEFINE m == TakeChance(mon)
           n == Leeway(m)
<1>0. mon \in MonType /\ requested \in BOOLEAN
  BY TypeParts DEF TypeInv
<1>1. m \in MonType /\ n \in MonType
  BY <1>0, TakeChanceMon, LeewayMon
<1>2. Rehooks(m) <=> mon.present > Limit /\ ~ mon.lastChance /\ mon.chance > Chance
  <2>1. CASE mon.present > Limit /\ ~ mon.lastChance
    <3>1. m = mon
      BY <1>0, <2>1, TakeChanceMon
    <3> QED  BY <2>1, <3>1 DEF Rehooks
  <2>2. CASE ~ (mon.present > Limit /\ ~ mon.lastChance)
    <3>1. m.present = mon.present /\ m.chance = 0
      BY <1>0, <2>2, TakeChanceMon, MonFields, Numbers
    <3>2. ~ (0 > Chance)
      BY Numbers
    <3> QED  BY <2>2, <3>1, <3>2 DEF Rehooks
  <2> QED  BY <2>1, <2>2
<1>3. CASE Rehooks(m)
  <2>1. /\ \E out \in Outcome : Affordable(out) /\ d3d' = Rehook(out) /\ Spend(Troubles(out))
        /\ untried' = 0
        /\ mon' = CheckMessages(n) /\ requested' = (requested \/ Requests(n))
    BY <1>3 DEF HookMonitor
  <2>2. n.message = -Limit /\ n.present = -Limit /\ n.chance = -Chance /\ n.lastChance
    BY <1>1, LeewayMon
  <2>3. ~ Overdue(n)
    BY <2>2, Numbers DEF Overdue
  <2> HIDE DEF n
  <2>4. CheckMessages(n) = [n EXCEPT !.sent = FALSE] /\ ~ Requests(n)
    BY <2>3 DEF CheckMessages, Requests
  <2>5. /\ mon' \in MonType /\ mon'.present = -Limit /\ mon'.message = -Limit
        /\ mon'.chance = -Chance /\ mon'.lastChance /\ ~ mon'.sent
    BY <1>1, <2>1, <2>2, <2>4 DEF MonType
  <2>6. requested' = requested
    BY <1>0, <2>1, <2>4
  <2> QED  BY <1>2, <1>3, <2>1, <2>5, <2>6 DEF HookMonitor, PollRehooks
<1>4. CASE ~ Rehooks(m)
  <2>1. /\ UNCHANGED <<d3d, left, untried>>
        /\ mon' = CheckMessages(m) /\ requested' = (requested \/ Requests(m))
    BY <1>4 DEF HookMonitor
  <2>2. CheckMessages(m) \in MonType
    BY <1>1, CheckMessagesMon
  <2> QED  BY <1>2, <1>4, <2>1, <2>2 DEF HookMonitor, PollWatches
<1> QED  BY <1>3, <1>4

\* What is spent, is spent of what there is.
LEMMA SpendLeft ==
  ASSUME left \in [Mishap -> Nat], NEW kinds \in SUBSET Mishap,
         \A k \in kinds : left[k] > 0, Spend(kinds)
  PROVE  /\ left' \in [Mishap -> Nat]
         /\ \A k \in Mishap : left'[k] = IF k \in kinds THEN left[k] - 1 ELSE left[k]
<1>1. \A k \in Mishap : (IF k \in kinds THEN left[k] - 1 ELSE left[k]) \in Nat
  OBVIOUS
<1> QED  BY <1>1 DEF Spend

LEMMA SpendTroubles ==
  ASSUME left \in [Mishap -> Nat], NEW out \in Outcome, Affordable(out), Spend(Troubles(out))
  PROVE  /\ left' \in [Mishap -> Nat]
         /\ \A k \in Mishap \ {"fails", "partial"} : left'[k] = left[k]
         /\ left["partial"] <= 1 => Pays(out, left["partial"], left'["partial"])
         /\ left["partial"] = 0 => Pays(out, 1, 1) /\ left'["partial"] = 0
<1>1. /\ Troubles(out) \subseteq {"fails", "partial"}
      /\ "partial" \in Troubles(out) <=> \E h \in Renderer : out[h] = "partial"
  BY Outcomes DEF Troubles
<1>2. Troubles(out) \in SUBSET Mishap /\ \A k \in Troubles(out) : left[k] > 0
  BY <1>1 DEF Mishap, Affordable
<1>3. /\ left' \in [Mishap -> Nat]
      /\ \A k \in Mishap : left'[k] = IF k \in Troubles(out) THEN left[k] - 1 ELSE left[k]
  BY <1>2, SpendLeft
<1>4. left["partial"] \in Nat /\ "partial" \in Mishap
  BY DEF Mishap
<1>5. left["partial"] <= 1 => Pays(out, left["partial"], left'["partial"])
  BY <1>1, <1>2, <1>3, <1>4 DEF Pays
<1>6. left["partial"] = 0 => Pays(out, 1, 1) /\ left'["partial"] = 0
  BY <1>1, <1>2, <1>3, <1>4 DEF Pays
<1> QED  BY <1>1, <1>3, <1>5, <1>6

-----------------------------------------------------------------------------
(* Type correctness *)

LEMMA AttemptType ==
  ASSUME NEW s \in TableType, NEW h \in Renderer, NEW res
  PROVE  Attempt(s, h, res) \in TableType
<1> DEFINE r == Renewed(s, h)
           t == Installed(r, h, res)
           u == Unhooked(t, h)
<1>1. r \in TableType
  BY RenewedTable
<1> HIDE DEF r
<1>2. t \in TableType
  BY <1>1, InstalledTable
<1> HIDE DEF t
<1>3. u \in TableType
  BY <1>2, UnhookedTable
<1> HIDE DEF u
<1>4. t.is \cup {h} \in SUBSET Renderer /\ u.is \ {h} \in SUBSET Renderer
  BY <1>2, <1>3 DEF TableType
<1>5. WithFlags(t, t.is \cup {h}) \in TableType /\ WithFlags(u, u.is \ {h}) \in TableType
  BY <1>2, <1>3, <1>4, Flagged
<1>6. Attempt(s, h, res) = IF res = "hooked" THEN WithFlags(t, t.is \cup {h})
                           ELSE WithFlags(u, u.is \ {h})
  BY DEF Attempt, GivenUp, r, t, u
<1> QED  BY <1>5, <1>6

LEMMA HookType11 ==
  ASSUME NEW s \in TableType, NEW out
  PROVE  HookD3D11(s, out) \in TableType
<1>1. Attempt(s, "d3d11", out["d3d11"]) \in TableType /\ Renewed(s, "d3d11") \in TableType
  BY AttemptType, RenewedTable, Renderers
<1>2. HookD3D11(s, out) = IF "d3d12" \in s.is THEN Renewed(s, "d3d11")
                          ELSE Attempt(s, "d3d11", out["d3d11"])
  BY DEF HookD3D11, Attempt, GivenUp, WithFlags, Succeeds
<1> QED  BY <1>1, <1>2

LEMMA HookType12 ==
  ASSUME NEW s \in TableType, NEW out
  PROVE  HookD3D12(s, out) \in TableType
<1> DEFINE w == WithFlags(s, s.is \ {"d3d12"})
           a == Attempt(s, "d3d12", out["d3d12"])
<1>1. a \in TableType /\ Renewed(s, "d3d12") \in TableType
  BY AttemptType, RenewedTable, Renderers
<1>2. s.is \ {"d3d12"} \in SUBSET Renderer
  BY DEF TableType
<1>3. w \in TableType
  BY <1>2, Flagged
<1>4. CASE ~ s.loads
  <2>1. HookD3D12(s, out) = HookD3D11(w, out)
    BY <1>4 DEF HookD3D12, WithFlags
  <2> QED  BY <2>1, <1>3, HookType11
<1>5. CASE s.loads /\ "d3d11" \in s.is
  BY <1>1, <1>5 DEF HookD3D12
<1>6. CASE s.loads /\ "d3d11" \notin s.is /\ out["d3d12"] = "hooked"
  <2>1. HookD3D12(s, out) = a
    BY <1>6 DEF HookD3D12, Attempt, WithFlags, Succeeds
  <2> QED  BY <2>1, <1>1
<1>7. CASE s.loads /\ "d3d11" \notin s.is /\ out["d3d12"] # "hooked"
  <2>1. HookD3D12(s, out) = HookD3D11(a, out)
    BY <1>7 DEF HookD3D12, Attempt, GivenUp, WithFlags, Succeeds
  <2> QED  BY <2>1, <1>1, HookType11
<1> QED  BY <1>4, <1>5, <1>6, <1>7

LEMMA RehookType ==
  ASSUME d3d \in TableType, NEW out
  PROVE  Rehook(out) \in TableType
  BY HookType11, HookType12 DEF Rehook

LEMMA FallBackType ==
  ASSUME d3d \in TableType, NEW h \in Renderer, NEW out
  PROVE  FallBack(h, out) \in TableType
<1> DEFINE u == Unhooked(d3d, h)
           s == WithFlags(u, u.is \ {h})
<1>1. u \in TableType
  BY UnhookedTable
<1> HIDE DEF u
<1>2. u.is \ {h} \in SUBSET Renderer
  BY <1>1 DEF TableType
<1>3. s \in TableType
  BY <1>1, <1>2, Flagged
<1>4. FallBack(h, out) = IF h = "d3d12" THEN HookD3D11(s, out) ELSE HookD3D12(s, out)
  BY DEF FallBack, WithFlags, u
<1> HIDE DEF s
<1> QED  BY <1>3, <1>4, HookType11, HookType12

LEMMA FrameType ==
  ASSUME TypeInv, NEW h \in Renderer, OnFrame(h)
  PROVE  /\ init' \in InitType /\ d3d' \in TableType /\ left' \in [Mishap -> Nat]
         /\ window' \in WindowType /\ mon' \in MonType /\ requested' \in BOOLEAN
         /\ window'.top = "ours" => window'.hooked
<1>0. /\ d3d \in TableType /\ left \in [Mishap -> Nat] /\ window \in WindowType
      /\ mon \in MonType /\ requested \in BOOLEAN /\ (window.top = "ours" => window.hooked)
  BY TypeParts DEF TypeInv
<1>1. /\ init' \in InitType
      /\ FrameIdles \/ FrameHooks \/ \E g \in Renderer, out \in Outcome : FrameFalls(g, out)
  BY FrameSteps
<1>2. CASE FrameIdles
  BY <1>0, <1>1, <1>2 DEF FrameIdles
<1>3. CASE FrameHooks
  <2>1. /\ HookWindow(window) \in WindowType /\ HookWindow(window).hooked
        /\ [mon EXCEPT !.message = 0] \in MonType
    BY <1>0, HookWindowFields, MessageMon
  <2> QED  BY <1>0, <1>1, <1>3, <2>1 DEF FrameHooks
<1>4. ASSUME NEW g \in Renderer, NEW out \in Outcome, FrameFalls(g, out)
      PROVE  d3d' \in TableType /\ left' \in [Mishap -> Nat]
             /\ UNCHANGED <<window, requested, mon>>
  BY <1>0, <1>4, FallBackType, SpendTroubles DEF FrameFalls
<1> QED  BY <1>0, <1>1, <1>2, <1>3, <1>4

LEMMA EnterType ==
  ASSUME TypeInv, NEW h \in Renderer, OnFrame(h), UNCHANGED <<due, quiet, untried>>,
         NEW c \in Seq(CallType), calls' = Append(c, Activation(h))
  PROVE  TypeInv'
<1>1. Activation(h) \in CallType
  BY TypeParts DEF TypeInv, Activation, CallType, TableType, HookType
<1>2. calls' \in Seq(CallType)
  BY <1>1
<1>3. due' \in 0 .. MaxLate + 1 /\ quiet' \in 0 .. Chance + 1 /\ untried' \in 0 .. Patience + 1
  BY TypeParts DEF TypeInv
<1> QED  BY <1>2, <1>3, FrameType, TypePartsNext DEF TypeInv

LEMMA InitTypeInv == Init => TypeInv
<1> SUFFICES ASSUME Init PROVE TypeInv
  OBVIOUS
<1>1. d3d \in TableType
  <2> DEFINE S == [hooked : {FALSE}, patched : {FALSE}, below : {"game"}, id : {0}]
  <2>1. d3d \in [slot : {"game"}, is : {{}}, loads : BOOLEAN, hook : [Renderer -> S]]
    BY DEF Init
  <2>2. S \subseteq HookType
    <3>1. ASSUME NEW x \in S PROVE x \in HookType
      <4>1. x = [hooked |-> x.hooked, patched |-> x.patched, below |-> x.below, id |-> x.id]
        OBVIOUS
      <4>2. x.hooked \in BOOLEAN /\ x.patched \in BOOLEAN /\ x.below \in Proc /\ x.id \in 0 .. 1
        <5>1. x.hooked = FALSE /\ x.patched = FALSE /\ x.below = "game" /\ x.id = 0
          OBVIOUS
        <5> HIDE DEF S
        <5>2. "game" \in Proc /\ 0 \in 0 .. 1
          BY Renderers
        <5> QED  BY <5>1, <5>2
      <4> HIDE DEF S
      <4> QED  BY <4>1, <4>2 DEF HookType
    <3> QED  BY <3>1
  <2> HIDE DEF S
  <2> QED  BY <2>1, <2>2, Renderers DEF TableType
<1>2. calls \in Seq(CallType)
  BY DEF Init
<1>3. init \in InitType
  BY Numbers DEF Init, InitType
<1>4. window \in WindowType /\ window.top # "ours"
  BY DEF Init, WindowType
<1>5. mon \in MonType
  <2>1. /\ 0 \in -Limit .. Limit + 1 /\ Chance + 1 \in -Chance .. Chance + 1
        /\ Chance + 1 \in 0 .. Chance + 1
    BY Numbers
  <2> QED  BY <2>1 DEF Init, MonType
<1>6. left \in [Mishap -> Nat]
  BY MonitorAssumption DEF Init
<1>7. due \in 0 .. MaxLate + 1 /\ quiet \in 0 .. Chance + 1 /\ untried \in 0 .. Patience + 1
  BY Numbers DEF Init
<1> QED  BY <1>1, <1>2, <1>3, <1>4, <1>5, <1>6, <1>7, TypeParts DEF TypeInv, Init

LEMMA NextTypeInv == TypeInv /\ [Next]_vars => TypeInv'
<1> SUFFICES ASSUME TypeInv, [Next]_vars PROVE TypeInv'
  OBVIOUS
<1>0. /\ d3d \in TableType /\ calls \in Seq(CallType) /\ init \in InitType
      /\ window \in WindowType /\ mon \in MonType /\ requested \in BOOLEAN
      /\ due \in 0 .. MaxLate + 1 /\ left \in [Mishap -> Nat]
      /\ quiet \in 0 .. Chance + 1 /\ untried \in 0 .. Patience + 1
      /\ window.top = "ours" => window.hooked
  BY TypeParts DEF TypeInv
<1>1. CASE EnterPresent
  <2>1. d3d.slot \in Renderer /\ calls' = Append(calls, Activation(d3d.slot))
        /\ OnFrame(d3d.slot) /\ UNCHANGED <<due, quiet, untried>>
    BY <1>0, <1>1, Renderers DEF EnterPresent, Enter, TableType
  <2> QED  BY <1>0, <2>1, EnterType
<1>2. CASE CallOriginal
  <2> DEFINE n == Len(calls)
             c == [calls EXCEPT ![n].called = TRUE]
  <2>1. n \in DOMAIN calls /\ calls[n] \in CallType
    BY <1>0, <1>2 DEF CallOriginal
  <2>2. [calls[n] EXCEPT !.called = TRUE] \in CallType
    BY <2>1 DEF CallType
  <2>3. c \in Seq(CallType)
    BY <1>0, <2>1, <2>2
  <2>4. Top.original \in Renderer
    BY <1>2, <2>1, Renderers DEF CallOriginal, Top, CallType
  <2>5. /\ calls' = Append(c, Activation(Top.original))
        /\ OnFrame(Top.original) /\ UNCHANGED <<due, quiet, untried>>
    BY <1>2 DEF CallOriginal
  <2> HIDE DEF c
  <2> QED  BY <2>3, <2>4, <2>5, EnterType
<1>3. CASE ReturnPresent
  <2>1. calls' \in Seq(CallType)
    BY <1>0, <1>3 DEF ReturnPresent
  <2>2. mon' \in MonType
    BY <1>0, <1>3, PostPresentMon DEF ReturnPresent
  <2>3. quiet' \in 0 .. Chance + 1
    BY <1>3, Numbers DEF ReturnPresent
  <2> QED  BY <1>0, <1>3, <2>1, <2>2, <2>3, TypePartsNext DEF ReturnPresent, TypeInv
<1>4. CASE ResizeBuffers
  <2>1. left' \in [Mishap -> Nat]
    <3>1. {"resize"} \in SUBSET Mishap /\ \A k \in {"resize"} : left[k] > 0
      BY <1>4 DEF ResizeBuffers, Mishap
    <3> QED  BY <1>0, <1>4, <3>1, SpendLeft DEF ResizeBuffers
  <2>2. init' \in InitType
    BY <1>0, <1>4 DEF ResizeBuffers, InitType
  <2> QED  BY <1>0, <1>4, <2>1, <2>2, TypePartsNext DEF ResizeBuffers, TypeInv
<1>5. CASE HookMonitor
  <2>1. /\ calls = <<>> /\ due' = 0 /\ UNCHANGED <<calls, init, window, quiet>>
        /\ PollWatches \/ \E out \in Outcome : PollRehooks(out)
    BY <1>5, PollSteps
  <2>2. due' \in 0 .. MaxLate + 1 /\ 0 \in 0 .. Patience + 1
    BY <2>1, Numbers
  <2>3. CASE PollWatches
    <3>1. requested' \in BOOLEAN
      BY <1>0, <2>3 DEF PollWatches
    <3>2. mon' \in MonType /\ UNCHANGED <<d3d, left, untried>>
      BY <2>3 DEF PollWatches
    <3> QED  BY <1>0, <2>1, <2>2, <3>1, <3>2, TypePartsNext DEF TypeInv
  <2>4. ASSUME NEW out \in Outcome, PollRehooks(out)
        PROVE  TypeInv'
    <3>1. d3d' \in TableType /\ left' \in [Mishap -> Nat]
      BY <1>0, <2>4, RehookType, SpendTroubles DEF PollRehooks
    <3> QED  BY <1>0, <2>1, <2>2, <2>4, <3>1, TypePartsNext DEF PollRehooks, TypeInv
  <2> QED  BY <2>1, <2>3, <2>4
<1>6. CASE Message
  <2>1. mon' \in MonType
    BY <1>0, <1>6, MessageMon DEF Message
  <2> QED  BY <1>0, <1>6, <2>1, TypePartsNext DEF Message, TypeInv
<1>7. CASE Tick
  <2>1. mon' \in MonType
    BY <1>0, <1>7, AgedMon DEF Tick
  <2>2. due' \in 0 .. MaxLate + 1
    BY <1>0, <1>7, Numbers DEF Tick
  <2>3. quiet' \in 0 .. Chance + 1
    BY <1>0, <1>7, Numbers DEF Tick, Later
  <2>4. untried' \in 0 .. Patience + 1
    BY <1>0, <1>7, Numbers DEF Tick, Later
  <2> QED  BY <1>0, <1>7, <2>1, <2>2, <2>3, <2>4, TypePartsNext DEF Tick, TypeInv
<1>8. CASE Stop
  <2>1. mon' \in MonType
    BY <1>0, <1>8, StopMon DEF Stop
  <2>2. due' \in 0 .. MaxLate + 1
    <3>1. due' = IF due = 0 THEN 1 ELSE due
      BY <1>8 DEF Stop
    <3> QED  BY <1>0, <3>1, Numbers
  <2>3. left' \in [Mishap -> Nat]
    <3>1. {"stop"} \in SUBSET Mishap /\ \A k \in {"stop"} : left[k] > 0
      BY <1>8 DEF Stop, Mishap
    <3> QED  BY <1>0, <1>8, <3>1, SpendLeft DEF Stop
  <2> QED  BY <1>0, <1>8, <2>1, <2>2, <2>3, TypePartsNext DEF Stop, TypeInv
<1>9. CASE TakeAway
  <2>1. left' \in [Mishap -> Nat]
    <3>1. {"takeAway"} \in SUBSET Mishap /\ \A k \in {"takeAway"} : left[k] > 0
      BY <1>9 DEF TakeAway, Mishap
    <3> QED  BY <1>0, <1>9, <3>1, SpendLeft DEF TakeAway
  <2>2. d3d' \in TableType
    BY <1>0, <1>9 DEF TakeAway, TableType, Proc
  <2> QED  BY <1>0, <1>9, <2>1, <2>2, TypePartsNext DEF TakeAway, TypeInv
<1>10. CASE Cover
  <2>1. left' \in [Mishap -> Nat]
    <3>1. {"cover"} \in SUBSET Mishap /\ \A k \in {"cover"} : left[k] > 0
      BY <1>10 DEF Cover, Mishap
    <3> QED  BY <1>0, <1>10, <3>1, SpendLeft DEF Cover
  <2>2. window' \in WindowType /\ window'.top # "ours"
    BY <1>0, <1>10 DEF Cover, WindowType
  <2> QED  BY <1>0, <1>10, <2>1, <2>2, TypePartsNext DEF Cover, TypeInv
<1>11. CASE Swallow
  <2>1. left' \in [Mishap -> Nat]
    <3>1. {"swallow"} \in SUBSET Mishap /\ \A k \in {"swallow"} : left[k] > 0
      BY <1>11 DEF Swallow, Mishap
    <3> QED  BY <1>0, <1>11, <3>1, SpendLeft DEF Swallow
  <2>2. window' \in WindowType /\ (window'.top = "ours" => window'.hooked)
    BY <1>0, <1>11 DEF Swallow, WindowType
  <2> QED  BY <1>0, <1>11, <2>1, <2>2, TypePartsNext DEF Swallow, TypeInv
<1>12. CASE UNCHANGED vars
  BY <1>0, <1>12, TypePartsNext DEF vars, TypeInv
<1> QED  BY <1>1, <1>2, <1>3, <1>4, <1>5, <1>6, <1>7, <1>8, <1>9, <1>10, <1>11, <1>12
         DEF Next, Present

\* Type correctness of the hooks, the window and the monitor, for all limits and all
\* that may happen around the mod.
THEOREM HooksTypeCorrect == Spec => []TypeOK
<1>1. TypeInv => TypeOK
  BY DEF TypeInv
<1> QED  BY <1>1, InitTypeInv, NextTypeInv, PTL DEF Spec

LEMMA TypeInvAlways == Spec => []TypeInv
  BY InitTypeInv, NextTypeInv, PTL DEF Spec

-----------------------------------------------------------------------------
(* The hooks are sound *)

LEMMA LeftIsNat ==
  ASSUME left \in [Mishap -> Nat]
  PROVE  \A k \in {"takeAway", "resize", "fails", "partial", "stop", "cover", "swallow", "hang"} :
            left[k] \in Nat /\ k \in Mishap
  BY DEF Mishap

\* The part of the inductive invariant that is about the vtable.
HooksFit == left["partial"] <= 1 /\ Sound(d3d, left["partial"])

LEMMA SoundStart ==
  ASSUME Init, NEW k \in Nat
  PROVE  Sound(d3d, k)
<1>1. d3d.slot = "game" /\ d3d.is = {} /\ \A h \in Renderer : ~ d3d.hook[h].hooked
  <2> DEFINE S == [hooked : {FALSE}, patched : {FALSE}, below : {"game"}, id : {0}]
  <2>1. \A x \in S : x.hooked = FALSE
    OBVIOUS
  <2>2. d3d \in [slot : {"game"}, is : {{}}, loads : BOOLEAN, hook : [Renderer -> S]]
    BY DEF Init
  <2> HIDE DEF S
  <2> QED  BY <2>1, <2>2
<1>2. Renderer # {}
  BY Renderers
<1> QED  BY <1>1, <1>2, Renderers DEF Sound, FlagsFit, SlotFits

LEMMA InitHooksFit == OneHalfHook /\ Init => HooksFit
<1> SUFFICES ASSUME OneHalfHook, Init PROVE HooksFit
  OBVIOUS
<1>1. left \in Budgets /\ left \in [Mishap -> Nat]
  BY MonitorAssumption DEF Init
<1>2. left["partial"] <= 1 /\ left["partial"] \in Nat
  BY <1>1, LeftIsNat DEF OneHalfHook
<1> QED  BY <1>2, SoundStart DEF HooksFit

LEMMA FrameHooksFit ==
  ASSUME TypeInv, HooksFit, NEW h \in Renderer, OnFrame(h)
  PROVE  HooksFit'
<1>0. /\ d3d \in TableType /\ left \in [Mishap -> Nat] /\ left["partial"] \in Nat
      /\ left["partial"] <= 1 /\ Sound(d3d, left["partial"])
  BY TypeParts, LeftIsNat DEF TypeInv, HooksFit
<1>1. FrameIdles \/ FrameHooks \/ \E g \in Renderer, out \in Outcome : FrameFalls(g, out)
  BY FrameSteps
<1>2. CASE FrameIdles \/ FrameHooks
  BY <1>0, <1>2 DEF FrameIdles, FrameHooks, HooksFit
<1>3. ASSUME NEW g \in Renderer, NEW out \in Outcome, FrameFalls(g, out)
      PROVE  HooksFit'
  <2> DEFINE k == left["partial"]
             k2 == left'["partial"]
  <2>1. Pays(out, k, k2) /\ k2 \in Nat
    BY <1>0, <1>3, SpendTroubles DEF FrameFalls, Mishap
  <2>2. k2 <= 1
    BY <2>1, <1>0 DEF Pays
  <2>3. g \in d3d.is /\ ~ HasDevice(g) /\ d3d' = FallBack(g, out)
    BY <1>3 DEF FrameFalls
  <2> HIDE DEF k2
  <2>4. Sound(d3d', k2)
    BY <1>0, <2>1, <2>3, FallBackSound
  <2> QED  BY <2>2, <2>4 DEF HooksFit, k2
<1> QED  BY <1>1, <1>2, <1>3

LEMMA PollHooksFit ==
  ASSUME TypeInv, HooksFit, HookMonitor
  PROVE  HooksFit'
<1>0. /\ d3d \in TableType /\ left \in [Mishap -> Nat] /\ left["partial"] \in Nat
      /\ left["partial"] <= 1 /\ Sound(d3d, left["partial"])
  BY TypeParts, LeftIsNat DEF TypeInv, HooksFit
<1>1. PollWatches \/ \E out \in Outcome : PollRehooks(out)
  BY PollSteps
<1>2. CASE PollWatches
  BY <1>0, <1>2 DEF PollWatches, HooksFit
<1>3. ASSUME NEW out \in Outcome, PollRehooks(out)
      PROVE  HooksFit'
  <2> DEFINE k == left["partial"]
             k2 == left'["partial"]
  <2>1. Pays(out, k, k2) /\ k2 \in Nat
    BY <1>0, <1>3, SpendTroubles DEF PollRehooks, Mishap
  <2>2. k2 <= 1
    BY <2>1, <1>0 DEF Pays
  <2>3. d3d' = Rehook(out)
    BY <1>3 DEF PollRehooks
  <2> HIDE DEF k2
  <2>4. Sound(d3d', k2)
    BY <1>0, <2>1, <2>3, RehookSound
  <2> QED  BY <2>2, <2>4 DEF HooksFit, k2
<1> QED  BY <1>1, <1>2, <1>3

\* Somebody writes the game's Present back.
LEMMA TakenAwaySound ==
  ASSUME NEW s \in TableType, NEW k, Sound(s, k), NEW t, t = [s EXCEPT !.slot = "game"]
  PROVE  Sound(t, k)
<1>1. t.slot = "game" /\ t.hook = s.hook /\ t.is = s.is /\ t.loads = s.loads
  BY DEF TableType
<1> QED  BY <1>1, Renderers DEF Sound, FlagsFit, SlotFits

\* Who spends something else, spends no hook that is half installed.
LEMMA SpendOther ==
  ASSUME left \in [Mishap -> Nat], NEW k \in Mishap, left[k] > 0, Spend({k})
  PROVE  /\ \A j \in Mishap \ {k} : left'[j] = left[j]
         /\ left'[k] = left[k] - 1
         /\ \A j \in Mishap : left'[j] \in Nat /\ left'[j] <= left[j]
<1>1. /\ left' \in [Mishap -> Nat]
      /\ \A j \in Mishap : left'[j] = IF j \in {k} THEN left[j] - 1 ELSE left[j]
  BY SpendLeft
<1> QED  BY <1>1

LEMMA NextHooksFit ==
  ASSUME TypeInv, HooksFit, [Next]_vars
  PROVE  HooksFit'
<1>0. /\ d3d \in TableType /\ left \in [Mishap -> Nat]
      /\ left["partial"] <= 1 /\ Sound(d3d, left["partial"])
  BY TypeParts DEF TypeInv, HooksFit
<1>1. CASE EnterPresent
  <2>1. d3d.slot \in Renderer /\ OnFrame(d3d.slot)
    BY <1>0, <1>1, Renderers DEF EnterPresent, Enter, TableType
  <2> QED  BY <2>1, FrameHooksFit
<1>2. CASE CallOriginal
  <2>1. Top.original \in Renderer /\ OnFrame(Top.original)
    <3>1. calls \in Seq(CallType) /\ calls # <<>> /\ Top.original # "game"
      BY <1>2, TypeParts DEF CallOriginal, TypeInv
    <3>2. calls[Len(calls)] \in CallType
      BY <3>1
    <3>3. Top.original \in Renderer
      BY <3>1, <3>2, Renderers DEF Top, CallType
    <3> QED  BY <1>2, <3>3 DEF CallOriginal
  <2> QED  BY <2>1, FrameHooksFit
<1>3. CASE HookMonitor
  BY <1>3, PollHooksFit
<1>4. CASE ReturnPresent \/ Message \/ Tick \/ UNCHANGED vars
  BY <1>0, <1>4 DEF ReturnPresent, Message, Tick, vars, HooksFit
<1>5. ASSUME NEW k \in {"resize", "stop", "cover", "swallow"}, left[k] > 0, Spend({k}), d3d' = d3d
      PROVE  HooksFit'
  <2>1. left'["partial"] = left["partial"]
    BY <1>0, <1>5, SpendOther DEF Mishap
  <2> QED  BY <1>0, <1>5, <2>1 DEF HooksFit
<1>6. CASE ResizeBuffers \/ Stop \/ Cover \/ Swallow
  BY <1>5, <1>6 DEF ResizeBuffers, Stop, Cover, Swallow
<1>7. CASE TakeAway
  <2>1. left["takeAway"] > 0 /\ Spend({"takeAway"}) /\ d3d' = [d3d EXCEPT !.slot = "game"]
    BY <1>7 DEF TakeAway
  <2>2. left'["partial"] = left["partial"]
    BY <1>0, <2>1, SpendOther DEF Mishap
  <2>3. Sound(d3d', left["partial"])
    BY <1>0, <2>1, TakenAwaySound
  <2> QED  BY <1>0, <2>2, <2>3 DEF HooksFit
<1> QED  BY <1>1, <1>2, <1>3, <1>4, <1>6, <1>7 DEF Next, Present

\* Another procedure is over ours, or ours over it.
Covered(w) == w.top = "other" \/ w.below = "other"

\* What the window, the monitor's test message and its request have to do with each
\* other.  A test message that comes to our procedure is answered at once, so it is
\* never older than the polls that were missed; that is why only a procedure which
\* keeps the messages is ever covered in turn.
WindowFits ==
  /\ init.done => window.hooked
  /\ window.hooked => window.top # "game"
  /\ ~ window.hooked => /\ window.top # "ours" /\ window.below = "game"
                        /\ window.otherBelow = "game"
  /\ mon.sent \/ requested => window.hooked /\ Covered(window)
  /\ requested /\ window.top = "other" /\ window.otherBelow = "ours" => ~ window.forwards
  /\ mon.sent /\ Reaches(window, window.top) => mon.message <= due
  /\ left["stop"] > 0 => ~ Covered(window) /\ left["cover"] = 0
  /\ NoEndlessMessages

LEMMA InitWindowFits == StopsUncovered /\ Init => WindowFits
<1> SUFFICES ASSUME StopsUncovered, Init PROVE WindowFits
  OBVIOUS
<1>1. left \in Budgets /\ left \in [Mishap -> Nat]
  BY MonitorAssumption DEF Init
<1>2. left["stop"] > 0 => left["cover"] = 0
  BY <1>1, LeftIsNat DEF StopsUncovered
<1>3. /\ window.top = "game" /\ window.hooked = FALSE /\ window.below = "game"
      /\ window.otherBelow = "game" /\ init.done = FALSE /\ mon.sent = FALSE /\ requested = FALSE
  BY DEF Init
<1> QED  BY <1>2, <1>3 DEF WindowFits, NoEndlessMessages, Covered

LEMMA FrameWindowFits ==
  ASSUME TypeInv, WindowFits, NEW h \in Renderer, OnFrame(h), due' = due
  PROVE  WindowFits'
<1>0. /\ window \in WindowType /\ mon \in MonType /\ left \in [Mishap -> Nat]
      /\ due \in 0 .. MaxLate + 1 /\ (window.top = "ours" => window.hooked)
  BY TypeParts DEF TypeInv
<1>1. FrameIdles \/ FrameHooks \/ \E g \in Renderer, out \in Outcome : FrameFalls(g, out)
  BY FrameSteps
<1>2. CASE FrameIdles
  BY <1>0, <1>2 DEF FrameIdles, WindowFits, NoEndlessMessages
<1>3. CASE FrameHooks
  <2>1. /\ window'.top = "ours" /\ window'.hooked
        /\ window'.below = IF window.top = "ours" THEN window.below ELSE window.top
        /\ window'.otherBelow = window.otherBelow /\ window'.forwards = window.forwards
    BY <1>0, <1>3, HookWindowFields DEF FrameHooks
  <2>2. mon'.message = 0 /\ mon'.sent = mon.sent /\ requested' = FALSE /\ left' = left
    BY <1>0, <1>3, MessageMon DEF FrameHooks
  <2>3. requested \/ ~ window.hooked
    BY <1>3 DEF FrameHooks, RenewsMessageHook
  <2>4. mon'.message <= due
    BY <1>0, <2>2, Numbers
  <2>5. mon.sent => Covered(window')
    BY <1>0, <2>1 DEF WindowFits, Covered, WindowType
  <2>6. left["stop"] > 0 => ~ Covered(window') /\ left["cover"] = 0
    BY <1>0, <2>1 DEF WindowFits, Covered, WindowType
  <2>7. ~ (window'.below = "other" /\ window'.otherBelow = "ours" /\ window'.forwards)
    <3>1. CASE window.top = "ours"
      BY <3>1, <2>1 DEF WindowFits, NoEndlessMessages
    <3>2. CASE window.top = "other"
      BY <3>2, <2>1, <2>3 DEF WindowFits
    <3>3. CASE window.top = "game"
      BY <3>3, <2>1
    <3> QED  BY <1>0, <3>1, <3>2, <3>3 DEF WindowType
  <2> QED  BY <2>1, <2>2, <2>4, <2>5, <2>6, <2>7 DEF WindowFits, NoEndlessMessages
<1>4. ASSUME NEW g \in Renderer, NEW out \in Outcome, FrameFalls(g, out)
      PROVE  WindowFits'
  <2>1. left'["stop"] = left["stop"] /\ left'["cover"] = left["cover"]
    BY <1>0, <1>4, SpendTroubles DEF FrameFalls, Mishap
  <2> QED  BY <1>4, <2>1 DEF FrameFalls, WindowFits, NoEndlessMessages
<1> QED  BY <1>1, <1>2, <1>3, <1>4

\* A test message that comes to our procedure is not overdue.
LEMMA AnsweredInTime ==
  ASSUME LockIsShort, TypeInv, WindowFits, mon.sent, Reaches(window, window.top)
  PROVE  ~ (mon.message > Limit)
<1>1. mon.message <= due /\ due \in 0 .. MaxLate + 1 /\ mon.message \in Int
  BY TypeParts, MonFields DEF WindowFits, TypeInv
<1> QED  BY <1>1, Numbers DEF LockIsShort

LEMMA PollWindowFits ==
  ASSUME LockIsShort, TypeInv, WindowFits, HookMonitor
  PROVE  WindowFits'
<1>0. /\ window \in WindowType /\ mon \in MonType /\ left \in [Mishap -> Nat]
      /\ requested \in BOOLEAN
  BY TypeParts DEF TypeInv
<1>1. /\ due' = 0 /\ UNCHANGED <<init, window>>
      /\ PollWatches \/ \E out \in Outcome : PollRehooks(out)
  BY PollSteps
<1>2. CASE PollWatches
  <2> DEFINE m == TakeChance(mon)
  <2>1. m \in MonType /\ m.message = mon.message /\ m.send = mon.send /\ m.sent = mon.sent
    BY <1>0, TakeChanceMon
  <2>2. /\ mon' = CheckMessages(m) /\ requested' = (requested \/ Requests(m)) /\ left' = left
    BY <1>2 DEF PollWatches
  <2> HIDE DEF m
  <2>3. CASE ~ Overdue(m)
    <3>1. ~ mon'.sent /\ requested' = requested
      BY <1>0, <2>1, <2>2, <2>3 DEF CheckMessages, Requests, MonType
    <3> QED  BY <1>1, <2>2, <3>1 DEF WindowFits, NoEndlessMessages
  <2>4. CASE Overdue(m) /\ window.top = "ours"
    <3>1. ~ mon'.sent /\ requested' = requested
      BY <1>0, <2>1, <2>2, <2>4 DEF CheckMessages, Requests, MonType
    <3> QED  BY <1>1, <2>2, <3>1 DEF WindowFits, NoEndlessMessages
  <2>5. CASE Overdue(m) /\ window.top # "ours" /\ ~ m.sent
    <3>1. requested' = requested
      BY <1>0, <2>2, <2>5 DEF Requests
    <3>2. Reaches(window, window.top) => mon'.message = 0
      BY <2>1, <2>2, <2>5 DEF CheckMessages, MonType
    <3>3. window.hooked /\ Covered(window)
      BY <1>0, <2>5 DEF Overdue, WindowFits, Covered, WindowType
    <3>4. Reaches(window, window.top) => mon'.message <= 0
      BY <3>2
    <3> QED  BY <1>1, <2>2, <3>1, <3>3, <3>4 DEF WindowFits, NoEndlessMessages
  <2>6. CASE Overdue(m) /\ window.top # "ours" /\ m.sent
    <3>1. ~ Reaches(window, window.top)
      BY <2>1, <2>6, AnsweredInTime DEF Overdue
    <3>2. window.hooked /\ Covered(window)
      BY <2>1, <2>6 DEF WindowFits
    <3>3. window.top = "other" /\ window.otherBelow = "ours" => ~ window.forwards
      BY <3>1 DEF Reaches
    <3> QED  BY <1>1, <2>2, <3>1, <3>2, <3>3 DEF WindowFits, NoEndlessMessages
  <2> QED  BY <2>3, <2>4, <2>5, <2>6
<1>3. ASSUME NEW out \in Outcome, PollRehooks(out)
      PROVE  WindowFits'
  <2>1. left'["stop"] = left["stop"] /\ left'["cover"] = left["cover"]
    BY <1>0, <1>3, SpendTroubles DEF PollRehooks, Mishap
  <2>2. ~ mon'.sent /\ requested' = requested
    BY <1>3 DEF PollRehooks
  <2> QED  BY <1>1, <2>1, <2>2 DEF WindowFits, NoEndlessMessages
<1> QED  BY <1>1, <1>2, <1>3

LEMMA NextWindowFits ==
  ASSUME LockIsShort, TypeInv, WindowFits, [Next]_vars
  PROVE  WindowFits'
<1>0. /\ d3d \in TableType /\ window \in WindowType /\ mon \in MonType
      /\ left \in [Mishap -> Nat] /\ due \in 0 .. MaxLate + 1 /\ init \in InitType
      /\ (window.top = "ours" => window.hooked)
      /\ left["stop"] \in Nat /\ left["cover"] \in Nat
      /\ "stop" \in Mishap /\ "cover" \in Mishap
  BY TypeParts, LeftIsNat DEF TypeInv
<1>1. CASE EnterPresent
  <2>1. d3d.slot \in Renderer /\ OnFrame(d3d.slot) /\ due' = due
    BY <1>0, <1>1, Renderers DEF EnterPresent, Enter, TableType
  <2> QED  BY <2>1, FrameWindowFits
<1>2. CASE CallOriginal
  <2>1. Top.original \in Renderer /\ OnFrame(Top.original)
    <3>1. calls \in Seq(CallType) /\ calls # <<>> /\ Top.original # "game"
      BY <1>2, TypeParts DEF CallOriginal, TypeInv
    <3>2. calls[Len(calls)] \in CallType
      BY <3>1
    <3>3. Top.original \in Renderer
      BY <3>1, <3>2, Renderers DEF Top, CallType
    <3> QED  BY <1>2, <3>3 DEF CallOriginal
  <2>2. due' = due
    BY <1>2 DEF CallOriginal
  <2> QED  BY <2>1, <2>2, FrameWindowFits
<1>3. CASE HookMonitor
  BY <1>3, PollWindowFits
<1>4. CASE ReturnPresent
  <2>1. mon'.message = mon.message /\ mon'.sent = mon.sent
    BY <1>0, <1>4, PostPresentMon DEF ReturnPresent
  <2> QED  BY <1>4, <2>1 DEF ReturnPresent, WindowFits, NoEndlessMessages
<1>5. CASE ResizeBuffers
  <2>1. left'["stop"] = left["stop"] /\ left'["cover"] = left["cover"]
    BY <1>0, <1>5, SpendOther DEF ResizeBuffers, Mishap
  <2>2. init'.done = FALSE
    BY <1>0, <1>5 DEF ResizeBuffers, InitType
  <2> QED  BY <1>5, <2>1, <2>2 DEF ResizeBuffers, WindowFits, NoEndlessMessages
<1>6. CASE Message
  <2>1. mon'.message = 0 /\ mon'.sent = mon.sent
    BY <1>0, <1>6, MessageMon DEF Message
  <2>2. mon'.message <= due
    BY <1>0, <2>1, Numbers
  <2> QED  BY <1>6, <2>1, <2>2 DEF Message, WindowFits, NoEndlessMessages
<1>7. CASE Tick
  <2>1. /\ mon'.message = IF mon.message <= Limit THEN mon.message + 1 ELSE Limit + 1
        /\ mon'.sent = mon.sent /\ due' = due + 1
    BY <1>0, <1>7, AgedMon DEF Tick
  <2>2. mon.message <= due => mon'.message <= due'
    BY <1>0, <2>1, MonFields, Numbers
  <2> QED  BY <1>7, <2>1, <2>2 DEF Tick, WindowFits, NoEndlessMessages
<1>8. CASE Stop
  <2>1. left["stop"] > 0 /\ left'["cover"] = left["cover"] /\ mon'.sent = mon.sent
    BY <1>0, <1>8, SpendOther, StopMon DEF Stop
  <2>2. ~ Covered(window) /\ left["cover"] = 0 /\ ~ mon.sent
    BY <2>1 DEF WindowFits
  <2> QED  BY <1>8, <2>1, <2>2 DEF Stop, WindowFits, NoEndlessMessages
<1>9. CASE TakeAway
  <2>1. left'["stop"] = left["stop"] /\ left'["cover"] = left["cover"]
    BY <1>0, <1>9, SpendOther DEF TakeAway, Mishap
  <2> QED  BY <1>9, <2>1 DEF TakeAway, WindowFits, NoEndlessMessages
<1>10. CASE Cover
  <2>1. ~ Covered(window) /\ left["cover"] > 0 /\ UNCHANGED <<init, requested, mon, due>>
    BY <1>10 DEF Cover, Covered
  <2>2. left["stop"] = 0 /\ left'["stop"] = left["stop"]
    BY <1>0, <1>10, <2>1, SpendOther DEF Cover, WindowFits
  <2>3. /\ window'.top = "other" /\ window'.otherBelow = window.top
        /\ window'.hooked = window.hooked /\ window'.below = window.below
        /\ window'.forwards = window.forwards
    BY <1>0, <1>10 DEF Cover, WindowType
  <2>4. ~ mon.sent /\ ~ requested
    BY <2>1 DEF WindowFits
  <2>5. ~ window.hooked => window.top = "game"
    BY <1>0, <2>1 DEF WindowFits, Covered, WindowType
  <2> QED  BY <2>1, <2>2, <2>3, <2>4, <2>5 DEF WindowFits, NoEndlessMessages, Covered
<1>11. CASE Swallow
  <2>1. left'["stop"] = left["stop"] /\ left'["cover"] = left["cover"]
    BY <1>0, <1>11, SpendOther DEF Swallow, Mishap
  <2>2. /\ window'.top = window.top /\ window'.otherBelow = window.otherBelow
        /\ window'.hooked = window.hooked /\ window'.below = window.below
        /\ window'.forwards = FALSE
    BY <1>0, <1>11 DEF Swallow, WindowType
  <2>3. Reaches(window', window'.top) => Reaches(window, window.top)
    BY <2>2 DEF Reaches
  <2> QED  BY <1>11, <2>1, <2>2, <2>3 DEF Swallow, WindowFits, NoEndlessMessages, Covered
<1>12. CASE UNCHANGED vars
  BY <1>12 DEF vars, WindowFits, NoEndlessMessages
<1> QED  BY <1>1, <1>2, <1>3, <1>4, <1>5, <1>6, <1>7, <1>8, <1>9, <1>10, <1>11, <1>12
         DEF Next, Present

\* The flags, the vtable and the window: what a sound state shows.
LEMMA FitIsSound ==
  ASSUME TypeInv, HooksFit, WindowFits
  PROVE  HooksAreSound
<1>0. d3d \in TableType /\ Sound(d3d, left["partial"])
  BY TypeParts DEF TypeInv, HooksFit
<1>1. Cardinality(d3d.is) <= 1
  <2>1. d3d.is = {} \/ d3d.is = {"d3d11"} \/ d3d.is = {"d3d12"}
    BY <1>0, Renderers DEF Sound, FlagsFit, TableType
  <2>2. /\ Cardinality({}) = 0 /\ Cardinality({"d3d11"}) = 1
        /\ Cardinality({"d3d12"}) = 1
    BY FS_EmptySet, FS_Singleton
  <2> QED  BY <2>1, <2>2
<1>2. \A h \in d3d.is : Hooked(h)
  BY <1>0, Renderers DEF Sound, FlagsFit, Hooked, TableType
<1>3. FramesReachTheGame
  <2>1. CASE d3d.slot = "game"
    BY <2>1 DEF FramesReachTheGame
  <2>2. CASE d3d.slot \in Renderer
    BY <1>0, <2>2 DEF Sound, SlotFits, FramesReachTheGame, Live
  <2> QED  BY <1>0, <2>1, <2>2, Renderers DEF TableType
<1>4. TypeOK /\ NoEndlessMessages
  BY DEF TypeInv, WindowFits
<1> QED  BY <1>1, <1>2, <1>3, <1>4 DEF HooksAreSound, FlagsAreTrue

\* What the mod goes by is true of the game's tables, and nothing runs in a circle:
\* for all limits, and whatever happens around the mod how often, within the three
\* conditions.
THEOREM TablesAreSoundAlways ==
  ASSUME OneHalfHook, StopsUncovered, LockIsShort
  PROVE  Spec => []HooksAreSound
<1> DEFINE I == TypeInv /\ HooksFit /\ WindowFits
<1>1. Init => I
  BY InitTypeInv, InitHooksFit, InitWindowFits
<1>2. I /\ [Next]_vars => I'
  BY NextTypeInv, NextHooksFit, NextWindowFits
<1>3. I => HooksAreSound
  BY FitIsSound
<1> HIDE DEF I
<1> QED  BY <1>1, <1>2, <1>3, PTL DEF Spec

-----------------------------------------------------------------------------
(* Nothing replaces a hook that is in Present *)

\* An attempt at one renderer leaves the other one's hook alone.
LEMMA AttemptOther ==
  ASSUME NEW s \in TableType, NEW h \in Renderer, NEW o \in Renderer \ {h}, NEW res
  PROVE  Attempt(s, h, res).hook[o] = s.hook[o]
<1> DEFINE r == Renewed(s, h)
           t == Installed(r, h, res)
           u == Unhooked(t, h)
<1>1. r \in TableType /\ r.hook[o] = s.hook[o]
  BY RenewedTable
<1> HIDE DEF r
<1>2. t \in TableType /\ t.hook[o] = r.hook[o]
  BY <1>1, InstalledTable
<1> HIDE DEF t
<1>3. u \in TableType /\ u.hook[o] = t.hook[o]
  <2>1. /\ Unhooked(t, h) \in TableType
        /\ \A x \in Renderer \ {h} : Unhooked(t, h).hook[x] = t.hook[x]
    BY <1>2, UnhookedTable
  <2> QED  BY <2>1
<1> HIDE DEF u
<1>4. t.is \cup {h} \in SUBSET Renderer /\ u.is \ {h} \in SUBSET Renderer
  BY <1>2, <1>3 DEF TableType
<1>5. /\ WithFlags(t, t.is \cup {h}).hook[o] = t.hook[o]
      /\ WithFlags(u, u.is \ {h}).hook[o] = u.hook[o]
  BY <1>2, <1>3, <1>4, Flagged
<1>6. Attempt(s, h, res) = IF res = "hooked" THEN WithFlags(t, t.is \cup {h})
                           ELSE WithFlags(u, u.is \ {h})
  BY DEF Attempt, GivenUp, r, t, u
<1> QED  BY <1>1, <1>2, <1>3, <1>5, <1>6

\* The renderer that is given up keeps its hook object.
LEMMA FallBackKeeps ==
  ASSUME d3d \in TableType, NEW k \in Nat, Sound(d3d, k), NEW out,
         NEW h \in d3d.is, ~ HasDevice(h)
  PROVE  FallBack(h, out).hook[h].id = d3d.hook[h].id
<1> DEFINE s == GivenUp(d3d, h)
           u == Unhooked(d3d, h)
<1>1. h \in Renderer /\ h = "d3d12" /\ "d3d11" \in Renderer /\ h \in Renderer \ {"d3d11"}
  BY Renderers DEF TableType, HasDevice
<1>2. s \in TableType /\ s.is = {}
  BY <1>1, UnhookedSound
<1>3. u \in TableType /\ u.hook[h] = [d3d.hook[h] EXCEPT !.hooked = FALSE]
  BY <1>1, UnhookedTable
<1>4. u.hook[h].id = d3d.hook[h].id
  BY <1>1, <1>3 DEF TableType, HookType
<1> HIDE DEF u
<1>5. u.is \ {h} \in SUBSET Renderer
  BY <1>3 DEF TableType
<1>6. WithFlags(u, u.is \ {h}).hook = u.hook
  BY <1>3, <1>5, Flagged
<1>7. s.hook = u.hook
  BY <1>6 DEF GivenUp, u
<1>8. FallBack(h, out) = HookD3D11(s, out)
  BY <1>1 DEF FallBack, GivenUp, WithFlags
<1> HIDE DEF s
<1>9. FallBack(h, out) = Attempt(s, "d3d11", out["d3d11"])
  BY <1>2, <1>8 DEF HookD3D11, Attempt, GivenUp, WithFlags, Succeeds
<1>10. Attempt(s, "d3d11", out["d3d11"]).hook[h] = s.hook[h]
  BY <1>1, <1>2, AttemptOther
<1> QED  BY <1>4, <1>7, <1>9, <1>10

\* Where no hook is ever left half installed, a hook in the vtable is hooked as a whole
\* and covers the game's Present; so there is one activation at most.
AloneInPresent ==
  /\ left["partial"] = 0 /\ Sound(d3d, 1)
  /\ \/ calls = <<>>
     \/ /\ Len(calls) = 1 /\ calls[1].by \in Renderer /\ calls[1].original = "game"
        /\ calls[1].id = d3d.hook[calls[1].by].id

LEMMA NextAloneInPresent ==
  ASSUME TypeInv, AloneInPresent, [Next]_vars
  PROVE  AloneInPresent'
<1>0. /\ d3d \in TableType /\ left \in [Mishap -> Nat] /\ calls \in Seq(CallType)
      /\ left["partial"] = 0 /\ Sound(d3d, 1) /\ "partial" \in Mishap
  BY TypeParts DEF TypeInv, AloneInPresent, Mishap
<1>1. CASE EnterPresent
  <2> DEFINE h == d3d.slot
  <2>1. /\ h \in Renderer /\ OnFrame(h) /\ calls = <<>>
        /\ calls' = Append(calls, Activation(h))
    BY <1>0, <1>1, Renderers DEF EnterPresent, Enter, TableType
  <2>2. d3d.hook[h].hooked /\ d3d.hook[h].below = "game" /\ h \in d3d.is
    <3>1. 1 # 0
      OBVIOUS
    <3> QED  BY <1>0, <2>1, <3>1 DEF Sound, SlotFits, FlagsFit
  <2>3. Activation(h) = [by |-> h, id |-> d3d.hook[h].id, original |-> "game", called |-> FALSE]
    BY <2>2 DEF Activation
  <2> HIDE DEF h
  <2>4. /\ Len(calls') = 1 /\ calls'[1].by = h /\ calls'[1].original = "game"
        /\ calls'[1].id = d3d.hook[h].id
    BY <2>1, <2>3
  <2>5. FrameIdles \/ FrameHooks \/ \E g \in Renderer, out \in Outcome : FrameFalls(g, out)
    BY <2>1, FrameSteps
  <2>6. CASE FrameIdles \/ FrameHooks
    BY <1>0, <2>1, <2>4, <2>6 DEF FrameIdles, FrameHooks, AloneInPresent
  <2>7. ASSUME NEW g \in Renderer, NEW out \in Outcome, FrameFalls(g, out)
        PROVE  AloneInPresent'
    <3>1. g = h /\ g \in d3d.is /\ ~ HasDevice(g) /\ d3d' = FallBack(g, out)
      BY <1>0, <2>1, <2>2, <2>7, Renderers DEF FrameFalls, Sound, FlagsFit, TableType
    <3>2. Pays(out, 1, 1) /\ left'["partial"] = 0
      BY <1>0, <2>7, SpendTroubles DEF FrameFalls
    <3>3. Sound(d3d', 1)
      BY <1>0, <3>1, <3>2, FallBackSound
    <3>4. d3d'.hook[h].id = d3d.hook[h].id
      BY <1>0, <3>1, FallBackKeeps
    <3> QED  BY <2>1, <2>4, <3>2, <3>3, <3>4 DEF AloneInPresent
  <2> QED  BY <2>5, <2>6, <2>7
<1>2. CASE CallOriginal
  BY <1>2 DEF CallOriginal, Top, AloneInPresent
<1>3. CASE ReturnPresent
  <2>1. calls' = <<>>
    BY <1>0, <1>3 DEF ReturnPresent, AloneInPresent
  <2> QED  BY <1>0, <1>3, <2>1 DEF ReturnPresent, AloneInPresent
<1>4. CASE HookMonitor
  <2>1. /\ calls = <<>> /\ calls' = calls
        /\ PollWatches \/ \E out \in Outcome : PollRehooks(out)
    BY <1>4, PollSteps
  <2>2. CASE PollWatches
    BY <1>0, <2>1, <2>2 DEF PollWatches, AloneInPresent
  <2>3. ASSUME NEW out \in Outcome, PollRehooks(out)
        PROVE  AloneInPresent'
    <3>1. Pays(out, 1, 1) /\ left'["partial"] = 0
      BY <1>0, <2>3, SpendTroubles DEF PollRehooks
    <3>2. Sound(d3d', 1)
      BY <1>0, <2>3, <3>1, RehookSound DEF PollRehooks
    <3> QED  BY <2>1, <3>1, <3>2 DEF AloneInPresent
  <2> QED  BY <2>1, <2>2, <2>3
<1>5. CASE Message \/ Tick \/ UNCHANGED vars
  BY <1>5 DEF Message, Tick, vars, AloneInPresent
<1>6. ASSUME NEW k \in {"resize", "stop", "cover", "swallow"}, left[k] > 0, Spend({k}),
             UNCHANGED <<d3d, calls>>
      PROVE  AloneInPresent'
  <2>1. left'["partial"] = left["partial"]
    <3>1. k \in Mishap /\ "partial" \in Mishap \ {k}
      BY DEF Mishap
    <3> QED  BY <1>0, <1>6, <3>1, SpendOther
  <2> QED  BY <1>6, <2>1 DEF AloneInPresent
<1>7. CASE ResizeBuffers \/ Stop \/ Cover \/ Swallow
  BY <1>6, <1>7 DEF ResizeBuffers, Stop, Cover, Swallow
<1>8. CASE TakeAway
  <2>1. /\ left["takeAway"] > 0 /\ Spend({"takeAway"}) /\ calls' = calls
        /\ d3d' = [d3d EXCEPT !.slot = "game"]
    BY <1>8 DEF TakeAway
  <2>2. left'["partial"] = left["partial"]
    BY <1>0, <2>1, SpendOther DEF Mishap
  <2>3. Sound(d3d', 1) /\ d3d'.hook = d3d.hook
    BY <1>0, <2>1, TakenAwaySound DEF TableType
  <2> QED  BY <2>1, <2>2, <2>3 DEF AloneInPresent
<1> QED  BY <1>1, <1>2, <1>3, <1>4, <1>5, <1>7, <1>8 DEF Next, Present

\* Present goes on with the hook object it was called for: nothing replaces it from
\* within, and the monitor waits.
THEOREM NothingReplacesInPresent == Spec => NoReplaceInPresent
<1> DEFINE Whole == left["partial"] = 0
           Kept == \A i \in DOMAIN calls : calls[i].id = d3d.hook[calls[i].by].id
<1>1. Init /\ Whole => AloneInPresent
  BY SoundStart DEF AloneInPresent, Init
<1>2. TypeInv /\ AloneInPresent /\ [Next]_vars => AloneInPresent'
  BY NextAloneInPresent
<1>3. TypeInv /\ AloneInPresent => Kept
  <2> SUFFICES ASSUME TypeInv, AloneInPresent, NEW i \in DOMAIN calls
               PROVE  calls[i].id = d3d.hook[calls[i].by].id
    OBVIOUS
  <2>1. calls \in Seq(CallType)
    BY TypeParts DEF TypeInv
  <2>2. Len(calls) = 1 /\ i = 1
    BY <2>1 DEF AloneInPresent
  <2> QED  BY <2>2 DEF AloneInPresent
<1>4. NoReplaceInPresent <=> (Whole => []Kept)
  BY DEF NoReplaceInPresent
<1> HIDE DEF Whole, Kept
<1> QED  BY <1>1, <1>2, <1>3, <1>4, TypeInvAlways, PTL DEF Spec

-----------------------------------------------------------------------------
(* A game that draws is not hooked again *)

\* A hook that fails leaves no flag: with a flag, the vtable is ours.
LEMMA AttemptTaken ==
  ASSUME NEW s \in TableType, NEW h \in Renderer, s.is \subseteq {h}, NEW res
  PROVE  Attempt(s, h, res).is = {} \/ Attempt(s, h, res).slot = h
<1> DEFINE r == Renewed(s, h)
           t == Installed(r, h, res)
           u == Unhooked(t, h)
<1>1. r \in TableType /\ r.is = s.is
  BY RenewedTable
<1> HIDE DEF r
<1>2. t \in TableType /\ t.is = r.is /\ (res # "fails" => t.slot = h)
  BY <1>1, InstalledTable
<1> HIDE DEF t
<1>3. u \in TableType /\ u.is = t.is
  BY <1>2, UnhookedTable
<1> HIDE DEF u
<1>4. t.is \cup {h} \in SUBSET Renderer /\ u.is \ {h} \in SUBSET Renderer /\ u.is \ {h} = {}
  BY <1>1, <1>2, <1>3 DEF TableType
<1>5. /\ WithFlags(t, t.is \cup {h}).slot = t.slot
      /\ WithFlags(u, u.is \ {h}).is = {}
  BY <1>2, <1>3, <1>4, Flagged
<1>6. Attempt(s, h, res) = IF res = "hooked" THEN WithFlags(t, t.is \cup {h})
                           ELSE WithFlags(u, u.is \ {h})
  BY DEF Attempt, GivenUp, r, t, u
<1> QED  BY <1>2, <1>5, <1>6

LEMMA FallBackTaken ==
  ASSUME d3d \in TableType, NEW out, NEW h \in d3d.is, ~ HasDevice(h)
  PROVE  FallBack(h, out).slot = "game" => FallBack(h, out).is = {}
<1> DEFINE u == Unhooked(d3d, h)
           s == WithFlags(u, u.is \ {h})
<1>1. h \in Renderer /\ h = "d3d12" /\ "d3d11" \in Renderer
  BY Renderers DEF TableType, HasDevice
<1>2. u \in TableType /\ u.is = d3d.is
  BY <1>1, UnhookedTable
<1> HIDE DEF u
<1>3. u.is \ {h} \in SUBSET Renderer
  BY <1>2 DEF TableType
<1>4. s \in TableType /\ s.is = u.is \ {h}
  BY <1>2, <1>3, Flagged
<1>5. FallBack(h, out) = HookD3D11(s, out)
  BY <1>1 DEF FallBack, WithFlags, u
<1> HIDE DEF s
<1>6. "d3d12" \notin s.is /\ s.is \subseteq {"d3d11"}
  BY <1>1, <1>3, <1>4, Renderers
<1>7. FallBack(h, out) = Attempt(s, "d3d11", out["d3d11"])
  BY <1>5, <1>6 DEF HookD3D11, Attempt, GivenUp, WithFlags, Succeeds
<1> QED  BY <1>1, <1>4, <1>6, <1>7, AttemptTaken

\* In Present, without a hook in the vtable, there is nothing to fall back from.
Deserted == d3d.slot = "game" /\ calls # <<>> => d3d.is = {}

LEMMA FrameDeserted ==
  ASSUME TypeInv, Deserted, NEW h \in Renderer, OnFrame(h), d3d.slot # "game" \/ calls # <<>>
  PROVE  /\ d3d'.slot = "game" => d3d'.is = {}
         /\ d3d.slot = "game" => d3d' = d3d
<1>0. d3d \in TableType
  BY TypeParts DEF TypeInv
<1>1. FrameIdles \/ FrameHooks \/ \E g \in Renderer, out \in Outcome : FrameFalls(g, out)
  BY FrameSteps
<1>2. CASE FrameIdles \/ FrameHooks
  BY <1>2 DEF FrameIdles, FrameHooks, Deserted
<1>3. ASSUME NEW g \in Renderer, NEW out \in Outcome, FrameFalls(g, out)
      PROVE  (d3d'.slot = "game" => d3d'.is = {}) /\ d3d.slot # "game"
  BY <1>0, <1>3, FallBackTaken DEF FrameFalls, Deserted
<1> QED  BY <1>1, <1>2, <1>3

\* A frame comes from a hook in the vtable or from another frame.
Framed == \E h \in Renderer : OnFrame(h) /\ calls' # <<>> /\ UNCHANGED <<due, quiet, untried>>
                              /\ (d3d.slot # "game" \/ calls # <<>>)

LEMMA FramedSteps ==
  ASSUME TypeInv, EnterPresent \/ CallOriginal
  PROVE  Framed
<1>0. calls \in Seq(CallType) /\ d3d \in TableType
  BY TypeParts DEF TypeInv
<1>1. CASE EnterPresent
  <2>1. d3d.slot \in Renderer /\ OnFrame(d3d.slot) /\ d3d.slot # "game"
        /\ calls' = Append(calls, Activation(d3d.slot)) /\ UNCHANGED <<due, quiet, untried>>
    BY <1>0, <1>1, Renderers DEF EnterPresent, Enter, TableType
  <2>2. calls' # <<>>
    BY <1>0, <2>1
  <2> QED  BY <2>1, <2>2 DEF Framed
<1>2. CASE CallOriginal
  <2> DEFINE c == [calls EXCEPT ![Len(calls)].called = TRUE]
  <2>1. calls # <<>> /\ Len(calls) \in DOMAIN calls /\ calls[Len(calls)] \in CallType
    BY <1>0, <1>2 DEF CallOriginal
  <2>2. Top.original \in Renderer
    BY <1>2, <2>1, Renderers DEF CallOriginal, Top, CallType
  <2>3. [calls[Len(calls)] EXCEPT !.called = TRUE] \in CallType
    BY <2>1 DEF CallType
  <2>4. c \in Seq(CallType)
    BY <1>0, <2>1, <2>3
  <2>5. calls' = Append(c, Activation(Top.original))
    BY <1>2 DEF CallOriginal
  <2> HIDE DEF c
  <2>6. calls' # <<>>
    BY <2>4, <2>5
  <2>7. OnFrame(Top.original) /\ UNCHANGED <<due, quiet, untried>>
    BY <1>2 DEF CallOriginal
  <2> QED  BY <2>1, <2>2, <2>6, <2>7 DEF Framed
<1> QED  BY <1>1, <1>2

LEMMA NextDeserted ==
  ASSUME TypeInv, Deserted, [Next]_vars
  PROVE  Deserted'
<1>1. CASE EnterPresent \/ CallOriginal
  BY <1>1, FramedSteps, FrameDeserted DEF Framed, Deserted
<1>2. CASE ReturnPresent
  <2>1. calls # <<>> /\ d3d' = d3d
    BY <1>2 DEF ReturnPresent
  <2> QED  BY <2>1 DEF Deserted
<1>3. CASE HookMonitor
  BY <1>3 DEF HookMonitor, Deserted
<1>4. CASE ResizeBuffers \/ Message \/ Tick \/ Stop \/ Cover \/ Swallow \/ UNCHANGED vars
  BY <1>4 DEF ResizeBuffers, Message, Tick, Stop, Cover, Swallow, vars, Deserted
<1>5. CASE TakeAway
  BY <1>5 DEF TakeAway, Deserted
<1> QED  BY <1>1, <1>2, <1>3, <1>4, <1>5 DEF Next, Present

\* The monitor's watch of the frames and the time since the last frame.  As long as the
\* process has yet to stop, the monitor only loses patience when the hooks are out.
Patient ==
  /\ left["stop"] <= 1 /\ (left["stop"] > 0 => left["hang"] = 0)
  /\ mon.present > Limit /\ ~ mon.lastChance => quiet > Chance \/ mon.chance <= quiet
  /\ mon.present <= Limit /\ quiet <= Chance => mon.present <= quiet
  /\ left["stop"] > 0 =>
       /\ quiet <= Chance => mon.present <= quiet
       /\ d3d.slot # "game" => mon.present <= Chance + 1
       /\ ~ mon.lastChance => quiet > Chance /\ d3d.slot = "game" /\ calls = <<>>

LEMMA InitPatient == OneStop /\ Init => Patient /\ Deserted
<1> SUFFICES ASSUME OneStop, Init PROVE Patient /\ Deserted
  OBVIOUS
<1>1. left \in Budgets /\ left \in [Mishap -> Nat]
  BY MonitorAssumption DEF Init
<1>2. left["stop"] <= 1 /\ (left["stop"] > 0 => left["hang"] = 0)
  BY <1>1, LeftIsNat DEF OneStop
<1>3. /\ mon.present = 0 /\ mon.lastChance = TRUE /\ quiet = 0 /\ calls = <<>>
  BY DEF Init
<1> QED  BY <1>2, <1>3, Numbers DEF Patient, Deserted

LEMMA NextPatient ==
  ASSUME TypeInv, Deserted, Patient, [Next]_vars
  PROVE  Patient'
<1>0. /\ d3d \in TableType /\ mon \in MonType /\ left \in [Mishap -> Nat]
      /\ quiet \in Int /\ quiet >= 0 /\ quiet <= Chance + 1
      /\ left["stop"] \in Nat /\ left["hang"] \in Nat
      /\ "stop" \in Mishap /\ "hang" \in Mishap
  BY TypeParts, LeftIsNat, Numbers DEF TypeInv
<1>1. CASE EnterPresent \/ CallOriginal
  <2>1. PICK h \in Renderer : /\ OnFrame(h) /\ calls' # <<>> /\ quiet' = quiet
                              /\ (d3d.slot # "game" \/ calls # <<>>)
    BY <1>1, FramedSteps DEF Framed
  <2>2. d3d'.slot # "game" => d3d.slot # "game"
    BY <2>1, FrameDeserted
  <2>3. FrameIdles \/ FrameHooks \/ \E g \in Renderer, out \in Outcome : FrameFalls(g, out)
    BY <2>1, FrameSteps
  <2>4. /\ left'["stop"] = left["stop"] /\ left'["hang"] = left["hang"]
        /\ mon'.present = mon.present /\ mon'.chance = mon.chance
        /\ mon'.lastChance = mon.lastChance
    <3>1. CASE FrameIdles
      BY <3>1 DEF FrameIdles
    <3>2. CASE FrameHooks
      BY <1>0, <3>2, MessageMon DEF FrameHooks
    <3>3. ASSUME NEW g \in Renderer, NEW out \in Outcome, FrameFalls(g, out)
          PROVE  /\ left'["stop"] = left["stop"] /\ left'["hang"] = left["hang"] /\ mon' = mon
      BY <1>0, <3>3, SpendTroubles DEF FrameFalls
    <3> QED  BY <2>3, <3>1, <3>2, <3>3
  <2>5. left["stop"] > 0 => mon.lastChance
    BY <2>1 DEF Patient
  <2> QED  BY <2>1, <2>2, <2>4, <2>5 DEF Patient
<1>2. CASE ReturnPresent
  <2>1. /\ mon'.present = (IF mon.present >= 0 THEN 0 ELSE mon.present)
        /\ mon'.lastChance = mon.lastChance /\ quiet' = 0 /\ calls # <<>>
        /\ UNCHANGED <<left, d3d>>
    BY <1>0, <1>2, PostPresentMon DEF ReturnPresent
  <2>2. mon'.present <= 0
    BY <1>0, <2>1, MonFields
  <2>3. mon'.present <= Chance + 1 /\ ~ (mon'.present > Limit)
    BY <1>0, <2>1, <2>2, MonFields, Numbers
  <2>4. left["stop"] > 0 => mon.lastChance
    BY <2>1 DEF Patient
  <2> QED  BY <2>1, <2>2, <2>3, <2>4 DEF Patient
<1>3. CASE HookMonitor
  <2>1. /\ calls = <<>> /\ calls' = calls /\ quiet' = quiet
        /\ PollWatches \/ \E out \in Outcome : PollRehooks(out)
    BY <1>3, PollSteps
  <2>2. CASE PollWatches
    <3> DEFINE m == TakeChance(mon)
    <3>1. /\ m \in MonType /\ m.present = mon.present
          /\ mon.present <= Limit => m.lastChance
          /\ mon.present > Limit /\ ~ mon.lastChance => m = mon
          /\ mon.present <= Limit \/ mon.lastChance => m.chance = 0
      BY <1>0, TakeChanceMon
    <3>2. mon' = CheckMessages(m) /\ UNCHANGED <<d3d, left>>
      BY <2>2 DEF PollWatches
    <3> HIDE DEF m
    <3>3. /\ mon'.chance = m.chance /\ mon'.lastChance = m.lastChance
          /\ mon'.present = mon.present \/ mon'.present = -Limit
      BY <3>1, <3>2, CheckMessagesMon
    <3>4. mon'.present > Limit /\ ~ mon'.lastChance => quiet > Chance \/ mon'.chance <= quiet
      <4> SUFFICES ASSUME mon'.present > Limit PROVE quiet > Chance \/ mon'.chance <= quiet \/ mon'.lastChance
        OBVIOUS
      <4>1. mon'.present = mon.present /\ mon.present > Limit
        BY <3>3, Numbers
      <4>2. CASE mon.lastChance
        BY <1>0, <4>2, <3>1, <3>3
      <4>3. CASE ~ mon.lastChance
        BY <4>1, <4>3, <3>1, <3>3 DEF Patient
      <4> QED  BY <4>2, <4>3
    <3>5. mon'.present <= mon.present /\ mon'.present \in Int
      BY <1>0, <3>3, MonFields, Numbers
    <3>6. mon'.present <= Limit /\ quiet <= Chance => mon'.present <= quiet
      <4>1. CASE mon'.present = mon.present
        BY <4>1 DEF Patient
      <4>2. CASE mon'.present = -Limit
        BY <1>0, <4>2, Numbers
      <4> QED  BY <3>3, <4>1, <4>2
    <3>7. ASSUME left["stop"] > 0
          PROVE  /\ quiet <= Chance => mon'.present <= quiet
                 /\ d3d.slot # "game" => mon'.present <= Chance + 1
                 /\ ~ mon'.lastChance => quiet > Chance /\ d3d.slot = "game"
      <4>1. /\ quiet <= Chance => mon.present <= quiet
            /\ d3d.slot # "game" => mon.present <= Chance + 1
        BY <3>7 DEF Patient
      <4>2. ~ mon'.lastChance => mon.present > Limit
        BY <1>0, <3>1, <3>3, MonFields, Numbers
      <4>3. mon.present > Limit => quiet > Chance /\ d3d.slot = "game"
        BY <1>0, <4>1, MonFields, Numbers
      <4> QED  BY <1>0, <3>5, <4>1, <4>2, <4>3, MonFields, Numbers
    <3> QED  BY <2>1, <3>2, <3>4, <3>6, <3>7 DEF Patient
  <2>3. ASSUME NEW out \in Outcome, PollRehooks(out)
        PROVE  Patient'
    <3>1. mon'.present = -Limit /\ mon'.lastChance
      BY <2>3 DEF PollRehooks
    <3>2. left'["stop"] = left["stop"] /\ left'["hang"] = left["hang"]
      BY <1>0, <2>3, SpendTroubles DEF PollRehooks
    <3>3. mon'.present <= quiet /\ mon'.present <= Chance + 1
      BY <1>0, <3>1, Numbers
    <3> QED  BY <2>1, <3>1, <3>2, <3>3 DEF Patient
  <2> QED  BY <2>1, <2>2, <2>3
<1>4. CASE Tick
  <2>1. /\ mon'.present = (IF mon.present <= Limit THEN mon.present + 1 ELSE Limit + 1)
        /\ mon'.chance = (IF mon.chance <= Chance THEN mon.chance + 1 ELSE Chance + 1)
        /\ mon'.lastChance = mon.lastChance
        /\ UNCHANGED <<d3d, calls, left>>
    BY <1>0, <1>4, AgedMon DEF Tick
  <2>2. /\ quiet' = (IF quiet <= Chance THEN quiet + 1 ELSE Chance + 1)
        /\ d3d.slot = "game" \/ quiet <= MaxStall \/ left["hang"] > 0
    BY <1>0, <1>4, Numbers DEF Tick, Later
  <2>3. mon'.present > Limit /\ ~ mon'.lastChance => quiet' > Chance \/ mon'.chance <= quiet'
    <3>1. CASE mon.present > Limit
      BY <1>0, <2>1, <2>2, <3>1, MonFields, Numbers DEF Patient
    <3>2. CASE mon.present <= Limit
      BY <1>0, <2>1, <2>2, <3>2, MonFields, Numbers DEF Patient
    <3> QED  BY <1>0, <3>1, <3>2, MonFields, Numbers
  <2>4. mon'.present <= Limit /\ quiet' <= Chance => mon'.present <= quiet'
    BY <1>0, <2>1, <2>2, MonFields, Numbers DEF Patient
  <2>5. ASSUME left["stop"] > 0
        PROVE  /\ quiet' <= Chance => mon'.present <= quiet'
               /\ d3d.slot # "game" => mon'.present <= Chance + 1
               /\ ~ mon'.lastChance => quiet' > Chance /\ d3d.slot = "game" /\ calls = <<>>
    <3>1. /\ quiet <= Chance => mon.present <= quiet
          /\ ~ mon.lastChance => quiet > Chance /\ d3d.slot = "game" /\ calls = <<>>
          /\ ~ (left["hang"] > 0)
      BY <1>0, <2>5 DEF Patient
    <3>2. quiet' <= Chance => mon'.present <= quiet'
      BY <1>0, <2>1, <2>2, <3>1, MonFields, Numbers
    <3>3. d3d.slot # "game" => mon'.present <= Chance + 1
      BY <1>0, <2>1, <2>2, <3>1, MonFields, Numbers
    <3>4. ~ mon'.lastChance => quiet' > Chance /\ d3d.slot = "game" /\ calls = <<>>
      BY <1>0, <2>1, <2>2, <3>1, Numbers
    <3> QED  BY <3>2, <3>3, <3>4
  <2> QED  BY <2>1, <2>3, <2>4, <2>5 DEF Patient
<1>5. CASE Stop
  <2>1. /\ left["stop"] > 0 /\ left'["stop"] = left["stop"] - 1 /\ left'["hang"] = left["hang"]
        /\ mon'.present = Limit + 1 /\ mon'.lastChance = mon.lastChance
        /\ UNCHANGED <<d3d, calls, quiet>>
    BY <1>0, <1>5, SpendOther, StopMon DEF Stop
  <2>2. left'["stop"] = 0
    BY <1>0, <2>1 DEF Patient
  <2>3. ~ mon.lastChance => quiet > Chance
    BY <2>1 DEF Patient
  <2>4. ~ (mon'.present <= Limit)
    BY <2>1, Numbers
  <2> QED  BY <2>1, <2>2, <2>3, <2>4 DEF Patient
<1>6. CASE TakeAway
  <2>1. /\ left'["stop"] = left["stop"] /\ left'["hang"] = left["hang"]
        /\ d3d'.slot = "game" /\ UNCHANGED <<calls, mon, quiet>>
    BY <1>0, <1>6, SpendOther DEF TakeAway, TableType, Mishap
  <2> QED  BY <2>1 DEF Patient
<1>7. CASE Message
  <2>1. /\ mon'.present = mon.present /\ mon'.chance = mon.chance
        /\ mon'.lastChance = mon.lastChance /\ UNCHANGED <<d3d, calls, left, quiet>>
    BY <1>0, <1>7, MessageMon DEF Message
  <2> QED  BY <2>1 DEF Patient
<1>8. ASSUME NEW k \in {"resize", "cover", "swallow"}, left[k] > 0, Spend({k}),
             UNCHANGED <<d3d, calls, mon, quiet>>
      PROVE  Patient'
  <2>1. k \in Mishap /\ "stop" \in Mishap \ {k} /\ "hang" \in Mishap \ {k}
    BY DEF Mishap
  <2>2. left'["stop"] = left["stop"] /\ left'["hang"] = left["hang"]
    BY <1>0, <1>8, <2>1, SpendOther
  <2> QED  BY <1>8, <2>2 DEF Patient
<1>9. CASE ResizeBuffers \/ Cover \/ Swallow
  BY <1>8, <1>9 DEF ResizeBuffers, Cover, Swallow
<1>10. CASE UNCHANGED vars
  BY <1>10 DEF vars, Patient
<1> QED  BY <1>1, <1>2, <1>3, <1>4, <1>5, <1>6, <1>7, <1>9, <1>10 DEF Next, Present

\* What the action property says of one step.
LEMMA RehookStep ==
  ASSUME TypeInv, Patient, [Next]_vars, calls = <<>>, calls' = <<>>,
         \E h \in Renderer : d3d'.hook[h].id # d3d.hook[h].id
  PROVE  quiet > Chance
<1>0. d3d \in TableType /\ mon \in MonType /\ calls \in Seq(CallType) /\ quiet \in Int
  BY TypeParts, Numbers DEF TypeInv
<1>1. d3d' # d3d /\ d3d'.hook # d3d.hook
  OBVIOUS
<1>2. CASE HookMonitor
  <2>1. PollWatches \/ \E out \in Outcome : PollRehooks(out)
    BY <1>2, PollSteps
  <2>2. mon.present > Limit /\ ~ mon.lastChance /\ mon.chance > Chance
    BY <1>1, <2>1 DEF PollWatches, PollRehooks
  <2> QED  BY <1>0, <2>2, MonFields, Numbers DEF Patient
<1>3. CASE EnterPresent \/ CallOriginal
  BY <1>3, FramedSteps DEF Framed
<1>4. CASE TakeAway
  BY <1>0, <1>1, <1>4 DEF TakeAway, TableType
<1>5. CASE ReturnPresent \/ ResizeBuffers \/ Message \/ Tick \/ Stop \/ Cover \/ Swallow
           \/ UNCHANGED vars
  BY <1>1, <1>5 DEF ReturnPresent, ResizeBuffers, Message, Tick, Stop, Cover, Swallow, vars
<1> QED  BY <1>2, <1>3, <1>4, <1>5 DEF Next, Present

\* A game that draws often enough is never hooked again, and a stop of the whole process
\* is not taken for one that hangs: the last chance is there for that.
THEOREM RehooksAreNoAccident ==
  ASSUME OneStop
  PROVE  Spec => NoAccidentalRehook
<1> DEFINE I == TypeInv /\ Deserted /\ Patient
           Step == (\E h \in Renderer : d3d'.hook[h].id # d3d.hook[h].id)
                      /\ calls = <<>> /\ calls' = <<>> => quiet > Chance
<1>1. Init => I
  BY InitTypeInv, InitPatient
<1>2. I /\ [Next]_vars => I'
  BY NextTypeInv, NextDeserted, NextPatient
<1>3. I /\ [Next]_vars => [Step]_vars
  BY RehookStep
<1>4. NoAccidentalRehook <=> [][Step]_vars
  BY DEF NoAccidentalRehook
<1> HIDE DEF I, Step
<1> QED  BY <1>1, <1>2, <1>3, <1>4, PTL DEF Spec

-----------------------------------------------------------------------------
(* Thrown out, the mod gets back, or tries to, before long *)

\* The polls until the monitor hooks again, if nothing pushes its time stamps ahead.
ToGo(m) == IF m.present <= Limit THEN (Limit + 1 - m.present) + (Chance + 1)
           ELSE IF m.lastChance THEN Chance + 1
           ELSE Chance + 1 - m.chance

\* The monitor is on time: a poll that finds the game quiet takes the last chance away,
\* and when it is time to hook again, a poll is due.
OnTime == /\ ~ mon.lastChance /\ mon.present <= Limit => mon.present <= due
          /\ mon.present > Limit /\ mon.lastChance => due > 0
          /\ ToGo(mon) = 0 => due > 0

\* Out of the vtable, the monitor first waits for the frames alone;
First == untried + ToGo(mon) <= 2 * Limit + Chance + 2

\* a request for a new window hook pushes the time stamps ahead once.  After that both
\* watches are in lockstep, and the one for the frames comes first.
Pushed == /\ untried + ToGo(mon) <= Patience
          /\ init.done /\ window.top = "other" /\ ~ Reaches(window, window.top)
          /\ mon.present = mon.message
          /\ mon.present <= Limit => ~ mon.sent
          /\ mon.present > Limit => /\ mon.sent <=> ~ mon.lastChance
                                    /\ mon.sent => mon.chance = mon.send

Outage ==
  /\ d3d.slot # "game" => untried = 0
  /\ d3d.slot = "game" /\ calls # <<>> => untried <= due /\ (mon.present < 0 => First)
  /\ d3d.slot = "game" /\ calls = <<>> => First \/ Pushed

LEMMA ToGoBounds ==
  ASSUME NEW m \in MonType
  PROVE  ToGo(m) \in Int /\ ToGo(m) >= 0 /\ ToGo(m) <= 2 * Limit + Chance + 2
  BY MonFields, Numbers DEF ToGo

\* What is not about the frames, does not change how long it takes.
LEMMA ToGoSame ==
  ASSUME NEW m, NEW n, n.present = m.present, n.chance = m.chance, n.lastChance = m.lastChance
  PROVE  ToGo(n) = ToGo(m)
  BY DEF ToGo

LEMMA ToGoPushed ==
  ASSUME NEW m \in MonType, m.present = -Limit
  PROVE  ToGo(m) = 2 * Limit + Chance + 2
  BY MonFields, Numbers DEF ToGo

LEMMA ToGoAged ==
  ASSUME NEW m \in MonType,
         ~ m.lastChance /\ m.present <= Limit => m.present < Limit,
         m.present > Limit => ~ m.lastChance /\ m.chance <= Chance,
         NEW n, n.lastChance = m.lastChance,
         n.present = (IF m.present <= Limit THEN m.present + 1 ELSE Limit + 1),
         n.chance = (IF m.chance <= Chance THEN m.chance + 1 ELSE Chance + 1)
  PROVE  ToGo(n) = ToGo(m) - 1
<1>1. CASE m.present < Limit
  BY <1>1, MonFields, Numbers DEF ToGo
<1>2. CASE m.present = Limit
  BY <1>2, MonFields, Numbers DEF ToGo
<1>3. CASE m.present > Limit
  BY <1>3, MonFields, Numbers DEF ToGo
<1> QED  BY <1>1, <1>2, <1>3, MonFields, Numbers

LEMMA ToGoChance ==
  ASSUME NEW m \in MonType, ~ (m.present > Limit /\ ~ m.lastChance /\ m.chance > Chance)
  PROVE  ToGo(TakeChance(m)) = ToGo(m) /\ ToGo(m) > 0
<1> DEFINE t == TakeChance(m)
<1>1. /\ t.present = m.present
      /\ m.present <= Limit => t.lastChance
      /\ m.present > Limit => ~ t.lastChance
      /\ m.present > Limit /\ ~ m.lastChance => t = m
      /\ m.present <= Limit \/ m.lastChance => t.chance = 0
  BY TakeChanceMon
<1> HIDE DEF t
<1>2. CASE m.present <= Limit
  BY <1>1, <1>2, MonFields, Numbers DEF ToGo, t
<1>3. CASE m.present > Limit /\ m.lastChance
  BY <1>1, <1>3, MonFields, Numbers DEF ToGo, t
<1>4. CASE m.present > Limit /\ ~ m.lastChance
  BY <1>1, <1>4, MonFields, Numbers DEF ToGo, t
<1> QED  BY <1>2, <1>3, <1>4, MonFields, Numbers

LEMMA InitOutage == Init => OnTime /\ Outage
<1> SUFFICES ASSUME Init PROVE OnTime /\ Outage
  OBVIOUS
<1>1. /\ mon.present = 0 /\ mon.lastChance = TRUE /\ untried = 0 /\ due = 1 /\ calls = <<>>
  BY DEF Init
<1>2. mon \in MonType
  BY InitTypeInv, TypeParts DEF TypeInv
<1> QED  BY <1>1, <1>2, ToGoBounds, Numbers DEF OnTime, Outage, First

\* A frame changes what is in the vtable, but no time stamp of the frames.
LEMMA FrameOutage ==
  ASSUME TypeInv, Deserted, OnTime, Outage, Framed
  PROVE  OnTime' /\ Outage'
<1>0. /\ mon \in MonType /\ due \in Int /\ due >= 0 /\ untried \in Int
  BY TypeParts, Numbers DEF TypeInv
<1>1. PICK h \in Renderer : /\ OnFrame(h) /\ calls' # <<>> /\ due' = due /\ untried' = untried
                            /\ (d3d.slot # "game" \/ calls # <<>>)
  BY DEF Framed
<1>2. d3d.slot = "game" => d3d' = d3d
  BY <1>1, FrameDeserted
<1>3. FrameIdles \/ FrameHooks \/ \E g \in Renderer, out \in Outcome : FrameFalls(g, out)
  BY <1>1, FrameSteps
<1>4. /\ mon'.present = mon.present /\ mon'.chance = mon.chance
      /\ mon'.lastChance = mon.lastChance
  <2>1. CASE FrameIdles
    BY <2>1 DEF FrameIdles
  <2>2. CASE FrameHooks
    BY <1>0, <2>2, MessageMon DEF FrameHooks
  <2>3. ASSUME NEW g \in Renderer, NEW out \in Outcome, FrameFalls(g, out)
        PROVE  mon' = mon
    BY <2>3 DEF FrameFalls
  <2> QED  BY <1>3, <2>1, <2>2, <2>3
<1>5. ToGo(mon') = ToGo(mon)
  BY <1>4, ToGoSame
<1>6. OnTime'
  BY <1>1, <1>4, <1>5 DEF OnTime
<1>7. CASE d3d.slot = "game"
  BY <1>6, <1>1, <1>2, <1>4, <1>5, <1>7 DEF Outage, First
<1>8. CASE d3d.slot # "game"
  <2>1. untried = 0
    BY <1>8 DEF Outage
  <2>2. untried' <= due' /\ untried' + ToGo(mon') <= 2 * Limit + Chance + 2
    BY <1>0, <1>1, <1>5, <2>1, ToGoBounds, Numbers
  <2> QED  BY <1>6, <1>1, <2>1, <2>2 DEF Outage, First
<1> QED  BY <1>6, <1>7, <1>8

LEMMA ReturnOutage ==
  ASSUME LockIsShort, TypeInv, OnTime, Outage, ReturnPresent
  PROVE  OnTime' /\ Outage'
<1>0. /\ mon \in MonType /\ due \in Int /\ due >= 0 /\ due <= MaxLate + 1 /\ untried \in Int
  BY TypeParts, Numbers DEF TypeInv
<1>1. /\ mon'.present = (IF mon.present >= 0 THEN 0 ELSE mon.present)
      /\ mon'.chance = mon.chance /\ mon'.lastChance = mon.lastChance
      /\ mon' \in MonType
      /\ calls # <<>> /\ UNCHANGED <<d3d, due, untried>>
  BY <1>0, PostPresentMon DEF ReturnPresent
<1>2. mon'.present <= 0
  BY <1>0, <1>1, MonFields
<1>3. ToGo(mon') > 0
  BY <1>1, <1>2, MonFields, Numbers DEF ToGo
<1>4. OnTime'
  BY <1>0, <1>1, <1>2, <1>3, MonFields, Numbers DEF OnTime
<1>5. CASE d3d.slot # "game"
  BY <1>4, <1>1, <1>5 DEF Outage
<1>6. CASE d3d.slot = "game"
  <2>1. untried <= due /\ (mon.present < 0 => First)
    BY <1>1, <1>6 DEF Outage
  <2>2. untried' + ToGo(mon') <= 2 * Limit + Chance + 2
    <3>1. CASE mon.present < 0
      <4>1. mon'.present = mon.present
        BY <1>0, <1>1, <3>1, MonFields
      <4>2. ToGo(mon') = ToGo(mon)
        BY <1>1, <4>1, ToGoSame
      <4> QED  BY <1>1, <2>1, <3>1, <4>2 DEF First
    <3>2. CASE mon.present >= 0
      <4>1. mon'.present = 0
        BY <1>1, <3>2
      <4>2. ToGo(mon') = (Limit + 1) + (Chance + 1)
        BY <4>1, Numbers DEF ToGo
      <4>3. untried <= Limit
        BY <1>0, <2>1, Numbers DEF LockIsShort
      <4> QED  BY <1>0, <1>1, <4>2, <4>3, Numbers
    <3> QED  BY <1>0, <3>1, <3>2, MonFields
  <2> QED  BY <1>4, <1>1, <1>6, <2>1, <2>2 DEF Outage, First
<1> QED  BY <1>4, <1>5, <1>6

LEMMA PollOutage ==
  ASSUME LockIsShort, TypeInv, WindowFits, OnTime, Outage, HookMonitor
  PROVE  OnTime' /\ Outage'
<1>0. /\ mon \in MonType /\ window \in WindowType /\ untried \in Int
      /\ requested \in BOOLEAN
  BY TypeParts DEF TypeInv
<1>1. /\ calls = <<>> /\ due' = 0 /\ UNCHANGED <<calls, init, window>>
      /\ PollWatches \/ \E out \in Outcome : PollRehooks(out)
  BY PollSteps
<1>2. ASSUME NEW out \in Outcome, PollRehooks(out)
      PROVE  OnTime' /\ Outage'
  <2>1. /\ mon' \in MonType /\ mon'.present = -Limit /\ mon'.lastChance /\ untried' = 0
    BY <1>2 DEF PollRehooks
  <2>2. ToGo(mon') = 2 * Limit + Chance + 2 /\ ~ (mon'.present > Limit)
    BY <2>1, ToGoPushed, Numbers
  <2>3. ToGo(mon') # 0 /\ untried' + ToGo(mon') <= 2 * Limit + Chance + 2
    BY <2>1, <2>2, Numbers
  <2> QED  BY <1>1, <2>1, <2>2, <2>3 DEF OnTime, Outage, First
<1>3. CASE PollWatches
  <2> DEFINE m == TakeChance(mon)
  <2>1. /\ m \in MonType /\ m.present = mon.present /\ m.message = mon.message
        /\ m.send = mon.send /\ m.sent = mon.sent
        /\ mon.present <= Limit => m.lastChance
        /\ mon.present > Limit => ~ m.lastChance
        /\ mon.present > Limit /\ ~ mon.lastChance => m = mon
        /\ mon.present <= Limit \/ mon.lastChance => m.chance = 0
    BY <1>0, TakeChanceMon
  <2>2. /\ ~ (mon.present > Limit /\ ~ mon.lastChance /\ mon.chance > Chance)
        /\ UNCHANGED <<d3d, untried>> /\ mon' \in MonType /\ mon' = CheckMessages(m)
    BY <1>3 DEF PollWatches
  <2>3. ToGo(m) = ToGo(mon) /\ ToGo(m) > 0
    BY <1>0, <2>2, ToGoChance
  <2> HIDE DEF m
  <2>4. mon'.chance = m.chance /\ mon'.lastChance = m.lastChance
    BY <2>1, <2>2, CheckMessagesMon
  <2>5. CASE Requests(m)
    <3>1. mon'.present = -Limit /\ mon'.message = -Limit /\ ~ mon'.sent
      BY <2>1, <2>2, <2>5, CheckMessagesMon
    <3>2. ToGo(mon') = 2 * Limit + Chance + 2
      BY <2>2, <3>1, ToGoPushed
    <3>3. OnTime'
      <4>1. mon'.present <= 0 /\ ~ (mon'.present > Limit) /\ ToGo(mon') # 0
        BY <3>1, <3>2, Numbers
      <4> QED  BY <1>1, <4>1 DEF OnTime
    <3>4. CASE d3d.slot # "game"
      BY <3>3, <2>2, <3>4 DEF Outage
    <3>5. CASE d3d.slot = "game"
      <4>1. /\ init.done /\ mon.message > Limit /\ window.top # "ours" /\ mon.sent
            /\ mon.send > Chance
        BY <2>1, <2>5 DEF Requests, Overdue
      <4>2. ~ Pushed
        <5> SUFFICES ASSUME Pushed PROVE FALSE
          OBVIOUS
        <5>1. mon.present > Limit /\ ~ mon.lastChance /\ mon.chance = mon.send
          BY <4>1 DEF Pushed
        <5> QED  BY <2>2, <4>1, <5>1
      <4>3. First
        BY <1>1, <3>5, <4>2 DEF Outage
      <4>4. untried' + ToGo(mon') <= Patience
        BY <1>0, <2>2, <2>3, <3>2, <4>3, ToGoBounds, Numbers DEF First
      <4>5. window.top = "other" /\ ~ Reaches(window, window.top)
        <5>1. ~ Reaches(window, window.top)
          BY <4>1, AnsweredInTime
        <5> QED  BY <1>0, <4>1, <5>1 DEF WindowFits, WindowType
      <4>6. ~ (mon'.present > Limit)
        BY <3>1, Numbers
      <4>7. Pushed'
        BY <1>1, <3>1, <4>1, <4>4, <4>5, <4>6 DEF Pushed
      <4> QED  BY <3>3, <1>1, <2>2, <3>5, <4>7 DEF Outage
    <3> QED  BY <3>3, <3>4, <3>5
  <2>6. CASE ~ Requests(m)
    <3>1. mon'.present = mon.present
      BY <2>1, <2>2, <2>6, CheckMessagesMon
    <3>2. ToGo(mon') = ToGo(mon) /\ ToGo(mon') > 0
      <4>1. mon'.present = m.present
        BY <2>1, <3>1
      <4>2. ToGo(mon') = ToGo(m)
        BY <2>4, <4>1, ToGoSame
      <4> QED  BY <2>3, <4>2
    <3>3. OnTime'
      <4>1. (mon'.present <= Limit => mon'.lastChance) /\ (mon'.present > Limit => ~ mon'.lastChance)
        BY <2>1, <2>4, <3>1
      <4>2. ToGo(mon') # 0
        BY <2>2, <3>2, ToGoBounds
      <4> QED  BY <4>1, <4>2 DEF OnTime
    <3>4. CASE d3d.slot # "game"
      BY <3>3, <2>2, <3>4 DEF Outage
    <3>5. CASE d3d.slot = "game" /\ First
      BY <3>3, <1>1, <2>2, <3>2, <3>5 DEF Outage, First
    <3>6. CASE d3d.slot = "game" /\ Pushed
      <4>1. /\ untried' + ToGo(mon') <= Patience
            /\ init.done /\ window.top = "other" /\ ~ Reaches(window, window.top)
            /\ mon.present = mon.message
            /\ mon.present <= Limit => ~ mon.sent
            /\ mon.present > Limit => /\ mon.sent <=> ~ mon.lastChance
                                      /\ mon.sent => mon.chance = mon.send
        BY <2>2, <3>2, <3>6 DEF Pushed
      <4>2. Overdue(m) <=> mon.present > Limit
        BY <2>1, <4>1 DEF Overdue
      <4>3. CASE ~ (mon.present > Limit)
        <5>1. mon'.message = mon.message /\ ~ mon'.sent
          BY <2>1, <2>2, <4>2, <4>3 DEF CheckMessages, MonType
        <5>2. Pushed'
          BY <1>1, <3>1, <4>1, <4>3, <5>1 DEF Pushed
        <5> QED  BY <3>3, <1>1, <2>2, <3>6, <5>2 DEF Outage
      <4>4. CASE mon.present > Limit /\ ~ mon.sent
        <5>1. mon'.message = mon.message /\ mon'.sent /\ mon'.send = 0
          BY <2>1, <2>2, <4>1, <4>2, <4>4 DEF CheckMessages, MonType
        <5>2. mon.lastChance /\ mon'.chance = 0 /\ ~ mon'.lastChance
          BY <2>1, <2>4, <4>1, <4>4
        <5>3. ~ (mon'.present <= Limit)
          BY <1>0, <3>1, <4>4, MonFields, Numbers
        <5>4. Pushed'
          BY <1>1, <3>1, <4>1, <5>1, <5>2, <5>3 DEF Pushed
        <5> QED  BY <3>3, <1>1, <2>2, <3>6, <5>4 DEF Outage
      <4>5. CASE mon.present > Limit /\ mon.sent
        <5>1. m = mon /\ ~ (m.send > Chance)
          BY <2>1, <2>2, <4>1, <4>5
        <5>2. mon' = mon
          BY <2>2, <4>1, <4>2, <4>5, <5>1 DEF CheckMessages
        <5>3. Pushed'
          BY <1>1, <3>6, <4>1, <5>2 DEF Pushed
        <5> QED  BY <3>3, <1>1, <2>2, <3>6, <5>3 DEF Outage
      <4> QED  BY <4>3, <4>4, <4>5
    <3> QED  BY <1>1, <3>3, <3>4, <3>5, <3>6 DEF Outage
  <2> QED  BY <2>5, <2>6
<1> QED  BY <1>1, <1>2, <1>3

LEMMA TickOutage ==
  ASSUME TypeInv, OnTime, Outage, Tick
  PROVE  OnTime' /\ Outage'
<1>0. /\ mon \in MonType /\ due \in Int /\ due >= 0 /\ untried \in Int /\ untried <= Patience + 1
  BY TypeParts, Numbers DEF TypeInv
<1>1. /\ mon' \in MonType
      /\ mon'.present = (IF mon.present <= Limit THEN mon.present + 1 ELSE Limit + 1)
      /\ mon'.message = (IF mon.message <= Limit THEN mon.message + 1 ELSE Limit + 1)
      /\ mon'.chance = (IF mon.chance <= Chance THEN mon.chance + 1 ELSE Chance + 1)
      /\ mon'.send = (IF mon.send <= Chance THEN mon.send + 1 ELSE Chance + 1)
      /\ mon'.lastChance = mon.lastChance /\ mon'.sent = mon.sent
  BY <1>0, AgedMon DEF Tick
<1>2. /\ due' = due + 1 /\ UNCHANGED <<d3d, calls, init, window>>
      /\ due = 0 \/ calls # <<>>
      /\ d3d.slot # "game" => untried' = 0
      /\ d3d.slot = "game" => untried' = IF untried < Patience + 1 THEN untried + 1
                                         ELSE Patience + 1
  BY DEF Tick, Later
<1>3. d3d.slot = "game" => untried' \in Int /\ untried' <= untried + 1
  BY <1>0, <1>2, Numbers
<1>4. due' > 0
  BY <1>0, <1>2
<1>5. OnTime'
  <2>1. ~ mon'.lastChance /\ mon'.present <= Limit => mon'.present <= due'
    BY <1>0, <1>1, <1>2, MonFields, Numbers DEF OnTime
  <2> QED  BY <1>4, <2>1 DEF OnTime
<1>6. CASE d3d.slot # "game"
  BY <1>5, <1>2, <1>6 DEF Outage
<1>7. CASE d3d.slot = "game" /\ calls # <<>>
  <2>1. untried <= due /\ (mon.present < 0 => First)
    BY <1>7 DEF Outage
  <2>2. untried' <= due'
    BY <1>0, <1>2, <1>3, <1>7, <2>1
  <2>3. ASSUME mon'.present < 0
        PROVE  untried' + ToGo(mon') <= 2 * Limit + Chance + 2
    <3>1. mon.present < 0 /\ mon.present < Limit
      BY <1>0, <1>1, <2>3, MonFields, Numbers
    <3>2. ToGo(mon') = ToGo(mon) - 1
      BY <1>0, <1>1, <3>1, ToGoAged, MonFields, Numbers
    <3> QED  BY <1>0, <1>3, <1>7, <2>1, <3>1, <3>2, ToGoBounds, Numbers DEF First
  <2> QED  BY <1>5, <1>2, <1>7, <2>2, <2>3 DEF Outage, First
<1>8. CASE d3d.slot = "game" /\ calls = <<>>
  <2>1. due = 0
    BY <1>2, <1>8
  <2>2. /\ ~ mon.lastChance /\ mon.present <= Limit => mon.present < Limit
        /\ mon.present > Limit => ~ mon.lastChance /\ mon.chance <= Chance
    <3>1. /\ ~ mon.lastChance /\ mon.present <= Limit => mon.present <= 0
          /\ ~ (mon.present > Limit /\ mon.lastChance)
          /\ ToGo(mon) # 0
      BY <2>1 DEF OnTime
    <3>2. mon.present > Limit /\ ~ mon.lastChance => ToGo(mon) = Chance + 1 - mon.chance
      BY <1>0, MonFields, Numbers DEF ToGo
    <3> QED  BY <1>0, <3>1, <3>2, MonFields, Numbers
  <2>3. ToGo(mon') = ToGo(mon) - 1
    BY <1>0, <1>1, <2>2, ToGoAged
  <2>4. untried' + ToGo(mon') <= untried + ToGo(mon) /\ untried' + ToGo(mon') \in Int
    BY <1>0, <1>3, <1>8, <2>3, ToGoBounds
  <2>5. CASE First
    <3>1. untried' + ToGo(mon') <= 2 * Limit + Chance + 2
      BY <1>0, <2>4, <2>5, ToGoBounds, Numbers DEF First
    <3> QED  BY <1>5, <1>2, <1>8, <3>1 DEF Outage, First
  <2>6. CASE Pushed
    <3>1. untried' + ToGo(mon') <= Patience
      BY <1>0, <2>4, <2>6, ToGoBounds, Numbers DEF Pushed
    <3>2. mon'.present = mon'.message
      BY <1>1, <2>6 DEF Pushed
    <3>3. mon'.present <= Limit => ~ mon'.sent
      BY <1>0, <1>1, <2>6, MonFields, Numbers DEF Pushed
    <3>4. mon'.present > Limit => /\ mon'.sent <=> ~ mon'.lastChance
                                  /\ mon'.sent => mon'.chance = mon'.send
      <4>1. CASE mon.present > Limit
        BY <1>0, <1>1, <2>6, <4>1 DEF Pushed
      <4>2. CASE mon.present <= Limit
        <5>1. ~ mon.sent
          BY <2>6, <4>2 DEF Pushed
        <5>2. mon'.present > Limit => mon.lastChance
          BY <1>0, <1>1, <2>2, <4>2, MonFields, Numbers
        <5> QED  BY <1>1, <5>1, <5>2
      <4> QED  BY <1>0, <4>1, <4>2, MonFields, Numbers
    <3>5. Pushed'
      BY <1>2, <2>6, <3>1, <3>2, <3>3, <3>4 DEF Pushed
    <3> QED  BY <1>5, <1>2, <1>8, <3>5 DEF Outage
  <2> QED  BY <1>8, <2>5, <2>6 DEF Outage
<1> QED  BY <1>5, <1>6, <1>7, <1>8

LEMMA StopOutage ==
  ASSUME TypeInv, WindowFits, OnTime, Outage, Stop
  PROVE  OnTime' /\ Outage'
<1>0. /\ mon \in MonType /\ due \in Int /\ due >= 0 /\ untried \in Int
  BY TypeParts, Numbers DEF TypeInv
<1>1. /\ mon'.present = Limit + 1 /\ mon'.chance = Chance + 1
      /\ mon'.lastChance = mon.lastChance
      /\ UNCHANGED <<d3d, calls, untried>> /\ left["stop"] > 0
      /\ due' = IF due = 0 THEN 1 ELSE due
  BY <1>0, StopMon DEF Stop
<1>2. due' > 0 /\ due' >= due
  BY <1>0, <1>1
<1>3. ~ (mon'.present <= Limit) /\ ~ (mon'.present < 0)
  BY <1>1, Numbers
<1>4. ~ Pushed
  BY <1>1 DEF WindowFits, Covered, Pushed
<1>5. ToGo(mon') <= ToGo(mon) /\ ToGo(mon') \in Int
  <2>1. CASE mon.lastChance
    BY <1>0, <1>1, <1>3, <2>1, MonFields, Numbers DEF ToGo
  <2>2. CASE ~ mon.lastChance
    <3>1. ToGo(mon') = 0
      BY <1>1, <1>3, <2>2, Numbers DEF ToGo
    <3> QED  BY <1>0, <3>1, ToGoBounds
  <2> QED  BY <2>1, <2>2
<1>6. First => untried' + ToGo(mon') <= 2 * Limit + Chance + 2
  BY <1>0, <1>1, <1>5, ToGoBounds, Numbers DEF First
<1>7. d3d.slot = "game" /\ calls # <<>> => untried' <= due'
  BY <1>0, <1>1, <1>2 DEF Outage
<1> QED  BY <1>1, <1>2, <1>3, <1>4, <1>6, <1>7 DEF OnTime, Outage, First

LEMMA NextOutage ==
  ASSUME LockIsShort, TypeInv, Deserted, WindowFits, OnTime, Outage, [Next]_vars
  PROVE  OnTime' /\ Outage'
<1>0. /\ d3d \in TableType /\ mon \in MonType /\ window \in WindowType
  BY TypeParts DEF TypeInv
<1>1. CASE EnterPresent \/ CallOriginal
  BY <1>1, FramedSteps, FrameOutage
<1>2. CASE ReturnPresent
  BY <1>2, ReturnOutage
<1>3. CASE HookMonitor
  BY <1>3, PollOutage
<1>4. CASE Tick
  BY <1>4, TickOutage
<1>5. CASE Stop
  BY <1>5, StopOutage
<1>6. CASE ResizeBuffers
  BY <1>6 DEF ResizeBuffers, OnTime, Outage
<1>7. CASE Message
  <2>1. /\ mon'.present = mon.present /\ mon'.chance = mon.chance
        /\ mon'.lastChance = mon.lastChance
        /\ UNCHANGED <<d3d, calls, due, untried>> /\ Reaches(window, window.top)
    BY <1>0, <1>7, MessageMon DEF Message
  <2>2. ToGo(mon') = ToGo(mon) /\ ~ Pushed
    BY <2>1, ToGoSame DEF Pushed
  <2> QED  BY <2>1, <2>2 DEF OnTime, Outage, First
<1>8. CASE TakeAway
  <2>1. /\ d3d.slot # "game" /\ d3d'.slot = "game" /\ calls = <<>>
        /\ UNCHANGED <<calls, init, window, mon, due, untried>>
    BY <1>0, <1>8 DEF TakeAway, TableType
  <2>2. untried = 0
    BY <2>1 DEF Outage
  <2>3. First
    BY <1>0, <2>2, ToGoBounds DEF First
  <2> QED  BY <2>1, <2>3 DEF OnTime, Outage, First
<1>9. CASE Cover
  <2>1. window.top # "other" /\ UNCHANGED <<d3d, calls, mon, due, untried>>
    BY <1>9 DEF Cover
  <2>2. ~ Pushed
    BY <2>1 DEF Pushed
  <2> QED  BY <2>1, <2>2 DEF OnTime, Outage, First
<1>10. CASE Swallow
  <2>1. /\ UNCHANGED <<d3d, calls, init, mon, due, untried>>
        /\ window'.top = window.top /\ window'.otherBelow = window.otherBelow
        /\ window'.forwards = FALSE
    BY <1>0, <1>10 DEF Swallow, WindowType
  <2>2. Reaches(window', window'.top) => Reaches(window, window.top)
    BY <2>1 DEF Reaches
  <2>3. (First => First') /\ (Pushed => Pushed')
    BY <2>1, <2>2 DEF First, Pushed
  <2> QED  BY <2>1, <2>3 DEF OnTime, Outage
<1>11. CASE UNCHANGED vars
  BY <1>11 DEF vars, OnTime, Outage, First, Pushed
<1> QED  BY <1>1, <1>2, <1>3, <1>4, <1>5, <1>6, <1>7, <1>8, <1>9, <1>10, <1>11
         DEF Next, Present

LEMMA OutageEnds ==
  ASSUME LockIsShort, TypeInv, Outage
  PROVE  OutageIsBounded
<1>0. /\ mon \in MonType /\ due \in Int /\ due <= MaxLate + 1 /\ untried \in Int
  BY TypeParts, Numbers DEF TypeInv
<1>1. CASE d3d.slot # "game"
  BY <1>1, Numbers DEF Outage, OutageIsBounded
<1>2. CASE d3d.slot = "game" /\ calls # <<>>
  BY <1>0, <1>2, Numbers DEF Outage, OutageIsBounded, LockIsShort
<1>3. CASE d3d.slot = "game" /\ calls = <<>>
  <2>1. First \/ Pushed
    BY <1>3 DEF Outage
  <2> QED  BY <1>0, <2>1, ToGoBounds, Numbers DEF First, Pushed, OutageIsBounded
<1> QED  BY <1>1, <1>2, <1>3

\* Thrown out of the vtable, the mod tries to get back within the bound, whatever the
\* limits are: its two watches push each other's time stamps ahead once at most.
THEOREM OutagesAreBounded ==
  ASSUME StopsUncovered, LockIsShort
  PROVE  Spec => []OutageIsBounded
<1> DEFINE I == TypeInv /\ Deserted /\ WindowFits /\ OnTime /\ Outage
<1>1. Init => I
  <2>1. Init => Deserted
    BY DEF Init, Deserted
  <2> QED  BY <2>1, InitTypeInv, InitWindowFits, InitOutage
<1>2. I /\ [Next]_vars => I'
  BY NextTypeInv, NextDeserted, NextWindowFits, NextOutage
<1>3. I => OutageIsBounded
  BY OutageEnds
<1> HIDE DEF I
<1> QED  BY <1>1, <1>2, <1>3, PTL DEF Spec
=============================================================================
