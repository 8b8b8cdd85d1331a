---------------------------- MODULE HookMonitor ----------------------------
(***************************************************************************)
(* How the mod gets into the game's rendering and into its window, and how *)
(* it gets back in when something throws it out.  The game calls Present   *)
(* through one entry of a vtable; the hooks for Direct3D 11 and 12 write   *)
(* themselves into the same entry.  The game's window has one window       *)
(* procedure, which anybody may replace.  A monitor thread measures how    *)
(* long ago the hooks were called and hooks again.                         *)
(*                                                                         *)
(* Time is counted in polls of the monitor (500 ms).  A time stamp of the  *)
(* code is an age here, now minus the stamp, and a stamp in the future is  *)
(* a negative age.  An age stops growing where no comparison tells it from *)
(* a greater one.                                                          *)
(***************************************************************************)
EXTENDS Integers, Sequences, FiniteSets

CONSTANTS Limit,       \* quiet for longer than this is suspicious (5 s)
          Chance,      \* how long the last chance lasts (1 s)
          InitFrames,  \* initialize() lets so many frames pass (60)
          MaxStall,    \* a game that does not hang is quiet no longer than this
          MaxLate,     \* so many polls are missed at most because a frame holds the mutex
          Budgets      \* how often the world outside does each Mishap

Renderer == {"d3d11", "d3d12"}
Proc == Renderer \cup {"game"}
Mishap == {"takeAway",   \* somebody writes the game's Present back
           "resize",     \* the game resizes its buffers
           "fails",      \* a renderer cannot be hooked
           "partial",    \* the hook of Present is written, the next one throws
           "stop",       \* the whole process stops, and time goes on
           "cover",      \* another window procedure is put over the current one
           "swallow",    \* that procedure stops to pass messages on
           "hang"}       \* the game may go without a frame for as long as it likes

ASSUME MonitorAssumption ==
  /\ {Limit, Chance, InitFrames} \subseteq Nat \ {0}
  /\ Chance < Limit
  /\ MaxLate \in Nat
  /\ MaxStall \in 0 .. Chance
  /\ Budgets \subseteq [Mishap -> Nat]

VARIABLES
  d3d,        \* the entry of the vtable, the two hooks, m_is_d3d11 and m_is_d3d12, and
              \* whether d3d12.dll can be loaded
  calls,      \* the activations of our Present on the render thread, innermost last
  init,       \* m_first_initialize, m_frames_since_init, m_initialized
  window,     \* the window's procedures: the current one and what each covers
  requested,  \* m_message_hook_requested
  mon,        \* the monitor's time stamps as ages, m_has_last_chance, m_sent_message
  due,        \* the polls that are due: the monitor thread has slept its 500 ms
  left,       \* how much of the budget is left
  quiet,      \* ghost: time since our Present returned, stops not counted
  untried     \* ghost: time since we were in the vtable or tried to be

vars == <<d3d, calls, init, window, requested, mon, due, left, quiet, untried>>

\* The longest time without a hook and without an attempt at one.
Patience == 4 * Limit + 2 * Chance + 3

TypeOK ==
  /\ d3d \in [slot : Proc, is : SUBSET Renderer, loads : BOOLEAN,
              hook : [Renderer -> [hooked : BOOLEAN, patched : BOOLEAN,
                                   below : Proc, id : 0 .. 1]]]
  /\ calls \in Seq([by : Renderer, id : 0 .. 1, original : Proc, called : BOOLEAN])
  /\ init \in [first : BOOLEAN, frames : 0 .. InitFrames, done : BOOLEAN]
  /\ window \in [top : {"game", "ours", "other"}, hooked : BOOLEAN,
                 below : {"game", "other"}, otherBelow : {"game", "ours"},
                 forwards : BOOLEAN]
  /\ mon \in [present : -Limit .. Limit + 1, message : -Limit .. Limit + 1,
              chance : -Chance .. Chance + 1, send : 0 .. Chance + 1,
              lastChance : BOOLEAN, sent : BOOLEAN]
  /\ requested \in BOOLEAN
  /\ due \in 0 .. MaxLate + 1
  /\ left \in [Mishap -> Nat]
  /\ quiet \in 0 .. Chance + 1
  /\ untried \in 0 .. Patience + 1

\* The game runs Direct3D 11.  Nothing is hooked before the monitor finds the
\* game quiet for the first time.
Init ==
  /\ d3d \in [slot : {"game"}, is : {{}}, loads : BOOLEAN,
              hook : [Renderer -> [hooked : {FALSE}, patched : {FALSE},
                                   below : {"game"}, id : {0}]]]
  /\ calls = <<>>
  /\ init = [first |-> TRUE, frames |-> 0, done |-> FALSE]
  /\ window = [top |-> "game", hooked |-> FALSE, below |-> "game",
               otherBelow |-> "game", forwards |-> TRUE]
  /\ requested = FALSE
  /\ mon = [present |-> 0, message |-> 0, chance |-> Chance + 1, send |-> Chance + 1,
            lastChance |-> TRUE, sent |-> FALSE]
  /\ due = 1
  /\ left \in Budgets
  /\ quiet = 0
  /\ untried = 0

Spend(kinds) == left' = [k \in Mishap |-> IF k \in kinds THEN left[k] - 1 ELSE left[k]]

-----------------------------------------------------------------------------
(* The entry of the vtable and the two hooks that write to it *)

\* PointerHook::remove(): only what is still ours is taken out.
Removed(s, h) == IF s.hook[h].patched /\ s.slot = h
                 THEN [s EXCEPT !.slot = s.hook[h].below]
                 ELSE s

\* unhook(): a hook that is not hooked as a whole counts as removed already.
Unhooked(s, h) == IF s.hook[h].hooked
                  THEN [Removed(s, h) EXCEPT !.hook[h].hooked = FALSE]
                  ELSE s

\* Mutant: what the old object wrote is not taken out.
Renewed_Leaves(s, h) == [s EXCEPT !.hook[h] = [hooked |-> FALSE, patched |-> FALSE,
                                               below |-> "game", id |-> 1 - @.id]]

\* The old object is destroyed with all its PointerHooks, and there is a new one.
Renewed(s, h) ==
  [Removed(Unhooked(s, h), h) EXCEPT
     !.hook[h] = [hooked |-> FALSE, patched |-> FALSE,
                  below |-> "game", id |-> 1 - s.hook[h].id]]

Installed(s, h, out) ==
  IF out = "fails" THEN s
  ELSE [s EXCEPT !.slot = h,
                 !.hook[h] = [hooked |-> (out = "hooked"), patched |-> TRUE,
                              below |-> s.slot, id |-> s.hook[h].id]]

\* What hooking the two renderers brings this time.
Hooking == [h \in Renderer |-> "hooked"]
Outcome == {Hooking} \cup {[Hooking EXCEPT ![h] = k] :
                             h \in Renderer, k \in {"fails", "partial"}}
Troubles(out) == {out[h] : h \in Renderer} \ {"hooked"}
Affordable(out) == \A k \in Troubles(out) : left[k] > 0
Succeeds(out, h) == out[h] = "hooked"

HookD3D11(s, out) ==
  LET new == Renewed(s, "d3d11")
      t   == Installed(new, "d3d11", out["d3d11"])
  IN  IF "d3d12" \in s.is THEN new
      ELSE IF Succeeds(out, "d3d11") THEN [t EXCEPT !.is = @ \cup {"d3d11"}]
      ELSE [Unhooked(t, "d3d11") EXCEPT !.is = @ \ {"d3d11"}]

HookD3D12(s, out) ==
  LET new == Renewed(s, "d3d12")
      t   == Installed(new, "d3d12", out["d3d12"])
  IN  IF ~s.loads THEN HookD3D11([s EXCEPT !.is = @ \ {"d3d12"}], out)
      ELSE IF "d3d11" \in s.is THEN new
      ELSE IF Succeeds(out, "d3d12") THEN [t EXCEPT !.is = @ \cup {"d3d12"}]
      ELSE HookD3D11([Unhooked(t, "d3d12") EXCEPT !.is = @ \ {"d3d12"}], out)

-----------------------------------------------------------------------------
(* The window procedures *)

\* A message that a procedure gets, comes to our window_proc.
Reaches(w, proc) == \/ proc = "ours"
                    \/ proc = "other" /\ w.forwards /\ w.otherBelow = "ours"

\* ~WindowsMessageHook takes out only what is current; the new one covers what it finds.
HookWindow(w) ==
  LET found == IF w.hooked /\ w.top = "ours" THEN w.below ELSE w.top
  IN  [w EXCEPT !.top = "ours", !.hooked = TRUE, !.below = found]

\* initialize_windows_message_hook()
RenewsMessageHook == requested \/ ~window.hooked

InitializeMessageHook(m) ==
  /\ requested' = FALSE
  /\ window' = IF RenewsMessageHook THEN HookWindow(window) ELSE window
  /\ mon' = IF RenewsMessageHook THEN [m EXCEPT !.message = 0] ELSE m

LeaveMessageHook(m) == mon' = m /\ UNCHANGED <<window, requested>>

-----------------------------------------------------------------------------
(* The render thread: it holds m_hook_monitor_mutex while calls is not empty *)

\* The game runs Direct3D 11: the other hook finds no device.
HasDevice(h) == h = "d3d11"

Inside(h) == \E i \in DOMAIN calls : calls[i].by = h
Top == calls[Len(calls)]
Activation(h) == [by |-> h, id |-> d3d.hook[h].id,
                  original |-> d3d.hook[h].below, called |-> FALSE]

Hooked(h) == d3d.hook[h].hooked
OtherOf(h) == IF h = "d3d11" THEN "d3d12" ELSE "d3d11"

\* Mutant: the renderer that is running is hooked anew.
FallBack_Same(h, out) ==
  LET s == [Unhooked(d3d, h) EXCEPT !.is = @ \ {h}]
  IN  IF h = "d3d12" THEN HookD3D12(s, out) ELSE HookD3D11(s, out)

\* The device of the hooked renderer is null: the other renderer is hooked.
FallBack(h, out) ==
  LET s == [Unhooked(d3d, h) EXCEPT !.is = @ \ {h}]
  IN  IF h = "d3d12" THEN HookD3D11(s, out) ELSE HookD3D12(s, out)

\* Frames pass before anything is tried, and again after a change of renderer.
Frames == IF init.first THEN 0 ELSE init.frames

Wait == /\ Frames < InitFrames
        /\ init' = [init EXCEPT !.first = FALSE, !.frames = Frames + 1]
        /\ LeaveMessageHook(mon)
        /\ UNCHANGED <<d3d, left>>

\* m_is_d3d11 is tested first, whoever is presenting.
Initialize(h) ==
  /\ Frames >= InitFrames
  /\ \/ /\ ~Hooked(h)
        /\ LeaveMessageHook(mon)
        /\ UNCHANGED <<init, d3d, left>>
     \/ /\ Hooked(h) /\ ~HasDevice(h)
        /\ \E out \in Outcome : /\ Affordable(out)
                                /\ d3d' = FallBack(h, out)
                                /\ Spend(Troubles(out))
        /\ init' = [init EXCEPT !.first = TRUE]
        /\ LeaveMessageHook(mon)
     \/ /\ Hooked(h) /\ HasDevice(h)
        /\ init' = [init EXCEPT !.done = TRUE]
        /\ InitializeMessageHook(mon)
        /\ UNCHANGED <<d3d, left>>

\* With neither flag set initialize() gives up once the frames have passed.
NothingToInitialize == /\ Frames >= InitFrames
                       /\ d3d.is = {}
                       /\ LeaveMessageHook(mon)
                       /\ UNCHANGED <<init, d3d, left>>

OnFrameInitializing == /\ ~init.done
                       /\ \/ Wait
                          \/ \E h \in d3d.is : Initialize(h)
                          \/ NothingToInitialize

\* on_frame_d3d12 returns for want of a command queue before it looks at requests.
OnFrameInitialized(h) ==
  /\ init.done
  /\ IF requested /\ HasDevice(h) THEN InitializeMessageHook(mon) ELSE LeaveMessageHook(mon)
  /\ UNCHANGED <<init, d3d, left>>

OnFrame(h) == OnFrameInitializing \/ OnFrameInitialized(h)

\* Present is called; what it covers is read before on_frame may change it.
Enter(h) == /\ calls' = Append(calls, Activation(h))
            /\ OnFrame(h)
            /\ UNCHANGED <<due, quiet, untried>>

EnterPresent == calls = <<>> /\ d3d.slot # "game" /\ Enter(d3d.slot)

CallOriginal == /\ calls # <<>> /\ ~Top.called /\ Top.original # "game"
                /\ ~Inside(Top.original)
                /\ calls' = Append([calls EXCEPT ![Len(calls)].called = TRUE],
                                   Activation(Top.original))
                /\ OnFrame(Top.original)
                /\ UNCHANGED <<due, quiet, untried>>

\* A stamp in the future is kept: it is the leeway after hooking again.
PostPresent(m) == IF m.present >= 0 THEN [m EXCEPT !.present = 0] ELSE m

\* An activation inside another one of the same hook returns at once (g_inside_present).
ReturnPresent == /\ calls # <<>>
                 /\ Top.called \/ Top.original = "game" \/ Inside(Top.original)
                 /\ calls' = SubSeq(calls, 1, Len(calls) - 1)
                 /\ mon' = PostPresent(mon)
                 /\ quiet' = 0
                 /\ UNCHANGED <<d3d, init, window, requested, due, left, untried>>

\* on_reset(): the renderer's objects go, and frames need not pass again.
ResizeBuffers == /\ calls = <<>> /\ d3d.slot # "game" /\ left["resize"] > 0
                 /\ init' = [init EXCEPT !.first = FALSE, !.done = FALSE]
                 /\ Spend({"resize"})
                 /\ UNCHANGED <<d3d, calls, window, requested, mon, due, quiet, untried>>

-----------------------------------------------------------------------------
(* The monitor thread *)

\* Mutant: there is no last chance.
TakeChance_None(m) == [m EXCEPT !.lastChance = FALSE,
                                !.chance = IF m.present > Limit THEN Chance + 1 ELSE 0]

\* The first time the game is found quiet it gets a last chance.
TakeChance(m) ==
  IF m.present <= Limit THEN [m EXCEPT !.chance = 0, !.lastChance = TRUE]
  ELSE IF m.lastChance THEN [m EXCEPT !.chance = 0, !.lastChance = FALSE]
  ELSE m

\* Mutant: hooking again needs a game that is not initialized.
Rehooks_Uninitialized(m) ==
  ~init.done /\ m.present > Limit /\ ~m.lastChance /\ m.chance > Chance

Rehooks(m) == m.present > Limit /\ ~m.lastChance /\ m.chance > Chance

Leeway(m) == [m EXCEPT !.present = -Limit, !.message = -Limit,
                       !.chance = -Chance, !.lastChance = TRUE]

Overdue(m) == init.done /\ m.message > Limit
Requests(m) == Overdue(m) /\ window.top # "ours" /\ m.sent /\ m.send > Chance

\* Mutant: the test message is taken for an answer whoever swallows it.
CheckMessages_Trusts(m) ==
  IF ~Overdue(m) THEN [m EXCEPT !.sent = FALSE]
  ELSE [m EXCEPT !.send = 0, !.sent = TRUE, !.message = 0]

\* A test message comes first; if that is not answered either, a new hook is requested.
CheckMessages(m) ==
  IF ~Overdue(m) THEN [m EXCEPT !.sent = FALSE]
  ELSE IF window.top = "ours" THEN [m EXCEPT !.message = 0, !.send = 0, !.sent = FALSE]
  ELSE IF ~m.sent
       THEN [m EXCEPT !.send = 0, !.sent = TRUE,
                      !.message = IF Reaches(window, window.top) THEN 0 ELSE @]
  ELSE IF m.send > Chance
       THEN [m EXCEPT !.message = -Limit, !.present = -Limit, !.sent = FALSE]
  ELSE m

Rehook(out) == IF "d3d11" \in d3d.is THEN HookD3D11(d3d, out) ELSE HookD3D12(d3d, out)

\* Mutant: the messages are looked at before the frames.
HookMonitor_MessagesFirst ==
  /\ due > 0 /\ calls = <<>>
  /\ due' = 0
  /\ LET m == TakeChance(CheckMessages(mon))
     IN  /\ requested' = (requested \/ Requests(mon))
         /\ IF Rehooks(m)
            THEN /\ \E out \in Outcome : /\ Affordable(out)
                                         /\ d3d' = Rehook(out)
                                         /\ Spend(Troubles(out))
                 /\ mon' = Leeway(m)
                 /\ untried' = 0
            ELSE mon' = m /\ UNCHANGED <<d3d, left, untried>>
  /\ UNCHANGED <<calls, init, window, quiet>>

\* A poll.  Only our Present sets is_inside_present, and it holds the mutex then.
HookMonitor ==
  /\ due > 0 /\ calls = <<>>
  /\ due' = 0
  /\ LET m == TakeChance(mon)
         n == IF Rehooks(m) THEN Leeway(m) ELSE m
     IN  /\ IF Rehooks(m)
            THEN /\ \E out \in Outcome : /\ Affordable(out)
                                         /\ d3d' = Rehook(out)
                                         /\ Spend(Troubles(out))
                 /\ untried' = 0
            ELSE UNCHANGED <<d3d, left, untried>>
         /\ mon' = CheckMessages(n)
         /\ requested' = (requested \/ Requests(n))
  /\ UNCHANGED <<calls, init, window, quiet>>

-----------------------------------------------------------------------------
(* The window, the clock, and the world outside *)

\* A message for the window; what comes to our procedure is on_message().
Message == /\ Reaches(window, window.top)
           /\ mon' = [mon EXCEPT !.message = 0]
           /\ UNCHANGED <<d3d, calls, init, window, requested, due, left, quiet, untried>>

Later(a, bound) == IF a < bound THEN a + 1 ELSE bound
Aged(m) == [m EXCEPT !.present = Later(@, Limit + 1), !.message = Later(@, Limit + 1),
                     !.chance = Later(@, Chance + 1), !.send = Later(@, Chance + 1)]

\* The monitor polls every 500 ms, or late while a frame holds the mutex.
Tick == /\ due = 0 \/ (due <= MaxLate /\ calls # <<>>)
        /\ d3d.slot = "game" \/ quiet <= MaxStall \/ left["hang"] > 0
        /\ due' = due + 1
        /\ mon' = Aged(mon)
        /\ quiet' = Later(quiet, Chance + 1)
        /\ untried' = IF d3d.slot = "game" THEN Later(untried, Patience + 1) ELSE 0
        /\ UNCHANGED <<d3d, calls, init, window, requested, left>>

\* The whole process stops, in a debugger say, for longer than any limit.
Stop == /\ left["stop"] > 0
        /\ mon' = [mon EXCEPT !.present = Limit + 1, !.message = Limit + 1,
                              !.chance = Chance + 1, !.send = Chance + 1]
        /\ due' = IF due = 0 THEN 1 ELSE due
        /\ Spend({"stop"})
        /\ UNCHANGED <<d3d, calls, init, window, requested, quiet, untried>>

TakeAway == /\ left["takeAway"] > 0 /\ calls = <<>> /\ d3d.slot # "game"
            /\ d3d' = [d3d EXCEPT !.slot = "game"]
            /\ Spend({"takeAway"})
            /\ UNCHANGED <<calls, init, window, requested, mon, due, quiet, untried>>

Cover == /\ left["cover"] > 0 /\ window.top # "other" /\ window.below # "other"
         /\ window' = [window EXCEPT !.top = "other", !.otherBelow = window.top]
         /\ Spend({"cover"})
         /\ UNCHANGED <<d3d, calls, init, requested, mon, due, quiet, untried>>

Swallow == /\ left["swallow"] > 0 /\ window.forwards
           /\ window' = [window EXCEPT !.forwards = FALSE]
           /\ Spend({"swallow"})
           /\ UNCHANGED <<d3d, calls, init, requested, mon, due, quiet, untried>>

Present == EnterPresent \/ CallOriginal \/ ReturnPresent

Next == \/ Present \/ ResizeBuffers
        \/ HookMonitor \/ Message \/ Tick
        \/ Stop \/ TakeAway \/ Cover \/ Swallow

Spec == Init /\ [][Next]_vars

\* Time passes, a game that is running draws frames, and the monitor gets the mutex
\* at last, which the render thread holds in Present and not between two frames.
Fairness == WF_vars(Tick) /\ SF_vars(HookMonitor) /\ WF_vars(EnterPresent)
            /\ WF_vars(CallOriginal) /\ WF_vars(ReturnPresent)
FairSpec == Spec /\ Fairness

-----------------------------------------------------------------------------
(* How much the world outside may do for a property to hold *)

\* One hook at most is left half installed: two may cover each other.
OneHalfHook == \A b \in Budgets : b["partial"] <= 1

\* Nothing covers the window of a process that stops.  A procedure that passes the
\* messages on is taken for one that does not when time is lost after a test message:
\* a stop loses time, and so does a frame that holds the mutex for too long.
StopsUncovered == \A b \in Budgets : b["stop"] = 0 \/ b["cover"] = 0
LockIsShort == MaxLate < Limit

\* The process stops once, and then the game does not hang: to the monitor a stop is
\* like a game that hangs, and one thing like that is what the last chance is for.
OneStop == \A b \in Budgets : b["stop"] = 0 \/ (b["stop"] = 1 /\ b["hang"] = 0)

-----------------------------------------------------------------------------
(* Properties *)

\* At most one renderer is taken for the game's, and its hook is hooked as a whole:
\* initialize() and the monitor decide by m_is_d3d11 and m_is_d3d12 alone.
FlagsAreTrue == /\ Cardinality(d3d.is) <= 1
                /\ \A h \in d3d.is : Hooked(h)

\* Every frame of the game still comes to the game's own Present: whatever is in
\* the vtable is a live hook, and what that covers is the game's or a live hook.
\* Claimed while one hook at most is left half installed: two may cover each other.
Live(h) == d3d.hook[h].patched
FramesReachTheGame ==
  d3d.slot # "game" =>
     /\ Live(d3d.slot)
     /\ LET below == d3d.hook[d3d.slot].below
        IN  \/ below = "game"
            \/ below = OtherOf(d3d.slot) /\ Live(below) /\ d3d.hook[below].below = "game"

\* Present goes on to use the object it was called for after on_frame and after the
\* game's Present, so nothing may have replaced that object by then.  Claimed where no
\* hook is ever left half installed: then the vtable leads to hooks that are taken for
\* removed, and one of them can be replaced from within its own Present.
NoReplaceInPresent ==
  left["partial"] = 0
    => [](\A i \in DOMAIN calls : calls[i].id = d3d.hook[calls[i].by].id)

\* Thrown out of the vtable, the mod tries to get back before long, however its two
\* watches, for frames and for messages, push each other's time stamps ahead.
OutageIsBounded == untried <= Patience

\* "The purpose of this is to make sure that the game is not frozen": a game that
\* runs is hooked again only if it went without a frame for longer than the last chance.
\* Claimed under OneStop.
NoAccidentalRehook ==
  [][(\E h \in Renderer : d3d'.hook[h].id # d3d.hook[h].id) /\ calls = <<>> /\ calls' = <<>>
     => quiet > Chance]_vars

\* No message goes round for ever between our procedure and one that covers it.
\* Claimed under StopsUncovered and LockIsShort.
NoEndlessMessages ==
  ~ (window.below = "other" /\ window.otherBelow = "ours" /\ window.forwards)

\* What the mod goes by is true of the game's tables, and nothing runs in a circle.
HooksAreSound == TypeOK /\ FlagsAreTrue /\ FramesReachTheGame /\ NoEndlessMessages

\* However often it is thrown out, in the end the mod draws with the game's renderer,
\* if the game does not hang, and hooking a renderer never fails.
DrawsInTheEnd ==
  (\A k \in {"fails", "partial", "hang"} : left[k] = 0)
    => <>[](init.done /\ d3d.slot = "d3d11")

\* A procedure that covers ours and keeps the messages is covered in turn.
MessagesReturn == (init.done /\ window.top = "other" /\ ~window.forwards) ~> (window.top = "ours")
=============================================================================
