--------------------------- MODULE MCHookMonitor ---------------------------
(***************************************************************************)
(* An instance of HookMonitor: what goes wrong around the mod, and how     *)
(* often                                                                   *)
(***************************************************************************)
EXTENDS HookMonitor

Nothing == [k \in Mishap |-> 0]

\* Everything that takes the hooks away, once; one of two renderers fails once.
Rendering == [Nothing EXCEPT !["takeAway"] = 1, !["resize"] = 1, !["fails"] = 1,
                             !["stop"] = 1]
\* The hook of Direct3D 12 is left half installed, in a game that may hang.
HalfHooked == [Nothing EXCEPT !["takeAway"] = 1, !["partial"] = 1, !["hang"] = 1]
\* Somebody covers the window procedure, and then keeps the messages.
Messages == [Nothing EXCEPT !["takeAway"] = 1, !["cover"] = 1, !["swallow"] = 1,
                            !["resize"] = 1]

World == {Rendering, HalfHooked, Messages}

\* The budgets and the period are within what the properties are claimed for.
ASSUME WorldAssumption == OneHalfHook /\ StopsUncovered /\ LockIsShort /\ OneStop
=============================================================================
