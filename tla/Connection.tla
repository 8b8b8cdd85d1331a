----------------------------- MODULE Connection -----------------------------
(***************************************************************************)
(* What enetpp::client promises the session above it, without a thread, a  *)
(* queue or a lock: one attempt to connect that succeeds at most once, the *)
(* packets of the server one by one in the order they were sent, and at    *)
(* most one end, after which nothing more is heard.                        *)
(***************************************************************************)
EXTENDS Naturals

CONSTANT MaxPackets   \* bound on the packets of one connection

VARIABLES notified,   \* the last of on_connected and on_disconnected to be called
          handled     \* number of the last packet given to on_data_received

vars == <<notified, handled>>

Init == notified = "nothing" /\ handled = 0

Opens == /\ notified = "nothing"
         /\ notified' = "connected"
         /\ UNCHANGED handled

Receives == /\ notified = "connected"
            /\ handled < MaxPackets
            /\ handled' = handled + 1
            /\ UNCHANGED notified

Ends == /\ notified # "disconnected"
        /\ notified' = "disconnected"
        /\ UNCHANGED handled

\* The session is given up, at any moment, and another one begun.
Restarts == notified' = "nothing" /\ handled' = 0

Next == Opens \/ Receives \/ Ends \/ Restarts

Spec == Init /\ [][Next]_vars
=============================================================================
