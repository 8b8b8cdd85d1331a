-------------------------------- MODULE Room --------------------------------
(***************************************************************************)
(* What the AutomataMP game server promises its players, without packets,  *)
(* connections or maps: a room of members that are numbered in the order   *)
(* they join, one of whom leads while there is anybody in the room, and a  *)
(* set of things (networked enemies) that the room keeps until the last    *)
(* member leaves.                                                          *)
(***************************************************************************)
EXTENDS Naturals

CONSTANTS Thing,       \* the things a leader may put into the room
          MaxMember    \* bound on the number of members ever admitted

Nobody == 0
Member == 1 .. MaxMember

VARIABLES members,     \* who is in the room
          leader,      \* the one who decides what the things do, or Nobody
          admitted,    \* number of members admitted so far
          things       \* what is in the room

vars == <<members, leader, admitted, things>>

Init == /\ members = {}
        /\ leader = Nobody
        /\ admitted = 0
        /\ things = {}

\* The next number joins, and leads when it finds the room empty.
Join == /\ admitted < MaxMember
        /\ admitted' = admitted + 1
        /\ members' = members \cup {admitted'}
        /\ leader' = IF members = {} THEN admitted' ELSE leader
        /\ UNCHANGED things

\* A member leaves and the others keep their leader.
Leave(m) == /\ m \in members \ {leader}
            /\ members' = members \ {m}
            /\ UNCHANGED <<leader, admitted, things>>

\* The leader leaves and one of the others takes over at the same moment.
Succeed == /\ leader \in members
           /\ members' = members \ {leader}
           /\ leader' \in members'
           /\ UNCHANGED <<admitted, things>>

\* The last member leaves, and nothing is left behind.
Close == /\ leader \in members
         /\ members = {leader}
         /\ members' = {}
         /\ leader' = Nobody
         /\ things' = {}
         /\ UNCHANGED admitted

\* Somebody leads, and changes what is in the room.
Put(t) == /\ leader \in members
          /\ things' = things \cup {t}
          /\ UNCHANGED <<members, leader, admitted>>

Take(t) == /\ leader \in members
           /\ things' = things \ {t}
           /\ UNCHANGED <<members, leader, admitted>>

Next == \/ Join
        \/ \E m \in Member : Leave(m)
        \/ Succeed
        \/ Close
        \/ \E t \in Thing : Put(t) \/ Take(t)

Spec == Init /\ [][Next]_vars
=============================================================================
