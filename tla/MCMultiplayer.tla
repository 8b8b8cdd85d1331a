--------------------------- MODULE MCMultiplayer ---------------------------
(* Small instances of Multiplayer for TLC. *)
EXTENDS Multiplayer

\* A HELLO that fits, and one with a wrong password.
Fitting == [major |-> 1, minor |-> 1, password |-> "secret", model |-> "2B"]

MCHello == {Fitting, [Fitting EXCEPT !.password = ""]}

MCModels == {"2B", "9S", "A2"}

PeerSymmetry == Permutations(Peer)
=============================================================================
