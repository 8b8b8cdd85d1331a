---------------------------- MODULE MCGameServer ----------------------------
(* Small instances of GameServer for TLC. *)
EXTENDS GameServer

\* A HELLO that fits, one of an older minor version, and one refused by each of
\* the four tests of HandleHello.
Fitting == [major |-> 1, minor |-> 1, password |-> "secret", model |-> "2B"]

MCHello == {Fitting,
            [Fitting EXCEPT !.minor = 0],
            [Fitting EXCEPT !.major = 0],
            [Fitting EXCEPT !.minor = 2],
            [Fitting EXCEPT !.password = ""],
            [Fitting EXCEPT !.model = "none"]}

MCModels == {"2B", "9S", "A2"}

PeerSymmetry == Permutations(Peer)
=============================================================================
