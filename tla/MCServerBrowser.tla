-------------------------- MODULE MCServerBrowser --------------------------
EXTENDS ServerBrowser

\* Every game server listens on another port than the default one.
OtherPort == [s \in Server |-> CHOOSE p \in Port : p # DefaultPort]
=============================================================================
