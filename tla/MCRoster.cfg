CONSTANTS
  Peer = {p1, p2, p3}
  EntityGuid = {}
  Handle = {}
  Streamed = {"BUTTONS", "PLAYER_DATA"}
  Hello <- MCHello
  VersionMajor = 1
  VersionMinor = 1
  Password = "secret"
  Models <- MCModels
  MaxClients = 3
  MaxOutbox = 2
  MaxInbox = 1
SPECIFICATION MultiplayerSpec
SYMMETRY PeerSymmetry
INVARIANTS
  RosterConverges
  SendersAreKnown
  NothingIgnored
  MasterIsAgreed
CHECK_DEADLOCK FALSE
