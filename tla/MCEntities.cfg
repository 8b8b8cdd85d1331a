CONSTANTS
  Peer = {p1, p2}
  EntityGuid = {0, 1}
  Handle = {h1}
  Streamed = {"ENTITY_DATA"}
  Hello <- MCHello
  VersionMajor = 1
  VersionMinor = 1
  Password = "secret"
  Models <- MCModels
  MaxClients = 3
  MaxOutbox = 2
  MaxInbox = 1
SPECIFICATION FairMultiplayer
INVARIANTS
  MultiplayerTypeOK
  NoGhostEntities
  NetworkedAreKept
PROPERTIES
  HelloIsAnswered
  MasterLearns
  MasterIsReplaced
CHECK_DEADLOCK FALSE
