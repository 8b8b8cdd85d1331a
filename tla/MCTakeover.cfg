CONSTANTS
  Peer = {p1, p2}
  EntityGuid = {0, 1}
  Handle = {h1, h2}
  Streamed = {}
  Hello <- MCHello
  VersionMajor = 1
  VersionMinor = 1
  Password = "secret"
  Models <- MCModels
  MaxClients = 3
  MaxOutbox = 1
  MaxInbox = 1
SPECIFICATION MultiplayerSpec
INVARIANT GuidsAreDistinct
