CONSTANTS
  Peer = {p1, p2}
  EntityGuid = {0}
  Handle = {h1}
  Streamed = {"PLAYER_DATA"}
  Hello <- MCHello
  VersionMajor = 1
  VersionMinor = 1
  Password = "secret"
  Models <- MCModels
  MaxClients = 3
  MaxOutbox = 1
  MaxInbox = 1
SPECIFICATION MultiplayerSpec
PROPERTY OnlyNetworkedEntities
