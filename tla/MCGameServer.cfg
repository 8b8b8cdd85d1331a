CONSTANTS
  Peer = {p1, p2, p3}
  EntityGuid = {0, 1}
  Hello <- MCHello
  VersionMajor = 1
  VersionMinor = 1
  Password = "secret"
  Models <- MCModels
  MaxClients = 3
  MaxOutbox = 2
SPECIFICATION Spec
SYMMETRY PeerSymmetry
INVARIANTS
  TypeOK
  MapsAgree
  OneMaster
  WorldSafety
  LinksAreInOrder
PROPERTIES
  MasterStays
  IsARoom
