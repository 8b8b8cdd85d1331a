CONSTANTS
  MaxPackets = 3
  MaxQueued = 2
SPECIFICATION FairSpec
INVARIANTS
  TypeOK
  ClientIsSound
PROPERTIES
  IsAConnection
  ConstructorReturns
  DisconnectReturns
  LossIsNoticed
