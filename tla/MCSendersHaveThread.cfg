CONSTANTS
  MaxPackets = 2
  MaxQueued = 1
SPECIFICATION Spec
INVARIANT SendersHaveThread
