CONSTANTS
  Client = {c1, c2, c3}
  None = None
SPECIFICATION FairSpec
INVARIANT OnlyResetsRace
PROPERTY UnwantedClientGoes
