CONSTANTS
  Client = {c1, c2}
  None = None
SPECIFICATION Spec
INVARIANT UsedClientLives
