CONSTANTS
  Slot = {s1, s2}
  Generations = 2
  Address = {a1, a2}
  Guid = {g1, g2}
  Net = {n1, n2, n3}
  None = None
SPECIFICATION Spec
INVARIANTS
  HooksAreSound
  HookFindsEntity
  ResolvesToItsOwn
SYMMETRY Symmetry
