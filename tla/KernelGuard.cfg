CONSTANTS
  k1 = k1
  k2 = k2
  g1 = g1
  g2 = g2
  Kernels = {k1, k2}
  Blind = {k2}
  Gids = {g1, g2}
  Recycling = {TRUE, FALSE}
  MaxGuards = 2
  PipeSize = 1
  RespawnMax = 1
SPECIFICATION Spec
SYMMETRY GidSymmetry
CHECK_DEADLOCK FALSE
INVARIANTS GuardInv GuardKnows TaskStrikesItsOwn NothingOutlives
