CONSTANTS
  w1 = w1
  w2 = w2
  c1 = c1
  c2 = c2
  none = none
  Workers = {w1, w2}
  Callers = {c1, c2}
  UI = c1
  NoThread = none
  MaxJobs = 2
  Lanes = 1
  Batch = 1
  Spurious = TRUE
  WriteErrors = TRUE
SPECIFICATION Spec
SYMMETRY WorkerSymmetry
INVARIANTS PoolInv WorkConserving WakeInv CloseTellsRunning
PROPERTIES ServiceSpec
