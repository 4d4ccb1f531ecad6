CONSTANTS
  w1 = w1
  w2 = w2
  c1 = c1
  c2 = c2
  none = none
  Workers = {w1}
  Callers = {c1}
  UI = c1
  NoThread = none
  MaxJobs = 2
  Lanes = 2
  Batch = 1
  Spurious = TRUE
  WriteErrors = FALSE
SPECIFICATION FairSpec
PROPERTIES StartsInOrder EveryJobIsCollected CloseEndsWorkers
