SPECIFICATION Spec
CHECK_DEADLOCK FALSE
CONSTANTS
  Starts = {s1, s2}
  Sweepers = {w1}
  None = None
  Names = {1, 2}
  Dirs = {11, 12, 13}
  Files = {21, 22, 23}
  CreateTries = 2
  LockKinds = {TRUE, FALSE}
  Cleanings = 1
  Crashes = TRUE
  Stalls = FALSE
  Prompt = TRUE
INVARIANTS DirInv
PROPERTIES LiveDirSpared
SYMMETRY Symmetry
VIEW Read
