SPECIFICATION MCSpec
CHECK_DEADLOCK FALSE
CONSTANTS
  Modes = {"KernelBinds", "Reserved"}
  Attempts = 3
  MaxThefts = 2
  OthersStay = TRUE
  EarlyFailures = TRUE
  Views = {v1}
  Rounds = 3
  MaxEdits = 2
  MaxCommands = 2
  MaxChanges = 3
  Timeouts = TRUE
  Failures = TRUE
  Fifo = TRUE
INVARIANTS LaunchInv StartedIsOurs SaveInv SavedIsWritten
PROPERTIES LaunchEnds
