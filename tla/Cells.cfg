CONSTANTS
  a = a
  b = b
  Cells = {a, b}
  All <- InOrderOfCells
  MaxRequests = 3
  MaxWaiting = 2
  MaxPrints = 3
  Budget = 4
  MaxAsks = 2
  MaxUnread = 3
  MaxUnseen = 2
  Asks = {"stop", "restart", "start", "clear"}
  Deaths = TRUE
  InOrder = TRUE
  OneStart = TRUE
  Patient = TRUE
SPECIFICATION Spec
CHECK_DEADLOCK FALSE
INVARIANTS CellInv CellsSettle PendingIsOwed MirrorAgrees
