CONSTANTS
  a = a
  b = b
  Cells = {a, b}
  All <- InOrderOfCells
  MaxRequests = 3
  MaxWaiting = 2
  MaxPrints = 0
  Budget = 4
  MaxAsks = 2
  MaxUnread = 3
  MaxUnseen = 2
  Asks = {"stop"}
  Deaths = FALSE
  InOrder = TRUE
  OneStart = TRUE
  Patient = FALSE
SPECIFICATION Spec
CHECK_DEADLOCK FALSE
INVARIANT CellsSettle
