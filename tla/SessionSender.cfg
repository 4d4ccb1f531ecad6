CONSTANTS
  c1 = c1
  c2 = c2
  c3 = c3
  None = None
  Calls = {c1, c2}
  Ops = {"start", "stop"}
SPECIFICATION Spec
CHECK_DEADLOCK FALSE
INVARIANTS SenderIsCurrent
