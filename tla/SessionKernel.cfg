CONSTANTS
  c1 = c1
  c2 = c2
  c3 = c3
  None = None
  Calls = {c1, c2, c3}
  Ops = {"start", "stop", "restart", "close", "execute", "complete"}
SPECIFICATION MCSpec
CHECK_DEADLOCK FALSE
INVARIANTS SessionInv SlotIsHeard RunsOnNoGoneKernel ExitToldIsUnasked
PROPERTIES NoEventOnceGone CallsAreAnswered ExitedLeavesSlot
