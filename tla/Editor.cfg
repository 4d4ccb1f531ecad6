SPECIFICATION MCSpec
CONSTANTS
  Searches = 2
  Files = {1, 2}
  Threads = {t1, t2}
  MaxHits = 2
  ChanCap = 1
  BatchCap = 2
  Pickers = 1
  AsksInOrder = TRUE
  Terminals = 2
  Chunks = 2
  Stash = 3
  ChunksInOrder = TRUE
  Jobs = {j1, j2, j3}
  Batch = 2
  j1 = j1
  j2 = j2
  j3 = j3
  t1 = t1
  t2 = t2
  Aliases = {"local", "remote"}
  Clients = 3
  Asked = 4
  AttachWaits = TRUE
INVARIANTS EditorInv ContextInv RecordGivesWay
PROPERTIES SpinnerStops TerminalsEnd CallbacksRun CallsEnd
CHECK_DEADLOCK FALSE
