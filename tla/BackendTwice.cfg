SPECIFICATION ClientSpec
CONSTANTS
  Aliases = {"local"}
  Clients = 3
  Asked = 5
  AttachWaits = TRUE
INVARIANTS LocalIsOne
CHECK_DEADLOCK FALSE
