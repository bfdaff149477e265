SPECIFICATION Spec
CONSTANTS
  Initiators = {i}
  Accepted = {}
  Listener = L
  MayStop = FALSE
  MayChange = TRUE
  MayShutdown = FALSE
  MaxBlocks = 1
PROPERTIES BlockedNotRead ForeachReturns ClosedFreed
CHECK_DEADLOCK FALSE
