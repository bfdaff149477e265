SPECIFICATION Spec
CONSTANTS
  Initiators = {}
  Accepted = {a}
  Listener = L
  MayStop = TRUE
  MayChange = FALSE
  MayShutdown = FALSE
  MaxBlocks = 0
INVARIANTS StopObeyed
CHECK_DEADLOCK FALSE
