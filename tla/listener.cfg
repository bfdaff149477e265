SPECIFICATION Spec
CONSTANTS
  Initiators = {}
  Accepted = {a}
  Listener = L
  MayStop = TRUE
  MayChange = FALSE
  MayShutdown = TRUE
  MaxBlocks = 0
INVARIANTS ReferencesHeld ListenerTakesAll
PROPERTIES OnCloseRuns ReaderStops
CHECK_DEADLOCK FALSE
