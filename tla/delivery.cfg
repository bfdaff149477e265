SPECIFICATION Spec
CONSTANTS
    Queues = {c1}
    Waiters = {c1}
    Calls = {c1, c2}
    Workers = {w1, w2}
    MaxMsgs = 1
    MaxParts = 2
    Sizes = {0, 1}
    complete_flag = TRUE
    serialize = TRUE
    MayBreak = TRUE
    None = None
INVARIANTS Serialized BeaconSafe
PROPERTIES WaitEnds AllHandled ReferencesReturn
CHECK_DEADLOCK FALSE
