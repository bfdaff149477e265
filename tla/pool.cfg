SPECIFICATION Spec
CONSTANTS
    Queues = {"pool"}
    Workers = {w1, w2, w3}
    Initial = {w1}
    Tasks = {t1}
    Events = {e1}
    thread_max_limit = 3
    thread_add_step = 1
    thread_remove_step = 1
    preemtive = FALSE
    MaxRemoves = 1
    MaxAdds = 1
    MayExit = TRUE
    Nobody = Nobody
INVARIANTS NoLostWakeup OneThreadLeft EventSafe ReleasedUnused
PROPERTIES ExitReturns
CHECK_DEADLOCK FALSE
