SPECIFICATION Spec
CONSTANTS
    c0 = c0
    c1 = c1
    Channels = {c0, c1}
    Admin = c0
    Sizes = {2}
    Feeders = {TRUE, FALSE}
    CloseTransfer = {TRUE}
    Window = 2
    MaxFrame = 1
    MaxMessages = 2
    MayFail = TRUE
INVARIANTS NeverWrongSize SendableIsReady
PROPERTIES ReadyIsServed ImplementsQueues
