SPECIFICATION Spec
CONSTANTS
    c0 = c0
    Channels = {c0}
    Admin = c0
    Sizes = {2}
    Feeders = {FALSE}
    CloseTransfer = {TRUE}
    Window = 2
    MaxFrame = 1
    MaxMessages = 2
    MayFail = FALSE
PROPERTIES PendingSent
