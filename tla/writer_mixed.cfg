SPECIFICATION Spec
CONSTANTS
    Writers = {"sequencer", "reader"}
    FrameOctets = 2
    Tries = 3
    MaxFrames = 2
INVARIANTS FramesWhole
CHECK_DEADLOCK FALSE
