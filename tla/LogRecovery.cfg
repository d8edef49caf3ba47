SPECIFICATION Spec
CONSTANTS
    SEGMENT_BLOCKS = 2
    frames_in_flight = 2
    recycling = TRUE
    CrashKinds = {"power", "kill"}
    PowerAfterKill = FALSE
    MaxFrames = 4
    MaxSegment = 2
    MaxCrashes = 2
    MaxCheckpoints = 1
INVARIANT CorruptOnlyAtEmptyTail
PROPERTIES BootKeepsAcked
CHECK_DEADLOCK FALSE
