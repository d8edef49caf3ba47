SPECIFICATION Spec
CONSTANTS
    SEGMENT_BLOCKS = 2
    frames_in_flight = 2
    recycling = FALSE
    CrashKinds = {"power", "kill"}
    PowerAfterKill = TRUE
    MaxFrames = 3
    MaxSegment = 2
    MaxCrashes = 2
    MaxCheckpoints = 0
CHECK_DEADLOCK FALSE
PROPERTY CoveredSurvives
