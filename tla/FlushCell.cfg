SPECIFICATION FairSpec
CONSTANTS
    MAX_FRAMES_IN_FLIGHT = 2
    REORDER_WINDOW_FRAMES = 3
    WRITE_THROUGH_WINDOW_ENTRIES = 2
    EXTENT_SEAL_WINDOW_ENTRIES = 2
    flush_bound = 2
    SEGMENT_BLOCKS = 2
    ZERO_FILL_HEAD_START = 1
    io_mode = "Buffered"
    recycle_slots = 0
    wait_bound = 0
    frames_in_flight = 2
    STAGING_RECORDS = 2
    FrameLens <- SmallOnly
    Classes = {"Always"}
    SpaceOutcomes <- SpaceOk
    Faults = FALSE
    BlobWriters = 2
    MaxSeq = 3
CHECK_DEADLOCK FALSE
INVARIANTS CoverageInOrder NoPanic WatermarkHonest AckExact ExtentBeforeRecord EveryTurnHasAUnit
PROPERTY WritersServed
