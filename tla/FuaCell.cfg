SPECIFICATION FairSpec
CONSTANTS
    MAX_FRAMES_IN_FLIGHT = 2
    REORDER_WINDOW_FRAMES = 3
    WRITE_THROUGH_WINDOW_ENTRIES = 2
    EXTENT_SEAL_WINDOW_ENTRIES = 2
    flush_bound = 1
    SEGMENT_BLOCKS = 2
    ZERO_FILL_HEAD_START = 1
    io_mode = "Direct"
    recycle_slots = 1
    wait_bound = 2
    frames_in_flight = 2
    STAGING_RECORDS = 2
    FrameLens <- AnyLength
    Classes <- BothClasses
    SpaceOutcomes <- SpaceAny
    Faults = TRUE
    BlobWriters = 0
    MaxSeq = 2
CHECK_DEADLOCK FALSE
INVARIANTS NoPanic NoSliceOverFrames DrainKeepsPromises
PROPERTIES WatermarkMonotone ImplementsDurableLog PromisesKept
