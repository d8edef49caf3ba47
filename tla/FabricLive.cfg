CONSTANTS
    N = 2
    ring_capacity = 2
    data_credits = 1
    PACK_SEAL_FRAMES = 1
    DRAIN_SLOT_CHUNK = 1
    FABRIC_DRAIN_MAX = 1
    spin_iters = 1
    Kinds = {"apply", "defer"}
    Origins = {0}
    Tokens = {1}
SPECIFICATION FairSpec
PROPERTY SentIsAnswered
