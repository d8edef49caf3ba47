CONSTANTS
    N = 2
    ring_capacity = 2
    data_credits = 1
    PACK_SEAL_FRAMES = 2
    DRAIN_SLOT_CHUNK = 2
    FABRIC_DRAIN_MAX = 4
    spin_iters = 1
    Kinds = {"apply", "defer", "adopt"}
    Origins = {0}
    Tokens = {1, 2}
SPECIFICATION Spec
INVARIANTS
    WaiterIsOwedOneReply CreditsConserved NoStrandedFrames
    CreditWakesNotLost
