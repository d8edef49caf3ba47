CONSTANTS
    Capacity = 2
    IndexMod = 4
    MaxBatch = 3
    MaxItems = 7
SPECIFICATION Spec
INVARIANT NoSlotRace
PROPERTY ImplementsChannel
