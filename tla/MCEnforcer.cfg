SPECIFICATION Spec
CONSTANTS
    MinTime <- MinusOne
    MaxTime = 4
    MaxBufferSize = 2
    Window = 2
    MinMonotonicStep = 2
    MinGap = 1
    GapThreshold = 2
    Offsets <- SmallOffsets
    MaxPackets = 5
INVARIANTS
    StrictlyIncreasing
    StableOrder
    EveryPacketAccounted
    JitterTolerated
