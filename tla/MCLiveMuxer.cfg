SPECIFICATION Spec
CONSTANTS
    Kinds = {"video", "audio"}
    MaxStreams = 2
    Ticks <- MCTicks
    Arrivals <- MCArrivals
    Tick = 3
    MinMonotonicStep = 5
    JitterWindow = 1
    GapThreshold = 5
    DefaultPacket = 1
    MaxBufferPackets = 2
    MaxInterleavePackets = 1
    MaxBufferBytes = 4
    maxCfgPending = 1
    ChunkFrames = {2}
    FrameDuration = 2
    Fuses = {0, 1, 5}
    MaxPackets = 4
INVARIANTS
    OwnedExactlyOnce
    Interleaved
    StartsAligned
    NothingVanishes
    DurationsTile
