SPECIFICATION Spec
CONSTANTS
    ByteBits = 3
    Layouts <- MCLayouts
    Packets <- MCPackets
    TickHz = 3
    TimecodeHz = 2
    ClusterSpan = 6
    MinRelative <- MCMinRelative
    ClusterWidth = 2
    SegmentWidth = 3
    MaxPackets = 4
    FailAfter = {1, 2}
    Targets = {7, 11}
    CancelSpan = 3
    MaxCancels = 1
    MaxSeeks = 2
    Foreign <- MCForeign
INVARIANTS
    ReadsBack
    NothingLost
    SeekNearest
CHECK_DEADLOCK FALSE
