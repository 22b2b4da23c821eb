SPECIFICATION Spec
CONSTANTS
    Streams <- MCStreams
    ProbeWindow = 5
    ProbeMaxHold = 10
    MaxReorder = 6
    RecentEmitted = 6
    DeltaWindow = 3
    RingLength = 8
    MaxHeldBytes = 1000
    MinStep = 1
    HoldWindow = 3
    MinDistinct = 2
    MaxExtend = 8
    MaxDepth = 6
    DecayWindow = 4
    Joins = {0, 13}
    FrameTime = 4
    Jitters = {9}
    MaxResets = 1
    MaxOddities = 1
INVARIANTS
    DisplayOrder
    PresentsOnSchedule
    DecodesInTime
CHECK_DEADLOCK FALSE
