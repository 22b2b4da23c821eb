SPECIFICATION FairSpec
CONSTANTS
    a = a
    b = b
    None = None
    Ops <- TwoCallers
    Kinds = {"read", "seek", "close"}
    PacketsPerSegment = 2
    Targets = {1, 6}
    FirstWindow <- ZeroToOne
    EndsAtOnce = {FALSE, TRUE}
    MaxSequence = 2
    MaxCalls = 5
INVARIANTS
    NoneLeaks
    OneTimeline
PROPERTIES
    Unblocks
CHECK_DEADLOCK FALSE
