SPECIFICATION FairSpec
CONSTANTS
    a = a
    b = b
    None = None
    Ops <- TwoCallers
    Cancellable <- TwoCallers
    Presentations <- Shows
    KindsOf <- ReaderAndCloser
    Timescale = 3
    NsPerSecond = 10
    PacketTicks = 2
    Targets = {3, 7}
    MaxCalls <- FiveAndOne
INVARIANTS
    TokenHasOwner
    NoneLeaks
    OneTimeline
PROPERTIES
    Unblocks
CHECK_DEADLOCK FALSE
