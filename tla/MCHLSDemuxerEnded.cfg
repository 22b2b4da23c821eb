SPECIFICATION Spec
CONSTANTS
    a = a
    b = b
    None = None
    Ops <- OneCaller
    Kinds = {"read", "seek"}
    PacketsPerSegment = 1
    Targets = {1}
    FirstWindow <- ZeroToOne
    EndsAtOnce = {FALSE}
    MaxSequence = 3
    MaxCalls = 5
INVARIANTS
    SeekEarliest
CHECK_DEADLOCK FALSE
