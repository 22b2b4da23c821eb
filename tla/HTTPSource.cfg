SPECIFICATION FairSpec
CONSTANTS
    None = None
    Ops = {a, b}
    Size = 3
    ReadAheadBytes = 2
    MaxRetries = 1
    Validated = {TRUE, FALSE}
    Lengths = {1, 2}
    Offsets = {1, 2}
    MaxCalls = 3
INVARIANTS
    ReadsTile
    OneResource
PROPERTIES
    Unblocks
CHECK_DEADLOCK FALSE
