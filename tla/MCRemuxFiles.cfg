SPECIFICATION FilesSpec
CONSTANTS
    NInputs = 2
    Streams = {1, 2}
    TimeBase <- MCTimeBase
    Files <- MCFiles
    None = None
INVARIANTS
    Settled
    InstalledWhole
    Recoverable
PROPERTIES
    MergesStably
CHECK_DEADLOCK FALSE
