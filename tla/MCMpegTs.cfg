SPECIFICATION Spec
CONSTANTS
    CounterMod = 4
    TimestampMod = 32
    Room = 2
    MaxPes = 3
    PtsHz = 3
    SampleHz = 2
    FrameSamples = 2
    Layouts <- MCLayouts
    Units <- MCUnits
    PtsOffset = 27
    TickNum = 2
    TickDen = 3
    TablesInterval = 2
    MaxPMTTracks = 2
    MaxUnits = 3
    MaxPending = 2
    MaxStreamingPES = 4
    Times = {30}
    CancelSpan = 1
    MaxBurst = 2
    MaxCancels = 1
    MaxSeeks = 1
    Damages = {"lost", "spliced", "repeated", "truncated", "resected"}
INVARIANTS
    NothingTorn
    NothingMissed
    ClockUnwrapped
    SeekSettles
CHECK_DEADLOCK FALSE
