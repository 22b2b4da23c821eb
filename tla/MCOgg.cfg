SPECIFICATION Spec
CONSTANTS
    PreSkip = 3
    TailWindow = 2
    Targets = {0, 3}
    MaxCancels = 1
    MaxSeeks = 2
    Streams <- MCStreams
    TagSizes = {2}
    Trims = {0, 3}
    PageRoom = 2
    SharesTags = FALSE
    Damages = {"lost", "corrupt", "cut", "cut after its header"}
INVARIANTS
    ReadsBack
    SeekLands
    DurationAgrees
CHECK_DEADLOCK FALSE
