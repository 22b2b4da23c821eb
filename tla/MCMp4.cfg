SPECIFICATION Spec
CONSTANTS
    NTracks = 2
    Video = {2}
    Scale <- MCScale
    MovieScale = 10
    Layouts = {"progressive", "fragmented"}
    FragmentDuration = 10
    MaxFragmentBytes = 4
    MaxFragmentPackets = 3
    MaxSamples = 4
    Packets <- MCPackets
    CheckpointEvery = 2
    Targets = {1, 3}
INVARIANTS
    ReadsBack
    FragmentsSurvive
    SeekResumes
    CutsAtKeyframes
CHECK_DEADLOCK FALSE
