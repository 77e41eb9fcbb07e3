SPECIFICATION FairPipeSpec
CHECK_DEADLOCK FALSE
CONSTANTS
    BatchSize = 2
    LineLimit = 2
    PipeCap = 6
    MaxReports = 4
    MaxStarts = 2
    MaxLaunches = 2
INVARIANTS
    PipeTypeOK
    StoredInOrder
    NoMixture
    LostOnlyByFault
PROPERTIES
    LoopIsGivenBack
    EndsMeet
