SPECIFICATION CrashSpec
CONSTANTS
    FormValues = {"land", "undefined"}
    Times = {1}
    Headers <- BothHeaders
    PollerHeaders <- BothHeaders
    MaxIssued = 2
    OnError = "loiter"
    PipeCap = 2
    MaxQueue = 1
    MaxLaunches = 2
    MaxStarts = 2
INVARIANTS
    NoRedelivery
PROPERTIES
    LateMarksWritten
    InOrder
