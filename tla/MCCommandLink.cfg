SPECIFICATION FairLinkSpec
CONSTANTS
    FormValues = {"land", "undefined", ""}
    Times = {1}
    Headers <- BothHeaders
    PollerHeaders <- BothHeaders
    MaxIssued = 2
    OnError = "loiter"
    PipeCap = 2
    MaxQueue = 1
    MaxLaunches = 1
    MaxStarts = 1
INVARIANTS
    LinkTypeOK
    NoRedelivery
PROPERTIES
    MarkedOnlyIfWritten
    AwaitedByteQueued
    HandoverCompletes
    LoopThaws
