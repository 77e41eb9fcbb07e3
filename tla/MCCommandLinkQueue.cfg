SPECIFICATION FairLinkSpec
CONSTANTS
    FormValues = {"land", ""}
    Times = {1}
    Headers <- OnlyGood
    PollerHeaders <- OnlyGood
    MaxIssued = 1
    OnError = "loiter"
    PipeCap = 1
    MaxQueue = 1
    MaxLaunches = 1
    MaxStarts = 1
PROPERTIES
    QueuedIsTaken
