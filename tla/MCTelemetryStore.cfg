SPECIFICATION TeleSpec
CONSTANTS
    t1 = t1
    t2 = t2
    Threads <- TwoThreads
    Stamped = {"position"}
    Unstamped = {"armed"}
    buffer_size = 2
    flush_interval = 5
    Day = 86400
    Times = {1, 8, 86402}
    MaxPoints = 2
    MaxInflight = 2
SYMMETRY Symmetry
INVARIANTS
    TeleTypeOK
    LostOnlyByRace
    QuietMeansFlushed

    
