SPECIFICATION VideoFairSpec
CONSTANTS
    Activations = {1, 2}
    Dims <- MCDims
    Sizes <- MCSizes
    Places <- MCPlaces
    Parts = 4
    Rates = {10, 30}
    FpsEvery = 2
INVARIANTS
    VideoTypeOK
    OneAtATime
    NoMapClash
    DrawnWhereSeen
    RateWithinSamples
PROPERTY
    KeepsDetecting
CHECK_DEADLOCK FALSE
