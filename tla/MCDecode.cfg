CONSTANTS
    Distances <- Sides
    Classes = 3
    Score = {0, 1}
SPECIFICATION DecodeSpec
INVARIANTS BoxAroundCell FirstBestClass
CHECK_DEADLOCK FALSE
