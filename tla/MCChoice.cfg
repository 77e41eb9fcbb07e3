CONSTANTS
    L = 4
    Anchors = 10
    TopK = 5
    Scores <- AroundThreshold
    Boxes <- ThreeInARow
    Inputs <- MCInputs
SPECIFICATION ChoiceSpec
INVARIANTS
    StableOrder
    DrawnApart
    PassedOverForBetter
    RunsSorted
CHECK_DEADLOCK FALSE
