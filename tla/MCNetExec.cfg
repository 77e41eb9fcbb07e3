CONSTANTS MaxFrames = 3
SPECIFICATION NetSpec
PROPERTY ImplementsYolo
CHECK_DEADLOCK FALSE
