SPECIFICATION DashFairSpec
CONSTANTS
    Here = Here
    There = There
    Origin = Origin
    Headers = {}
    Near <- MCNear
    Modes = {"HOLD", "LAND", "TAKEOFF"}
    FormValues = {"land", "loiter", "undefined", ""}
    Buttons = {"land", "loiter"}
    Times = {1}
    Positions = {Here, There}
    Snapshots <- MCSnapshots
    ConnectionSlots = {}
    TelemetrySlots = {1, 2}
    CommandSlots = {1}
    MaxIssued = 1
    Window = 2
    Behind = 0
    maxTrajectoryPoints = 2
    MaxFaults = 1
    MaxReports = 2
    MaxClicks = 1
INVARIANTS
    DashTypeOK
    TrailEndsAtMarker
    HighlightHasCause
PROPERTY
    CatchesUp
