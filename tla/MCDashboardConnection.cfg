SPECIFICATION DashFairSpec
CONSTANTS
    Here = Here
    There = There
    Origin = Origin
    Headers <- MCHeaders
    Near <- MCNear
    Modes = {"HOLD", "LAND", "TAKEOFF"}
    FormValues = {"land", "loiter", "undefined", ""}
    Buttons = {"land", "loiter"}
    Times = {1, 2, 3, 4, 5}
    Positions = {Here, There}
    Snapshots <- MCSnapshots
    ConnectionSlots = {1, 2}
    TelemetrySlots = {}
    CommandSlots = {}
    MaxIssued = 1
    Window = 2
    Behind = 1
    maxTrajectoryPoints = 2
    MaxFaults = 2
    MaxReports = 0
    MaxClicks = 0
PROPERTIES
    NoFalseConnect
    IndicatorSettles
