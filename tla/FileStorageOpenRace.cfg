SPECIFICATION Spec
CONSTANTS
    Edits = {e1, e2, e3}
    Requests = {r1, r2}
    NoText = NoText
    Operations = {"content"}
    MaxInFlight = 1
    EditsDuring = {"content"}
    LoadsDuring = {"content"}
    FaultsDuring = {}
    MaxLoads = 2
    MaxFailures = 0
    MaxCrashes = 0
SYMMETRY Symmetry
INVARIANT NothingLost
CHECK_DEADLOCK FALSE
