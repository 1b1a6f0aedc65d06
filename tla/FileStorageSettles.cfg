SPECIFICATION FairSpec
CONSTANTS
    Edits = {e1, e2}
    Requests = {r1, r2}
    NoText = NoText
    Operations = {"save", "saveElsewhere", "content", "restore", "suggestion"}
    MaxInFlight = 1
    EditsDuring = {"save", "saveElsewhere", "content", "restore", "suggestion"}
    LoadsDuring = {}
    FaultsDuring = {"save", "saveElsewhere", "content", "restore", "suggestion"}
    MaxLoads = 2
    MaxFailures = 1
    MaxCrashes = 0
INVARIANT LiveIsStored
PROPERTY EditsReachStorage
CHECK_DEADLOCK FALSE
