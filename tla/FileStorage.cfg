SPECIFICATION Spec
CONSTANTS
    Edits = {e1, e2, e3}
    Requests = {r1, r2}
    NoText = NoText
    Operations = {"save", "autosave", "content", "restore", "suggestion", "ai"}
    MaxInFlight = 1
    EditsDuring = {"save", "suggestion"}
    LoadsDuring = {}
    FaultsDuring = {"save"}
    MaxLoads = 2
    MaxFailures = 1
    MaxCrashes = 1
SYMMETRY Symmetry
INVARIANTS
    NothingLost
    DriveCopyCurrent
    BackupComplete
CHECK_DEADLOCK FALSE
