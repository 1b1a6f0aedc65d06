SPECIFICATION Spec
CONSTANTS
    Jobs = {j1, j2, j3}
    Texts = {a, b}
    NoText = NoText
    Concurrency = 2
    MaxAttempts = 3
    MaxFailures = 0
    MaxCrashes = 0
    MaxElsewhere = 0
INVARIANTS
    LastSaveStored
    EverySaveInHistory
