SPECIFICATION Spec
CONSTANTS
    Jobs = {j1, j2}
    Texts = {a, b}
    NoText = NoText
    Concurrency = 2
    MaxAttempts = 3
    MaxFailures = 1
    MaxCrashes = 0
    MaxElsewhere = 0
INVARIANT OlderNeverAfterNewer
