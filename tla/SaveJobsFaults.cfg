SPECIFICATION FairSpec
CONSTANTS
    Jobs = {j1, j2}
    Texts = {a, b}
    NoText = NoText
    Concurrency = 2
    MaxAttempts = 2
    MaxFailures = 1
    MaxCrashes = 1
    MaxElsewhere = 1
INVARIANT CheckpointListed
PROPERTY EverySaveSettles
