SPECIFICATION FairSpec
CONSTANTS
    None = None
    Uploads = {}
    Reprocesses = {r1}
    ApiBatches = {}
    WorkerBatches = {w1}
    Texts = {t1, t2}
    ManualSources = {"Seed"}
    BatchSize = 2
    MaxFaults = 1
    MaxCrashes = 1
INVARIANTS
    StatusTraceable
    DriftNeedsFailure
PROPERTY RegressionIsAFailureWrite
PROPERTY EveryJobSettles
