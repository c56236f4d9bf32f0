SPECIFICATION Spec
CONSTANTS
    None = None
    Uploads = {u1}
    Reprocesses = {r1}
    ApiBatches = {}
    WorkerBatches = {}
    Texts = {t1}
    ManualSources = {}
    BatchSize = 1
    MaxFaults = 1
    MaxCrashes = 0
INVARIANT ReprocessedMeansEvent
