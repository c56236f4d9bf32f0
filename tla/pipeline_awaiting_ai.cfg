SPECIFICATION Spec
CONSTANTS
    None = None
    Uploads = {u1}
    Reprocesses = {}
    ApiBatches = {}
    WorkerBatches = {}
    Texts = {t1}
    ManualSources = {}
    BatchSize = 1
    MaxFaults = 0
    MaxCrashes = 0
INVARIANT AwaitingAiUntilEvent
