SPECIFICATION Spec
CONSTANTS
    None = None
    Uploads = {}
    Reprocesses = {}
    ApiBatches = {a1}
    WorkerBatches = {}
    Texts = {t1}
    ManualSources = {}
    BatchSize = 1
    MaxFaults = 0
    MaxCrashes = 0
PROPERTY SeedsLoad
