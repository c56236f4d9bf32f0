SPECIFICATION Spec
CONSTANTS
    None = None
    Uploads = {u1, u2}
    Reprocesses = {r1, r2}
    ApiBatches = {}
    WorkerBatches = {}
    Texts = {t1}
    ManualSources = {}
    BatchSize = 1
    MaxFaults = 1
    MaxCrashes = 1
SYMMETRY Symmetry
INVARIANTS
    TypeOK
    CreatedOnce
    SucceededJobsDelivered
    LogsMatchJobs
    NoAbandonedJobs
    FilesAccounted
    AttemptsNumbered
PROPERTY ImplementsLedger
