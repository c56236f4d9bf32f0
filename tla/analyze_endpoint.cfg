SPECIFICATION FairSpec
CONSTANTS
    None = None
    c1 = c1
    c2 = c2
    b1 = b1
    Calls = {c1, c2}
    Cards = {}
    FullAnalyses = {b1}
    Threads = 1
    Retries = 1
    AttemptTime = 1
    SlowestAttempt = 1
    Deadline = 2
    Outcomes <- MixedOutcomes
    MaxFaults = 1
INVARIANTS
    TypeOK
    AnswersMatchAudit
    BaselineAsLastResort
    NothingAskedInVain
    SavedFlagsTrue
PROPERTIES
    CancelledCallsNeverRun
    EveryCallAnswered
