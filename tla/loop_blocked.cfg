SPECIFICATION Spec
CONSTANTS
    None = None
    c1 = c1
    c2 = c2
    b1 = b1
    Calls = {c1}
    Cards = {}
    FullAnalyses = {b1}
    Threads = 1
    Retries = 2
    AttemptTime = 1
    SlowestAttempt = 1
    Deadline = 2
    Outcomes <- TimeoutsOnly
    MaxFaults = 0
INVARIANTS
    DeadlineEnforced
