SPECIFICATION Spec
CONSTANTS
    None = None
    Events = {e1}
    Requests = {q1, q2}
    Factors = {f1, f2}
    Mentions <- AllFactors
    MaxClients = 3
    MaxFaults = 1
SYMMETRY Symmetry
INVARIANTS
    TypeOK
    OneAssessment
    SomeoneWins
PROPERTIES
    LostOnlyToStaleRead
    ImplementsBoard
