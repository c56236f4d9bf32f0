\* What the AI service remembers, beside concurrent saves, faults and a crash.
CONSTANTS
    a1 = a1
    a2 = a2
    k1 = k1
    s1 = s1
    d1 = d1
    d2 = d2
    request_document = request_document
    long = long
    short = short
    broken = broken
    c1 = c1
    c2 = c2
    None = None
    Analyses = {a1, a2}
    Asks = {k1}
    Sends = {s1}
    Documents = {d1, d2, request_document}
    Texts = {long, short, broken}
    Neutral = {short}
    Works <- MCWorks
    Uploads <- MCUploads
    UploadId <- MCUploadId
    Count <- MCCount
    Split <- MCSplit
    Listed <- MCListed
    Questions <- MCQuestions
    Notices <- MCNotices
    TopK = 1
    MaxContexts = 1
    MaxSize = 2
    MaxMishaps = 1
SYMMETRY Symmetry
SPECIFICATION Spec
INVARIANTS
    TypeOK
    NothingSavedIsLost
    ChunksFollowTheDocument
    SentToListedClients
PROPERTIES
    SavedDocumentsAnswer
