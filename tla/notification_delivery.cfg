\* The hosts of the backend and a notification.
CONSTANTS
    s1 = s1
    demo = demo
    added = added
    stored1 = stored1
    unknown = unknown
    i1 = i1
    e1 = e1
    None = None
    DemoClients = {demo}
    OtherClients = {added}
    Items = {i1}
    Sends = {s1}
    Events = {stored1, unknown}
    StoredEvents = {stored1}
    Explanations = {e1}
    MaxFaults = 1
    MaxCrashes = 1
SPECIFICATION FairSpec
INVARIANTS
    TypeOK
    JournalMatchesWebhook
    AddressedAsAsked
    DemoClientsOnce
PROPERTY FeedReachesTheStore
