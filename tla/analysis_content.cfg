\* Replies of the analysing endpoints, whatever the provider answers.
CONSTANTS
    atBank = atBank
    exposed = exposed
    risky = risky
    fueller = fueller
    stated = stated
    inner = inner
    second = second
    imagined = imagined
    Invented = Invented
    Space = Space
    None = None
    Clients = {atBank, exposed, risky, fueller}
    MaxItems = 1
    MaxFragments = 2
    MaxEvidence = 2
    MaxDates = 2
    Documents <- MCDocuments
    Answers <- MCAnswers
    Requests <- MCRequests
    Profile <- MCProfile
    Dates <- MCDates
    Spelled <- MCSpelled
    BackendLists <- MCBackendLists
SPECIFICATION Spec
INVARIANTS
    TypeOK
    
    AlarmNeedsConsequence
    NobodyUninvited
    RoutedByTheText
