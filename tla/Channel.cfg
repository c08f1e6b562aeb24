SPECIFICATION FairSpec
CONSTANTS
    Frame = Frame
    Null = Null
    Popup = {p1, p2}
    MaxRequests = 3
    MaxPosted = 2
    Malformed = {1}
    MustUseStorageAccess = TRUE
CHECK_DEADLOCK FALSE
INVARIANTS
    TypeOK
    HostnameComesFirst
    NobodyDeafIsSpokenTo
    EveryAnswerIsAwaited
    LoginsAnswerTheirLaunch
PROPERTIES
    RequestsAreResolved
    WindowsGetReady
