SPECIFICATION FairSpec
CONSTANTS
    c1 = c1
    c2 = c2
    c3 = c3
    NoCall = NoCall
    NoCred = NoCred
    Calls = {p1, p2}
    OpusCalls = {}
    Creds = {c1, c2}
    OpusCreds = {c1}
    Cap = 1
    RetriesPerCred = 1
    MaxTotalRetries = 9
    MaxFailures = 1
    Priorities <- NoPriorities
    InitPriorities <- Ranked
    InitDisabled <- NoneDisabled
    InitTokens <- FirstStale
    InitModes <- OnlyPriority
    MaxAdminOps = 0
    MaxExpiries = 0
INVARIANTS
    TypeOK
    PermitsConserved
    RefreshSingleFlight
    RefreshOnlyStale
    RetriesBounded
PROPERTIES
    LeavesLimited
    CallEnds
