SPECIFICATION Spec
CONSTANTS
    c1 = c1
    c2 = c2
    c3 = c3
    NoCall = NoCall
    NoCred = NoCred
    Calls = {p1}
    OpusCalls = {}
    Creds = {c1, c2, c3}
    OpusCreds = {c1}
    Cap = 1
    RetriesPerCred = 3
    MaxTotalRetries = 9
    MaxFailures = 3
    Priorities <- NoPriorities
    InitPriorities <- Ranked
    InitDisabled <- NoneDisabled
    InitTokens <- LastValid
    InitModes <- OnlyPriority
    MaxAdminOps = 0
    MaxExpiries = 0
INVARIANTS
    GiveUpOnlyWithoutValid
