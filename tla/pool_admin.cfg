SPECIFICATION Spec
CONSTANTS
    c1 = c1
    c2 = c2
    c3 = c3
    NoCall = NoCall
    NoCred = NoCred
    Calls = {p1}
    OpusCalls = {}
    Creds = {c1, c2}
    OpusCreds = {c1}
    Cap = 1
    RetriesPerCred = 1
    MaxTotalRetries = 9
    MaxFailures = 1
    Priorities <- ZeroOne
    InitPriorities <- Ranked
    InitDisabled <- MaybeFirstDisabled
    InitTokens <- AnyTokens
    InitModes <- BothModes
    MaxAdminOps = 2
    MaxExpiries = 1
INVARIANTS
    SuccessesTruthful
