SPECIFICATION Spec
CONSTANTS
    a1 = a1
    a2 = a2
    a3 = a3
    a4 = a4
    w1 = w1
    w2 = w2
    NoWorker = NoWorker
    NoAccount = NoAccount
    Workers = {w1, w2}
    Accounts = {a1, a2, a3, a4}
    InitAccounts <- TwoEntries
    NewAccounts = {a3, a4}
    Ops <- AddOnly
    Deletable = {1}
    MaxJobs = 2
    MaxRotations = 2
    MaxFaults = 0
INVARIANTS
    UniqueIds
