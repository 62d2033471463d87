SPECIFICATION Spec
CONSTANTS
    a1 = a1
    a2 = a2
    a3 = a3
    a4 = a4
    w1 = w1
    w2 = w2
    NoWorker = NoWorker
    NoAccount = NoAccount
    Workers = {w1, w2}
    Accounts = {a1, a2}
    InitAccounts <- OneEntry
    NewAccounts = {a2}
    Ops <- AllOps
    Deletable = {1}
    MaxJobs = 3
    MaxRotations = 1
    MaxFaults = 1
SYMMETRY WorkerSymmetry
INVARIANTS
    TypeOK
    PresentsLatest
    
    
