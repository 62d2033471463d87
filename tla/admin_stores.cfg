SPECIFICATION Spec
CONSTANTS
    Workers = {w1, w2}
    P1 = P1
    P2 = P2
    Proxies = {P1, P2}
    InitPool <- MCInitPool
    InitEntries <- MCInitEntries
    Mixes <- MCMixes
    Limits = {0, 1, 2}
    Unset = Unset
    Direct = Direct
    BalanceTTL = 1
    StatsDebounce = 1
    MaxIds = 3
    MaxFaults = 1
    MaxRestarts = 1
INVARIANTS TypeOK ConfigAgrees OwnRecords StatsCaughtUp
PROPERTY AssignFair
SYMMETRY MCSymmetry
