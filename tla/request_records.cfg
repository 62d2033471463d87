SPECIFICATION Spec
CONSTANTS
    Workers = {w1, w2}
    Script <- MCScript
    Parts <- MCParts
    Counts = {0}
    Usages <- MCUsages
    ShortTTL = 1
    LongTTL = 2
    MaxRecords = 1
    Mixes <- MCMixes
INVARIANTS HitsEarned UsageAgrees LogIntact
SYMMETRY MCSymmetry
