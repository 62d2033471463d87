SPECIFICATION Spec
CONSTANTS
    c1 = c1
    c2 = c2
    c3 = c3
    Clients = {c1, c2, c3}
    NoClient = none
    ask = ask
    other = other
    Bodies = {ask, other}
    Asked <- FewRequests
    Answers <- FewAnswers
    TTL = 1
    MaxTime = 2
    MaxCrashes = 1
SYMMETRY ClientSymmetry
INVARIANTS TypeOK ReplayedAnswers TornOnlyByFault LoggedOnce
CHECK_DEADLOCK FALSE
