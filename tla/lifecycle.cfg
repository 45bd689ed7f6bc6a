SPECIFICATION FairSpec
CONSTANTS
    Clients = {c1, c2}
    Handles = {h1, h2}
    Subs = {s1, s2}
    MaxRounds = 2
INVARIANTS
    TypeOK
    CloseReachesItsUsers
    NoTruncatedCompletion
PROPERTY EveryRequestIsAnswered
CHECK_DEADLOCK FALSE
