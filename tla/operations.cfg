SPECIFICATION FairSpec
CONSTANTS
    Subs = {s1, s2}
    MaxAsk = 2
    MaxList = 2
INVARIANTS
    TypeOK
    CompleteAnswer
PROPERTIES
    SubscriptionsKeepContract
    EveryRequestIsAnswered
CHECK_DEADLOCK FALSE
