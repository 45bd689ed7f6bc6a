SPECIFICATION FairSpec
CONSTANTS
    Calls = {c1, c2}
    MaxCount = 1
    MaxEvents = 3
INVARIANTS
    TypeOK
    AnsweredAtMostOnce
    AnswerIsOwn
    RoundTrip
PROPERTY EveryCallIsAnswered
CHECK_DEADLOCK FALSE
