SPECIFICATION FairSpec
CONSTANTS
    Threads = {t1, t2}
    Wirer = wirer
    Driver = driver
    MaxResults = 1
    MaxLong = 2
    MaxAsk = 2
PROPERTIES
    NothingAfterTerminal
    UnsubscribeReachesDriver
    StartFailureIsReported
    ImplementsContract
