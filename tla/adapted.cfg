SPECIFICATION FairDeliverySpec
CONSTANTS
    Threads = {t1, worker}
    Worker = worker
    Wirer = wirer
    Driver = driver
    MaxResults = 5
    MaxLong = 7
    MaxAsk = 7
    Queue = 4
    Limit = 3
INVARIANTS
    DeliveryTypeOK
    QueueNeverOverflows
    InOrder
PROPERTIES
    AdaptedContract
    ChildUnsubscribeReachesDriver
CHECK_DEADLOCK FALSE
