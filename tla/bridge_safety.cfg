SPECIFICATION Spec
CONSTANTS
    Threads = {t1, t2}
    Wirer = wirer
    Driver = driver
    MaxResults = 2
    MaxLong = 3
    MaxAsk = 4
SYMMETRY Symmetry
INVARIANTS
    TypeOK
    Backpressure
    DemandConserved
    WholeSequence
    OneLateCallAtMost
    CancelledAtMostOnce
    NoLeakedCursor
    Cold
    ErrorsAreReal
