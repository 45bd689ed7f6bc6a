SPECIFICATION FairSpec
CONSTANTS
    Subs = {s1, s2}
    Size = 2
    MaxCount = 2
INVARIANTS
    TypeOK
    SuccessIsWhole
    DestinationHasPrefix
PROPERTIES
    KeepsTransferContract
    TransferEnds
CHECK_DEADLOCK FALSE
