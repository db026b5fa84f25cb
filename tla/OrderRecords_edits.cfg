\* Two requests at a time, with failures.
SPECIFICATION FairSpec
CONSTANTS
    Requests = {r1, r2}
    Goods <- OneRecord
    MaxAttempts = 2
    MishapLimit = 1
INVARIANTS
    CacheAgrees
    IssuedIsMinted
    SingleSubmitter
PROPERTIES
    RefundStopsMint
    MintEnds
CHECK_DEADLOCK FALSE
