\* Two cards, one sender at a time that is killed before its lease runs out; or
\* two rounds that overlap on a table of two or three rows.
CONSTANTS
    Issues = {i1, i2}
    Senders = {w1}
    Tokens = {t1, t2, t3}
    NoToken = NoToken
    MaxAttempts = 2
    CrashLimit = 1
    Env = {"fail", "lost", "refund", "expire"}
    Parts <- AllParts
    Tables <- MCTables
    Rounds = {"k1", "k2"}
    BatchLimit = 2
    LaneLimit = 2
SPECIFICATION DeliverySpec
CHECK_DEADLOCK FALSE
INVARIANTS
    ClaimFollowsCards
PROPERTIES
    ClaimResolves
    ReadyRowsFinish
    BackoffIsKept
