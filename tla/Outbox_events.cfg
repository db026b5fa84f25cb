\* Cards: one, two senders, everything that may happen.  Rewards: one rule of a
\* refunded order line, or two, and one sender or two.
CONSTANTS
    Issues = {i1}
    Senders = {w1, w2}
    Tokens = {t1, t2, t3}
    NoToken = NoToken
    MaxAttempts = 1
    CrashLimit = 1
    Env = {"hold", "fail", "lost", "refund", "mint", "expire", "retry", "slow"}
    Points = Points
    Bonus = Bonus
    School = School
    Sender2 = Sender2
    Refund2 = Refund2
    Rules = {Points, Bonus, School}
    OveRules = {Points, Bonus}
    PerQuantity = {Points}
    NeedsId = {School}
    Editable = {Points}
    Quantity = 2
    Units = {1, 2}
    Pushers = {Sender1, Sender2}
    Refunds = {Refund1, Refund2}
    PointAttempts = 2
    PointCrashes = 1
    PointEnv = {"fail", "lost", "retry", "slow"}
    NULL = NULL
SPECIFICATION OutboxSpec
SYMMETRY Symmetry
CHECK_DEADLOCK FALSE
INVARIANTS
    DeliveredWasReceived
    NoGrantAfterRefund
    LedgerMatchesWallet
    PointsComeBack
    ReversedOnce
PROPERTIES
    LeaseSpec
