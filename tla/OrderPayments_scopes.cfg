\* Three orders, two units of each variant, one use of the coupon.
CONSTANTS
    Orders = {"s1", "s2", "b1"}
    Variants = {"x", "y"}
    Units <- MixedUnits
    OrderOf <- MixedOrderOf
    LineOf <- MixedLineOf
    VariantOf <- MixedVariantOf
    InitialStock <- TwoEach
    BankOrders = {"b1"}
    CouponOrders = {"s1", "b1"}
    ReferredOrders = {"s1", "b1"}
    UsageLimit = 1
    RestoreOnCancel = TRUE
    Transactions = {1, 2}
    Scopes <- SerialReplayedAndOverlapping
SPECIFICATION FairSpec
CHECK_DEADLOCK FALSE
INVARIANTS
    StockLedger
    CouponLedger
    DiscountIsCharged
    OutcomeMatchesSession
    FulfilledOnce
PROPERTIES
    OrdersResolve
