SPECIFICATION Spec
CONSTANTS
    Orders = {o1}
    Purchases <- OneInterest
    Workers = {w1, w2}
    Ids = {c1, c2}
    Buyer = buyer
    None = None
    MaxAttempts = 2
    MishapLimit = 2
SYMMETRY Symmetry
INVARIANTS
    RefundEndsAccess
PROPERTIES
    IdentityIsKept
CHECK_DEADLOCK FALSE
