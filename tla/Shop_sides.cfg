\* A cart in one tab, coupons in one form, orders from two tabs at once; or two
\* administrators, two variants and two orders of one product.
CONSTANTS
    t1 = t1  t2 = t2  v1 = v1  v2 = v2  c1 = c1  c2 = c2  k1 = k1  k2 = k2
    Tabs = {t1, t2}
    Codes = {c1, c2}
    Coupons = {k1, k2}
    Variants = {v1, v2}
    None = None
    MaxQuantity = 2
    MaxOrders = 2
    Scopes <- Shops
    ann = ann  ben = ben  o1 = o1  o2 = o2
    NULL = NULL
    Admins = {ann, ben}
    Orders = {o1, o2}
    Ids = {1, 2}
    Tasks <- MCTasks
SPECIFICATION ShopSpec
CHECK_DEADLOCK FALSE
INVARIANTS
    PricedRight
    OncePerCustomer
    HeldStockRemains
    PortalAccessIsComplete
PROPERTIES
    AttributionIsPermanent
