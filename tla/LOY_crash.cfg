SPECIFICATION HSpec
CONSTANTS
    u1 = u1
    o1 = o1
    o2 = o2
    o3 = o3
    Users = {u1}
    Orders = {o1}
    Handlers = {h1}
    NoOrder = NoOrder
    Customer <- OneCustomer
    TotalCents <- CheckedPrices
SYMMETRY HandlerSymmetry
INVARIANT ReadyOrderIsAwarded
CHECK_DEADLOCK FALSE
