SPECIFICATION HSpec
CONSTANTS
    o1 = o1
    o2 = o2
    c1 = c1
    c2 = c2
    Orders = {o1, o2}
    Customers = {c1, c2}
    Staff = Staff
    Owner <- OneEach
    Start <- Opened
    MaxChanges = 2
    MaxCalls = 2
    MaxEvents = 1
    Nobody = Nobody
    NoOrder = NoOrder
    Loading = Loading
SYMMETRY Symmetry
INVARIANT QuietPageIsCurrent OwnOrdersOnly BusyWhileUnderWay
CHECK_DEADLOCK FALSE
