SPECIFICATION FairSpec
CONSTANTS
    Orders = {o1}
    Charges = {c1}
    Handlers = {h1, h2}
    NoOrder = NoOrder
    NoCharge = NoCharge
PROPERTY PaidOrderIsServed
CHECK_DEADLOCK FALSE
