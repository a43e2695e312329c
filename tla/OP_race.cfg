SPECIFICATION Spec
CONSTANTS
    Orders = {o1}
    Charges = {c1, c2}
    Handlers = {h1, h2}
    NoOrder = NoOrder
    NoCharge = NoCharge
SYMMETRY Symmetry
INVARIANTS IInv ProductionGate PaidOrderMoved RefundIsReal
PROPERTIES AwaitingEndsOnce ImplementsGate
CHECK_DEADLOCK FALSE
