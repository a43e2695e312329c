SPECIFICATION Spec
CONSTANTS
    Orders = {o1, o2}
    Charges = {c1, c2}
    Handlers = {h1}
    NoOrder = NoOrder
    NoCharge = NoCharge
SYMMETRY Symmetry
INVARIANTS WebhookFindsOneRow KitchenOrdersArePaid CancelledAsksNothing
PROPERTY ImplementsLifecycle
CHECK_DEADLOCK FALSE
