SPECIFICATION Spec
CONSTANTS
    Orders = {o1}
    Charges = {c1, c2}
    Handlers = {h1}
    NoOrder = NoOrder
    NoCharge = NoCharge
SYMMETRY Symmetry
PROPERTY CancelGivesMoneyBack
CHECK_DEADLOCK FALSE
