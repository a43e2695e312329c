SPECIFICATION HSpec
CONSTANTS
    Handlers = {h1, h2, h3}
    MaxWrites = 3
    Miss = Miss
INVARIANT CurrentUnlessDisturbed
PROPERTY StaleListEnds
CHECK_DEADLOCK FALSE
