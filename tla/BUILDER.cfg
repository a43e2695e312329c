SPECIFICATION HSpec
CONSTANTS
    sponge = sponge
    dense = dense
    ganache = ganache
    jam = jam
    cream = cream
    Catalogs <- Versions
    Order <- Listing
    Flags = {"gluten"}
    Weights = {300}
    MaxFloors = 3
    MaxQuotes = 2
    MaxActs = 3
    None = None
INVARIANT ShownPriceIsCharged LetThroughIsAccepted RestHasQuote OneOrderPerVisit FloorsAddUp
PROPERTY VisitRestoresDraft
CHECK_DEADLOCK FALSE
