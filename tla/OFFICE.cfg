SPECIFICATION BSpec
CONSTANTS
    i1 = i1
    i2 = i2
    p1 = p1
    p2 = p2
    a = a
    b = b
    Ids = {i1, i2}
    Types = {"MASSA", "RECHEIO"}
    Prices = {p1, p2}
    MaxCalls = 2
    MaxChanges = 2
    Sales = {a, b}
    Price <- InCents
    Days = {1, 2}
    MonthStarts = {1}
    Spans = {0, 1}
    DefaultSpan = 1
    MaxActs = 3
    None = None
SYMMETRY Symmetry
INVARIANT ListMatchesDatabase EachSaleOnce LastAskedIsShown FileIsTheReport
PROPERTY FormKept
CHECK_DEADLOCK FALSE
