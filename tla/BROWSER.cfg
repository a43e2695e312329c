SPECIFICATION HSpec
CONSTANTS
    Tabs = {t1, t2}
    Accounts = {ana, rui}
    Tokens = {k1, k2, k3}
    Calls = {r1, r2}
    None = None
SYMMETRY Symmetry
INVARIANT NoFalseReuse RestIsDecided ShownMatchesCookies
CHECK_DEADLOCK FALSE
