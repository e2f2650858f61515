\* A fatal exit while hyLISP-hv services its first requests.
CONSTANTS
    NoCP = NoCP
    c1 = c1
    c2 = c2
    CPs <- MCCPs
    MaxPings = 1
SPECIFICATION RegSpec
INVARIANT NeverExits
CHECK_DEADLOCK FALSE
