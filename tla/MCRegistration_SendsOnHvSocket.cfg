\* A control plane that finishes registering without the raw socket.
CONSTANTS
    NoCP = NoCP
    c1 = c1
    c2 = c2
    CPs <- MCCPs
    MaxPings = 1
SPECIFICATION RegSpec
INVARIANT SendsOnHvSocket
CHECK_DEADLOCK FALSE
