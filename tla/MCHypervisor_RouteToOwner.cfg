CONSTANTS
    AddrBytes = 2
    NoCP = NoCP
    c1 = c1
    c2 = c2
    CPs <- MCCPs
    Port <- MCPort
    Eids <- MCEids
    Probes <- MCProbes
    MaxEntries = 2
    MaxPings = 2
SPECIFICATION HvSpec
PROPERTY RouteToOwner
