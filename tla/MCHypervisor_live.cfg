CONSTANTS
    AddrBytes = 2
    NoCP = NoCP
    c1 = c1
    c2 = c2
    CPs <- MCCPs
    Port <- MCPort
    Eids <- MCEidsLive
    Probes <- MCProbesLive
    MaxEntries = 1
    MaxPings = 2
SPECIFICATION HvFairSpec
PROPERTY PollSetConverges
