CONSTANTS
    AddrBytes = 2
    NCP = 2
    MaxEntries = 3
    Eids <- MCEids
    Probes <- MCProbes
SPECIFICATION Spec
INVARIANT TypeOK
INVARIANT LongestMatch
INVARIANT ExactHit
INVARIANT NoDuplicatePrefix
