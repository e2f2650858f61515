\* The registration handshake, with every interleaving of the threads
\* starting, two control planes registering, dying, and kernel messages
\* arriving: the type invariant, and that the handshake terminates.
\* The hypervisor's threads block in recv for good once no control plane
\* is left to register: an idle process, not a deadlock.
CONSTANTS
    NoCP = NoCP
    c1 = c1
    c2 = c2
    CPs <- MCCPs
    MaxPings = 1
SPECIFICATION RegFairSpec
INVARIANT RegTypeOK
PROPERTY RegistrationCompletes
CHECK_DEADLOCK FALSE
