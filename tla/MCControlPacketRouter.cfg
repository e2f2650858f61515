CONSTANTS
    LittleEndian = TRUE
    RecvDstAddr = TRUE
    UninitDsts <- MCUninitDsts
    Assignments <- MCAssignments
    Ports <- MCPorts
    BufLen <- MCCprBufLen
    Datagrams <- MCCprDatagrams
    InitialBuf <- MCCprInitialBuf
SPECIFICATION CprSpec
\* fatal() on a failed recvmsg() exits the process: the run may stop there.
CHECK_DEADLOCK FALSE
INVARIANTS PdTypeOK ExtractsDatagramEid ChecksumsVerify DeliversToOwners
