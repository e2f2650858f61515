CONSTANTS
    LittleEndian = TRUE
    RecvDstAddr = FALSE
    UninitDsts <- MCUninitDsts
    Assignments <- MCAssignments
    Ports <- MCPorts
    BufLen <- MCCprBufLen
    Datagrams <- MCCprDatagrams
    InitialBuf <- MCCprInitialBuf
SPECIFICATION CprSpec
\* The Linux build: demux.c defines IP_RECVDSTADDR as 0, so no cmsg matches
\* and destination.sin_addr is never written.  fatal() may stop the run.
CHECK_DEADLOCK FALSE
INVARIANTS DeliversToOwners
