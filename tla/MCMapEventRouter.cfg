CONSTANTS
    LittleEndian = TRUE
    MsgBufLen <- MCMsgBufLen
    Messages <- MCMessages
    InitialMsgBuf <- MCInitialMsgBuf
    Assignments <- MCMerAssignments
    Channels <- MCChannels
SPECIFICATION MerSpec
INVARIANTS PmTypeOK ExtractsMessageEid DeliversMapMessages
