CONSTANTS
    BufLen <- MCBufLen
    Datagrams <- MCDatagramsTruncated
    InitialBuf <- MCInitialBuf
SPECIFICATION Spec
INVARIANT ReadsOnlyDatagramBytes
