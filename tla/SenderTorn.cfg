\* A submit that meets a full send buffer half way.
SPECIFICATION Spec
CONSTANTS
    LineLen = 2
    SockBuf = 4
    HandshakeLines = 3
    MaxLines = 5
INVARIANT
    PoolReadsWholeLines
CHECK_DEADLOCK FALSE
