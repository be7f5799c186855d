\* Two submits after the handshake, lines of two bytes, a send buffer that
\* does not hold two lines.  A connection that was given up sends no more.
SPECIFICATION FairSpec
CONSTANTS
    LineLen = 2
    SockBuf = 4
    HandshakeLines = 3
    MaxLines = 5
INVARIANTS
    SentInOrder
    TrueMeansWhole
    HandshakeWaits
PROPERTIES
    MiningNeverBlocks
CHECK_DEADLOCK FALSE
