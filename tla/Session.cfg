\* One connection between the miner and a pool.
SPECIFICATION Spec
CONSTANTS
    TooLong <- MCTooLong
    LongPrinted <- MCLongPrinted
    MaxBranches = 2
    PoolJobs <- MCPoolJobs
    Pushes <- MCPushes
    JobOf <- MCJobOf
    Sessions <- MCSessions
    MaxPushes = 3
    MaxLines = 2
    MaxShares = 2
INVARIANTS
    SharesAreThePools
    ReportsAreTrue
PROPERTIES
    NothingIsLost
\* The conversation really ends when the pool leaves or the handshake fails.
CHECK_DEADLOCK FALSE
