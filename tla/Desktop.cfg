\* The desktop miner: safety and liveness.  The program ends when the pool
\* closes the connection, so a state without a next step is no error.
SPECIFICATION FairSpec
CONSTANTS
    Jobs <- MCJobs
    NoJob <- MCNoJob
    Targets <- MCTargets
    NoTarget <- MCNoTarget
    BadBranch <- MCBadBranch
    Unbuildable <- MCUnbuildable
    Malformed <- MCMalformed
    Meets <- MCMeets
    NonceMax = 2
    CounterMod = 4
    En2Space = 2
    NonceBatch = 2
INVARIANTS
    GroundExactly
    OnlyUsableJobsMined
PROPERTIES
    ImplementsShareFlow
    SearchNotRepeated
    SearchStarts
CHECK_DEADLOCK FALSE
