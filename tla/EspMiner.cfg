\* The two tasks of the ESP32 miner: all interleavings of a small instance, in
\* which one job neither decodes nor can be built.
SPECIFICATION FairSpec
CONSTANTS
    Jobs <- MCJobs
    NoJob <- MCNoJob
    Targets <- MCTargets
    NoTarget <- MCNoTarget
    BadBranch <- MCBadBranch
    Unbuildable <- MCUnbuildable
    Meets <- MCMeets
    NonceMax = 1
    CounterMod = 2
    En2Space = 2
    HashBatch = 1
    QueueLen = 2
    MaxGeneration = 3
INVARIANTS
    TypeOK
    NoTornWork
    FreshWork
    SharesReconstruct
    StaleWorkBound
    GroundExactly
PROPERTIES
    ImplementsShareFlow
    NewWorkReached
    FullQueueDrains
