\* The ESP32 miner and a job whose branch does not decode.
SPECIFICATION Spec
CONSTANTS
    Jobs <- MCJobs
    NoJob <- MCNoJob
    Targets <- MCTargets
    NoTarget <- MCNoTarget
    BadBranch <- MCBadBranch
    Unbuildable <- MCNone
    Meets <- MCMeets
    NonceMax = 2
    CounterMod = 2
    En2Space = 2
    HashBatch = 2
    QueueLen = 2
    MaxGeneration = 3
INVARIANT
    UndecodableJobNeverMined
