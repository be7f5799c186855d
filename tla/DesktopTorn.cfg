\* The desktop miner and a notify that fails to parse half way.
SPECIFICATION Spec
CONSTANTS
    Jobs <- MCJobs
    NoJob <- MCNoJob
    Targets <- MCTargets
    NoTarget <- MCNoTarget
    BadBranch <- MCBadBranch
    Unbuildable <- MCUnbuildable
    Malformed <- MCMalformed
    Meets <- MCMeets
    NonceMax = 2
    CounterMod = 4
    En2Space = 2
    NonceBatch = 2
INVARIANT
    MalformedJobDropped
CHECK_DEADLOCK FALSE
