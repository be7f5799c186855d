\* The pure functions of src/core against their definitions.
SPECIFICATION Spec
CONSTANTS
    Base = 4
    Size = 6
    Precision = 6
    CoinbaseMax = 8
    CompactTargets <- MCCompactTargets
    Difficulties <- MCDifficulties
    Messages <- MCMessages
    Builds <- MCBuilds
    GrindNonces <- MCGrindNonces
INVARIANTS
    NetworkTargetExact
    ShareTargetExact
    PaddedAsDefined
    FinishIsReference
    HeaderIsThePools
