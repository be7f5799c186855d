\* The line reader on every stream of a few bytes, cut in every way.  A
\* connection that was given up is not read again, so a run may stop.
SPECIFICATION FairSpec
CONSTANTS
    Data <- MCData
    BufSize = 3
    OutSize = 3
    MaxBytes = 5
INVARIANTS
    TypeOK
    LinesAreFramed
    GivesUpOnlyWhenFull
PROPERTIES
    LinesArrive
CHECK_DEADLOCK FALSE
