\* The assembly against the C code and the published digests.
SPECIFICATION AsmSpec
CONSTANTS
    K <- KTable
    Inputs <- MCInputs
    Leftovers <- MCLeftovers
INVARIANT
    KnownAnswers
PROPERTY
    ImplementsC
\* The call returns when the last block is compressed.
CHECK_DEADLOCK FALSE
