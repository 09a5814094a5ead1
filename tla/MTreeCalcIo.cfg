\* Writes may fail, and callers keep using the calculator after an IoError
\* (spec 7 leaves any retry to the caller): six leaves so that two failed
\* merges can leave equal-depth pairs under a third.  An abort ends the
\* process, so deadlock is not checked.
CONSTANTS
    a = a
    b = b
    LeafSymbols <- MCLeafSymbols
    LeafCount = 6
    MaxBatch = 2
    HasWriter = TRUE
    EarlyFinalize = FALSE
    WriteMayFail = TRUE
SPECIFICATION Spec
INVARIANTS
    StackBounded
    RootCorrect
CHECK_DEADLOCK FALSE
