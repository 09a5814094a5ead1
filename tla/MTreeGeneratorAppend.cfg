\* A generator for 5 data bytes in leaves of 2 (leaf_count 3), batches of
\* one or two leaves, header writes that may fail.  A failed or aborted new
\* makes no generator, so deadlock is not checked.
CONSTANTS
    a = a
    b = b
    LeafSymbols <- MCLeafSymbols
    DataSize = 5
    LeafSize = 2
    MaxBatch = 2
    WriteMayFail = TRUE
SPECIFICATION Spec
INVARIANT GenAppendReaches
CHECK_DEADLOCK FALSE
