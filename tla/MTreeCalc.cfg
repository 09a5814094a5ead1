\* The builder with a writer, five declared leaves (odd at depths 0 and 1,
\* so both padding slots are used), batches of one to three leaves.
CONSTANTS
    a = a
    b = b
    LeafSymbols <- MCLeafSymbols
    LeafCount = 5
    MaxBatch = 3
    HasWriter = TRUE
    EarlyFinalize = FALSE
    WriteMayFail = FALSE
SPECIFICATION FairSpec
INVARIANTS
    TypeOK
    StackBounded
    StackDecreasing
    SinkMatchesTree
    ProofsVerify
PROPERTIES
    Refines
    RootFinal
    CallsReturn
