\* The root against the spec's hash_pair(left, right) order.
CONSTANTS
    a = a
    b = b
    LeafSymbols <- MCLeafSymbols
    LeafCount = 2
    MaxBatch = 2
    HasWriter = TRUE
    EarlyFinalize = FALSE
    WriteMayFail = FALSE
SPECIFICATION Spec
INVARIANT SpecHashOrder
