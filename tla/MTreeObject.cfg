\* A stream of 5 data bytes in leaves of 2 (3 leaves, 7 slots), SHA-256's
\* 21-byte header (u32 length + 17 bytes of bincode for hash_type None) and
\* 4-byte digests (not a divisor of 21, as 32 is not), cut at every length.
\* A failed or aborted load makes no object: nothing follows it, so the run
\* does not check deadlock.
CONSTANTS
    a = a
    b = b
    LeafSymbols <- MCLeafSymbols
    DataSize = 5
    LeafSize = 2
    HashBytes = 4
    MetaBytes = 17
SPECIFICATION FairSpec
INVARIANTS
    TypeOK
    LoadRootCorrect
    LoadOutcome
PROPERTIES
    LoadReturns
CHECK_DEADLOCK FALSE
