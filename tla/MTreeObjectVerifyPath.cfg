\* The reader of MTreeObject.cfg, asked for verification paths after a
\* successful load.  A failed load ends the reader, so deadlock is not checked.
CONSTANTS
    a = a
    b = b
    LeafSymbols <- MCLeafSymbols
    DataSize = 5
    LeafSize = 2
    HashBytes = 4
    MetaBytes = 17
SPECIFICATION Spec
INVARIANT VerifyPathSound
CHECK_DEADLOCK FALSE
