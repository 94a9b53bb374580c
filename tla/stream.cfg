CONSTANT MaxRetries = 3
SPECIFICATION FairSpec
CHECK_DEADLOCK FALSE
INVARIANTS TypeOK
PROPERTIES WriterImplemented SessionEnds
