CONSTANT MaxRetries = 3
SPECIFICATION FairSpec
CHECK_DEADLOCK FALSE
PROPERTY ReturningHandlerCloses
