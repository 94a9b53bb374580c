CONSTANTS
    Metadatas <- MCMetadatas
    Payloads <- MCPayloads
    MaxWrites = 3
    ServerBuf = 30
    Proxied = {6}
SPECIFICATION FairSpec
CHECK_DEADLOCK FALSE
INVARIANTS TypeOK DialsItsDestination PayloadIntact
PROPERTIES Settles EndsWithNextWrite
