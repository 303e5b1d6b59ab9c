CONSTANTS
    Batch = 2
    Limit = 2
    MaxCalls = 2
SPECIFICATION FairSpec
INVARIANTS TypeOK ReturnComplete
PROPERTIES NoWriteAfterReturn SyncedOnce ImplementsFlushFds CallsReturn Ends
