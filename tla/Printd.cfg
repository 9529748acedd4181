SPECIFICATION FairSpec
CONSTANTS
    Job = {j1, j2}
    None = None
    MaxChunk = 1
    MaxCrash = 1
INVARIANTS
    TypeOK
    AcknowledgedIsKept
    PrintedAsSpooled
    QueuedOnce
PROPERTIES
    KeepsTurn
    AcknowledgedIsPrinted
CHECK_DEADLOCK FALSE
