SPECIFICATION FairSpec
CONSTANTS
    r1 = r1
    r2 = r2
    n1 = n1
    n2 = n2
    Root <- MCRoot
    Out = out
    Name <- MCName
    Ino = {1, 2, 3, 4}
    Trees <- MCTrees
    None = None
    MaxDepth = 3
    MaxOps = 2
    MaxQueue = 3
    ReadMax = 2
    MaxRebuild = 1
INVARIANTS
    TypeOK
    SlotsMatchWatches
    Consistent
PROPERTY CatchesUp
CHECK_DEADLOCK FALSE
