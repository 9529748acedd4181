CONSTANTS
    Proc = {p1, p2, p3}
    NoProc = NoProc
    NoMessage = NoMessage
    MaxMsg = 2
    Prio = {1, 2}
    MaxSend = 3
SPECIFICATION Spec
SYMMETRY ProcSymmetry
INVARIANTS
    ListsPartition
    NoErrDump
    NwaitCoversReceivers
PROPERTIES
    IsPrioQueue
    SignalOnlyWhenDue
CHECK_DEADLOCK FALSE
