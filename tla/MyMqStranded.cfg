CONSTANTS
    NoProc = NoProc
    NoMessage = NoMessage
    Prio = {1}
    Proc = {p1, p2, p3}
    MaxMsg = 3
    MaxSend = 2
SPECIFICATION CallSpec
INVARIANT BlockedAreWoken
