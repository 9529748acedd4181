CONSTANTS
    Thread = {r1, r2, w1, w2}
    Writer = {w1, w2}
    NLoop = 2
SPECIFICATION TestSpec
INVARIANT NoErrQuit
PROPERTY AllThreadsComplete
