SPECIFICATION RttFairSpec
CONSTANTS
    Data = {a, b}
    Raw = {0, 5, 70}
    RXTMIN = 2
    RXTMAX = 60
    MAXNREXMT = 3
    MaxSeq = 3
INVARIANTS
    AnswersRequest
    TimeoutBounded
PROPERTY CallReturns
CHECK_DEADLOCK FALSE
