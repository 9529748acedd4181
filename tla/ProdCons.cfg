CONSTANTS
    Thread = {"produce", "consume"}
    Sem = {"mutex", "nempty", "nstored"}
    Initial <- ThreeSems
    NBuff = 2
    NItems = 5
SPECIFICATION Spec
INVARIANTS
    NoMismatch
PROPERTY BothComplete
