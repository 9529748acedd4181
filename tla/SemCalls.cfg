CONSTANTS
    Thread = {t1, t2, t3}
    Sem = {s}
    Initial <- AllZero
    MaxCount = 2
SPECIFICATION Spec
INVARIANT WaiterWoken
