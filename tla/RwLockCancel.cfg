CONSTANTS
    Thread = {t1, t2, t3, t4, t5}
SPECIFICATION CSpec
INVARIANTS
    CCountersAgree
    WriterNotStranded
    ReaderNotStranded
