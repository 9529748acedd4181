CONSTANT Thread = {t1, t2, t3, t4}
SPECIFICATION Spec
SYMMETRY ThreadSymmetry
INVARIANTS
    CountersAgree
    Exclusion
    NoLostWakeup
PROPERTY WriterPreference
