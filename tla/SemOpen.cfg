CONSTANTS
    Proc = {p1, p2, p3}
    File = {f1, f2, f3}
    NoFile = NoFile
    MaxTries = 2
    Value = 4
    NWaits = 1
SPECIFICATION OpenSpec
INVARIANTS
    InitializedUnlessRemoved
    SameUnlessRemoved
    NoLostDecrement
    BitHasCreator
PROPERTIES
    RemovesOnlyItsOwn
    OpenReturns
