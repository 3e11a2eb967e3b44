SPECIFICATION Spec
CONSTANTS
    e1 = e1
    e2 = e2
    e3 = e3
    e4 = e4
    e5 = e5
    NoEnt = NoEnt
    Ents = {e1, e2, e3, e4, e5}
    MaxReg = 1
    Kind <- KindMix
    Faults = {"exec", "handling"}
    Smp = FALSE
    Reconfig = FALSE
INVARIANTS
    FwOwnsSlot
    CompletedOnce
    NoLeak
PROPERTIES
    Implements
CHECK_DEADLOCK FALSE
