SPECIFICATION FairSpec
CONSTANTS
    e1 = e1
    e2 = e2
    e3 = e3
    e4 = e4
    e5 = e5
    NoEnt = NoEnt
    Ents = {e1, e2, e3}
    MaxReg = 1
    Kind <- KindMix
    Faults = {"error", "offline"}
    Smp = FALSE
    Reconfig = FALSE
INVARIANTS
    NoUseAfterFree
PROPERTIES
    FlushEnds
    Answered
CHECK_DEADLOCK FALSE
