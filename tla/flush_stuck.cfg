SPECIFICATION FairSpec
CONSTANTS
    e1 = e1
    e2 = e2
    e3 = e3
    e4 = e4
    e5 = e5
    NoEnt = NoEnt
    Ents = {e1}
    MaxReg = 1
    Kind <- KindAsync
    Faults = {"exec", "error"}
    Smp = FALSE
    Reconfig = FALSE
PROPERTY
    FlushEnds
CHECK_DEADLOCK FALSE
