SPECIFICATION Spec
CONSTANTS
    e1 = e1
    e2 = e2
    e3 = e3
    e4 = e4
    e5 = e5
    NoEnt = NoEnt
    Ents = {e1}
    MaxReg = 1
    Kind <- KindSync
    Faults = {"exec"}
    Smp = TRUE
    Reconfig = FALSE
INVARIANT
    NoUseAfterFree
CHECK_DEADLOCK FALSE
