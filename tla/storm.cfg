SPECIFICATION Spec
CONSTANTS
    e1 = e1
    e2 = e2
    e3 = e3
    e4 = e4
    e5 = e5
    NoEnt = NoEnt
    Ents = {e1, e2}
    MaxReg = 1
    Kind <- KindPollAsync
    Faults = {"exec", "slotwait", "error", "offline", "eqfail"}
    Smp = FALSE
    Reconfig = TRUE
INVARIANTS
    SlotExclusive
    SlotAvailable
    FullInv
CHECK_DEADLOCK FALSE
