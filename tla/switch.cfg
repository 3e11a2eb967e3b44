SPECIFICATION FairSpec
CONSTANTS
    e1 = e1
    e2 = e2
    e3 = e3
    e4 = e4
    e5 = e5
    NoEnt = NoEnt
    Ents = {e1, e2, e3}
    MaxReg = 1
    Kind <- KindSwitch
    Faults = {"handling", "nomem"}
    Smp = TRUE
    Reconfig = TRUE
INVARIANTS
    NoUseAfterFree
PROPERTIES
    Implements
    SwitchWhenDrained
    SwitchEnds
    Answered
CHECK_DEADLOCK FALSE
