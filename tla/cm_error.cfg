SPECIFICATION Spec
CONSTANTS
    a1 = a1
    a2 = a2
    p1 = p1
    p2 = p2
    NoId = NoId
    Act = {a1}
    Pas = {p1}
    Qpn <- MCQpn
    Calls <- SlowCalls
    Faults = {}
    Racing = TRUE
INVARIANTS
    NoUseAfterFree
CHECK_DEADLOCK FALSE
