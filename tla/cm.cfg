SPECIFICATION FairSpec
CONSTANTS
    a1 = a1
    a2 = a2
    p1 = p1
    p2 = p2
    NoId = NoId
    Act = {a1, a2}
    Pas = {p1, p2}
    Qpn <- MCQpn
    Calls <- MCCalls
    Faults = {"crash", "post"}
    Racing = FALSE
INVARIANTS
    TablesClean
    NoUseAfterFree
PROPERTIES
    Implements
    Settles
CHECK_DEADLOCK FALSE
