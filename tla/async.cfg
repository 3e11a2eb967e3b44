SPECIFICATION FairSpec
CONSTANTS
    c1 = c1
    c2 = c2
    Ents = {c1, c2}
    Verdicts = {"OK", "LIM", "DELIV_FW"}
INVARIANTS
    CtxInv
    CleanedUp
    ResultHonest
PROPERTIES
    ZeroIsFinal
    CleanupEnds
CHECK_DEADLOCK FALSE
