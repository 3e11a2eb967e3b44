SPECIFICATION Spec
CONSTANTS
    c1 = c1
    c2 = c2
    s1 = s1
    s2 = s2
    m1 = m1
    m2 = m2
    m3 = m3
    NoCmd = NoCmd
    NoMsg = NoMsg
    Cmds = {c1, c2}
    Async = {c2}
    Writers = {s1, s2}
    Msgs = {m1, m2, m3}
    First = 2
    Block = 2
    InSizes = {2, 4, 5}
    CacheBlocks <- MCBlocks
    CacheEnts <- MCEnts
    MaxEnt = 1
    Tokens = 3
    MaxCalls = 2
    Timeouts = TRUE
SYMMETRY Perms
INVARIANTS
    OnePlace
    Accounts
    LargeEnough
    NoForeignRead
    AllFreed
CHECK_DEADLOCK FALSE
