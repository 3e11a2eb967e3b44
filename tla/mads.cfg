SPECIFICATION FairSpec
CONSTANTS
    m1 = m1
    m2 = m2
    m3 = m3
    a1 = a1
    a2 = a2
    Mads = {m1, m2, m3}
    Agents = {a1, a2}
    AgentOf <- MCAgentOf
    Classes <- MCClasses
    MaxRetries <- MCRetries
    MaxActive = 1
    SmpWindow = 1
    SaWindow = 1
    SaQueue = 2
    Faults = {"map", "post", "cancel", "modify"}
    Unreg <- MCUnreg
INVARIANTS
    Counted
    NoneStranded
    ToldOnce
    TimerArmed

    
CHECK_DEADLOCK FALSE
