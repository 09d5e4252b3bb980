CONSTANTS
    u1 = u1
    u2 = u2
    k1 = k1
    k2 = k2
    p1 = p1
    p2 = p2
    Users <- MCUsers
    Keys <- MCKeys
    Callers <- MCCallers
    NoKey = NoKey
    NoCfg = NoCfg
    Garbage = Garbage
    MaxGen = 2
    MaxCalls = 2
    MaxReloads = 2
    Edits <- MCEdits
    InitialFile <- MCInitialFile


SPECIFICATION Spec

CHECK_DEADLOCK FALSE
INVARIANT StoresMatchCacheWhenIdle
SYMMETRY MCSymmetry
