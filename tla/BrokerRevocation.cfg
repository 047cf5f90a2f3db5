SPECIFICATION Spec
CONSTANTS
    Tokens = {t1, t2, t3}
    NoToken = NoToken
    Subjects = {s1, s2}
    Glued = Glued
    Targets <- TwoTargets
    Grants <- OneGrant
    Ceiling <- OneGrant
    CeilingSpawn = AnyDepth
    NoSpawn = NoSpawn
    AnyDepth = AnyDepth
    SpawnLimits = {2}
    TTLs = {1}
    Second = 1
    MaxClock = 0
    MaxCrashes = 2
    MaxFaults = 2
SYMMETRY Symmetry
CHECK_DEADLOCK FALSE
INVARIANTS RevocationHolds ChainKnown
