SPECIFICATION Spec
CONSTANTS
    Tokens = {t1, t2, t3}
    NoToken = NoToken
    Subjects = {s1}
    Glued = Glued
    Targets <- TwoTargets
    Grants <- OneGrant
    Ceiling <- OneGrant
    CeilingSpawn = AnyDepth
    NoSpawn = NoSpawn
    AnyDepth = AnyDepth
    SpawnLimits = {1}
    TTLs = {1}
    Second = 1
    MaxClock = 0
    MaxCrashes = 0
    MaxFaults = 0
SYMMETRY Symmetry
CHECK_DEADLOCK FALSE
INVARIANTS DepthWithinRoot
