SPECIFICATION Spec
CONSTANTS
    Tokens = {t1, t2, t3}
    NoToken = NoToken
    Subjects = {s1}
    Glued = Glued
    Targets <- TwoTargets
    Grants <- TwoGrants
    Ceiling <- AllOf
    CeilingSpawn = AnyDepth
    NoSpawn = NoSpawn
    AnyDepth = AnyDepth
    SpawnLimits = {2}
    TTLs = {1, 2}
    Second = 2
    MaxClock = 2
    MaxCrashes = 0
    MaxFaults = 0
SYMMETRY Symmetry
CHECK_DEADLOCK FALSE
INVARIANTS DelegationNarrows HeldWithinParent
