SPECIFICATION Spec
CONSTANTS
    w1 = w1
    w2 = w2
    w3 = w3
    Roots = {1}
    Kids <- OneKid
    Missions = {1, 2}
    Clients = {}
    Workers <- TwoWorkers
    Startable = {1}
    Steps = 3
    LocalMax = 1
    SessionMax = 2
    Halts = TRUE
    Faults = {}
    MaxFaults = 0
INVARIANT HaltReachesChildren
CHECK_DEADLOCK FALSE
