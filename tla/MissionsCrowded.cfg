SPECIFICATION Spec
CONSTANTS
    w1 = w1
    w2 = w2
    w3 = w3
    Roots = {1}
    Kids <- OneKid
    Missions = {1, 2}
    Clients = {1}
    Workers <- SomeWorkers
    Startable = {1}
    Steps = 3
    LocalMax = 1
    SessionMax = 2
    Halts = TRUE
    Faults = {"save", "crash", "log", "error"}
    MaxFaults = 1
INVARIANTS TypeOK BudgetKept OneLeader DoneIsLogged RunningIsLed Stoppable ClientsConcluded
PROPERTY FinalIsFinal
CHECK_DEADLOCK FALSE
