SPECIFICATION Spec
CONSTANTS
    Tasks = {t1}
    NoTask = NoTask
    Agent <- OneAgent
    Calls <- JustPay
    Scopes = {"once", "task", "agent"}
    RuleLife = 1
    PendingLife = 2
    ResolvedLife = 1
    MaxAsks = 2
    MaxClock = 2
    MaxCrashes = 0
    MaxFaults = 0
    MaxLosses = 0
CHECK_DEADLOCK FALSE
PROPERTY DecisionFresh
