SPECIFICATION Spec
CONSTANTS
    Tasks = {t1}
    NoTask = NoTask
    Agent <- OneAgent
    Calls <- JustPost
    Scopes = {"once", "task", "agent"}
    RuleLife = 1
    PendingLife = 2
    ResolvedLife = 1
    MaxAsks = 2
    MaxClock = 0
    MaxCrashes = 0
    MaxFaults = 0
    MaxLosses = 0
CHECK_DEADLOCK FALSE
PROPERTY RefusalStands
