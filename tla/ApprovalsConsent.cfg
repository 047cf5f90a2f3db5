SPECIFICATION Spec
CONSTANTS
    Tasks = {t1, t2}
    NoTask = NoTask
    Agent <- OneAgent
    Calls <- PayEitherWay
    Scopes = {"once", "task", "agent"}
    RuleLife = 1
    PendingLife = 2
    ResolvedLife = 1
    MaxAsks = 2
    MaxClock = 0
    MaxCrashes = 1
    MaxFaults = 0
    MaxLosses = 1
CHECK_DEADLOCK FALSE
INVARIANTS QuestionsKept OneLateRun
PROPERTY IrreversibleRefusalStands
