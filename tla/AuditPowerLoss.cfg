SPECIFICATION PowerSpec
CONSTANTS
    Keys = {1, 2, 3}
    TaskOf <- OneMission
    Forbidden = {}
    Calls = {1, 2}
    Days = {1}
    Threshold = 2
    Capacity = 1
    Faults = {"ledger_crash", "timeout", "agent_crash", "save", "power"}
    MaxEvents = 6
    MaxFaults = 2
    QueueMax = 3
CHECK_DEADLOCK FALSE
INVARIANT NothingLost
