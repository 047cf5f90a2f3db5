SPECIFICATION FairSpec
CONSTANTS
    Keys = {1, 2, 3}
    TaskOf <- OneMission
    Forbidden = {3}
    Calls = {1, 2}
    Days = {1}
    Threshold = 2
    Capacity = 1
    Faults = {"ledger_crash", "timeout", "agent_crash", "save", "latecomer"}
    MaxEvents = 6
    MaxFaults = 2
    QueueMax = 2
CHECK_DEADLOCK FALSE
INVARIANTS TypeOK NothingLost BusFaithful
PROPERTIES TrailKept Delivered
