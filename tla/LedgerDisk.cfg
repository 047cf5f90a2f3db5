SPECIFICATION LedgerSpec
CONSTANTS
    Keys = {1, 2, 3}
    FirstKey = 1
    TaskOf <- TwoMissions
    Forbidden = {}
    Calls = {1, 2}
    Days = {1}
    Threshold = 2
    Capacity = 1
    Faults = {"disk", "ledger_crash"}
    MaxEvents = 5
    MaxFaults = 2
CHECK_DEADLOCK FALSE
INVARIANT WrittenOnce
