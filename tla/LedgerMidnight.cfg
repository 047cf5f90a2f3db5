SPECIFICATION LedgerSpec
CONSTANTS
    Keys = {1, 2, 3}
    FirstKey = 1
    TaskOf <- TwoMissions
    Forbidden = {}
    Calls = {1, 2}
    Days = {1, 2}
    Threshold = 2
    Capacity = 1
    Faults = {"ledger_crash", "midnight_crash"}
    MaxEvents = 5
    MaxFaults = 1
CHECK_DEADLOCK FALSE
INVARIANT ChainVerifies
