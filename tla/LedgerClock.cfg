SPECIFICATION LedgerSpec
CONSTANTS
    Keys = {k1, k2, k3, k4}
    FirstKey = k1
    TaskOf <- TwoMissions
    Forbidden = {k4}
    Calls = {1, 2}
    Days = {1, 2}
    Threshold = 2
    Capacity = 1
    Faults = {"clock", "ledger_crash", "timeout"}
    MaxEvents = 5
    MaxFaults = 2
SYMMETRY Symmetry
CHECK_DEADLOCK FALSE
INVARIANTS WrittenOnce ChainVerifies QueriesComplete
