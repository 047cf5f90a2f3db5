SPECIFICATION Spec
CONSTANTS
    N = 2
    Kind <- ModifyDelete
    Inodes = {i1, i2, i3, i4, i5, i6}
    NoInode = NoInode
    Edits = {e1, e2}
    HumanMoves = {"inplace", "replace", "delete"}
    MaxCrashes = 1
    MaxFaults = 0
    PowerLoss = TRUE
SYMMETRY Symmetry
CHECK_DEADLOCK FALSE
INVARIANTS TypeOK JournalReadable NoHumanLoss DoneIsSynced NeverTorn OutcomeAtomic
