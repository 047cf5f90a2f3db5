SPECIFICATION Spec
CONSTANTS
    N = 1
    Kind <- OneModify
    Inodes = {i1, i2, i3}
    NoInode = NoInode
    Edits = {e1}
    HumanMoves = {"inplace"}
    MaxCrashes = 0
    MaxFaults = 1
    PowerLoss = TRUE

CHECK_DEADLOCK FALSE
INVARIANT DoneIsSynced
