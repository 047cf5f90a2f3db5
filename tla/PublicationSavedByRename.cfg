SPECIFICATION Spec
CONSTANTS
    N = 1
    Kind <- OneModify
    Inodes = {i1, i2, i3, i4}
    NoInode = NoInode
    Edits = {e1}
    HumanMoves = {"replace"}
    MaxCrashes = 0
    MaxFaults = 0
    PowerLoss = FALSE

CHECK_DEADLOCK FALSE
INVARIANT KeepMineBringsBack
