SPECIFICATION FairSpec
CONSTANTS
    N = 2
    Kind <- ModifyDelete
    Inodes = {i1, i2, i3, i4, i5}
    NoInode = NoInode
    Edits = {e1}
    HumanMoves = {"inplace", "delete"}
    MaxCrashes = 1
    MaxFaults = 0
    PowerLoss = FALSE
CHECK_DEADLOCK FALSE
INVARIANT KeepMineBringsBack
PROPERTY Settles
