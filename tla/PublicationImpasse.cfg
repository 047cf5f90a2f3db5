SPECIFICATION FairSpec
CONSTANTS
    N = 1
    Kind <- OneDelete
    Inodes = {i1, i2, i3}
    NoInode = NoInode
    Edits = {e1, e2, e3}
    HumanMoves = {"replace", "delete"}
    MaxCrashes = 0
    MaxFaults = 0
    PowerLoss = FALSE

CHECK_DEADLOCK FALSE
PROPERTY Settles
