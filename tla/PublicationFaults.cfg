SPECIFICATION Spec
CONSTANTS
    N = 3
    Kind <- OneOfEach
    Inodes = {i1, i2, i3, i4, i5, i6}
    NoInode = NoInode
    Edits = {e1}
    HumanMoves = {"inplace", "replace", "delete"}
    MaxCrashes = 1
    MaxFaults = 1
    PowerLoss = FALSE
SYMMETRY Symmetry
CHECK_DEADLOCK FALSE
PROPERTIES KeptLeftAlone JournalForward ImplementsBatch
