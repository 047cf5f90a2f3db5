SPECIFICATION Spec
CONSTANTS
    Target = 1
    Machines <- Directories
    Images = {"old", "new"}
    Installed = "old"
    Tasks = {1, 2}
    Runs = {1, 2}
    Kinds = {"run"}
    ColdAtOnce = 1
    Faults = {"stray"}
    MaxFaults = 1
INVARIANT NothingOutlives
CHECK_DEADLOCK FALSE
