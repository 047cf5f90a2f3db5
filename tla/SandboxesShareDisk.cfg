SPECIFICATION Spec
CONSTANTS
    Target = 1
    Machines <- Directories
    Images = {"old", "new"}
    Installed = "old"
    Tasks = {1, 2}
    Runs = {1, 2}
    Kinds = {"run"}
    ColdAtOnce = 2
    Faults = {"map", "refuse", "cold", "restore", "boot", "crash"}
    MaxFaults = 0
INVARIANT WorkComesHome
CHECK_DEADLOCK FALSE
