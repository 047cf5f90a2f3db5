SPECIFICATION FairSpec
CONSTANTS
    Target = 1
    Machines <- Directories
    Images = {"old", "new"}
    Installed = "old"
    Tasks = {1, 2}
    Runs = {1, 2}
    Kinds = {"run", "start"}
    ColdAtOnce = 1
    Faults = {"helper", "child"}
    MaxFaults = 1

PROPERTY DelayBounds
CHECK_DEADLOCK FALSE
