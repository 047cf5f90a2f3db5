SPECIFICATION FairSpec
CONSTANTS
    Target = 1
    Machines <- Directories
    Images = {"old", "new"}
    Installed = "old"
    Tasks = {1, 2}
    Runs = {1, 2}
    Kinds = {"run", "start"}
    ColdAtOnce = 1
    Faults = {"map", "helper", "child", "stray", "refuse", "cold", "restore", "boot", "fetch", "crash"}
    MaxFaults = 1
INVARIANTS Controllable TableTells WorkComesHome MachinesFit
PROPERTIES RunsAnswer ReserveRefills
CHECK_DEADLOCK FALSE
