SPECIFICATION FairSpec
CONSTANTS
    Roots = {"r1", "r2"}
    Dirs = {"d", "e"}
    Files = {"f"}
    NoPath = NoPath
    First <- FirstRoot
    Disk <- SmallDisk
    Others <- AgentPaths
    MaxActs = 3
    MaxCalls = 1
INVARIANTS
    OneRoot
    SavedIsOpen
PROPERTIES
    TreeSettles
CHECK_DEADLOCK FALSE
