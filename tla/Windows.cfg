SPECIFICATION Windows
CONSTANTS
    KernelPages = {1, 3840, 3841}
    InitrdPages = {0, 8}
    CmdlinePages = {1, 24}
    MemoryPages = {256, 4104}
    MaxExits = 2
    Clients = {c1, c2}
    Procs = {p1, p2}
INVARIANTS WindowsTypeOK ReleasesExactly BootImageIntact OutputWhole
    RunsLimited NothingOutlives
PROPERTY Returns
\* The command vm-boot ends.
CHECK_DEADLOCK FALSE
