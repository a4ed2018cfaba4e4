SPECIFICATION FairSpec
CONSTANTS
    Clients = {k1, k2}
    Names = {c1}
    Pids = {p1, p2}
    NoName = NoName
    NoPid = NoPid
    CgroupsUsable = FALSE
    PidReuse = FALSE
PROPERTY StopEndsProcess
\* A name may be left unusable and the pids be spent: the system then stops.
CHECK_DEADLOCK FALSE
