SPECIFICATION Spec
CONSTANTS
    Clients = {k1, k2}
    Names = {c1}
    Pids = {p1, p2, p3}
    NoName = NoName
    NoPid = NoPid
    CgroupsUsable = TRUE
    PidReuse = FALSE
PROPERTY RefinesLifecycle
SYMMETRY Symmetry
INVARIANTS TypeOK PsTruthful RecordUsable Confined SignalsOwnProcess
\* A name may be left unusable and the pids be spent: the system then stops.
CHECK_DEADLOCK FALSE
