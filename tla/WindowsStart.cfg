SPECIFICATION JobSpec
CONSTANTS
    Clients = {c1}
    Procs = {p1}
INVARIANT StartedStaysUp
