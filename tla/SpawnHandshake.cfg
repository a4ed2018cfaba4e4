SPECIFICATION Composed
CONSTANTS
    Blocked <- BlockedCalls
    Offsets = 8
    Numbers = {0, 1, 2, 3, 4, 5, 6, 7, 8}
INVARIANTS TypeOK IsolatedFirst FilterRight
PROPERTY ParentReturns
\* The command may end.
CHECK_DEADLOCK FALSE
