SPECIFICATION FairSpec
CONSTANTS
    Listen = 3
    MaxConns = 5
    MaxVisits = 1
    MaxChanges = 1
INVARIANT TypeOK
PROPERTIES NeverBackwards ActsAsAsked AllServed
\* The number of connections is bounded.
CHECK_DEADLOCK FALSE
