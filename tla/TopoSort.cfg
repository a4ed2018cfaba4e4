SPECIFICATION FairSpec
CONSTANTS
    Services = {web, api, db}
    Unknown = nosuch
INVARIANTS TypeOK DependenciesFirst VerdictRight
PROPERTY Terminates
\* The sort returns.
CHECK_DEADLOCK FALSE
