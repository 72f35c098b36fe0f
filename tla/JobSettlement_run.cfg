\* Two callers on two jobs, with one repetition of every request.
SPECIFICATION FairSpec
CONSTANTS
    Callers = {c1, c2}
    Jobs = {j1, j2}
    MaxRetries = 1
    None = None
INVARIANTS
    TypeOK
    TrueIsSo
    
    CreateAccounted
PROPERTIES
    CallReturns
CHECK_DEADLOCK FALSE
