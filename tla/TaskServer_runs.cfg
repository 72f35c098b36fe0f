\* Two requests, each with a handler that answers up to twice.
SPECIFICATION FairSpec
CONSTANTS
    Requests = {r1, r2}
    TaskIDs = {t1, t2}
    None = None
    MaxTasks = 1
    MaxEmits = 2
    HandlerStates <- SomeHandlerStates
INVARIANTS
    
    FailureExplained
PROPERTIES
    TaskSettles
CHECK_DEADLOCK FALSE
