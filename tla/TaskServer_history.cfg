SPECIFICATION Spec
CONSTANTS
    Requests = {r1, r2}
    TaskIDs = {t1}
    None = None
    MaxTasks = 1
    MaxEmits = 1
    HandlerStates <- SomeHandlerStates
PROPERTIES
    HistoryAccumulates
CHECK_DEADLOCK FALSE
