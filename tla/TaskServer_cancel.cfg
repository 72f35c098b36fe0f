SPECIFICATION Spec
CONSTANTS
    Requests = {r1}
    TaskIDs = {t1}
    None = None
    MaxTasks = 1
    MaxEmits = 1
    HandlerStates <- SomeHandlerStates
PROPERTIES
    CancelSticks
CHECK_DEADLOCK FALSE
