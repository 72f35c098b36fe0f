\* Three requests over two ids and a table of one entry: evicted tasks are
\* recreated while their requests still run.  Handlers close at once or panic.
SPECIFICATION Spec
CONSTANTS
    Requests = {r1, r2, r3}
    TaskIDs = {t1, t2}
    None = None
    MaxTasks = 1
    MaxEmits = 0
    HandlerStates <- SomeHandlerStates
SYMMETRY Symmetry
INVARIANTS
    TypeOK
    TableConsistent
    OneTaskUntilEvicted
    UnsettledIsInProgress
    ReplySettled

    
CHECK_DEADLOCK FALSE
