SPECIFICATION SystemSpec
CONSTANTS
    Tasks = {t1}
    None = None
INVARIANTS
    GetTaskCurrent
CHECK_DEADLOCK FALSE
