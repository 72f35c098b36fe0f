SPECIFICATION SystemSpec
CONSTANTS
    Tasks = {t1}
    None = None
INVARIANTS
    FailurePropagates
CHECK_DEADLOCK FALSE
