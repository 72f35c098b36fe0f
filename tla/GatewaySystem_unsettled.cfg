SPECIFICATION SystemSpec
CONSTANTS
    Tasks = {t1}
    None = None
INVARIANTS
    NilErrorIsSettled
CHECK_DEADLOCK FALSE
