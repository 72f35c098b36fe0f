\* Two calls that compete for one polling agent.
SPECIFICATION SystemSpec
CONSTANTS
    Tasks = {t1, t2}
    None = None
INVARIANTS
    SystemTypeOK
    
    VerdictWarranted
    LeakOnlyUnfinished
    AssignedIsHeld
PROPERTIES
    SendReturns
    KeepsContract
CHECK_DEADLOCK FALSE
