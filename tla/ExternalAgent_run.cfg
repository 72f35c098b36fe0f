\* Two tasks: one counted or lost while the next is in hand.
SPECIFICATION FairSpec
CONSTANTS
    Tasks = {t1, t2}
    None = None
INVARIANTS
    TypeOK
    HeartbeatHonest
PROPERTIES
    HeartbeatsAdvance
    CancelStopsRun
    KeepsContract
CHECK_DEADLOCK FALSE
