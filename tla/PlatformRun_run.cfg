\* Three events: completed and error events in every order, and one between.
SPECIFICATION FairSpec
CONSTANTS
    MaxEvents = 3
INVARIANTS
    TypeOK
    AggregateFaithful
    
PROPERTIES
    
    RunEnds
CHECK_DEADLOCK FALSE
