SPECIFICATION FairSpec
CONSTANTS
    WipeAfter = 2
    BioLimit = 1
    MaxEvents = 1
INVARIANTS
    TypeOK
    AlarmExplained
PROPERTIES
    Promised
    Settled
CHECK_DEADLOCK FALSE
