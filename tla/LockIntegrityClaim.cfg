SPECIFICATION Spec
CONSTANTS
    WipeAfter = 2
    BioLimit = 1
    MaxEvents = 0
INVARIANTS OnlyWhenViolated
CHECK_DEADLOCK FALSE
