SPECIFICATION FairSpec
CONSTANTS
    a = a  b = b
    Devices <- Two
    MaxCalls = 2
    MaxDesc = 2
    MaxEvents = 3
INVARIANTS TypeOK MediaReleased SameCall
PROPERTIES NoResurrection CallSettles
CHECK_DEADLOCK FALSE
