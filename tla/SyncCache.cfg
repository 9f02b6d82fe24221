SPECIFICATION Spec
CONSTANTS
    t1 = t1  t2 = t2
    Tabs <- OneTab
    MaxSeq = 2
    Limit <- CacheEvents
INVARIANTS TypeOK CursorSound ViewComplete
CHECK_DEADLOCK FALSE
