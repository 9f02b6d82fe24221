SPECIFICATION FairSpec
CONSTANTS
    t1 = t1  t2 = t2
    Tabs <- OneTab
    MaxSeq = 2
    Limit <- LiveEvents
PROPERTIES EventuallyCaughtUp
CHECK_DEADLOCK FALSE
