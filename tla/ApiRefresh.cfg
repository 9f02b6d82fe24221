SPECIFICATION FairSpec
CONSTANTS
    t1 = t1  t2 = t2
    Tabs <- TwoTabs
    MaxToken = 7
    MaxRetries = 1
    MaxEvents = 3
INVARIANTS TypeOK JournalSound LostOnlyWhenRevoked MutationOnce
PROPERTIES RequestSettles
CHECK_DEADLOCK FALSE
