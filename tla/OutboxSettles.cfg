SPECIFICATION FairSpec
CONSTANTS
    t1 = t1  t2 = t2  m1 = m1  m2 = m2  d1 = d1  c1 = c1  l1 = l1  l2 = l2
    Tabs <- TwoTabs
    Messages <- OneMessage
    Deletes <- NoItems
    Chats <- OneChat
    ChatOf <- InOneChat
    CloudOnly <- NoChats
    Lists <- OneList
    Limit <- SettleEvents
    MaxChain = 1
INVARIANTS TypeOK ClaimExclusive LockedQuiet
ACTION_CONSTRAINT Settling
PROPERTIES EventuallySettled
CHECK_DEADLOCK FALSE
