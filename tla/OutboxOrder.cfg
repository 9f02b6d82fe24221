SPECIFICATION Spec
CONSTANTS
    t1 = t1  t2 = t2  m1 = m1  m2 = m2  d1 = d1  c1 = c1  l1 = l1  l2 = l2
    Tabs <- OneTab
    Messages <- TwoMessages
    Deletes <- NoItems
    Chats <- OneChat
    ChatOf <- InOneChat
    CloudOnly <- NoChats
    Lists <- TwoLists
    Limit <- MixedEvents
    MaxChain = 2
SYMMETRY Alike
ACTION_CONSTRAINT OrderMixes
INVARIANTS OneFetchPerChat NoLoss OrderWhenHealthy KeptWhenGoingCloudOnly
CHECK_DEADLOCK FALSE
