SPECIFICATION Spec
CONSTANTS
    t1 = t1  t2 = t2  m1 = m1  m2 = m2  d1 = d1  c1 = c1  l1 = l1  l2 = l2
    Tabs <- TwoTabs
    Messages <- NoItems
    Deletes <- OneDelete
    Chats <- OneChat
    ChatOf <- InOneChat
    CloudOnly <- NoChats
    Lists <- TwoLists
    Limit <- UndoEvents
    MaxChain = 1
SYMMETRY Symm
ACTION_CONSTRAINT UndoMixes
INVARIANTS HoldRespected UndoHonoured
CHECK_DEADLOCK FALSE
