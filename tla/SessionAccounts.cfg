SPECIFICATION Spec
CONSTANTS
    Users <- TwoUsers
    LastUser = 1
    MaxOps = 3
    MaxEvents = 2
INVARIANTS TypeOK CacheOwned OneIdentity SignedOutClean
CHECK_DEADLOCK FALSE
