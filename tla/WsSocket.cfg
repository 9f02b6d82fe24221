SPECIFICATION FairSpec
CONSTANTS
    s1 = s1  s2 = s2  s3 = s3
    Sockets <- TwoSockets
    Limit <- OnceEach
INVARIANTS TypeOK OpenDelivers SingleSocketSound
PROPERTIES EventuallyConnected
CHECK_DEADLOCK FALSE
