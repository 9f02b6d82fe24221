SPECIFICATION FairSpec
CONSTANTS
    home = home  other = other  relay = relay  c1 = c1  c2 = c2
    None = None
    Servers <- TwoServers
    Relays <- OneRelay
    Owner <- HomeRelay
    Configs <- SomeConfigs
    Calls <- TwoCalls
    Limit <- SomeEvents
    MaxEvents = 3
INVARIANTS TypeOK ConfigInForce
PROPERTIES PinObeyed DirectRegained
CHECK_DEADLOCK FALSE
