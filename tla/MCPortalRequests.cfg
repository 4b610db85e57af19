\* Two clients, one start each, after which a client stops.
CONSTANTS
    Clients = {"a", "b"}
    MaxOpens = 1
    MayTimeOut = TRUE
SPECIFICATION RequestsSpec
PROPERTY NoResponseLost
CHECK_DEADLOCK FALSE
