\* Two clients; any query or creation may fail, and the server be killed at any
\* moment.
CONSTANTS
    Sources = {"s1", "s2"}
    Spare = 2
    MaxSize = 2
    Refusable = {"query", "newmode", "addmode", "enable", "fb", "setmonitor"}
    MayCrash = TRUE
SPECIFICATION Spec
INVARIANTS TypeOK RestoredAfterUse OnlyOwnShown
PROPERTY ImplementsVideoSource
