\* Two attempts to connect.
CONSTANT MaxClients = 2
SPECIFICATION FairSpec
INVARIANTS TypeOK ScreenHasClient
PROPERTIES UnusedSessionsEnd ScreensMoveOn
CHECK_DEADLOCK FALSE
