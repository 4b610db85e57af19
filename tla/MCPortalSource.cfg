\* Everything may fail; a start that raised past the session is over.
CONSTANTS
    Faults = {"denied", "timeout", "bus", "no_virtual", "no_streams",
              "encoder", "parse", "play", "save"}
    MaxToken = 3
SPECIFICATION FairSpec
INVARIANTS TypeOK SavedTokenWorks
PROPERTIES ImplementsVideoSource StartAndStopEnd
CHECK_DEADLOCK FALSE
