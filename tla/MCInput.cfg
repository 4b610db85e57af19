\* Three fingers of which two have slots; a channel of three messages.
CONSTANTS
    MaxPointers = 3
    Slots = 2
    Capacity = 3
    MaxMishaps = 1
SPECIFICATION Spec
INVARIANTS TypeOK HeldAgrees MessagesFit NothingHeldAfterStop
CHECK_DEADLOCK FALSE
