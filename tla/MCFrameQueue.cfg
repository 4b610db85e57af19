CONSTANTS
    QUEUE_MAX_FRAMES = 2
    KeyInterval = 1
    MaxFrames = 8
SPECIFICATION Spec
INVARIANTS TypeOK NoHoleInGroup DeltaBacklogBounded KeyIsComing
