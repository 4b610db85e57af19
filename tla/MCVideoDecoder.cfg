\* Three frames, two surfaces, one exception of the codec.
CONSTANTS
    MaxFrames = 3
    MaxStarts = 2
    MaxErrors = 1
    MAX_QUEUED = 2
SPECIFICATION Spec
INVARIANTS TypeOK EmptyQueueAccepts KeyIsAskedFor LoopAlive
CHECK_DEADLOCK FALSE
