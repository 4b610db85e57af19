CONSTANTS
    QUEUE_MAX_FRAMES = 2
    KeyInterval = 8
    MaxFrames = 4
SPECIFICATION Spec
INVARIANT FirstFrameIsKey
