\* The server may stop at any moment; fairness for the liveness property.
CONSTANTS
    MaxStarts = 3
    MaxPosted = 2
SPECIFICATION FairShutdownSpec
INVARIANTS TypeOK CaptureNeedsAuth OneCapture NoStaleVideo ReleasedAtEnd HandlesAgree WakeUpComes
PROPERTIES CaptureOnlyWhenReady LostClientReleased
