\* One attempt.
CONSTANT MaxClients = 1
SPECIFICATION Spec
INVARIANT PinCanBeSent
CHECK_DEADLOCK FALSE
