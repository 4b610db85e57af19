CONSTANTS
    c1 = c1
    c2 = c2
    Clients = {c1, c2}
    PIN_TTL = 1
    PIN_LOCKOUT = 1
    PIN_MAX_ATTEMPTS = 2
    MaxTokens = 3
SYMMETRY ClientSymmetry
SPECIFICATION RevokeSpec
INVARIANTS TypeOK GuessesBounded PairingDurable BannedStaysOut
