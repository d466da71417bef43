SPECIFICATION Spec
CONSTANTS
    Pins = {p, q}
    Shares = {a, b}
    Puks = {k1, k2}
    Quorum = 2
    Dkeks = 2
    Lock = FALSE
    MaxTries = 1
    MaxMishaps = 1
    MaxNonces = 2
    MaxKeys = 2
    MaxCommands = 2
    None = None
INVARIANT
    CombinedNeedsPin
CHECK_DEADLOCK FALSE
