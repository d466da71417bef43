CONSTANTS
    Pins = {p1, p2}
    Keys = {k1, k2}
    MaxRetries = 3
    MaxMisses = 2
    Upgrades = TRUE
    None = None
SPECIFICATION Spec
SYMMETRY Symmetry
INVARIANTS
    TypeOK
    GuessesBounded
    PinOpensKey
    KeyOutlivesCredentials
