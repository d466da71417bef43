\* A power loss while changePIN, or the upgrade of an old PIN file, has written
\* out the key wrapped anew but not yet the new PIN.
CONSTANTS
    Pins = {p1, p2}
    Keys = {k1, k2}
    MaxRetries = 3
    MaxMisses = 2
    Upgrades = FALSE
    None = None
SPECIFICATION Spec
INVARIANTS
    VerifiedPinUnlocks
