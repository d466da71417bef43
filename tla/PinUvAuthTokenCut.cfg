\* A power loss between the new PIN and the new persistent token in flash: the old
\* persistent token works again once the new PIN is used for a persistent token.
CONSTANTS
    Lengths = {1, 2}
    Rps = {rp1}
    Grants = {{"mc"}}
    None = None
SPECIFICATION Spec
INVARIANTS
    RevokedForGood
