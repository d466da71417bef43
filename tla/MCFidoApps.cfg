CONSTANTS
    Slots = {0, 1}
    Names = {n1, n2}
    MaxTries = 2
    MaxCreds = 3
    MaxPins = 2
    MaxCommands = 4
    MaxMishaps = 1
    OtpCommands = 2
    Codes = {a1}
    MaxSession = 2
    MaxCounter = 5
    MaxConfigs = 2
    MaxPresses = 3
    Lengths = {1, 2}
    Rps = {r1, r2}
    Grants = {{"mc"}, {"acfg"}}
    AuditSlots = 2
    MaxEvents = 4
    Blobs = {b1, b2}
    Fragments = 2
    None = None
SPECIFICATION Spec
INVARIANTS
    NoCodeTwice
    OtpGuessesBounded
    Guarded
    SlotsKept
    RevokedTokensDead
    ServicesKept
VIEW View
CHECK_DEADLOCK FALSE
