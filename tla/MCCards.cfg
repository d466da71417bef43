SPECIFICATION Spec
CONSTANTS
    RawPins = {d, n}
    KdfPins = {k}
    Default = d
    KdfInit = k
    MaxTries = 1
    MaxDeks = 2
    MaxMishaps = 1
    MaxCommands = 2
    OldCodes = {None}
    Objects = {o1, o2}
    MaxOps = 3
    StoreMishaps = 2
    Layouts = {"resident", "oath", "otp", "openpgp", "hsm", "vault"}
    None = None
    MaxKeys = 2
    MaxSigns = 2
    Algos = {rsa, ec}
    Slots = {s1, s2}
    Slot18 = None
    MoveMgm = FALSE
    MaxNonces = 2
INVARIANTS
    KeysOpen
    SessionsCurrent
    PolicyOfKey
    Manageable
    ContainersKept
PROPERTY
    OneSignaturePerPin
VIEW View
CHECK_DEADLOCK FALSE
