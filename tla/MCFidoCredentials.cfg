SPECIFICATION Spec
CONSTANTS
    Slots = {0, 1, 2}
    Rps = {r1, r2}
    Users = {u1, u2}
    Protections = {1, 2}
    MaxIds = 3
    MaxSigns = 2
    MaxMishaps = 1
    MaxCommands = 2
    None = None
INVARIANTS
    OneCredPerUser
    AssertionsAllowed
    SignCountFresh
    AllFound
VIEW View
CHECK_DEADLOCK FALSE
