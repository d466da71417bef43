SPECIFICATION MCSpec
CONSTANTS
    Cids = {c1, c2}
    SessionCids = {c1, c2, c3}
    Traffic = {"plain", "boot", "pgp", "version", "u2f", "info", "cbor", "init", "cancel"}
    SessionTraffic = {"info", "cbor", "cancel", "init"}
    UpButton = {TRUE, FALSE}
    QueueSize = 64
    Itfs = {"ccid"}
    Headers = {"h1", "h2"}
    Select = "select"
    Segments <- MCSegments
    ChainSize = 3
    Payloads = {"a", "b"}
    MaxResponse = 4
    Lengths = {0, 1, 3}
    StatusRange = 3
    CcidHeader = 1
    HidHeader = 1
    HidFrame = 2
    CcidMax = 6
INVARIANTS
    PresenceSound
    NoCrossTalk
    ResponseIntact
    CommandWhole
PROPERTIES
    ResetSurvives
    Served
CHECK_DEADLOCK FALSE
