SPECIFICATION Spec
CONSTANTS
    Cids = {c1, c2}
    Traffic = {"u2f", "init"}
    UpButton = {TRUE}
    QueueSize = 64
    c1 = c1
    c2 = c2
PROPERTIES
    InitSparesPresenceWait
