SPECIFICATION FairSpec
CONSTANTS
    Cids = {c1}
    Traffic = {"plain", "info"}
    UpButton = {TRUE}
    QueueSize = 64
    c1 = c1
PROPERTIES
    HidBusyEnds
