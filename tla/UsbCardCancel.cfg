SPECIFICATION Spec
CONSTANTS
    Cids = {c1}
    Traffic = {"cbor", "cancel"}
    UpButton = {TRUE}
    QueueSize = 64
    c1 = c1
INVARIANTS
    CancelKept
