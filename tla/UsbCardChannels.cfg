SPECIFICATION Spec
CONSTANTS
    Cids = {c1, c2}
    Traffic = {"version", "cancel"}
    UpButton = {TRUE}
    QueueSize = 64
    c1 = c1
    c2 = c2
INVARIANTS
    ReplyToItsChannel
