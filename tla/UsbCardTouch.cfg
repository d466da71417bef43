SPECIFICATION Spec
CONSTANTS
    Cids = {c1}
    Traffic = {"pgp"}
    UpButton = {TRUE}
    QueueSize = 64
    c1 = c1
PROPERTIES
    TouchIsPhysical
