CONSTANTS
    Values = {v1, v2}
    NoValue = NoValue
    Absent = Absent
    MaxGeneration = 3
    MaxHandles = 2
    TokenSpace = 4
    Sectors <- MCUnjournaled
    MayTimeout = FALSE
SPECIFICATION Spec
PROPERTIES
    ImplementsAtomicObject
