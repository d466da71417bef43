CONSTANTS
    NumSectors = 6
    NumPages = 2
    JournalSlots = 2
    MaxChanges = 3
    LockoutFails = TRUE
    QuietGrowth = TRUE
    PersistentWrites = FALSE
SPECIFICATION Spec
INVARIANTS
    JournalComplete
