CONSTANTS
    NumSectors = 6
    NumPages = 2
    JournalSlots = 2
    MaxChanges = 3
    LockoutFails = FALSE
    QuietGrowth = TRUE
    PersistentWrites = TRUE
SPECIFICATION Spec
INVARIANTS
    RecoversABatch
