CONSTANTS
    NumSectors = 7
    NumPages = 3
    JournalSlots = 2
    MaxChanges = 4
    LockoutFails = FALSE
    QuietGrowth = FALSE
    PersistentWrites = FALSE
SPECIFICATION Spec
INVARIANTS
    RecoversABatch
