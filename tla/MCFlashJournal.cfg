CONSTANTS
    NumSectors = 6
    NumPages = 2
    JournalSlots = 2
    MaxChanges = 4
    FaultyChanges = 3
    LockoutFails = FALSE
    QuietGrowth = TRUE
    PersistentWrites = FALSE
SPECIFICATION MCSpec
INVARIANTS
    JournalKept
    SyncIsDurable
PROPERTIES
    WriteOutCompletes
