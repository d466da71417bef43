CONSTANTS
    NumSectors = 5
    NumPages = 2
    JournalSlots = 2
    MaxChanges = 4
    LockoutFails = FALSE
    QuietGrowth = TRUE
    PersistentWrites = FALSE
SPECIFICATION FairSpec
PROPERTIES
    DrainCompletes
