CONSTANTS
    Files = {f1, f2}
    NoFile = NoFile
    Vals = {v1}
    Units = 3
    UnitsPerSector = 2
    Lens = {1, 2}
    MaxCrashes = 1
    MaxTimeouts = 1
SPECIFICATION RecordsSpec
INVARIANTS
    RecordsSafe
CONSTRAINT
    Followed
SYMMETRY Symmetry
