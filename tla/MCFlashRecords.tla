--------------------------- MODULE MCFlashRecords ---------------------------
\* FlashRecords for TLC, up to the first power loss or failure passed over; the files are
\* interchangeable.
EXTENDS Naturals, TLC

CONSTANTS Files, NoFile, Vals, Units, UnitsPerSector, Lens, MaxCrashes, MaxTimeouts

\* write_requested is the flash_available of FlashRecords.
VARIABLES ram, flash, write_requested, index, op, crashes, timeouts, broken, contents, saved

R == INSTANCE FlashRecords WITH flash_available <- write_requested

ASSUME RecordConstants == R!ConstantTypes

RecordsSpec == R!Spec

\* The first power loss is the last step, and so is a failure that the code passes over, unless it
\* makes the zeros run over other records.
Followed == R!FirstLife \/ (crashes = 0 /\ op.pc = "zero_payload")

Symmetry == Permutations(Files)

-----------------------------------------------------------------------------
\* Properties.

\* Whatever write-outs happen between two fields of a record, the first power loss leaves every
\* other file as it was and a file being replaced with its old or its new content; until then the
\* links mirror each other between operations, and no two records overlap, in the cache or as a
\* reboot finds them (flash_write_data_to_file, flash_clear_file, allocate_free_addr; see
\* OtherFilesIntact, FilesAtomic, ListMirrored and NoOverlap).
RecordsSafe == R!OtherFilesIntact /\ R!FilesAtomic /\ R!ListMirrored /\ R!NoOverlap
=============================================================================
