---------------------------- MODULE FlashRecords ----------------------------
(***************************************************************************)
(* The record list of flash.c and file.c. Every file is a record in one    *)
(* doubly linked list that starts at the top of the data pool and goes     *)
(* down; a record is changed in place when the new content fits, else      *)
(* rewritten in the first gap that is large enough and the old one         *)
(* cleared; a reboot rebuilds the file index by walking the list. Core 1   *)
(* programs one field at a time; core 0 may write all of it out between    *)
(* any two of these steps if a write-out is requested (FlashJournal: one   *)
(* batch, all or nothing). A program step needs its sector in the cache    *)
(* and gives up when the cache is full and core 0 does not write it out in *)
(* time: each step may fail, and what the code does then is a step too. A  *)
(* field is programmed as a whole, also where it lies across two sectors.  *)
(*                                                                         *)
(* Addresses count units; a record of length n takes n units from its base *)
(* up. The header is not counted, but makes a record of a whole sector     *)
(* larger than a sector. Only the base unit's fields are kept: a record's  *)
(* content is its length and a value.                                      *)
(***************************************************************************)
EXTENDS Integers, FiniteSets, FiniteSetsExt

CONSTANTS
    Files,          \* file identifiers
    NoFile,
    Vals,           \* payloads
    Units,          \* size of the pool
    UnitsPerSector,
    Lens,           \* the lengths files have
    MaxCrashes,     \* bound on the power losses
    MaxTimeouts     \* bound on the waits for core 0 that time out

ConstantTypes ==
    /\ NoFile \notin Files
    /\ Units \in Nat \ {0} /\ UnitsPerSector \in Nat \ {0}
    /\ Lens \subseteq 1 .. Units /\ Lens # {}
    /\ MaxCrashes \in Nat /\ MaxTimeouts \in Nat

Unit == 1 .. Units
Head == Units + 1                      \* end_data_pool
Null == 0
SectorOf(u) == (u - 1) \div UnitsPerSector

Zero == "zero"
NoRecord == [next |-> Null, prev |-> Null, fid |-> NoFile, len |-> 0, val |-> Zero]
Content(n, v) == <<n, v>>
NoContent == Content(0, Zero)

VARIABLES
    ram,              \* the records as core 1 reads them, cache over flash
    flash,            \* the records a reboot finds
    flash_available,  \* a write-out is requested
    index,            \* file->data: base of each file's record, Null if none
    op,               \* the write or delete core 1 is in
    crashes,
    timeouts,         \* waits for core 0 that timed out
    broken,           \* history: a step failed that the code does not undo
    contents,         \* history: content of each file after the last operation, and
    saved             \* the contents it may have in flash (both in the first life)

vars == <<ram, flash, flash_available, index, op, crashes, timeouts, broken, contents, saved>>

-----------------------------------------------------------------------------
\* Walking the list.

\* allocate_free_addr follows next without a look at the record.
Linked(m) ==
    LET from[b \in 0 .. Head] ==
            IF b = Null THEN {} ELSE {b} \cup (IF m[b].next < b THEN from[m[b].next] ELSE {})
    IN  from[Head]

\* scan_region_internal: what makes a record acceptable.
Valid(m, b) ==
    /\ m[b].fid # NoFile
    /\ m[b].len <= Head - b
    /\ m[b].next < b
    /\ m[b].prev \in b + 1 .. Head

\* The records the scan registers: down to the first one it does not accept.
Scanned(m) ==
    LET from[b \in 0 .. Units] ==
            IF b = Null \/ ~Valid(m, b) THEN {} ELSE {b} \cup from[m[b].next]
    IN  from[m[Head].next]

Corrupted(m) == \E b \in {Head} \cup Scanned(m) : m[b].next # Null /\ ~Valid(m, m[b].next)

\* Of two records of a file the later one in the walk is registered.
Indexed(m) ==
    LET scanned == Scanned(m)
    IN  [f \in Files |-> LET R == {b \in scanned : m[b].fid = f} IN IF R = {} THEN Null ELSE Min(R)]

ContentAt(m, b) == IF b = Null THEN NoContent ELSE Content(m[b].len, m[b].val)

Found(m) == LET bound == Indexed(m) IN [f \in Files |-> ContentAt(m, bound[f])]

-----------------------------------------------------------------------------
Idle == [pc |-> "idle", file |-> NoFile, len |-> 0, val |-> Zero, new |-> Null, base |-> Null,
         next |-> Null, old |-> Null, then |-> "done"]

NoContents == [f \in Files |-> NoContent]
NothingSaved == [f \in Files |-> {NoContent}]

Init ==
    /\ ram = [u \in 1 .. Head |-> NoRecord]
    /\ flash = ram
    /\ flash_available = FALSE
    /\ index = [f \in Files |-> Null]
    /\ op = Idle
    /\ crashes = 0 /\ timeouts = 0
    /\ broken = FALSE
    /\ contents = NoContents
    /\ saved = NothingSaved

\* Up to the first power loss, and to the first failure that the code passes over: what
\* these leave behind no scan repairs. Such a failure is a timeout of the last sync of a
\* large record, or one inside flash_clear_file (ClearStepFails, ZeroFails) or of a header
\* over a stale length (HeaderFails).
FirstLife == crashes = 0 /\ ~broken

Remember(f, c) == contents' = IF FirstLife THEN [contents EXCEPT ![f] = c] ELSE contents

Forget == contents' = NoContents /\ saved' = NothingSaved

\* flash_program_block on one field, and the step after it.
Step(m, pc) == ram' = m /\ op' = [op EXCEPT !.pc = pc]

\* Core 0 does not write out in time: flash_program_block gives up when the cache is full, or
\* flash_commit_sync. The write-out remains asked for.
GivesUp ==
    /\ timeouts < MaxTimeouts
    /\ timeouts' = timeouts + 1
    /\ flash_available' = TRUE

-----------------------------------------------------------------------------
\* flash_write_data_to_file

\* Mutant: the record below the gap is taken to be one unit long.
GapEnd_OneUnit(b) == IF ram[b].next = Null THEN 1 ELSE ram[b].next + 1

\* The first gap from the top that holds n units, by the record above it.
GapEnd(b) == IF ram[b].next = Null THEN 1 ELSE ram[b].next + ram[ram[b].next].len

Fits(b, n) == b - n >= GapEnd(b)

\* file_get_size
Size(f) == ContentAt(ram, index[f])[1]

\* A large file is synced once more at the end.
AfterWrite(large) == IF large THEN "sync" ELSE "done"

PutInPlace(f, n, v) ==
    /\ op = Idle
    /\ index[f] # Null
    /\ n <= Size(f)
    /\ op' = [Idle EXCEPT !.pc = "length", !.file = f, !.len = n, !.val = v, !.old = index[f],
                          !.then = AfterWrite(Size(f) > UnitsPerSector)]
    /\ UNCHANGED <<ram, flash, flash_available, index, crashes, timeouts, broken, contents, saved>>

\* flash_write_data_to_file_offset within the file: the length stays.
PutOffset(f, v) ==
    /\ op = Idle
    /\ index[f] # Null
    /\ op' = [Idle EXCEPT !.pc = "payload", !.file = f, !.len = Size(f), !.val = v, !.old = index[f],
                          !.then = AfterWrite(Size(f) > UnitsPerSector)]
    /\ UNCHANGED <<ram, flash, flash_available, index, crashes, timeouts, broken, contents, saved>>

WriteLength ==
    /\ op.pc = "length"
    /\ Step([ram EXCEPT ![op.old].len = op.len], "payload")
    /\ UNCHANGED <<flash, flash_available, index, crashes, timeouts, broken, contents, saved>>

WritePayload ==
    /\ op.pc = "payload"
    /\ ram' = [ram EXCEPT ![op.old].val = op.val]
    /\ Remember(op.file, Content(op.len, op.val))
    /\ op' = IF op.then = "sync" THEN [op EXCEPT !.pc = "final", !.new = op.old] ELSE Idle
    /\ flash_available' = (flash_available \/ op.then = "sync")
    /\ UNCHANGED <<flash, index, crashes, timeouts, broken, saved>>

LengthFails ==
    /\ op.pc = "length"
    /\ GivesUp
    /\ op' = Idle
    /\ UNCHANGED <<ram, flash, index, crashes, broken, contents, saved>>

\* What is left is the new length over a payload that may be written in part.
PayloadFails ==
    /\ op.pc = "payload"
    /\ GivesUp
    /\ op' = Idle
    /\ \E v \in Vals : /\ ram' = [ram EXCEPT ![op.old].val = v]
                      /\ Remember(op.file, Content(op.len, v))
    /\ UNCHANGED <<flash, index, crashes, broken, saved>>

\* Mutant: the record is linked when it is allocated.
Allocate_Published(f, n, v) ==
    LET B == {b \in Linked(ram) : Fits(b, n)}
        base == Max(B)
    IN  /\ op = Idle
        /\ n > Size(f)
        /\ B # {}
        /\ ram' = [ram EXCEPT ![base - n].next = ram[base].next, ![base - n].prev = base, ![base].next = base - n]
        /\ op' = [pc |-> "back", file |-> f, len |-> n, val |-> v, new |-> base - n, base |-> base,
                  next |-> ram[base].next, old |-> index[f], then |-> "done"]
        /\ UNCHANGED <<flash, flash_available, index, crashes, timeouts, broken, contents, saved>>

\* allocate_free_addr: links of the new record first.
Allocate(f, n, v) ==
    LET B == {b \in Linked(ram) : Fits(b, n)}
        base == Max(B)
    IN  /\ op = Idle
        /\ n > Size(f)
        /\ B # {}
        /\ ram' = [ram EXCEPT ![base - n].next = ram[base].next, ![base - n].prev = base]
        /\ op' = [pc |-> "back", file |-> f, len |-> n, val |-> v, new |-> base - n, base |-> base,
                  next |-> ram[base].next, old |-> index[f], then |-> "done"]
        /\ UNCHANGED <<flash, flash_available, index, crashes, timeouts, broken, contents, saved>>

\* The first or the second link cannot be written.
AllocateFails(f, n) ==
    LET B == {b \in Linked(ram) : Fits(b, n)}
        base == Max(B)
    IN  /\ op = Idle
        /\ n > Size(f)
        /\ B # {}
        /\ GivesUp
        /\ ram' \in {ram, [ram EXCEPT ![base - n].next = ram[base].next]}
        /\ UNCHANGED <<flash, index, op, crashes, broken, contents, saved>>

\* ... then the back link of the record below.
LinkBack ==
    /\ op.pc = "back"
    /\ Step(IF op.next = Null THEN ram ELSE [ram EXCEPT ![op.next].prev = op.new], "fill")
    /\ UNCHANGED <<flash, flash_available, index, crashes, timeouts, broken, contents, saved>>

LinkBackFails ==
    /\ op.pc = "back" /\ op.next # Null
    /\ GivesUp
    /\ op' = Idle
    /\ UNCHANGED <<ram, flash, index, crashes, broken, contents, saved>>

\* The header that will point to the new record is in another sector.
NeedsSync == SectorOf(op.base) # SectorOf(op.new)

\* Identity, length and payload; a write at an offset copies the rest of the old payload.
FillRecord ==
    /\ op.pc = "fill"
    /\ Step([ram EXCEPT ![op.new].fid = op.file, ![op.new].len = op.len, ![op.new].val = op.val],
            IF NeedsSync THEN "wait" ELSE "publish")
    /\ flash_available' = (flash_available \/ NeedsSync)
    /\ UNCHANGED <<flash, index, crashes, timeouts, broken, contents, saved>>

SyncDone ==
    /\ op.pc = "wait"
    /\ ~flash_available
    /\ op' = [op EXCEPT !.pc = "publish"]
    /\ UNCHANGED <<ram, flash, flash_available, index, crashes, timeouts, broken, contents, saved>>

\* flash_clear_file(p): the links it works with are read first.
Cleared(p, then) == [op EXCEPT !.pc = "unlink", !.old = p, !.base = ram'[p].prev, !.next = ram'[p].next, !.then = then]

\* The identity or the length cannot be written: the new record is cleared by the length
\* that was left in the gap, and that may be any.
HeaderFails ==
    /\ op.pc = "fill"
    /\ GivesUp
    /\ ram' \in {ram, [ram EXCEPT ![op.new].fid = op.file]}
    /\ \E then \in {"fail", "overrun"} :
        /\ op' = Cleared(op.new, then)
        /\ broken' = (broken \/ then = "overrun")
    /\ UNCHANGED <<flash, index, crashes, contents, saved>>

\* The payload cannot be written.
FillFails ==
    /\ op.pc = "fill"
    /\ GivesUp
    /\ \E v \in Vals \cup {ram[op.new].val} :
        ram' = [ram EXCEPT ![op.new].fid = op.file, ![op.new].len = op.len, ![op.new].val = v]
    /\ op' = Cleared(op.new, "fail")
    /\ UNCHANGED <<flash, index, crashes, broken, contents, saved>>

\* The new record is cleared and the write refused.
SyncTimeout ==
    /\ op.pc = "wait"
    /\ flash_available
    /\ GivesUp
    /\ UNCHANGED ram
    /\ op' = Cleared(op.new, "fail")
    /\ UNCHANGED <<flash, index, crashes, broken, contents, saved>>

\* Mutant: the file is bound to the record above its own.
Finish_Base ==
    /\ op' = Idle
    /\ IF op.then \in {"fail", "overrun"}
         THEN UNCHANGED <<index, contents>>
         ELSE /\ index' = [index EXCEPT ![op.file] = op.base]
              /\ Remember(op.file, Content(op.len, op.val))

\* What the end of an operation leaves.
Finish ==
    /\ op' = Idle
    /\ IF op.then \in {"fail", "overrun"}
         THEN UNCHANGED <<index, contents>>
         ELSE /\ index' = [index EXCEPT ![op.file] = op.new]
              /\ Remember(op.file, Content(op.len, op.val))

Publish ==
    /\ op.pc = "publish"
    /\ ram' = [ram EXCEPT ![op.base].next = op.new]
    /\ IF op.old = Null
         THEN Finish
         ELSE op' = Cleared(op.old, AfterWrite(op.len >= UnitsPerSector)) /\ UNCHANGED <<index, contents>>
    /\ UNCHANGED <<flash, flash_available, crashes, timeouts, broken, saved>>

PublishFails ==
    /\ op.pc = "publish"
    /\ GivesUp
    /\ UNCHANGED ram
    /\ op' = Cleared(op.new, "fail")
    /\ UNCHANGED <<flash, index, crashes, broken, contents, saved>>

-----------------------------------------------------------------------------
\* flash_clear_file

\* Whether the record being cleared was never in the list, as the new one of a refused write
Unpublished == op.then = "fail"

\* Mutant: unlinking a record drops the ones below it.
Unlink_Truncates ==
    /\ op.pc = "unlink"
    /\ Step(IF op.base \in 1 .. Head THEN [ram EXCEPT ![op.base].next = Null] ELSE ram, "zero")
    /\ UNCHANGED <<flash, flash_available, index, crashes, timeouts, broken, contents, saved>>

Unlink ==
    /\ op.pc = "unlink"
    /\ Step(IF op.base \in 1 .. Head THEN [ram EXCEPT ![op.base].next = op.next] ELSE ram, "zero")
    /\ UNCHANGED <<flash, flash_available, index, crashes, timeouts, broken, contents, saved>>

ZeroLength ==
    /\ op.pc = "zero"
    /\ Step([ram EXCEPT ![op.old].len = 0], "zero_payload")
    /\ UNCHANGED <<flash, flash_available, index, crashes, timeouts, broken, contents, saved>>

ZeroPayload ==
    /\ op.pc = "zero_payload"
    /\ Step([ram EXCEPT ![op.old].val = Zero], "mend")
    /\ UNCHANGED <<flash, flash_available, index, crashes, timeouts, broken, contents, saved>>

\* A stale length makes the zeros run over the records above, until a step fails.
Overrun ==
    /\ op.pc = "zero_payload" /\ op.then = "overrun"
    /\ \E k \in op.old + 1 .. Head :
        ram' = [u \in 1 .. Head |-> IF u > op.old /\ u <= k THEN NoRecord ELSE ram[u]]
    /\ UNCHANGED <<flash, flash_available, index, op, crashes, timeouts, broken, contents, saved>>

\* The one failure that flash_clear_file reports, with the record unlinked and its neighbour's
\* back link as it was. A delete ends with an error and the file stays bound to the record; a write
\* that has published its new record clears that one too.
ZeroFails ==
    /\ op.pc = "zero_payload"
    /\ GivesUp
    /\ ram' \in {ram, [ram EXCEPT ![op.old].val = Zero]}
    /\ op' = IF op.new = Null \/ op.old = op.new THEN Idle ELSE Cleared(op.new, "fail")
    /\ broken' = TRUE
    /\ UNCHANGED <<flash, index, crashes, contents, saved>>

\* The other results are not looked at.
ClearStepFails ==
    /\ \/ op.pc = "unlink" /\ op' = [op EXCEPT !.pc = "zero"]
       \/ op.pc = "zero" /\ op' = [op EXCEPT !.pc = "zero_payload"]
       \/ op.pc = "mend" /\ op.next # Null /\ op' = [op EXCEPT !.pc = "wipe"]
    /\ GivesUp
    /\ broken' = (broken \/ (op.pc = "unlink" /\ ~Unpublished) \/ op.pc = "mend")
    /\ UNCHANGED <<ram, flash, index, crashes, contents, saved>>

\* Mutant: the record below keeps its link to the cleared one.
MendBack_Skipped ==
    /\ op.pc = "mend"
    /\ Step(ram, "wipe")
    /\ UNCHANGED <<flash, flash_available, index, crashes, timeouts, broken, contents, saved>>

MendBack ==
    /\ op.pc = "mend"
    /\ Step(IF op.next = Null THEN ram ELSE [ram EXCEPT ![op.next].prev = op.base], "wipe")
    /\ UNCHANGED <<flash, flash_available, index, crashes, timeouts, broken, contents, saved>>

\* The operation that the clearing is part of goes on.
AfterClear ==
    IF op.then = "sync" THEN op' = [op EXCEPT !.pc = "final"] /\ UNCHANGED <<index, contents>> ELSE Finish

\* A deletion ends here too: file_delete then commits, file_delete_no_commit
\* leaves that to its caller.
WipeLinks ==
    /\ op.pc = "wipe"
    /\ ram' = [ram EXCEPT ![op.old].next = Null, ![op.old].prev = Null]
    /\ AfterClear
    /\ \/ op.then = "sync" /\ flash_available' = TRUE
       \/ op.then # "sync" /\ flash_available' \in {flash_available, flash_available \/ op.new = Null}
    /\ UNCHANGED <<flash, crashes, timeouts, broken, saved>>

WipeFails ==
    /\ op.pc = "wipe"
    /\ GivesUp
    /\ ram' \in {ram, [ram EXCEPT ![op.old].next = Null], [ram EXCEPT ![op.old].prev = Null]}
    /\ AfterClear
    /\ UNCHANGED <<flash, crashes, broken, saved>>

\* The last sync of a large record: only its success binds the file to the new
\* record.
FinalDone ==
    /\ op.pc = "final"
    /\ ~flash_available
    /\ Finish
    /\ UNCHANGED <<ram, flash, flash_available, crashes, timeouts, broken, saved>>

FinalTimeout ==
    /\ op.pc = "final"
    /\ flash_available
    /\ GivesUp
    /\ op' = Idle
    /\ broken' = TRUE
    /\ Forget
    /\ UNCHANGED <<ram, flash, index, crashes>>

\* file_delete and file_delete_no_commit: clear the record, forget the file.
Delete(f) ==
    /\ op = Idle
    /\ index[f] # Null
    /\ UNCHANGED ram
    /\ op' = [Idle EXCEPT !.pc = "unlink", !.file = f, !.old = index[f],
                          !.base = ram[index[f]].prev, !.next = ram[index[f]].next]
    /\ UNCHANGED <<flash, flash_available, index, crashes, timeouts, broken, contents, saved>>

-----------------------------------------------------------------------------
\* A write-out is requested: flash_commit after an earlier operation, or a cache
\* that is full in the middle of this one.
Commit ==
    /\ ~flash_available
    /\ op.pc \notin {"wait", "final"}
    /\ flash_available' = TRUE
    /\ UNCHANGED <<ram, flash, index, op, crashes, timeouts, broken, contents, saved>>

\* Core 0 writes all dirty sectors as one batch.
Drain ==
    /\ flash_available
    /\ flash' = ram
    /\ flash_available' = FALSE
    /\ saved' = IF FirstLife
                  THEN [f \in Files |-> {contents[f]} \cup (IF f = op.file THEN {Content(op.len, op.val)} ELSE {})]
                  ELSE saved
    /\ UNCHANGED <<ram, index, op, crashes, timeouts, broken, contents>>

\* Power loss; file_scan_flash rebuilds the index.
Crash ==
    /\ crashes < MaxCrashes
    /\ crashes' = crashes + 1
    /\ ram' = flash
    /\ flash_available' = FALSE
    /\ index' = Indexed(flash)
    /\ op' = Idle
    /\ Forget
    /\ UNCHANGED <<flash, timeouts, broken>>

Next ==
    \/ \E f \in Files, n \in Lens, v \in Vals : PutInPlace(f, n, v) \/ Allocate(f, n, v)
    \/ \E f \in Files, v \in Vals : PutOffset(f, v)
    \/ \E f \in Files, n \in Lens : AllocateFails(f, n)
    \/ \E f \in Files : Delete(f)
    \/ WriteLength \/ WritePayload
    \/ LinkBack \/ FillRecord \/ SyncDone \/ SyncTimeout \/ Publish
    \/ Unlink \/ ZeroLength \/ ZeroPayload \/ MendBack \/ WipeLinks \/ FinalDone \/ FinalTimeout
    \/ LengthFails \/ PayloadFails \/ LinkBackFails \/ HeaderFails \/ FillFails \/ PublishFails
    \/ ClearStepFails \/ ZeroFails \/ Overrun \/ WipeFails
    \/ Commit \/ Drain \/ Crash

Spec == Init /\ [][Next]_vars

-----------------------------------------------------------------------------
\* Properties.

Records == [next : 0 .. Head, prev : 0 .. Head, fid : Files \cup {NoFile}, len : {0} \cup Lens, val : Vals \cup {Zero}]

\* Every variable keeps its type.
TypeOK ==
    /\ ram \in [1 .. Head -> Records]
    /\ flash \in [1 .. Head -> Records]
    /\ flash_available \in BOOLEAN
    /\ index \in [Files -> 0 .. Units]
    /\ op.new \in 0 .. Units /\ op.base \in 0 .. Head /\ op.next \in 0 .. Units
    /\ crashes \in 0 .. MaxCrashes /\ timeouts \in 0 .. MaxTimeouts

\* Wherever the power fails in the first life of the list, the next scan accepts
\* every record and finds every file that was not being written as it was.
OtherFilesIntact ==
    FirstLife =>
        /\ ~Corrupted(flash)
        /\ \A f \in Files : Cardinality(saved[f]) = 1 => Found(flash)[f] \in saved[f]

\* Between operations the links mirror each other, and the index is what a scan
\* of the same records would build.
ListMirrored ==
    FirstLife /\ op = Idle =>
        /\ \A b \in Linked(ram) : ram[b].next # Null => ram[ram[b].next].prev = b
        /\ index = Indexed(ram)

\* Two linked records never overlap: allocate_free_addr gives out free units only.
NeverOverlap(m) ==
    \A b, c \in Linked(m) : b < c /\ c < Head => b + m[b].len <= c

\* Up to the first power loss they do not, nor does one that a reboot then finds.
NoOverlap == FirstLife => NeverOverlap(ram) /\ NeverOverlap(flash)

\* A file is atomic: wherever the power first fails, the file being written has
\* its content before or after the write. With one payload this is about the
\* replacing write; with two, FlashRecordsInPlace tears the write in place.
\* (Adapted to "Pico All's atomic file store", says fido/audit.c.)
FilesAtomic == FirstLife => \A f \in Files : Found(flash)[f] \in saved[f]

\* A file is bound to the record a scan would find for it, also after a final
\* sync that timed out.
IndexFresh == crashes = 0 /\ op = Idle => index = Indexed(ram)

\* A file that the firmware knows has its record in the list, also after a write or a
\* delete that failed.
NothingLost == crashes = 0 /\ op = Idle => \A f \in Files : index[f] # Null => index[f] \in Linked(ram)

\* A deleted file stays deleted: between operations, a scan finds no record of a
\* file that has none in the index.
DeleteIsFinal == op = Idle => \A f \in Files : index[f] = Null => Indexed(ram)[f] = Null

\* A delete that has finished leaves no cleared record in the list. flash.c:
\* "Cleared records are unlinked and zeroed, so every gap is reusable."
ClearedUnlinked ==
    op = Idle => \A b \in Linked(ram) \ {Head} : ram[b].len > 0

=============================================================================
