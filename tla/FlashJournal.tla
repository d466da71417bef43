---------------------------- MODULE FlashJournal ----------------------------
(***************************************************************************)
(* The write-back sector cache and redo journal of low_flash.c. Core 1     *)
(* changes sectors in a small cache; core 0, in low_flash_task, writes all *)
(* dirty sectors out as one batch: redo copies first, then a journal entry *)
(* in two steps, then the targets, then the entry's DONE mark. A reboot    *)
(* walks the record list down from the top of the pool and replays the     *)
(* batch of a PENDING entry it finds below.                                *)
(*                                                                         *)
(* Sectors are numbered from the bottom of the data pool. Live data fills  *)
(* the top and grows down; the journal is the sector below the lowest live *)
(* one and the redo copies lie below the journal, so all of them move when *)
(* the data grows. Above the pool lies the persistent region, one sector   *)
(* here. The content of a data sector is the number of the last change     *)
(* made to it and whether the record list goes on in the sector below.     *)
(* core 1's flash_erase_page has no caller and is left out.                *)
(***************************************************************************)
EXTENDS Integers, FiniteSets, FiniteSetsExt

CONSTANTS
    NumSectors,     \* sectors of the data pool
    NumPages,       \* TOTAL_FLASH_PAGES
    JournalSlots,   \* entries that fit a journal sector
    MaxChanges,     \* bound on the changes core 1 makes
    LockoutFails,   \* whether stopping core 1 for a flash operation can time out
    QuietGrowth,    \* whether core 1 grows the data only over a clean cache,
                    \* and the write-out it then waits for is in time
    PersistentWrites \* whether core 1 also writes the persistent region

ASSUME ConstantTypes ==
    /\ NumPages \in Nat \ {0}
    /\ NumSectors \in Nat /\ NumSectors >= NumPages + 3
    /\ JournalSlots \in Nat \ {0}
    /\ MaxChanges \in Nat
    /\ LockoutFails \in BOOLEAN
    /\ QuietGrowth \in BOOLEAN
    /\ PersistentWrites \in BOOLEAN

Pool == 0 .. NumSectors - 1
Rom == NumSectors
Sector == Pool \cup {Rom}
Garbled == NumSectors + 1
Page == 1 .. NumPages
Slot == 0 .. JournalSlots - 1
None == -1

Data(n, more) == [kind |-> "data", change |-> n, more |-> more]
Erased == [kind |-> "erased"]
Torn == [kind |-> "torn"]
NoEntry == [targets |-> [i \in Page |-> None], status |-> "erased"]
Journal(e) == [kind |-> "journal", entries |-> e]

VARIABLES
    mem,                  \* flash: what each sector physically holds
    flash_pages,          \* the cache: address and data of each page, None if not ready
    flash_available,      \* a write-out is requested
    last_base,            \* lowest live sector as core 1 knows it
    journal_pending,      \* the batch in progress has its journal entry
    journal_finalize_pending,
    journal_slot,
    last_journal_sector,
    pending_journal_addr, \* sector and slot of the entry to mark DONE
    core0,                \* where low_flash_task is, the journal sector it read and
                          \* the page it copies
    core1,                \* what core 1 is doing
    changes,              \* number of changes made so far
    synced,               \* history: what core 1 saw when a sync last succeeded
    batches               \* history: what it saw at each batch since

journal == <<journal_pending, journal_finalize_pending, journal_slot, last_journal_sector, pending_journal_addr>>
vars == <<mem, flash_pages, flash_available, last_base, journal, core0, core1, changes, synced, batches>>

-----------------------------------------------------------------------------
\* Images: a sector function read the way file_scan_flash walks it.

IsData(m, s) == m[s].kind = "data"

\* The record list reaches sector s from the top.
Reaches(m, s) == \A t \in s .. NumSectors - 1 : IsData(m, t) /\ (t > s => m[t].more)

Live(m) == {s \in Pool : Reaches(m, s)}

\* last_base after a scan.
LastBase(m) == NumSectors - Cardinality(Live(m))

\* The walk ran into a sector that holds no record.
Corrupted(m) ==
    LET base == LastBase(m)
    IN  base = NumSectors \/ (base > 0 /\ m[base].more)

\* What a reader of the image sees. The scan of the persistent region asks for
\* no recovery.
Readable(m) == Live(m) \cup {s \in {Rom} : IsData(m, s)}

Image(m) == [s \in Readable(m) |-> m[s].change]

\* flash_read: the cached page if there is one, flash otherwise.
Ready == {i \in Page : flash_pages[i].addr # None}
PageOf(s) == {i \in Page : flash_pages[i].addr = s}
View == [s \in Sector |-> IF PageOf(s) = {} THEN mem[s] ELSE flash_pages[CHOOSE i \in PageOf(s) : TRUE].data]

-----------------------------------------------------------------------------
\* low_flash_recover_journal

\* Mutant: one place for all redo copies.
RedoOf_Shared(j, i) == j - 1

\* Where the redo copy of page i lies for a journal in sector j.
RedoOf(j, i) == j - i

\* journal_entry_header_valid, journal_entry_valid_at: every target and every redo copy in the pool.
Valid(e, j) ==
    LET used == {i \in Page : e.targets[i] # None}
    IN  /\ e.status \in {"pending", "done"}
        /\ used # {}
        /\ \A i \in used : e.targets[i] \in Pool /\ RedoOf(j, i) >= 0

ValidSlots(m, j) == IF m[j].kind = "journal" THEN {k \in Slot : Valid(m[j].entries[k], j)} ELSE {}

\* Going down from the sector below the data, the first one with a valid entry.
JournalSectors(m) == {j \in 0 .. LastBase(m) - 1 : ValidSlots(m, j) # {}}

\* Mutant: forced recovery stops at the first entry it likes.
ForcedSlot_First(V) == Min(V)

\* The entry forced recovery takes: the last valid one.
ForcedSlot(V) == Max(V)

\* The entry to replay, if any: the newest when forced, else the first PENDING.
Candidates(m) ==
    LET found == JournalSectors(m)
    IN  IF found = {} THEN {}
        ELSE LET j == Max(found)
                 V == ValidSlots(m, j)
                 P == {k \in V : m[j].entries[k].status = "pending"}
             IN  IF Corrupted(m) THEN {<<j, ForcedSlot(V)>>}
                 ELSE IF P = {} THEN {} ELSE {<<j, Min(P)>>}

\* Replay the targets of entry k of sector j in the pages of I from their redo copies.
Replayed(m, j, k, I) ==
    [s \in Sector |->
        LET W == {i \in I : m[j].entries[k].targets[i] = s}
        IN  IF W = {} THEN m[s] ELSE m[RedoOf(j, CHOOSE i \in W : TRUE)]]

SetStatus(m, j, k, status) ==
    IF m[j].kind = "journal"
      THEN [m EXCEPT ![j].entries[k].status = status]
      ELSE [m EXCEPT ![j] = Torn]

Recovered(m) ==
    LET found == Candidates(m)
    IN  IF found = {} THEN m
        ELSE LET c == CHOOSE x \in found : TRUE
             IN  SetStatus(Replayed(m, c[1], c[2], Page), c[1], c[2], "done")

-----------------------------------------------------------------------------
NoPage == [addr |-> None, data |-> Erased]
NoPages == [i \in Page |-> NoPage]
Idle0 == [pc |-> "idle", sector |-> None, page |-> 1]

\* The device after a reboot: two live sectors, the journal of their last batch
\* below them.
InitialMem ==
    LET e == [targets |-> [i \in Page |-> IF i = 1 THEN NumSectors - 1 ELSE None], status |-> "done"]
    IN  [s \in Sector |->
            CASE s = Rom -> Data(0, FALSE)
              [] s = NumSectors - 1 -> Data(0, TRUE)
              [] s = NumSectors - 2 -> Data(0, FALSE)
              [] s = NumSectors - 3 -> Journal([k \in Slot |-> IF k = 0 THEN e ELSE NoEntry])
              [] OTHER -> Erased]

Booted(m) ==
    /\ mem = m
    /\ flash_pages = NoPages
    /\ flash_available = FALSE
    /\ last_base = LastBase(m)
    /\ journal_pending = FALSE
    /\ journal_finalize_pending = FALSE
    /\ journal_slot = 0
    /\ last_journal_sector = None
    /\ pending_journal_addr = <<None, 0>>
    /\ core0 = Idle0
    /\ core1 = "idle"
    /\ synced = Image(m)
    /\ batches = {Image(m)}

Init == Booted(InitialMem) /\ changes = 0

-----------------------------------------------------------------------------
\* Core 0: low_flash_task. It holds mtx_flash from its first step to its last,
\* so core 1 does not touch the cache meanwhile.

Leave == core0' = Idle0
Stay(pc) == core0' = [core0 EXCEPT !.pc = pc]

\* multicore_lockout_start_timeout_us failed: the task gives up and will be
\* called again. (A timeout at the end of a lockout is only logged.)
LockoutPcs == {"finalize", "erase", "redo", "entry", "pending", "write", "done"}

Lockout ==
    /\ LockoutFails
    /\ core0.pc \in LockoutPcs
    /\ core0.pc = "write" => Ready # {}
    /\ core0.pc = "redo" => RedoOf(core0.sector, core0.page) >= 0
    /\ Leave
    /\ UNCHANGED <<mem, flash_pages, flash_available, last_base, journal, core1, changes, synced, batches>>

TaskBegin ==
    /\ core0.pc = "idle"
    /\ journal_finalize_pending \/ flash_available
    /\ Stay(IF journal_finalize_pending THEN "finalize" ELSE "check")
    /\ UNCHANGED <<mem, flash_pages, flash_available, last_base, journal, core1, changes, synced, batches>>

\* Mutant: a full journal sector is not erased.
FreshJournal_NoWrap(j) == j # last_journal_sector

\* Whether a batch begins a journal sector anew.
FreshJournal(j) == j # last_journal_sector \/ journal_slot = 0

\* The journal sector is computed from last_base here and nowhere else.
Check ==
    /\ core0.pc = "check"
    /\ IF ~flash_available \/ Ready = {}
         THEN /\ flash_available' = FALSE
              /\ Leave
              /\ UNCHANGED batches
         ELSE /\ UNCHANGED flash_available
              /\ batches' = batches \cup {Image(View)}
              /\ IF journal_pending
                   THEN Stay("write")
                   ELSE IF last_base - 1 < 1
                     THEN Leave
                     ELSE core0' = [sector |-> last_base - 1, page |-> Min(Ready),
                                    pc |-> IF FreshJournal(last_base - 1) THEN "erase" ELSE "redo"]
    /\ UNCHANGED <<mem, flash_pages, last_base, journal, core1, changes, synced>>

EraseJournal ==
    /\ core0.pc = "erase"
    /\ mem' = [mem EXCEPT ![core0.sector] = Journal([k \in Slot |-> NoEntry])]
    /\ last_journal_sector' = core0.sector
    /\ journal_slot' = 0
    /\ Stay("redo")
    /\ UNCHANGED <<flash_pages, flash_available, last_base, journal_pending, journal_finalize_pending,
                   pending_journal_addr, core1, changes, synced, batches>>

\* One redo copy per dirty page, in order, at a place given by the page's
\* index; a power loss inside do_flash_op_erase_program leaves the sector torn.
EraseRedo ==
    /\ core0.pc = "redo"
    /\ IF RedoOf(core0.sector, core0.page) < 0
         THEN UNCHANGED mem /\ Leave
         ELSE /\ mem' = [mem EXCEPT ![RedoOf(core0.sector, core0.page)] = Torn]
              /\ Stay("redo_program")
    /\ UNCHANGED <<flash_pages, flash_available, last_base, journal, core1, changes, synced, batches>>

ProgramRedo ==
    /\ core0.pc = "redo_program"
    /\ mem' = [mem EXCEPT ![RedoOf(core0.sector, core0.page)] = flash_pages[core0.page].data]
    /\ LET more == {i \in Ready : i > core0.page}
       IN  IF more = {} THEN Stay("entry") ELSE core0' = [core0 EXCEPT !.pc = "redo", !.page = Min(more)]
    /\ UNCHANGED <<flash_pages, flash_available, last_base, journal, core1, changes, synced, batches>>

\* Programming only clears bits: writing an entry over what an attempt that
\* failed half way left in the slot keeps both, or garbles them.
Programmed(old, new) ==
    [i \in Page |->
        CASE old[i] = None -> new[i]
          [] new[i] = None \/ new[i] = old[i] -> old[i]
          [] OTHER -> Garbled]

WriteEntry ==
    /\ core0.pc = "entry"
    /\ mem' = IF mem[core0.sector].kind = "journal"
                THEN [mem EXCEPT ![core0.sector].entries[journal_slot] =
                        [targets |-> Programmed(@.targets, [i \in Page |-> flash_pages[i].addr]),
                         status |-> "empty"]]
                ELSE [mem EXCEPT ![core0.sector] = Torn]
    /\ Stay("pending")
    /\ UNCHANGED <<flash_pages, flash_available, last_base, journal, core1, changes, synced, batches>>

MarkPending ==
    /\ core0.pc = "pending"
    /\ mem' = SetStatus(mem, core0.sector, journal_slot, "pending")
    /\ journal_pending' = TRUE
    /\ pending_journal_addr' = <<core0.sector, journal_slot>>
    /\ Stay("write")
    /\ UNCHANGED <<flash_pages, flash_available, last_base, journal_finalize_pending, journal_slot,
                   last_journal_sector, core1, changes, synced, batches>>

\* do_flash_op_erase_program on the next target: a power loss inside it leaves
\* the sector torn.
EraseTarget ==
    /\ core0.pc = "write"
    /\ Ready # {}
    /\ mem' = [mem EXCEPT ![flash_pages[Min(Ready)].addr] = Torn]
    /\ Stay("program")
    /\ UNCHANGED <<flash_pages, flash_available, last_base, journal, core1, changes, synced, batches>>

\* Mutant: a page stays dirty when it has been written.
ProgramTarget_StaysReady ==
    /\ core0.pc = "program"
    /\ mem' = [mem EXCEPT ![flash_pages[Min(Ready)].addr] = flash_pages[Min(Ready)].data]
    /\ Stay("write")
    /\ UNCHANGED <<flash_pages, flash_available, last_base, journal, core1, changes, synced, batches>>

ProgramTarget ==
    /\ core0.pc = "program"
    /\ mem' = [mem EXCEPT ![flash_pages[Min(Ready)].addr] = flash_pages[Min(Ready)].data]
    /\ flash_pages' = [flash_pages EXCEPT ![Min(Ready)] = NoPage]
    /\ Stay("write")
    /\ UNCHANGED <<flash_available, last_base, journal, core1, changes, synced, batches>>

AllWritten ==
    /\ core0.pc = "write"
    /\ Ready = {}
    /\ journal_finalize_pending' = TRUE
    /\ Stay("done")
    /\ UNCHANGED <<mem, flash_pages, flash_available, last_base, journal_pending, journal_slot,
                   last_journal_sector, pending_journal_addr, core1, changes, synced, batches>>

\* Mutant: the slot number runs past the sector.
NextSlot_NoWrap == journal_slot + 1

NextSlot == (journal_slot + 1) % JournalSlots

\* journal_mark_done, at the end of a batch or, after a failure, at the start of
\* a later task, which then goes on with the next batch.
MarkDone ==
    /\ core0.pc \in {"done", "finalize"}
    /\ mem' = SetStatus(mem, pending_journal_addr[1], pending_journal_addr[2], "done")
    /\ journal_pending' = FALSE
    /\ journal_finalize_pending' = FALSE
    /\ journal_slot' = NextSlot
    /\ IF core0.pc = "finalize"
         THEN Stay("check") /\ UNCHANGED flash_available
         ELSE Leave /\ flash_available' = FALSE
    /\ UNCHANGED <<flash_pages, last_base, last_journal_sector, pending_journal_addr, core1, changes, synced, batches>>

Core0 ==
    \/ TaskBegin
    \/ Check
    \/ EraseJournal
    \/ EraseRedo
    \/ ProgramRedo
    \/ WriteEntry
    \/ MarkPending
    \/ EraseTarget
    \/ ProgramTarget
    \/ AllWritten
    \/ MarkDone

-----------------------------------------------------------------------------
\* Core 1.

\* find_free_page: the page that already caches the sector, else a free one.
FreePage(s) == IF PageOf(s) # {} THEN PageOf(s) ELSE Page \ Ready

\* flash_program_block, one sector of it, under mtx_flash.
Program(s, more) ==
    /\ core0.pc = "idle"
    /\ changes < MaxChanges
    /\ FreePage(s) # {}
    /\ flash_pages' = [flash_pages EXCEPT ![Min(FreePage(s))] = [addr |-> s, data |-> Data(changes + 1, more)]]
    /\ changes' = changes + 1
    /\ UNCHANGED <<mem, flash_available, last_base, journal, core0, synced, batches>>

\* A change inside the live data.
Write(s) ==
    /\ core1 = "idle"
    /\ s \in Readable(View)
    /\ s = Rom => PersistentWrites
    /\ Program(s, View[s].more)
    /\ UNCHANGED core1

\* low_flash_commit, and what flash_program_block does when the cache is full.
Commit ==
    /\ core0.pc = "idle"
    /\ core1 = "idle"
    /\ ~flash_available
    /\ flash_available' = TRUE
    /\ UNCHANGED <<mem, flash_pages, last_base, journal, core0, core1, changes, synced, batches>>

\* low_flash_commit_sync: request, then poll until the request is gone.
SyncBegin(from, to) ==
    /\ core0.pc = "idle"
    /\ core1 = from
    /\ flash_available' = TRUE
    /\ core1' = to
    /\ UNCHANGED <<mem, flash_pages, last_base, journal, core0, changes, synced, batches>>

\* Mutant: the sync does not wait.
Drained_Always == TRUE

\* low_flash_available
Drained == ~flash_available

SyncEnd(from, to) ==
    /\ core0.pc = "idle"
    /\ core1 = from
    /\ Drained
    /\ core1' = to
    /\ synced' = Image(View)
    /\ batches' = {Image(View)}
    /\ UNCHANGED <<mem, flash_pages, flash_available, last_base, journal, core0, changes>>

\* The wait is bounded. Core 1 goes on, the request stays.
SyncTimeout(from, to) ==
    /\ core0.pc = "idle"
    /\ core1 = from
    /\ flash_available
    /\ core1' = to
    /\ UNCHANGED <<mem, flash_pages, flash_available, last_base, journal, core0, changes, synced, batches>>

\* flash_write_data_to_file for a record that opens a new sector. The new
\* record is put in the cache first (allocate_free_addr), last_base follows
\* without the mutex, the record is synced and then the list is extended to it.
NewSector == LastBase(View) - 1

GrowAllocate ==
    /\ core1 = "idle"
    /\ NewSector >= 0
    /\ QuietGrowth => Ready = {} /\ ~flash_available
    /\ Program(NewSector, FALSE)
    /\ core1' = "grow_base"

GrowBase ==
    /\ core1 = "grow_base"
    /\ last_base' = Min({last_base, NewSector})
    /\ core1' = "grow_sync"
    /\ UNCHANGED <<mem, flash_pages, flash_available, journal, core0, changes, synced, batches>>

GrowPublish ==
    /\ core1 = "grow_publish"
    /\ Program(LastBase(View), TRUE)
    /\ core1' = "idle"

\* The sync timed out: flash_clear_file rewrites the link above and zeroes the
\* record. last_base stays.
GrowUnlink ==
    /\ core1 = "grow_unlink"
    /\ Program(LastBase(View), FALSE)
    /\ core1' = "grow_zero"

GrowZero ==
    /\ core1 = "grow_zero"
    /\ Program(NewSector, FALSE)
    /\ core1' = "idle"

Core1 ==
    \/ \E s \in Sector : Write(s)
    \/ Commit
    \/ SyncBegin("idle", "sync")
    \/ SyncEnd("sync", "idle")
    \/ SyncTimeout("sync", "idle")
    \/ GrowAllocate
    \/ GrowBase
    \/ SyncBegin("grow_sync", "grow_wait")
    \/ SyncEnd("grow_wait", "grow_publish")
    \/ ~QuietGrowth /\ SyncTimeout("grow_wait", "grow_unlink")
    \/ GrowPublish
    \/ GrowUnlink
    \/ GrowZero

-----------------------------------------------------------------------------
\* What a recovery that was cut short in the page n of entry c leaves: the first targets replayed, one torn.
CutShort(c, n) ==
    LET targets == mem[c[1]].entries[c[2]].targets
    IN  [Replayed(mem, c[1], c[2], 1 .. n - 1) EXCEPT ![targets[n]] = Torn]

\* Power on, journal recovery and the scan.
Reboot(m) ==
    LET r == Recovered(m)
    IN  /\ mem' = r
        /\ flash_pages' = NoPages
        /\ flash_available' = FALSE
        /\ last_base' = LastBase(r)
        /\ journal_pending' = FALSE
        /\ journal_finalize_pending' = FALSE
        /\ journal_slot' = 0
        /\ last_journal_sector' = None
        /\ pending_journal_addr' = <<None, 0>>
        /\ core0' = Idle0
        /\ core1' = "idle"
        /\ synced' = Image(r)
        /\ batches' = {Image(r)}
        /\ UNCHANGED changes

\* Power loss, once or again during the recovery.
PowerLoss ==
    \/ Reboot(mem)
    \/ \E c \in Candidates(mem), n \in Page :
           mem[c[1]].entries[c[2]].targets[n] # None /\ Reboot(CutShort(c, n))

Next == Core0 \/ Lockout \/ Core1 \/ PowerLoss

Spec == Init /\ [][Next]_vars

\* core0_loop calls flash_task for ever, and core 1 holds mtx_flash only for the
\* length of a memory copy.
FairSpec == Spec /\ WF_vars(Core0)

-----------------------------------------------------------------------------
\* Properties.

Contents ==
    {Erased, Torn}
    \cup [kind : {"data"}, change : 0 .. MaxChanges, more : BOOLEAN]
    \cup [kind : {"journal"},
          entries : [Slot -> [targets : [Page -> Sector \cup {None, Garbled}],
                              status : {"erased", "empty", "pending", "done"}]]]

\* Every variable keeps its type.
TypeOK ==
    /\ mem \in [Sector -> Contents]
    /\ flash_pages \in [Page -> [addr : Sector \cup {None}, data : Contents]]
    /\ flash_available \in BOOLEAN
    /\ last_base \in 0 .. NumSectors
    /\ journal_pending \in BOOLEAN /\ journal_finalize_pending \in BOOLEAN
    /\ journal_slot \in Slot
    /\ last_journal_sector \in Pool \cup {None}
    /\ pending_journal_addr \in (Pool \cup {None}) \X Slot
    /\ core0 \in [pc : LockoutPcs \cup {"idle", "check", "redo_program", "program"},
                  sector : Pool \cup {None}, page : Page]
    /\ core1 \in {"idle", "sync", "grow_base", "grow_sync", "grow_wait", "grow_publish",
                  "grow_unlink", "grow_zero"}
    /\ changes \in 0 .. MaxChanges

\* All or nothing: wherever the power fails, also inside a sector write, also
\* again during recovery, the next boot finds the data exactly as core 1 saw it
\* when some batch since the last completed sync began, or at that sync.
RecoversABatch == Image(Recovered(mem)) \in batches

\* Once flash_commit_sync has returned true, a power loss never takes back a
\* sector change made before it, whatever failed or was retried in between.
SyncedSurvives ==
    LET found == Image(Recovered(mem))
    IN  \A s \in DOMAIN synced : s \in DOMAIN found /\ found[s] >= synced[s]

\* Write ahead: before a target is erased, a PENDING entry names it and its redo
\* copy is what is about to be written, for the whole batch. low_flash_task: "the
\* journal entry is not marked as pending until the journal is complete".
JournalComplete ==
    core0.pc = "write" =>
        LET j == pending_journal_addr[1]
            k == pending_journal_addr[2]
        IN  \A i \in Ready :
                /\ mem[j].kind = "journal"
                /\ mem[j].entries[k].status = "pending"
                /\ mem[j].entries[k].targets[i] = flash_pages[i].addr
                /\ mem[j - i] = flash_pages[i].data

\* Both: the journal of the batch is complete before its first target is erased, and recovery brings
\* back one batch or the other (low_flash_task, low_flash_recover_journal).
BatchesKept == RecoversABatch /\ JournalComplete

\* A journal entry that is programmed twice, because the lockout failed between
\* the two halves of the first attempt, still names the sectors of its batch.
EntriesNotGarbled ==
    \A s \in Sector : mem[s].kind = "journal" =>
        \A k \in Slot, i \in Page : mem[s].entries[k].targets[i] # Garbled

\* A requested write-out is carried out: core 1 does not wait for ever.
DrainCompletes == flash_available ~> ~flash_available

=============================================================================
