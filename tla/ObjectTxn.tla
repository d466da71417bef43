----------------------------- MODULE ObjectTxn ------------------------------
(***************************************************************************)
(* The transactional object store, object_store_txn.c: one logical object  *)
(* kept in two record files and two commit files, written alternately.     *)
(* Core 1 runs the operations on the cached image of the files; core 0     *)
(* copies dirty sectors to flash when flash_available is set; the power    *)
(* may fail between any two steps.                                         *)
(*                                                                         *)
(* Abstractions. A MAC tag is the authenticated content itself, so a tag   *)
(* matches exactly when the content does. put() uses the generation as the *)
(* record id, hence one field stands for both. Payload sizes are equal,    *)
(* the hardest case for the handle comparison.                             *)
(***************************************************************************)
EXTENDS Naturals, FiniteSets

CONSTANTS
    Values,         \* payloads a caller may store
    NoValue,        \* no payload: the object is absent or deleted
    Absent,         \* content of a file that does not exist
    MaxGeneration,  \* UINT32_MAX in the code
    MaxHandles,     \* FILE_OBJECT_TXN_MAX_HANDLES
    TokenSpace,     \* 2^32: the handle counter wraps
    Sectors,        \* the files that core 0 writes to flash in one piece
    MayTimeout      \* whether flash_commit_sync can give up

Slots == {0, 1}
Files == {"record", "commit"} \X Slots

\* All files in one piece is what the redo journal provides (see FlashJournal);
\* without it the store relies on every flash_commit_sync succeeding.
ASSUME SectorsPartition ==
    /\ UNION Sectors = Files
    /\ \A S, T \in Sectors : S # T => S \cap T = {}
ASSUME DrainAssumption == Sectors = {Files} \/ MayTimeout = FALSE
ASSUME ConstantTypes ==
    /\ MaxGeneration \in Nat \ {0}
    /\ MaxHandles \in Nat \ {0}
    /\ TokenSpace \in Nat /\ TokenSpace > MaxHandles + 1
    /\ MayTimeout \in BOOLEAN
    /\ NoValue \notin Values

Generations == 1 .. MaxGeneration
Records == [generation : Generations, value : Values]
NoTag == [generation |-> 0, value |-> NoValue]
Commits == [generation : Generations, deleted : BOOLEAN, tag : Records \cup {NoTag}]

ASSUME AbsentIsNoContent == Absent \notin Records \cup Commits

Images == [record : [Slots -> Records \cup {Absent}], commit : [Slots -> Commits \cup {Absent}]]

VARIABLES
    cache,            \* the files as core 1 sees them (cached sectors over flash)
    flash,            \* the files in flash, after journal recovery
    flash_available,  \* core 1 asked core 0 to write the cache out
    op,               \* the operation core 1 is in
    handles,          \* file_object_txn_handles
    next_handle,      \* file_object_txn_next_handle
    acked             \* history: the last version reported as stored

vars == <<cache, flash, flash_available, op, handles, next_handle, acked>>

-----------------------------------------------------------------------------
\* Which version an image holds.

\* parse_commit and validate_record: the commit authenticates, and the record
\* it names is there and carries the tag the commit holds.
ParseCommit(img, s) ==
    /\ img.commit[s] # Absent
    /\ IF img.commit[s].deleted
         THEN img.commit[s].tag = NoTag
         ELSE /\ img.record[s] # Absent
              /\ img.record[s] = img.commit[s].tag
              /\ img.record[s].generation = img.commit[s].generation

ValidSlots(img) == {s \in Slots : ParseCommit(img, s)}

Newest(img) ==
    CHOOSE s \in ValidSlots(img) :
        \A t \in ValidSlots(img) : img.commit[t].generation <= img.commit[s].generation

\* recover: the version is not there, is ambiguous, or is the newest valid one.
RecoverStatus(img) ==
    IF ValidSlots(img) = {} THEN "not_found"
    ELSE IF ValidSlots(img) = Slots /\ img.commit[0].generation = img.commit[1].generation
      THEN "wrong_data"
      ELSE "ok"

\* The version a reader of the image gets.
Version(img) ==
    IF RecoverStatus(img) # "ok"
      THEN [generation |-> 0, value |-> NoValue]
      ELSE [generation |-> img.commit[Newest(img)].generation,
            value |-> img.commit[Newest(img)].tag.value]

OtherSlot(s) == 1 - s

\* Mutant: next_state without the limit on generations.
NextStateOk_NoLimit(img) == RecoverStatus(img) # "wrong_data"

\* next_state
NextStateOk(img) ==
    \/ RecoverStatus(img) = "not_found"
    \/ RecoverStatus(img) = "ok" /\ Version(img).generation < MaxGeneration

\* Mutant: the new version goes over the current one.
TargetSlot_Current(img) == IF RecoverStatus(img) = "not_found" THEN 0 ELSE Newest(img)

TargetSlot(img) == IF RecoverStatus(img) = "not_found" THEN 0 ELSE OtherSlot(Newest(img))

\* Mutant: a new version takes the generation of the current one.
NextGeneration_Reused(img) == IF RecoverStatus(img) = "not_found" THEN 1 ELSE Version(img).generation

NextGeneration(img) == Version(img).generation + 1

-----------------------------------------------------------------------------
EmptyImage == [record |-> [s \in Slots |-> Absent], commit |-> [s \in Slots |-> Absent]]

Idle == [pc |-> "idle", kind |-> "none", slot |-> 0, generation |-> 0, value |-> NoValue]

FreeHandle == [token |-> 0, slot |-> 0, generation |-> 0, value |-> NoValue]

Init ==
    /\ cache = EmptyImage
    /\ flash = EmptyImage
    /\ flash_available = FALSE
    /\ op = Idle
    /\ handles = [i \in 1 .. MaxHandles |-> FreeHandle]
    /\ next_handle = 1
    /\ acked = [generation |-> 0, value |-> NoValue]

\* Every error return of put and delete: what was done so far stays cached.
Fail == op' = Idle

-----------------------------------------------------------------------------
\* file_object_txn_put and file_object_txn_delete, one step per call that
\* touches the files.

Put(v) ==
    /\ op = Idle
    /\ NextStateOk(cache)
    /\ op' = [pc |-> "remove_commit", kind |-> "put", slot |-> TargetSlot(cache),
              generation |-> NextGeneration(cache), value |-> v]
    /\ UNCHANGED <<cache, flash, flash_available, handles, next_handle, acked>>

Delete ==
    /\ op = Idle
    /\ RecoverStatus(cache) = "ok"
    /\ Version(cache).value # NoValue
    /\ Version(cache).generation < MaxGeneration
    /\ op' = [pc |-> "remove_commit", kind |-> "delete", slot |-> OtherSlot(Newest(cache)),
              generation |-> NextGeneration(cache), value |-> NoValue]
    /\ UNCHANGED <<cache, flash, flash_available, handles, next_handle, acked>>

\* remove_file: clearing the payload may fail after the file was unlinked.
RemoveCommit ==
    /\ op.pc = "remove_commit"
    /\ \/ /\ cache' = [cache EXCEPT !.commit[op.slot] = Absent]
          /\ op' = [op EXCEPT !.pc = "remove_record"]
       \/ /\ cache' \in {cache, [cache EXCEPT !.commit[op.slot] = Absent]}
          /\ Fail
    /\ UNCHANGED <<flash, flash_available, handles, next_handle, acked>>

RemoveRecord ==
    /\ op.pc = "remove_record"
    /\ \/ /\ cache' = [cache EXCEPT !.record[op.slot] = Absent]
          /\ op' = [op EXCEPT !.pc = IF op.kind = "put" THEN "write_record" ELSE "sync"]
       \/ /\ cache' \in {cache, [cache EXCEPT !.record[op.slot] = Absent]}
          /\ Fail
    /\ UNCHANGED <<flash, flash_available, handles, next_handle, acked>>

\* write_record: authenticate, then publish the whole record; either may fail.
WriteRecord ==
    /\ op.pc = "write_record"
    /\ \/ /\ cache' = [cache EXCEPT !.record[op.slot] = [generation |-> op.generation, value |-> op.value]]
          /\ op' = [op EXCEPT !.pc = "sync"]
       \/ UNCHANGED cache /\ Fail
    /\ UNCHANGED <<flash, flash_available, handles, next_handle, acked>>

\* write_commit
CommitOf(o) ==
    [generation |-> o.generation,
     deleted |-> o.kind = "delete",
     tag |-> IF o.kind = "delete" THEN NoTag ELSE [generation |-> o.generation, value |-> o.value]]

WriteCommit ==
    /\ op.pc = "write_commit"
    /\ \/ /\ cache' = [cache EXCEPT !.commit[op.slot] = CommitOf(op)]
          /\ op' = [op EXCEPT !.pc = "final_sync"]
       \/ UNCHANGED cache /\ Fail
    /\ UNCHANGED <<flash, flash_available, handles, next_handle, acked>>

\* flash_commit_sync: request, then wait until core 0 clears the request.
CommitSync ==
    /\ op.pc \in {"sync", "final_sync"}
    /\ flash_available' = TRUE
    /\ op' = [op EXCEPT !.pc = IF op.pc = "sync" THEN "wait" ELSE "final_wait"]
    /\ UNCHANGED <<cache, flash, handles, next_handle, acked>>

SyncDone ==
    /\ op.pc = "wait"
    /\ ~flash_available
    /\ op' = [op EXCEPT !.pc = "write_commit"]
    /\ UNCHANGED <<cache, flash, flash_available, handles, next_handle, acked>>

\* Mutant: put reports success before the commit is durable.
Return_NoWait ==
    /\ op.pc = "final_wait"
    /\ op' = Idle
    /\ acked' = [generation |-> op.generation, value |-> op.value]
    /\ UNCHANGED <<cache, flash, flash_available, handles, next_handle>>

Return ==
    /\ op.pc = "final_wait"
    /\ ~flash_available
    /\ op' = Idle
    /\ acked' = [generation |-> op.generation, value |-> op.value]
    /\ UNCHANGED <<cache, flash, flash_available, handles, next_handle>>

\* Mutant: a timeout of the last sync is reported as success.
SyncTimeout_Success ==
    /\ MayTimeout
    /\ op.pc \in {"wait", "final_wait"}
    /\ flash_available
    /\ Fail
    /\ acked' = IF op.pc = "final_wait" THEN [generation |-> op.generation, value |-> op.value] ELSE acked
    /\ UNCHANGED <<cache, flash, flash_available, handles, next_handle>>

SyncTimeout ==
    /\ MayTimeout
    /\ op.pc \in {"wait", "final_wait"}
    /\ flash_available
    /\ Fail
    /\ UNCHANGED <<cache, flash, flash_available, handles, next_handle, acked>>

-----------------------------------------------------------------------------
\* The rest of the firmware: any other file write may ask for the cache to be
\* written out (flash_commit, a full cache, a record that spans sectors).
RequestCommit ==
    /\ ~flash_available
    /\ flash_available' = TRUE
    /\ UNCHANGED <<cache, flash, op, handles, next_handle, acked>>

\* Core 0 writes the dirty sectors of S and drops the request once all are clean.
Drained(S) ==
    [record |-> [s \in Slots |-> IF <<"record", s>> \in S THEN cache.record[s] ELSE flash.record[s]],
     commit |-> [s \in Slots |-> IF <<"commit", s>> \in S THEN cache.commit[s] ELSE flash.commit[s]]]

Drain(S) ==
    /\ flash_available
    /\ flash' = Drained(S)
    /\ flash_available' = (flash' # cache)
    /\ UNCHANGED <<cache, op, handles, next_handle, acked>>

\* Power loss and reboot: the cache, the operation and the handle table go.
Crash ==
    /\ cache' = flash
    /\ flash_available' = FALSE
    /\ op' = Idle
    /\ handles' = [i \in 1 .. MaxHandles |-> FreeHandle]
    /\ next_handle' = 1
    /\ acked' = Version(flash)
    /\ UNCHANGED flash

-----------------------------------------------------------------------------
\* Handles.

Tokens == {handles[i].token : i \in 1 .. MaxHandles}

\* Mutant: the counter's value without a look at the open handles.
AllocateToken_Unchecked(t) == t = IF next_handle = 0 THEN 1 ELSE next_handle

\* allocate_token: the first value from the counter on that is not the invalid
\* handle and not in use.
AllocateToken(t) ==
    LET Fresh == (1 .. TokenSpace - 1) \ Tokens
        Distance(u) == (u + TokenSpace - next_handle) % TokenSpace
    IN  t \in Fresh /\ \A u \in Fresh : Distance(t) <= Distance(u)

FreeEntries == {i \in 1 .. MaxHandles : handles[i].token = 0}

\* file_object_txn_open: the first free entry, the recovered state, a new token.
\* The payload is history: it says what the handle was opened on.
Open(i, t) ==
    /\ op = Idle
    /\ RecoverStatus(cache) = "ok"
    /\ Version(cache).value # NoValue
    /\ i \in FreeEntries
    /\ \A j \in FreeEntries : i <= j
    /\ AllocateToken(t)
    /\ handles' = [handles EXCEPT ![i] =
          [token |-> t, slot |-> Newest(cache),
           generation |-> Version(cache).generation, value |-> Version(cache).value]]
    /\ next_handle' = (t + 1) % TokenSpace
    /\ UNCHANGED <<cache, flash, flash_available, op, acked>>

\* file_object_txn_close
Close(i) ==
    /\ op = Idle
    /\ handles[i].token # 0
    /\ handles' = [handles EXCEPT ![i] = FreeHandle]
    /\ UNCHANGED <<cache, flash, flash_available, op, next_handle, acked>>

\* Mutant: a handle follows its slot to later versions.
Resolves_SlotOnly(h) ==
    /\ h.token # 0
    /\ RecoverStatus(cache) = "ok"
    /\ ~cache.commit[Newest(cache)].deleted
    /\ Newest(cache) = h.slot

\* resolve: the handle still names the current version.
Resolves(h) ==
    /\ h.token # 0
    /\ RecoverStatus(cache) = "ok"
    /\ ~cache.commit[Newest(cache)].deleted
    /\ Version(cache).generation = h.generation
    /\ Newest(cache) = h.slot

\* read_at: what a read through a handle that resolves returns.
ReadAt(h) == cache.record[h.slot].value

-----------------------------------------------------------------------------
Next ==
    \/ \E v \in Values : Put(v)
    \/ Delete
    \/ RemoveCommit
    \/ RemoveRecord
    \/ WriteRecord
    \/ WriteCommit
    \/ CommitSync
    \/ SyncDone
    \/ Return
    \/ SyncTimeout
    \/ RequestCommit
    \/ \E S \in Sectors : Drain(S)
    \/ Crash
    \/ \E i \in 1 .. MaxHandles, t \in 1 .. TokenSpace - 1 : Open(i, t)
    \/ \E i \in 1 .. MaxHandles : Close(i)

Spec == Init /\ [][Next]_vars

-----------------------------------------------------------------------------
\* Properties.

\* Every variable keeps its type: generations stay in their range, an operation
\* past its first step has a target slot and generation, handles stay in the table.
TypeOK ==
    /\ cache \in Images
    /\ flash \in Images
    /\ flash_available \in BOOLEAN
    /\ op \in [pc : {"idle", "remove_commit", "remove_record", "write_record", "sync", "wait",
                     "write_commit", "final_sync", "final_wait"},
               kind : {"none", "put", "delete"}, slot : Slots,
               generation : 0 .. MaxGeneration, value : Values \cup {NoValue}]
    /\ handles \in [1 .. MaxHandles ->
                     [token : 0 .. TokenSpace - 1, slot : Slots,
                      generation : 0 .. MaxGeneration, value : Values \cup {NoValue}]]
    /\ next_handle \in 0 .. TokenSpace - 1
    /\ acked \in [generation : 0 .. MaxGeneration, value : Values \cup {NoValue}]

\* recover never meets two valid commits of the same generation, neither in what
\* core 1 sees nor in what a reboot would find: after any interleaving of
\* operations, failures, partial write-outs and power losses exactly one of the
\* two slots wins, so put and open are never refused with WRONG_DATA for good.
Unambiguous ==
    /\ RecoverStatus(cache) # "wrong_data"
    /\ RecoverStatus(flash) # "wrong_data"

\* A version that put or delete reported as stored survives every power loss:
\* a reboot finds that version or a newer one, never an older one and never
\* nothing, although the next operation has already removed the other slot.
AckedSurvivesPowerLoss ==
    \/ Version(flash).generation > acked.generation
    \/ Version(flash) = acked

\* A handle that file_object_txn_resolve still accepts reads the payload it was
\* opened on, never the payload of a later version written over its slot.
HandleReadsItsVersion ==
    \A i \in 1 .. MaxHandles : Resolves(handles[i]) => ReadAt(handles[i]) = handles[i].value

\* Two open handles never share a token, also after the 32-bit counter wraps:
\* closing one cannot close the other.
OpenTokensDistinct ==
    \A i, j \in 1 .. MaxHandles : i # j /\ handles[i].token # 0 => handles[i].token # handles[j].token

\* The generation a reader sees only moves forward, one step at a time, except
\* that a power loss may fall back to what flash holds.
GenerationsAdvance ==
    [][\/ Version(cache)' = Version(cache)
       \/ Version(cache)'.generation = Version(cache).generation + 1
       \/ cache' = flash]_vars

\* The store is one atomic, durable, versioned object: every step is a step of
\* AtomicObject, or changes nothing its callers can tell.
Abstract == INSTANCE AtomicObject WITH visible <- Version(cache), durable <- Version(flash)
ImplementsAtomicObject == Abstract!ASpec

=============================================================================
