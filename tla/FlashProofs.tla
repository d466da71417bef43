---------------------------- MODULE FlashProofs ----------------------------
(***************************************************************************)
(* Proofs for the flash layer. FlashJournal, for any number of sectors,    *)
(* pages and journal slots: in any environment no journal entry is         *)
(* garbled; where lockouts succeed, core 1 grows the data only over a      *)
(* clean cache and leaves the persistent region alone, recovery brings     *)
(* back one batch or the other, and no power loss takes back what a sync   *)
(* has confirmed. FlashRecords, for any number of files and units: up to   *)
(* the first power loss, and as that power loss leaves it, the list of     *)
(* records is whole, no two records overlap, and no file is harmed but the *)
(* one being written.                                                      *)
(***************************************************************************)
EXTENDS MCFlashJournal, MCFlashRecords, FiniteSetTheorems, WellFoundedInduction, TLAPS

-----------------------------------------------------------------------------
(* Images *)

Entries == [targets : [Page -> Int], status : {"erased", "empty", "pending", "done"}]

\* A journal sector has entries in its slots; the persistent region is data.
IsImage(m) ==
    /\ DOMAIN m = Sector
    /\ \A s \in Sector : m[s].kind = "journal" => m[s] = Journal(m[s].entries) /\ m[s].entries \in [Slot -> Entries]
    /\ IsData(m, Rom)

\* No sector is newer than change c.
Dated(m, c) == \A s \in Sector : IsData(m, s) => m[s].change \in Int /\ m[s].change <= c

\* The record list comes down to sector b and ends there.
Walk(m, b) ==
    /\ b \in Pool
    /\ \A s \in b .. NumSectors - 1 : IsData(m, s)
    /\ \A s \in b + 1 .. NumSectors - 1 : m[s].more
    /\ ~m[b].more

\* Journals lie in the two sectors below the data.
Places(m, b) == \A s \in Sector : m[s].kind = "journal" => s \in {b - 1, b - 2}

PendingAt(m, s, k) == m[s].kind = "journal" /\ m[s].entries[k].status = "pending"

\* A growth that a power loss stopped has left its entry two sectors below the data: it names the
\* sector that was to be added.
Harmless(m, b, s, k) ==
    /\ s = b - 2
    /\ \A i \in Page : m[s].entries[k].targets[i] # None => m[s].entries[k].targets[i] = b - 1 /\ s - i \in Nat

\* Recovery leaves the data of this image alone.
Restful(m, b) ==
    /\ Walk(m, b)
    /\ Places(m, b)
    /\ \A s \in Sector, k \in Slot : PendingAt(m, s, k) => Harmless(m, b, s, k)

-----------------------------------------------------------------------------
(* The inductive invariant of the quiet environment *)

Types ==
    /\ IsImage(mem)
    /\ Dated(mem, changes)
    /\ changes \in Int
    /\ DOMAIN flash_pages = Page
    /\ \A i \in Page : \/ flash_pages[i] = NoPage
                       \/ /\ flash_pages[i].addr \in Pool
                          /\ flash_pages[i].data.kind = "data"
                          /\ flash_pages[i].data.change \in Int /\ flash_pages[i].data.change <= changes
    /\ \A i, n \in Ready : flash_pages[i].addr = flash_pages[n].addr => i = n
    /\ last_base \in Pool
    /\ journal_slot \in Slot
    /\ last_journal_sector \in Pool \cup {None}
    /\ last_journal_sector # None => last_journal_sector >= last_base - 1
    /\ DOMAIN core0 = {"pc", "sector", "page"}
    /\ core0.page \in Page

Preparing == {"redo", "redo_program", "entry", "pending"}
Writing == {"write", "program", "done"}
Extending == {"grow_sync", "grow_wait", "grow_publish"}

\* A new sector has not been written yet.
Unborn == core1 = "grow_sync" \/ (core1 = "grow_wait" /\ flash_available)

\* Where the cores are: core 0 writes out only on request, and core 1 goes on when it is done.
Control ==
    /\ core0.pc \in {"idle", "check", "erase"} \cup Preparing \cup Writing
    /\ core1 \in {"idle", "sync", "grow_base"} \cup Extending
    /\ core0.pc # "idle" => flash_available
    /\ flash_available => core1 \in {"idle", "sync", "grow_wait"}
    /\ journal_pending <=> core0.pc \in Writing
    /\ journal_finalize_pending <=> core0.pc = "done"
    /\ core0.pc \notin {"idle", "check"} => core0.sector = last_base - 1 /\ last_base >= 2
    /\ core0.pc \in {"erase", "redo", "redo_program", "entry", "pending", "program"} => Ready # {}
    /\ core1 = "grow_base" \/ (Unborn /\ core0.pc \notin Writing) => Ready # {}
    /\ core0.pc = "done" => Ready = {}
    /\ core1 = "grow_publish" \/ (core1 \in {"sync", "grow_wait"} /\ ~flash_available) => Ready = {}

\* The lowest sector of the list, as core 1 sees it.
Bottom == IF core1 \in Extending THEN last_base + 1 ELSE last_base

\* What the cache holds.
Cached ==
    /\ Walk(View, Bottom)
    /\ core1 = "grow_base" => last_base >= 1 /\ \A i \in Ready : flash_pages[i].addr = last_base - 1 /\ ~flash_pages[i].data.more
    /\ core1 \in {"idle", "sync"} => \A i \in Ready : flash_pages[i].addr >= last_base
    /\ core1 \in Extending =>
           /\ View[last_base].kind = "data" /\ ~View[last_base].more
           /\ \A i \in Ready : flash_pages[i].addr = last_base
    /\ core1 = "grow_base" => View[last_base - 1].kind = "data" /\ ~View[last_base - 1].more

\* A batch of changes to live data is being written.
Critical == core0.pc \in Writing /\ core1 \in {"idle", "sync"}

\* A new sector has been written and the list does not reach it.
Unlinked ==
    /\ Restful(mem, last_base + 1)
    /\ IsData(mem, last_base) /\ ~mem[last_base].more
    /\ last_journal_sector = last_base - 1 /\ last_base >= 2

Current(s, k) == s = last_base - 1 /\ k = journal_slot

\* What the flash holds.
Stored ==
    /\ Critical =>
           /\ Places(mem, last_base)
           /\ \A s \in Sector, k \in Slot : PendingAt(mem, s, k) => Current(s, k) \/ Harmless(mem, last_base, s, k)
           /\ IsData(mem, last_base) => ~mem[last_base].more
    /\ Unborn => Restful(mem, last_base + 1)
    /\ core1 = "grow_base" => Restful(mem, last_base)
    /\ core1 = "grow_publish" \/ (core1 = "grow_wait" /\ ~flash_available) => Unlinked
    /\ core1 \in {"idle", "sync"} /\ ~Critical => Restful(mem, last_base) \/ Unlinked

\* The journal sector in use.
InUse == last_journal_sector # None /\ last_journal_sector = last_base - 1
Entry == mem[last_base - 1].entries[journal_slot]

Journaled ==
    /\ core0.pc \in Preparing \cup Writing => InUse
    /\ InUse =>
           /\ mem[last_base - 1].kind = "journal"
           /\ \A k \in Slot : PendingAt(mem, last_base - 1, k) => journal_pending /\ k = journal_slot
           /\ journal_slot # 0 \/ core0.pc \in Preparing \cup Writing =>
                  \A k \in Slot : k > journal_slot \/ (k = journal_slot /\ core0.pc \notin {"pending"} \cup Writing)
                                     => mem[last_base - 1].entries[k] = NoEntry
    /\ core0.pc = "pending" => Entry = [targets |-> [i \in Page |-> flash_pages[i].addr], status |-> "empty"]

Copied(i) == last_base - 1 - i \in Nat /\ mem[last_base - 1 - i] = flash_pages[i].data

\* The redo copies of the batch, and its entry.
Redone ==
    /\ core0.pc = "erase" => core0.page \in Ready /\ \A i \in Ready : core0.page <= i
    /\ core0.pc \in {"redo", "redo_program"} => core0.page \in Ready /\ \A i \in Ready : i < core0.page => Copied(i)
    /\ core0.pc = "redo_program" => last_base - 1 - core0.page \in Nat
    /\ core0.pc \in {"entry", "pending"} => \A i \in Ready : Copied(i)
    /\ core0.pc \in Writing =>
           /\ pending_journal_addr = <<last_base - 1, journal_slot>>
           /\ Entry.status = "pending"
           /\ \E i \in Page : Entry.targets[i] # None
           /\ \A i \in Page : Entry.targets[i] # None =>
                  /\ Entry.targets[i] \in Pool /\ Entry.targets[i] >= last_base
                  /\ last_base - 1 - i \in Nat
                  /\ mem[last_base - 1 - i] = View[Entry.targets[i]]
           /\ \A i \in Ready : Entry.targets[i] = flash_pages[i].addr

\* What some batch saw, and nothing older than the last sync.
Covers(f, g) == \A s \in DOMAIN g : s \in DOMAIN f /\ f[s] \in Int /\ g[s] \in Int /\ f[s] >= g[s]

Seen ==
    /\ ~Critical => Image(mem) \in batches
    /\ core0.pc \notin {"idle", "check"} => Image(View) \in batches
    /\ \A f \in batches : Covers(f, synced)
    /\ Covers(Image(View), synced)

QuietInv == Types /\ Control /\ Cached /\ Stored /\ Journaled /\ Redone /\ Seen

-----------------------------------------------------------------------------
(* Helpers *)

LEMMA Numbers ==
    /\ NumSectors \in Nat /\ NumSectors >= 4 /\ NumPages \in Nat \ {0} /\ JournalSlots \in Nat \ {0}
    /\ None \notin Sector /\ Rom = NumSectors /\ Sector = 0 .. NumSectors /\ Pool = 0 .. NumSectors - 1
    /\ Page = 1 .. NumPages /\ Slot = 0 .. JournalSlots - 1 /\ NumSectors >= NumPages + 3
BY ConstantTypes DEF None, Sector, Pool, Rom, Page, Slot

LEMMA LeastIn == ASSUME NEW S \in SUBSET Nat, S # {} PROVE Min(S) \in S /\ \A y \in S : Min(S) <= y
<1> DEFINE Less == OpToRel(<, Nat)
<1>1. \E x \in S : \A y \in S : ~(<<y, x>> \in Less)
  <2>1. IsWellFoundedOn(Less, Nat)
    BY NatLessThanWellFounded
  <2> HIDE DEF Less
  <2> QED BY <2>1, WFMin, Zenon
<1>2. PICK x \in S : \A y \in S : ~(<<y, x>> \in Less)
  BY <1>1
<1>3. ASSUME NEW y \in S PROVE x <= y
  <2>1. x \in Nat /\ y \in Nat
    OBVIOUS
  <2>2. y < x => <<y, x>> \in Less
    BY <2>1 DEF OpToRel
  <2> HIDE DEF Less
  <2> QED BY <1>2, <2>1, <2>2
<1> QED BY <1>3 DEF Min

LEMMA GreatestIs == ASSUME NEW S \in SUBSET Int, NEW x \in S, \A y \in S : y <= x PROVE Max(S) = x
<1>1. x >= x /\ \A y \in S : x >= y
  OBVIOUS
<1>2. Max(S) \in S /\ \A y \in S : Max(S) >= y
  BY <1>1 DEF Max
<1>3. Max(S) >= x /\ x >= Max(S) /\ Max(S) \in Int
  BY <1>2
<1> QED BY <1>3

\* The lowest live sector is not below one where the list ends.
LEMMA LiveAbove ==
    ASSUME NEW m, NEW b \in Pool, IsData(m, b) => ~m[b].more
    PROVE  LastBase(m) \in b .. NumSectors
<1>1. Live(m) \subseteq b .. NumSectors - 1
  <2> SUFFICES ASSUME NEW s \in Pool, Reaches(m, s), s < b PROVE FALSE
    BY Numbers DEF Live
  <2>1. b \in s .. NumSectors - 1 /\ b > s
    BY Numbers
  <2> QED BY <2>1 DEF Reaches
<1>2. IsFiniteSet(b .. NumSectors - 1) /\ Cardinality(b .. NumSectors - 1) = NumSectors - b
  <2>1. b \in Int /\ NumSectors - 1 \in Int /\ ~(b > NumSectors - 1)
    BY Numbers
  <2>2. IsFiniteSet(b .. NumSectors - 1)
    BY <2>1, FS_Interval
  <2>3. Cardinality(b .. NumSectors - 1) = IF b > NumSectors - 1 THEN 0 ELSE NumSectors - 1 - b + 1
    BY <2>1, FS_Interval
  <2>4. Cardinality(b .. NumSectors - 1) = NumSectors - 1 - b + 1
    BY <2>1, <2>3
  <2> QED BY <2>1, <2>2, <2>4, Numbers
<1>3. IsFiniteSet(Live(m)) /\ Cardinality(Live(m)) <= NumSectors - b
  <2>1. PICK S, L : S = b .. NumSectors - 1 /\ L = Live(m)
    OBVIOUS
  <2>2. IsFiniteSet(S) /\ L \in SUBSET S /\ Cardinality(S) = NumSectors - b
    BY <1>1, <1>2, <2>1
  <2>3. IsFiniteSet(L) /\ Cardinality(L) <= Cardinality(S)
    BY <2>2, FS_Subset
  <2> QED BY <2>1, <2>2, <2>3
<1>4. Cardinality(Live(m)) \in Nat
  BY <1>3, FS_CardinalityType
<1> QED BY <1>3, <1>4, Numbers DEF LastBase

LEMMA WalkLive ==
    ASSUME NEW m, NEW b, Walk(m, b)
    PROVE  Live(m) = b .. NumSectors - 1 /\ LastBase(m) = b /\ ~Corrupted(m)
<1>1. Live(m) = b .. NumSectors - 1
  <2>1. ASSUME NEW s \in b .. NumSectors - 1 PROVE s \in Live(m)
    BY Numbers DEF Live, Reaches, Walk
  <2>2. ASSUME NEW s \in Pool, Reaches(m, s), s < b PROVE FALSE
    <3>1. b \in s .. NumSectors - 1 /\ b > s
      BY <2>2, Numbers DEF Walk
    <3> QED BY <2>2, <3>1 DEF Reaches, Walk
  <2> QED BY <2>1, <2>2, Numbers DEF Live, Walk
<1>2. Cardinality(b .. NumSectors - 1) = NumSectors - b
  BY Numbers, FS_Interval DEF Walk
<1>3. LastBase(m) = b
  BY <1>1, <1>2, Numbers DEF LastBase, Walk
<1> QED BY <1>1, <1>3, Numbers DEF Corrupted, Walk

LEMMA WalkImage ==
    ASSUME NEW m, NEW b, Walk(m, b), IsData(m, Rom)
    PROVE  Image(m) = [s \in b .. NumSectors |-> m[s].change]
<1>1. Readable(m) = b .. NumSectors
  BY WalkLive, Numbers DEF Readable, Walk
<1> QED BY <1>1 DEF Image

LEMMA SameImage ==
    ASSUME NEW m, NEW n, NEW b, Walk(m, b), IsData(m, Rom), \A s \in b .. NumSectors : n[s] = m[s]
    PROVE  Walk(n, b) /\ IsData(n, Rom) /\ Image(n) = Image(m)
<1>1. IsData(n, Rom)
  BY Numbers DEF IsData, Walk
<1>2. Walk(n, b)
  BY Numbers DEF IsData, Walk
<1>3. Image(m) = [s \in b .. NumSectors |-> m[s].change] /\ Image(n) = [s \in b .. NumSectors |-> n[s].change]
  BY <1>1, <1>2, WalkImage
<1> QED BY <1>1, <1>2, <1>3

\* Reading through the cache.
LEMMA Reading ==
    Types =>
        /\ DOMAIN View = Sector
        /\ \A i \in Ready : flash_pages[i].addr \in Pool /\ View[flash_pages[i].addr] = flash_pages[i].data
        /\ \A s \in Sector : (\A i \in Ready : flash_pages[i].addr # s) => PageOf(s) = {} /\ View[s] = mem[s]
        /\ View[Rom] = mem[Rom]
        /\ (Ready = {} => \A s \in Sector : View[s] = mem[s])
        /\ Ready \subseteq Page
<1> SUFFICES ASSUME Types PROVE
        /\ DOMAIN View = Sector
        /\ \A i \in Ready : flash_pages[i].addr \in Pool /\ View[flash_pages[i].addr] = flash_pages[i].data
        /\ \A s \in Sector : (\A i \in Ready : flash_pages[i].addr # s) => PageOf(s) = {} /\ View[s] = mem[s]
        /\ View[Rom] = mem[Rom]
        /\ (Ready = {} => \A s \in Sector : View[s] = mem[s])
        /\ Ready \subseteq Page
  OBVIOUS
<1>1. DOMAIN View = Sector /\ Ready \subseteq Page
  BY DEF View, Ready
<1>2. \A i \in Ready : flash_pages[i].addr \in Pool
  BY DEF Types, Ready, NoPage
<1>3. ASSUME NEW i \in Ready PROVE View[flash_pages[i].addr] = flash_pages[i].data
  <2>1. PICK a : a = flash_pages[i].addr
    OBVIOUS
  <2>5. i \in Page /\ a \in Pool /\ a # None /\ a \in Sector
    BY <1>1, <1>2, <2>1, Numbers
  <2>6. ASSUME NEW n \in Page, flash_pages[n].addr = a PROVE n = i
    <3>1. n \in Ready
      BY <2>5, <2>6 DEF Ready
    <3> QED BY <2>1, <2>6, <3>1 DEF Types
  <2>2. PageOf(a) = {i}
    BY <2>1, <2>5, <2>6 DEF PageOf
  <2>3. View[a] = flash_pages[CHOOSE n \in {i} : TRUE].data
    BY <2>2, <2>5 DEF View
  <2>4. (CHOOSE n \in {i} : TRUE) = i
    OBVIOUS
  <2> QED BY <2>1, <2>3, <2>4
<1>4. ASSUME NEW s \in Sector, \A i \in Ready : flash_pages[i].addr # s PROVE PageOf(s) = {} /\ View[s] = mem[s]
  <2>1. PageOf(s) = {}
    BY <1>4, Numbers DEF PageOf, Ready
  <2> QED BY <2>1 DEF View
<1> QED BY <1>1, <1>2, <1>3, <1>4, Numbers

LEMMA ReadingLater ==
    Types' =>
       (/\ DOMAIN View = Sector
        /\ \A i \in Ready : flash_pages[i].addr \in Pool /\ View[flash_pages[i].addr] = flash_pages[i].data
        /\ \A s \in Sector : (\A i \in Ready : flash_pages[i].addr # s) => PageOf(s) = {} /\ View[s] = mem[s]
        /\ View[Rom] = mem[Rom]
        /\ (Ready = {} => \A s \in Sector : View[s] = mem[s])
        /\ Ready \subseteq Page)'
BY Reading, PTL

-----------------------------------------------------------------------------
(* Recovery *)

Statuses == {"erased", "empty", "pending", "done"}

\* What a change of an entry's status leaves of a journal sector.
Marked(m, n, j, k, status) ==
    /\ \A s \in Sector : s # j => n[s] = m[s]
    /\ n[j].kind = "journal"
    /\ n[j].entries[k].targets = m[j].entries[k].targets /\ n[j].entries[k].status = status
    /\ \A l \in Slot : l # k => n[j].entries[l] = m[j].entries[l]

LEMMA StatusSet ==
    ASSUME NEW m, IsImage(m), NEW j \in Sector, m[j].kind = "journal", NEW k \in Slot, NEW status \in Statuses
    PROVE  IsImage(SetStatus(m, j, k, status)) /\ Marked(m, SetStatus(m, j, k, status), j, k, status)
<1> DEFINE n == SetStatus(m, j, k, status)
<1>1. PICK e \in [Slot -> Entries] : m[j] = [kind |-> "journal", entries |-> e]
  BY DEF IsImage, Journal
<1>2. n = [m EXCEPT ![j] = [kind |-> "journal", entries |-> [e EXCEPT ![k] = [targets |-> e[k].targets, status |-> status]]]]
  <2>1. n = [m EXCEPT ![j].entries[k].status = status]
    BY DEF SetStatus
  <2>2. e[k] \in Entries
    OBVIOUS
  <2>3. [e[k] EXCEPT !.status = status] = [targets |-> e[k].targets, status |-> status]
    BY <2>2 DEF Entries
  <2>4. m[j].entries = e
    BY <1>1
  <2>5. PICK g : g = [e EXCEPT ![k] = [targets |-> e[k].targets, status |-> status]]
    OBVIOUS
  <2>6. [m[j] EXCEPT !.entries = g] = [kind |-> "journal", entries |-> g]
    BY <1>1
  <2>7. [e EXCEPT ![k] = [e[k] EXCEPT !.status = status]] = g
    BY <2>3, <2>5
  <2>8. n = [m EXCEPT ![j] = [m[j] EXCEPT !.entries = [e EXCEPT ![k] = [e[k] EXCEPT !.status = status]]]]
    BY <2>1, <2>4
  <2> QED BY <2>5, <2>6, <2>7, <2>8
<1>3. [targets |-> e[k].targets, status |-> status] \in Entries
  BY DEF Entries, Statuses
<1> DEFINE f == [e EXCEPT ![k] = [targets |-> e[k].targets, status |-> status]]
<1>4. f \in [Slot -> Entries] /\ f[k] = [targets |-> e[k].targets, status |-> status] /\ \A l \in Slot : l # k => f[l] = e[l]
  BY <1>3
<1>5. DOMAIN n = Sector /\ n[j] = [kind |-> "journal", entries |-> f] /\ \A s \in Sector : s # j => n[s] = m[s]
  BY <1>2 DEF IsImage
<1> HIDE DEF n, f
<1>6. Marked(m, n, j, k, status)
  BY <1>1, <1>4, <1>5 DEF Marked
<1>7. IsImage(n)
  <2>1. j # Rom
    BY DEF IsImage, IsData
  <2>2. IsData(n, Rom)
    BY <1>5, <2>1, Numbers DEF IsImage, IsData
  <2>3. n[j] = Journal(n[j].entries) /\ n[j].entries \in [Slot -> Entries]
    BY <1>4, <1>5 DEF Journal
  <2> QED BY <1>5, <2>2, <2>3 DEF IsImage
<1> QED BY <1>6, <1>7 DEF n

LEMMA ReplayedIs ==
    ASSUME NEW m, NEW j, NEW k, NEW I
    PROVE  /\ DOMAIN Replayed(m, j, k, I) = Sector
           /\ \A s \in Sector :
                  \/ (\A i \in I : m[j].entries[k].targets[i] # s) /\ Replayed(m, j, k, I)[s] = m[s]
                  \/ \E i \in I : m[j].entries[k].targets[i] = s /\ Replayed(m, j, k, I)[s] = m[j - i]
<1>1. DOMAIN Replayed(m, j, k, I) = Sector
  BY DEF Replayed
<1>2. ASSUME NEW s \in Sector, NEW W, W = {i \in I : m[j].entries[k].targets[i] = s}
      PROVE  \/ (\A i \in I : m[j].entries[k].targets[i] # s) /\ Replayed(m, j, k, I)[s] = m[s]
             \/ \E i \in I : m[j].entries[k].targets[i] = s /\ Replayed(m, j, k, I)[s] = m[j - i]
  <2>1. Replayed(m, j, k, I)[s] = IF W = {} THEN m[s] ELSE m[RedoOf(j, CHOOSE i \in W : TRUE)]
    BY <1>2 DEF Replayed
  <2>2. CASE W = {}
    BY <1>2, <2>1, <2>2
  <2>3. CASE W # {}
    <3>1. PICK x : x = CHOOSE i \in W : TRUE
      OBVIOUS
    <3>2. x \in W
      BY <2>3, <3>1
    <3>3. Replayed(m, j, k, I)[s] = m[j - x]
      BY <2>1, <2>3, <3>1 DEF RedoOf
    <3> QED BY <1>2, <3>2, <3>3
  <2> QED BY <2>2, <2>3
<1> QED BY <1>1, <1>2

LEMMA RecoveredIs ==
    ASSUME NEW m, NEW j, NEW k, Candidates(m) = {<<j, k>>}
    PROVE  Recovered(m) = SetStatus(Replayed(m, j, k, Page), j, k, "done")
<1>1. PICK c : c = CHOOSE x \in Candidates(m) : TRUE
  OBVIOUS
<1>2. c = <<j, k>>
  BY <1>1
<1>3. Recovered(m) = SetStatus(Replayed(m, c[1], c[2], Page), c[1], c[2], "done")
  BY <1>1 DEF Recovered
<1>4. c[1] = j /\ c[2] = k
  BY <1>2
<1> QED BY <1>3, <1>4

\* A change below the data that writes no journal.
LEMMA BelowData ==
    ASSUME NEW m, NEW n, NEW b, IsImage(m), Restful(m, b), DOMAIN n = Sector,
           \A s \in Sector : n[s] = m[s] \/ (s < b /\ n[s].kind # "journal")
    PROVE  IsImage(n) /\ Restful(n, b) /\ \A s \in b .. NumSectors : n[s] = m[s]
<1>1. \A s \in b .. NumSectors : n[s] = m[s]
  BY Numbers DEF Restful, Walk
<1>2. Walk(n, b) /\ IsData(n, Rom)
  BY <1>1, Numbers DEF Restful, Walk, IsImage, IsData
<1>3. Places(n, b)
  BY DEF Restful, Places
<1>4. \A s \in Sector, k \in Slot : PendingAt(n, s, k) => Harmless(n, b, s, k)
  BY DEF Restful, PendingAt, Harmless
<1>5. IsImage(n)
  BY <1>2 DEF IsImage
<1> QED BY <1>1, <1>2, <1>3, <1>4, <1>5 DEF Restful

\* What recovery can find in an image at rest: the entry of a growth that was stopped.
LEMMA OldCandidate ==
    ASSUME NEW m, NEW b, IsImage(m), Restful(m, b), Candidates(m) # {}
    PROVE  \E k \in Slot : Candidates(m) = {<<b - 2, k>>} /\ PendingAt(m, b - 2, k) /\ b - 2 \in Pool
<1>1. PICK found : found = JournalSectors(m)
  OBVIOUS
<1>2. LastBase(m) = b /\ ~Corrupted(m) /\ b \in Pool
  BY WalkLive DEF Restful, Walk
<1>3. found = {s \in 0 .. b - 1 : ValidSlots(m, s) # {}}
  BY <1>1, <1>2 DEF JournalSectors
<1>4. \A s \in found : m[s].kind = "journal" /\ s \in Pool /\ s \in {b - 1, b - 2}
  BY <1>2, <1>3, Numbers DEF ValidSlots, Restful, Places
<1>5. found # {}
  BY <1>1 DEF Candidates
<1>6. PICK j : j = Max(found)
  OBVIOUS
<1>7. j \in found
  <2>1. CASE b - 1 \in found
    <3>1. \A y \in found : y <= b - 1
      BY <1>2, <1>4, Numbers
    <3>2. found \in SUBSET Int
      BY <1>2, <1>4, Numbers
    <3> QED BY <1>6, <2>1, <3>1, <3>2, GreatestIs
  <2>2. CASE b - 1 \notin found
    <3>1. found = {b - 2}
      BY <1>4, <1>5, <2>2
    <3>2. \A y \in found : y <= b - 2
      BY <1>2, <3>1, Numbers
    <3>3. found \in SUBSET Int
      BY <1>2, <1>4, Numbers
    <3> QED BY <1>6, <3>1, <3>2, <3>3, GreatestIs
  <2> QED BY <2>1, <2>2
<1>8. PICK P : P = {k \in ValidSlots(m, j) : m[j].entries[k].status = "pending"}
  OBVIOUS
<1>9. Candidates(m) = IF P = {} THEN {} ELSE {<<j, Min(P)>>}
  BY <1>1, <1>2, <1>5, <1>6, <1>8 DEF Candidates
<1>10. P # {} /\ Candidates(m) = {<<j, Min(P)>>}
  BY <1>9
<1>11. P \subseteq Slot /\ \A k \in P : PendingAt(m, j, k)
  BY <1>4, <1>7, <1>8 DEF ValidSlots, PendingAt
<1>12. Min(P) \in P
  BY <1>10, <1>11, Numbers, LeastIn
<1>13. j \in Sector
  BY <1>4, <1>7, Numbers
<1>14. j = b - 2
  BY <1>11, <1>12, <1>13 DEF Restful, Harmless
<1> QED BY <1>4, <1>7, <1>10, <1>11, <1>12, <1>14

\* Replaying pages of such an entry, all or some.
LEMMA OldReplay ==
    ASSUME NEW m, NEW b, IsImage(m), Restful(m, b), NEW k \in Slot, PendingAt(m, b - 2, k), b - 2 \in Pool,
           NEW I \in SUBSET Page
    PROVE  \A s \in Sector : \/ Replayed(m, b - 2, k, I)[s] = m[s]
                             \/ s = b - 1 /\ \E x \in Sector : Replayed(m, b - 2, k, I)[s] = m[x] /\ m[x].kind # "journal"
<1> SUFFICES ASSUME NEW s \in Sector, Replayed(m, b - 2, k, I)[s] # m[s]
             PROVE  s = b - 1 /\ \E x \in Sector : Replayed(m, b - 2, k, I)[s] = m[x] /\ m[x].kind # "journal"
  OBVIOUS
<1>1. PICK i \in I : m[b - 2].entries[k].targets[i] = s /\ Replayed(m, b - 2, k, I)[s] = m[b - 2 - i]
  BY ReplayedIs
<1>2. Harmless(m, b, b - 2, k)
  BY Numbers DEF Restful
<1>3. s = b - 1 /\ b - 2 - i \in Nat
  BY <1>1, <1>2, Numbers DEF Harmless
<1>4. b - 2 - i \in Sector /\ b - 2 - i < b - 2
  BY <1>3, Numbers
<1>5. m[b - 2 - i].kind # "journal"
  <2>1. b \in Int /\ i \in Int
    BY Numbers DEF Restful, Walk
  <2>2. b - 2 - i # b - 1 /\ b - 2 - i # b - 2
    BY <1>4, <2>1
  <2> QED BY <1>4, <2>2 DEF Restful, Places
<1> QED BY <1>1, <1>3, <1>4, <1>5

\* Recovery, and a recovery that is cut short, leave the data of an image at rest alone.
LEMMA RestfulRecovery ==
    ASSUME NEW m, NEW b, IsImage(m), Restful(m, b)
    PROVE  /\ IsImage(Recovered(m)) /\ Restful(Recovered(m), b)
           /\ \A s \in b .. NumSectors : Recovered(m)[s] = m[s]
           /\ \A s \in Sector : IsData(Recovered(m), s) => \E x \in Sector : Recovered(m)[s] = m[x]
<1>1. CASE Candidates(m) = {}
  <2>1. Recovered(m) = m
    BY <1>1 DEF Recovered
  <2>2. \A s \in b .. NumSectors : Recovered(m)[s] = m[s]
    BY <2>1
  <2> QED BY <2>1, <2>2
<1>2. CASE Candidates(m) # {}
  <2>1. PICK k \in Slot : Candidates(m) = {<<b - 2, k>>} /\ PendingAt(m, b - 2, k) /\ b - 2 \in Pool
    BY <1>2, OldCandidate
  <2>2. PICK n : n = Replayed(m, b - 2, k, Page)
    OBVIOUS
  <2>3. \A s \in Sector : n[s] = m[s] \/ (s = b - 1 /\ \E x \in Sector : n[s] = m[x] /\ m[x].kind # "journal")
    BY <2>1, <2>2, OldReplay
  <2>4. DOMAIN n = Sector
    BY <2>2, ReplayedIs
  <2>5. b \in Pool
    BY DEF Restful, Walk
  <2>6. IsImage(n) /\ Restful(n, b) /\ \A s \in b .. NumSectors : n[s] = m[s]
    BY <2>3, <2>4, <2>5, BelowData, Numbers
  <2>7. b - 2 \in Sector /\ n[b - 2] = m[b - 2] /\ n[b - 2].kind = "journal"
    BY <2>1, <2>3, <2>5, Numbers DEF PendingAt
  <2>8. PICK r : r = SetStatus(n, b - 2, k, "done")
    OBVIOUS
  <2>9. Recovered(m) = r
    BY <2>1, <2>2, <2>8, RecoveredIs
  <2>10. IsImage(r) /\ Marked(n, r, b - 2, k, "done")
    BY <2>6, <2>7, <2>8, StatusSet DEF Statuses
  <2>11. \A s \in b .. NumSectors : r[s] = m[s]
    BY <2>5, <2>6, <2>10, Numbers DEF Marked
  <2>12. Restful(r, b)
    <3>1. Walk(r, b)
      BY <2>11, Numbers DEF Restful, Walk, IsData
    <3>2. Places(r, b)
      BY <2>6, <2>10 DEF Restful, Places, Marked
    <3>3. ASSUME NEW s \in Sector, NEW l \in Slot, PendingAt(r, s, l) PROVE Harmless(r, b, s, l)
      <4>1. CASE s # b - 2
        BY <2>6, <2>10, <3>3, <4>1 DEF Restful, PendingAt, Harmless, Marked
      <4>2. CASE s = b - 2
        <5>1. l # k /\ r[s].entries[l] = n[s].entries[l]
          BY <2>10, <3>3, <4>2 DEF PendingAt, Marked
        <5>2. PendingAt(n, s, l)
          BY <2>7, <3>3, <4>2, <5>1 DEF PendingAt
        <5> QED BY <2>6, <5>1, <5>2 DEF Restful, Harmless
      <4> QED BY <4>1, <4>2
    <3> QED BY <3>1, <3>2, <3>3 DEF Restful
  <2>13. \A s \in Sector : IsData(r, s) => \E x \in Sector : r[s] = m[x]
    BY <2>3, <2>10 DEF Marked, IsData
  <2> QED BY <2>9, <2>10, <2>11, <2>12, <2>13
<1> QED BY <1>1, <1>2

\* What a recovery that was cut short leaves.
Cut(m, c, n) == [Replayed(m, c[1], c[2], 1 .. n - 1) EXCEPT ![m[c[1]].entries[c[2]].targets[n]] = Torn]

LEMMA RestfulCut ==
    ASSUME NEW m, NEW b, IsImage(m), Restful(m, b), NEW c \in Candidates(m), NEW n \in Page,
           m[c[1]].entries[c[2]].targets[n] # None
    PROVE  /\ IsImage(Cut(m, c, n)) /\ Restful(Cut(m, c, n), b)
           /\ \A s \in b .. NumSectors : Cut(m, c, n)[s] = m[s]
           /\ \A s \in Sector : IsData(Cut(m, c, n), s) => \E x \in Sector : Cut(m, c, n)[s] = m[x]
<1>1. PICK k \in Slot : Candidates(m) = {<<b - 2, k>>} /\ PendingAt(m, b - 2, k) /\ b - 2 \in Pool
  BY OldCandidate
<1>2. c[1] = b - 2 /\ c[2] = k
  BY <1>1
<1>3. b \in Pool
  BY DEF Restful, Walk
<1>4. m[b - 2].entries[k].targets[n] = b - 1
  BY <1>1, <1>2, Numbers DEF Restful, Harmless
<1>5. PICK I : I = 1 .. n - 1
  OBVIOUS
<1>6. I \in SUBSET Page
  BY <1>5, Numbers
<1>0. PICK y : y = Replayed(m, b - 2, k, I)
  OBVIOUS
<1>7. \A s \in Sector : y[s] = m[s] \/ (s = b - 1 /\ \E x \in Sector : y[s] = m[x] /\ m[x].kind # "journal")
  BY <1>0, <1>1, <1>6, OldReplay
<1>8. DOMAIN y = Sector
  BY <1>0, ReplayedIs
<1>9. PICK z : z = Cut(m, c, n)
  OBVIOUS
<1>10. z = [y EXCEPT ![b - 1] = Torn]
  BY <1>0, <1>2, <1>4, <1>5, <1>9 DEF Cut
<1>11. b - 1 \in Sector /\ b - 1 < b
  BY <1>1, <1>3, Numbers
<1>12. DOMAIN z = Sector /\ z[b - 1] = Torn /\ \A s \in Sector : s # b - 1 => z[s] = m[s]
  BY <1>7, <1>8, <1>10, <1>11
<1>13. z[b - 1].kind = "torn"
  BY <1>12 DEF Torn
<1>14. \A s \in Sector : z[s] = m[s] \/ (s < b /\ z[s].kind # "journal")
  BY <1>11, <1>12, <1>13
<1>15. IsImage(z) /\ Restful(z, b) /\ \A s \in b .. NumSectors : z[s] = m[s]
  BY <1>12, <1>14, BelowData
<1>16. \A s \in Sector : IsData(z, s) => \E x \in Sector : z[s] = m[x]
  BY <1>12, <1>13 DEF IsData
<1> QED BY <1>9, <1>15, <1>16

-----------------------------------------------------------------------------
(* Recovery of a batch *)

\* The image holds what it takes to write the batch again that makes its data those of V.
Redoable(m, V, b, k) ==
    /\ IsImage(m) /\ b \in Pool /\ b - 1 \in Pool /\ k \in Slot
    /\ Walk(V, b)
    /\ Places(m, b)
    /\ IsData(m, b) => ~m[b].more
    /\ PendingAt(m, b - 1, k)
    /\ \A l \in Slot : /\ l # k => ~PendingAt(m, b - 1, l)
                       /\ l > k => m[b - 1].entries[l] = NoEntry
    /\ \A s \in Sector, l \in Slot : s # b - 1 /\ PendingAt(m, s, l) => Harmless(m, b, s, l)
    /\ \E i \in Page : m[b - 1].entries[k].targets[i] # None
    /\ \A i \in Page : m[b - 1].entries[k].targets[i] # None =>
           /\ m[b - 1].entries[k].targets[i] \in b .. NumSectors - 1
           /\ b - 1 - i \in Nat
           /\ m[b - 1 - i] = V[m[b - 1].entries[k].targets[i]]
    /\ \A s \in Sector : s # b - 1 /\ (\A i \in Page : m[b - 1].entries[k].targets[i] # s) => m[s] = V[s]

LEMMA BatchCandidate ==
    ASSUME NEW m, NEW V, NEW b, NEW k, Redoable(m, V, b, k)
    PROVE  Candidates(m) = {<<b - 1, k>>}
<1>1. b \in Int /\ b - 1 \in Pool /\ k \in Slot /\ b - 1 \in Sector
  BY Numbers DEF Redoable
<1>2. PICK e : e = m[b - 1].entries
  OBVIOUS
<1>3. m[b - 1].kind = "journal" /\ e \in [Slot -> Entries] /\ e[k].status = "pending"
  BY <1>1, <1>2 DEF Redoable, PendingAt, IsImage
<1>4. PICK base : base = LastBase(m)
  OBVIOUS
<1>5. base \in b .. NumSectors
  BY <1>4, LiveAbove DEF Redoable
<1>6. PICK found : found = JournalSectors(m)
  OBVIOUS
<1>7. found = {s \in 0 .. base - 1 : ValidSlots(m, s) # {}}
  BY <1>4, <1>6 DEF JournalSectors
<1>8. PICK S : S = ValidSlots(m, b - 1)
  OBVIOUS
<1>9. S = {l \in Slot : Valid(e[l], b - 1)}
  BY <1>2, <1>3, <1>8 DEF ValidSlots
<1>10. Valid(e[k], b - 1)
  <2>1. PICK used : used = {i \in Page : e[k].targets[i] # None}
    OBVIOUS
  <2>2. used # {}
    BY <1>2, <2>1 DEF Redoable
  <2>3. \A i \in used : e[k].targets[i] \in b .. NumSectors - 1 /\ b - 1 - i \in Nat
    BY <1>2, <2>1 DEF Redoable
  <2>4. b .. NumSectors - 1 \subseteq Pool
    BY Numbers DEF Redoable
  <2>5. \A i \in used : e[k].targets[i] \in Pool /\ RedoOf(b - 1, i) >= 0
    BY <2>3, <2>4 DEF RedoOf
  <2> QED BY <1>3, <2>1, <2>2, <2>5 DEF Valid
<1>11. \A l \in S : l <= k
  <2>1. \A l \in Slot : l > k => e[l] = NoEntry
    BY <1>2 DEF Redoable
  <2>2. ~Valid(NoEntry, b - 1)
    BY DEF Valid, NoEntry
  <2> QED BY <1>1, <1>9, <2>1, <2>2, Numbers
<1>12. k \in S
  BY <1>1, <1>9, <1>10
<1>13. Max(S) = k
  <2>1. S \in SUBSET Int
    BY <1>9, Numbers
  <2> QED BY <1>11, <1>12, <2>1, GreatestIs
<1>15. b - 1 \in found
  <2>1. b - 1 \in 0 .. base - 1
    BY <1>1, <1>5, Numbers
  <2> QED BY <1>7, <1>8, <1>12, <2>1
<1>14. Max(found) = b - 1
  <2>2. \A s \in found : s <= b - 1
    <3>1. \A s \in found : m[s].kind = "journal" /\ s \in Sector
      BY <1>5, <1>7, Numbers DEF ValidSlots
    <3> QED BY <1>1, <3>1 DEF Redoable, Places
  <2>3. found \in SUBSET Int
    BY <1>5, <1>7, Numbers
  <2> QED BY <1>15, <2>2, <2>3, GreatestIs
<1>16. PICK P : P = {l \in S : e[l].status = "pending"}
  OBVIOUS
<1>17. P = {k}
  BY <1>2, <1>3, <1>9, <1>12, <1>16 DEF Redoable, PendingAt
<1>18. Min(P) = k
  <2>1. P \in SUBSET Nat /\ P # {}
    BY <1>1, <1>17, Numbers
  <2>2. Min(P) \in P
    BY <2>1, LeastIn
  <2> QED BY <1>17, <2>2
<1>19. Candidates(m) = IF Corrupted(m) THEN {<<b - 1, ForcedSlot(S)>>} ELSE IF P = {} THEN {} ELSE {<<b - 1, Min(P)>>}
  BY <1>2, <1>6, <1>8, <1>14, <1>15, <1>16 DEF Candidates
<1> QED BY <1>13, <1>17, <1>18, <1>19 DEF ForcedSlot

\* Recovery of a batch makes its data those of V.
LEMMA BatchRecovery ==
    ASSUME NEW m, NEW V, NEW b, NEW k, Redoable(m, V, b, k), IsData(V, Rom)
    PROVE  /\ IsImage(Recovered(m)) /\ Restful(Recovered(m), b)
           /\ \A s \in b .. NumSectors : Recovered(m)[s] = V[s]
           /\ \A s \in Sector : IsData(Recovered(m), s) => Recovered(m)[s] = V[s]
<1>1. b \in Int /\ b \in Pool /\ b - 1 \in Pool /\ k \in Slot /\ b - 1 \in Sector
  BY Numbers DEF Redoable
<1>2. PICK T : T = m[b - 1].entries[k].targets
  OBVIOUS
<1>3. \A i \in Page : T[i] # None => T[i] \in b .. NumSectors - 1 /\ m[b - 1 - i] = V[T[i]]
  BY <1>2 DEF Redoable
<1>4. \A s \in Sector : s # b - 1 /\ (\A i \in Page : T[i] # s) => m[s] = V[s]
  BY <1>2 DEF Redoable
<1>5. PICK n : n = Replayed(m, b - 1, k, Page)
  OBVIOUS
<1>6. DOMAIN n = Sector
  BY <1>5, ReplayedIs
<1>7. \A s \in Sector : \/ (\A i \in Page : T[i] # s) /\ n[s] = m[s]
                        \/ \E i \in Page : T[i] = s /\ n[s] = m[b - 1 - i]
  BY <1>2, <1>5, ReplayedIs
<1>8. \A s \in Sector : s # b - 1 => n[s] = V[s]
  <2> SUFFICES ASSUME NEW s \in Sector, s # b - 1 PROVE n[s] = V[s]
    OBVIOUS
  <2>1. CASE (\A i \in Page : T[i] # s) /\ n[s] = m[s]
    BY <1>4, <2>1
  <2>2. CASE \E i \in Page : T[i] = s /\ n[s] = m[b - 1 - i]
    <3>1. PICK i \in Page : T[i] = s /\ n[s] = m[b - 1 - i]
      BY <2>2
    <3>2. T[i] # None
      BY <3>1, Numbers
    <3> QED BY <1>3, <3>1, <3>2
  <2> QED BY <1>7, <2>1, <2>2
<1>9. n[b - 1] = m[b - 1]
  <2>1. b - 1 \notin b .. NumSectors - 1 /\ None # b - 1
    BY <1>1, Numbers
  <2>2. \A i \in Page : T[i] # b - 1
    BY <1>3, <2>1
  <2> QED BY <1>1, <1>7, <2>2
<1>10. \A s \in Sector : s < b => n[s] = m[s]
  <2> SUFFICES ASSUME NEW s \in Sector, s < b PROVE n[s] = m[s]
    OBVIOUS
  <2>1. s \notin b .. NumSectors - 1 /\ None # s
    BY <1>1, Numbers
  <2>2. \A i \in Page : T[i] # s
    BY <1>3, <2>1
  <2> QED BY <1>7, <2>2
<1>11. \A s \in b .. NumSectors : s \in Sector /\ n[s] = V[s] /\ n[s].kind = "data"
  BY <1>1, <1>8, Numbers DEF Redoable, Walk, IsData
<1>12. IsImage(n)
  <2>1. IsData(n, Rom)
    BY <1>1, <1>11, Numbers DEF IsData
  <2>2. ASSUME NEW s \in Sector, n[s].kind = "journal" PROVE n[s] = m[s]
    BY <1>1, <1>10, <1>11, <2>2, Numbers
  <2>3. IsImage(m)
    BY DEF Redoable
  <2> QED BY <1>6, <2>1, <2>2, <2>3 DEF IsImage
<1>13. n[b - 1].kind = "journal"
  BY <1>9 DEF Redoable, PendingAt
<1>14. PICK r : r = SetStatus(n, b - 1, k, "done")
  OBVIOUS
<1>15. Recovered(m) = r
  BY <1>5, <1>14, BatchCandidate, RecoveredIs
<1>16. IsImage(r) /\ Marked(n, r, b - 1, k, "done")
  BY <1>1, <1>12, <1>13, <1>14, StatusSet DEF Statuses
<1>17. \A s \in b .. NumSectors : r[s] = V[s]
  BY <1>1, <1>11, <1>16 DEF Marked
<1>18. Walk(r, b)
  <2>1. Walk(V, b)
    BY DEF Redoable
  <2>2. b \in b .. NumSectors /\ \A s \in b .. NumSectors - 1 : s \in b .. NumSectors
    BY <1>1, Numbers
  <2>3. \A s \in b + 1 .. NumSectors - 1 : s \in b .. NumSectors
    BY <1>1, Numbers
  <2> QED BY <1>17, <2>1, <2>2, <2>3 DEF Walk, IsData
<1>19. \A s \in Sector : s < b => r[s] = m[s] \/ s = b - 1
  BY <1>10, <1>16 DEF Marked
<1>20. \A s \in Sector : s >= b => r[s].kind = "data"
  BY <1>1, <1>11, <1>17, Numbers
<1>21. Places(r, b)
  <2>1. \A s \in Sector : r[s].kind = "journal" => s < b
    BY <1>1, <1>20, Numbers
  <2> QED BY <1>19, <2>1 DEF Redoable, Places
<1>22. ASSUME NEW s \in Sector, NEW l \in Slot, PendingAt(r, s, l) PROVE Harmless(r, b, s, l)
  <2>1. s < b
    BY <1>1, <1>20, <1>22, Numbers DEF PendingAt
  <2>2. CASE s = b - 1
    <3>1. l # k /\ r[s].entries[l] = n[s].entries[l]
      BY <1>16, <1>22, <2>2 DEF PendingAt, Marked
    <3>2. PendingAt(m, b - 1, l)
      BY <1>9, <1>13, <1>22, <2>2, <3>1 DEF PendingAt
    <3> QED BY <3>1, <3>2 DEF Redoable
  <2>3. CASE s # b - 1
    <3>1. r[s] = m[s]
      BY <1>19, <2>1, <2>3
    <3>2. Harmless(m, b, s, l)
      BY <1>22, <2>3, <3>1 DEF Redoable, PendingAt
    <3> QED BY <3>1, <3>2 DEF Harmless
  <2> QED BY <2>2, <2>3
<1>23. Restful(r, b)
  BY <1>18, <1>21, <1>22 DEF Restful
<1>24. \A s \in Sector : IsData(r, s) => r[s] = V[s]
  BY <1>8, <1>16 DEF Marked, IsData
<1> QED BY <1>15, <1>16, <1>17, <1>23, <1>24

\* A recovery that is cut short leaves what it takes to recover.
LEMMA BatchCut ==
    ASSUME NEW m, NEW V, NEW b, NEW k, Redoable(m, V, b, k), NEW c \in Candidates(m), NEW n \in Page,
           m[c[1]].entries[c[2]].targets[n] # None
    PROVE  Redoable(Cut(m, c, n), V, b, k)
<1>1. b \in Int /\ b \in Pool /\ b - 1 \in Pool /\ k \in Slot /\ b - 1 \in Sector
  BY Numbers DEF Redoable
<1>2. PICK T : T = m[b - 1].entries[k].targets
  OBVIOUS
<1>3. \A i \in Page : T[i] # None => T[i] \in b .. NumSectors - 1 /\ b - 1 - i \in Nat /\ m[b - 1 - i] = V[T[i]]
  BY <1>2 DEF Redoable
<1>4. c = <<b - 1, k>>
  BY BatchCandidate
<1>5. PICK I : I = 1 .. n - 1
  OBVIOUS
<1>6. I \subseteq Page
  BY <1>5, Numbers
<1>7. PICK y : y = Replayed(m, b - 1, k, I)
  OBVIOUS
<1>8. DOMAIN y = Sector
  BY <1>7, ReplayedIs
<1>9. \A s \in Sector : \/ y[s] = m[s]
                        \/ \E i \in I : T[i] = s /\ y[s] = m[b - 1 - i]
  BY <1>2, <1>7, ReplayedIs
<1>10. PICK z : z = Cut(m, c, n)
  OBVIOUS
<1>11. z = [y EXCEPT ![T[n]] = Torn] /\ T[n] # None
  <2>1. c[1] = b - 1 /\ c[2] = k
    BY <1>4
  <2>2. m[c[1]].entries[c[2]].targets = T
    BY <1>2, <2>1
  <2>3. Replayed(m, c[1], c[2], 1 .. n - 1) = y
    BY <1>5, <1>7, <2>1
  <2> QED BY <1>10, <2>2, <2>3 DEF Cut
<1>12. T[n] \in b .. NumSectors - 1 /\ T[n] \in Sector
  BY <1>1, <1>3, <1>11, Numbers
<1>13. DOMAIN z = Sector
  BY <1>8, <1>11
<1>14. \A s \in Sector : z[s] = m[s] \/ \E i \in Page : T[i] = s /\ s \in b .. NumSectors - 1 /\ z[s] \in {V[s], Torn}
  <2> SUFFICES ASSUME NEW s \in Sector, z[s] # m[s]
               PROVE  \E i \in Page : T[i] = s /\ s \in b .. NumSectors - 1 /\ z[s] \in {V[s], Torn}
    OBVIOUS
  <2>1. CASE s = T[n]
    BY <1>8, <1>11, <1>12, <2>1
  <2>2. CASE s # T[n]
    <3>1. z[s] = y[s]
      BY <1>8, <1>11, <2>2
    <3>2. PICK i \in I : T[i] = s /\ y[s] = m[b - 1 - i]
      BY <1>9, <3>1
    <3>3. i \in Page /\ T[i] # None
      BY <1>6, <3>2, Numbers
    <3> QED BY <1>3, <3>1, <3>2, <3>3
  <2> QED BY <2>1, <2>2
<1>15. \A s \in b .. NumSectors - 1 : V[s].kind = "data"
  BY DEF Redoable, Walk, IsData
<1>16. \A s \in Sector : z[s] = m[s] \/ (s >= b /\ s # Rom /\ z[s].kind # "journal")
  <2> SUFFICES ASSUME NEW s \in Sector, z[s] # m[s] PROVE s >= b /\ s # Rom /\ z[s].kind # "journal"
    OBVIOUS
  <2>1. s \in b .. NumSectors - 1 /\ z[s] \in {V[s], Torn}
    BY <1>14
  <2>2. z[s].kind # "journal"
    BY <1>15, <2>1 DEF Torn
  <2>3. s >= b /\ s # Rom
    BY <1>1, <2>1, Numbers
  <2> QED BY <2>2, <2>3
<1>17. \A s \in Sector : s < b => z[s] = m[s]
  BY <1>1, <1>16, Numbers
<1>18. IsImage(z)
  <2>1. IsImage(m)
    BY DEF Redoable
  <2>2. z[Rom] = m[Rom]
    BY <1>16, Numbers
  <2>3. IsData(z, Rom)
    BY <2>1, <2>2 DEF IsImage, IsData
  <2> QED BY <1>13, <1>16, <2>1, <2>3 DEF IsImage
<1>19. Places(z, b)
  BY <1>16 DEF Redoable, Places
<1>20. IsData(z, b) => ~z[b].more
  <2>1. b \in Sector
    BY <1>1, Numbers
  <2>2. z[b] = m[b] \/ z[b] = V[b] \/ z[b] = Torn
    BY <1>14, <2>1
  <2>3. ~V[b].more
    BY DEF Redoable, Walk
  <2>4. Torn.kind # "data"
    BY DEF Torn
  <2> QED BY <2>2, <2>3, <2>4 DEF Redoable, IsData
<1>21. z[b - 1] = m[b - 1]
  BY <1>1, <1>17
<1>22. PendingAt(z, b - 1, k)
  BY <1>21 DEF Redoable, PendingAt
<1>23. \A l \in Slot : (l # k => ~PendingAt(z, b - 1, l)) /\ (l > k => z[b - 1].entries[l] = NoEntry)
  BY <1>21 DEF Redoable, PendingAt
<1>24. ASSUME NEW s \in Sector, NEW l \in Slot, s # b - 1, PendingAt(z, s, l) PROVE Harmless(z, b, s, l)
  <2>1. z[s] = m[s]
    BY <1>16, <1>24 DEF PendingAt
  <2>2. Harmless(m, b, s, l)
    BY <1>24, <2>1 DEF Redoable, PendingAt
  <2> QED BY <2>1, <2>2 DEF Harmless
<1>25. \E i \in Page : z[b - 1].entries[k].targets[i] # None
  BY <1>21 DEF Redoable
<1>26. \A i \in Page : T[i] # None => T[i] \in b .. NumSectors - 1 /\ b - 1 - i \in Nat /\ z[b - 1 - i] = V[T[i]]
  <2>1. ASSUME NEW i \in Page, T[i] # None PROVE z[b - 1 - i] = V[T[i]]
    <3>1. PICK p : p = b - 1 - i
      OBVIOUS
    <3>2. p \in Nat /\ m[p] = V[T[i]]
      BY <1>3, <2>1, <3>1
    <3>3. p \in Sector /\ p < b
      BY <1>1, <3>1, <3>2, Numbers
    <3>4. z[p] = m[p]
      BY <1>17, <3>3
    <3> QED BY <3>1, <3>2, <3>4
  <2> QED BY <1>3, <2>1
<1>27. \A s \in Sector : s # b - 1 /\ (\A i \in Page : T[i] # s) => z[s] = V[s]
  BY <1>2, <1>14 DEF Redoable
<1>28. z[b - 1].entries[k].targets = T
  BY <1>2, <1>21
<1>29. Walk(V, b)
  BY DEF Redoable
<1> QED BY <1>1, <1>10, <1>18, <1>19, <1>20, <1>22, <1>23, <1>24, <1>25, <1>26, <1>27, <1>28, <1>29 DEF Redoable

-----------------------------------------------------------------------------
(* Initial states and reboots *)

Fresh(m, b) == IsImage(m) /\ Restful(m, b) /\ Booted(m) /\ changes \in Int /\ Dated(m, changes)

LEMMA AfterBoot == ASSUME NEW m, NEW b PROVE Fresh(m, b) => QuietInv
<1> SUFFICES ASSUME Fresh(m, b) PROVE QuietInv
  OBVIOUS
<1>1. /\ mem = m /\ flash_pages = NoPages /\ flash_available = FALSE /\ last_base = LastBase(m)
      /\ journal_pending = FALSE /\ journal_finalize_pending = FALSE /\ journal_slot = 0
      /\ last_journal_sector = None /\ core0 = Idle0 /\ core1 = "idle"
      /\ synced = Image(m) /\ batches = {Image(m)}
  BY DEF Fresh, Booted
<1>2. IsImage(mem) /\ Restful(mem, last_base) /\ last_base \in Pool /\ Dated(mem, changes) /\ changes \in Int
  BY <1>1, WalkLive DEF Fresh, Restful, Walk
<1>3. \A i \in Page : flash_pages[i] = NoPage /\ flash_pages[i].addr = None
  BY <1>1 DEF NoPages, NoPage
<1>4. Ready = {}
  BY <1>3 DEF Ready
<1>5. core0.pc = "idle" /\ core0.page = 1 /\ DOMAIN core0 = {"pc", "sector", "page"}
  BY <1>1 DEF Idle0
<1>6. Types
  <2>1. DOMAIN flash_pages = Page
    BY <1>1 DEF NoPages
  <2>2. 0 \in Slot /\ 1 \in Page
    BY Numbers
  <2> QED BY <1>1, <1>2, <1>3, <1>4, <1>5, <2>1, <2>2 DEF Types
<1>7. Control
  BY <1>1, <1>4, <1>5 DEF Control, Unborn, Preparing, Writing, Extending
<1>8. \A s \in Sector : View[s] = mem[s]
  BY <1>4, <1>6, Reading
<1>9. Walk(mem, last_base) /\ IsData(mem, Rom)
  BY <1>2 DEF Restful, IsImage
<1>10. Walk(View, last_base) /\ Image(View) = Image(mem)
  <2>1. \A s \in last_base .. NumSectors : View[s] = mem[s]
    BY <1>2, <1>8, Numbers
  <2> QED BY <1>9, <2>1, SameImage
<1>11. Cached
  BY <1>1, <1>4, <1>10 DEF Cached, Bottom, Extending
<1>12. Stored
  BY <1>1, <1>2, <1>5 DEF Stored, Critical, Unborn, Writing
<1>13. Journaled
  BY <1>1, <1>5 DEF Journaled, InUse, Preparing, Writing
<1>14. Redone
  BY <1>5 DEF Redone, Writing
<1>15. Seen
  <2>1. \A s \in b .. NumSectors : m[s].change \in Int
    BY Numbers DEF Fresh, Dated, IsImage, Restful, Walk, IsData
  <2>2. Image(m) = [s \in b .. NumSectors |-> m[s].change]
    BY WalkImage DEF Fresh, Restful, IsImage
  <2>3. Covers(Image(m), Image(m))
    BY <2>1, <2>2 DEF Covers
  <2> QED BY <1>1, <1>5, <1>10, <2>3 DEF Seen, Critical, Writing
<1> QED BY <1>6, <1>7, <1>11, <1>12, <1>13, <1>14, <1>15 DEF QuietInv

LEMMA AfterReboot == ASSUME NEW m, NEW b PROVE Fresh(m, b)' => QuietInv'
BY AfterBoot, PTL

LEMMA InitialImage ==
    /\ IsImage(InitialMem) /\ Restful(InitialMem, NumSectors - 2) /\ Dated(InitialMem, 0)
    /\ \A s \in Sector, k \in Slot, i \in Page :
           InitialMem[s].kind = "journal" => InitialMem[s].entries[k].targets[i] # Garbled
<1>1. PICK e : e = [targets |-> [i \in Page |-> IF i = 1 THEN NumSectors - 1 ELSE None], status |-> "done"]
  OBVIOUS
<1>2. e \in Entries /\ NoEntry \in Entries /\ e.status = "done" /\ NoEntry.status = "erased"
  BY <1>1, Numbers DEF Entries, NoEntry, None
<1>15. \A i \in Page : e.targets[i] # Garbled /\ NoEntry.targets[i] # Garbled
  BY <1>1, Numbers DEF NoEntry, None, Garbled
<1>3. PICK f : f = [k \in Slot |-> IF k = 0 THEN e ELSE NoEntry]
  OBVIOUS
<1>4. f \in [Slot -> Entries] /\ \A k \in Slot : f[k].status # "pending"
  BY <1>2, <1>3
<1>5. PICK m : m = InitialMem
  OBVIOUS
<1>6. m = [s \in Sector |->
            CASE s = Rom -> Data(0, FALSE)
              [] s = NumSectors - 1 -> Data(0, TRUE)
              [] s = NumSectors - 2 -> Data(0, FALSE)
              [] s = NumSectors - 3 -> Journal(f)
              [] OTHER -> Erased]
  BY <1>1, <1>3, <1>5 DEF InitialMem
<1>7. /\ m[Rom] = Data(0, FALSE) /\ m[NumSectors - 1] = Data(0, TRUE) /\ m[NumSectors - 2] = Data(0, FALSE)
      /\ m[NumSectors - 3] = Journal(f)
      /\ \A s \in Sector : s \notin {Rom, NumSectors - 1, NumSectors - 2, NumSectors - 3} => m[s] = Erased
  <2>1. Rom \in Sector /\ NumSectors - 1 \in Sector /\ NumSectors - 2 \in Sector /\ NumSectors - 3 \in Sector
    BY Numbers
  <2>2. /\ Rom # NumSectors - 1 /\ Rom # NumSectors - 2 /\ Rom # NumSectors - 3
        /\ NumSectors - 1 # NumSectors - 2 /\ NumSectors - 1 # NumSectors - 3 /\ NumSectors - 2 # NumSectors - 3
    BY Numbers
  <2>3. m[Rom] = Data(0, FALSE)
    BY <1>6, <2>1, <2>2
  <2>4. m[NumSectors - 1] = Data(0, TRUE)
    BY <1>6, <2>1, <2>2
  <2>5. m[NumSectors - 2] = Data(0, FALSE)
    BY <1>6, <2>1, <2>2
  <2>6. m[NumSectors - 3] = Journal(f)
    BY <1>6, <2>1, <2>2
  <2>7. ASSUME NEW s \in Sector, s # Rom, s # NumSectors - 1, s # NumSectors - 2, s # NumSectors - 3 PROVE m[s] = Erased
    BY <1>6, <2>7
  <2> QED BY <2>3, <2>4, <2>5, <2>6, <2>7
<1>8. /\ m[Rom].kind = "data" /\ m[NumSectors - 1].kind = "data" /\ m[NumSectors - 2].kind = "data"
      /\ m[NumSectors - 3].kind = "journal" /\ m[NumSectors - 3].entries = f
      /\ m[NumSectors - 1].more /\ ~m[NumSectors - 2].more
      /\ m[Rom].change = 0 /\ m[NumSectors - 1].change = 0 /\ m[NumSectors - 2].change = 0
  BY <1>7 DEF Data, Journal
<1>9. \A s \in Sector : s \notin {Rom, NumSectors - 1, NumSectors - 2, NumSectors - 3} => m[s].kind = "erased"
  BY <1>7 DEF Erased
<1>10. \A s \in Sector : m[s].kind = "journal" => s = NumSectors - 3
  BY <1>8, <1>9
<1>11. IsImage(m)
  BY <1>4, <1>6, <1>7, <1>8, <1>10 DEF IsImage, IsData
<1>12. Restful(m, NumSectors - 2)
  <2>1. Walk(m, NumSectors - 2)
    <3>1. \A s \in NumSectors - 2 .. NumSectors - 1 : s = NumSectors - 2 \/ s = NumSectors - 1
      BY Numbers
    <3>2. \A s \in NumSectors - 2 + 1 .. NumSectors - 1 : s = NumSectors - 1
      BY Numbers
    <3>3. NumSectors - 2 \in Pool
      BY Numbers
    <3> QED BY <1>8, <3>1, <3>2, <3>3 DEF Walk, IsData
  <2>2. Places(m, NumSectors - 2)
    BY <1>10, Numbers DEF Places
  <2>3. \A s \in Sector, k \in Slot : ~PendingAt(m, s, k)
    BY <1>4, <1>8, <1>10 DEF PendingAt
  <2> QED BY <2>1, <2>2, <2>3 DEF Restful
<1>13. Dated(m, 0)
  BY <1>8, <1>9 DEF Dated, IsData
<1>16. \A s \in Sector, k \in Slot, i \in Page : m[s].kind = "journal" => m[s].entries[k].targets[i] # Garbled
  BY <1>3, <1>8, <1>10, <1>15
<1> QED BY <1>5, <1>11, <1>12, <1>13, <1>16

LEMMA QuietInit == Init => QuietInv
<1> SUFFICES ASSUME Init PROVE QuietInv
  OBVIOUS
<1>1. PICK m, b : m = InitialMem /\ b = NumSectors - 2
  OBVIOUS
<1>2. Booted(m) /\ changes = 0
  BY <1>1 DEF Init
<1> QED BY <1>1, <1>2, InitialImage, AfterBoot DEF Fresh

-----------------------------------------------------------------------------
(* Power loss *)

LEMMA ViewDated == Types => Dated(View, changes) /\ IsData(View, Rom) /\ \A s \in Sector : View[s].kind = "journal" => View[s] = mem[s]
<1> SUFFICES ASSUME Types PROVE Dated(View, changes) /\ IsData(View, Rom) /\ \A s \in Sector : View[s].kind = "journal" => View[s] = mem[s]
  OBVIOUS
<1>1. IsData(View, Rom)
  BY Reading DEF Types, IsImage, IsData
<1>2. ASSUME NEW s \in Sector
      PROVE  (IsData(View, s) => View[s].change \in Int /\ View[s].change <= changes) /\ (View[s].kind = "journal" => View[s] = mem[s])
  <2>1. CASE \A i \in Ready : flash_pages[i].addr # s
    <3>1. View[s] = mem[s]
      BY <2>1, Reading
    <3> QED BY <3>1 DEF Types, Dated, IsData
  <2>2. CASE \E i \in Ready : flash_pages[i].addr = s
    <3>1. PICK i \in Ready : flash_pages[i].addr = s
      BY <2>2
    <3>2. View[s] = flash_pages[i].data /\ i \in Page /\ flash_pages[i].addr # None
      BY <3>1, Reading DEF Ready
    <3>3. flash_pages[i].data.kind = "data" /\ flash_pages[i].data.change \in Int /\ flash_pages[i].data.change <= changes
      BY <3>2 DEF Types, NoPage
    <3> QED BY <3>2, <3>3
  <2> QED BY <2>1, <2>2
<1> QED BY <1>1, <1>2 DEF Dated

\* While a batch is written, recovery can write it again.
LEMMA BatchRedoable == QuietInv /\ Critical => Redoable(mem, View, last_base, journal_slot)
<1> SUFFICES ASSUME QuietInv, Critical PROVE Redoable(mem, View, last_base, journal_slot)
  OBVIOUS
<1>1. core0.pc \in Writing /\ core1 \in {"idle", "sync"}
  BY DEF Critical
<1>2. last_base \in Pool /\ last_base - 1 \in Pool /\ last_base - 1 \in Sector /\ journal_slot \in Slot /\ IsImage(mem)
  BY <1>1, Numbers DEF QuietInv, Types, Control, Writing
<1>3. InUse /\ mem[last_base - 1].kind = "journal"
  BY <1>1 DEF QuietInv, Journaled
<1>4. Walk(View, last_base)
  BY <1>1 DEF QuietInv, Cached, Bottom, Extending
<1>5. /\ Places(mem, last_base)
      /\ IsData(mem, last_base) => ~mem[last_base].more
      /\ \A s \in Sector, k \in Slot : PendingAt(mem, s, k) => Current(s, k) \/ Harmless(mem, last_base, s, k)
  BY DEF QuietInv, Stored
<1>6. /\ Entry.status = "pending"
      /\ \E i \in Page : Entry.targets[i] # None
      /\ \A i \in Page : Entry.targets[i] # None =>
             /\ Entry.targets[i] \in Pool /\ Entry.targets[i] >= last_base
             /\ last_base - 1 - i \in Nat
             /\ mem[last_base - 1 - i] = View[Entry.targets[i]]
      /\ \A i \in Ready : Entry.targets[i] = flash_pages[i].addr
  BY <1>1 DEF QuietInv, Redone
<1>7. PendingAt(mem, last_base - 1, journal_slot)
  BY <1>3, <1>6 DEF PendingAt, Entry
<1>8. \A l \in Slot : /\ l # journal_slot => ~PendingAt(mem, last_base - 1, l)
                      /\ l > journal_slot => mem[last_base - 1].entries[l] = NoEntry
  BY <1>1, <1>3 DEF QuietInv, Journaled
<1>9. \A s \in Sector, l \in Slot : s # last_base - 1 /\ PendingAt(mem, s, l) => Harmless(mem, last_base, s, l)
  BY <1>5 DEF Current
<1>10. \A i \in Page : Entry.targets[i] # None => Entry.targets[i] \in last_base .. NumSectors - 1
  <2> SUFFICES ASSUME NEW i \in Page, Entry.targets[i] # None PROVE Entry.targets[i] \in last_base .. NumSectors - 1
    OBVIOUS
  <2>1. PICK a : a = Entry.targets[i]
    OBVIOUS
  <2>2. a \in Pool /\ a >= last_base
    BY <1>6, <2>1
  <2>3. a \in last_base .. NumSectors - 1
    BY <1>2, <2>2, Numbers
  <2> QED BY <2>1, <2>3
<1>11. ASSUME NEW s \in Sector, \A i \in Page : Entry.targets[i] # s PROVE mem[s] = View[s]
  BY <1>6, <1>11, Reading DEF QuietInv
<1> QED BY <1>2, <1>4, <1>5, <1>6, <1>7, <1>8, <1>9, <1>10, <1>11 DEF Redoable, Entry

\* Otherwise recovery leaves the data alone.
LEMMA AtRest == QuietInv /\ ~Critical => \E b \in {last_base, last_base + 1} : Restful(mem, b)
<1> SUFFICES ASSUME QuietInv, ~Critical PROVE \E b \in {last_base, last_base + 1} : Restful(mem, b)
  OBVIOUS
<1>1. core1 \in {"idle", "sync", "grow_base", "grow_sync", "grow_wait", "grow_publish"}
  BY DEF QuietInv, Control, Extending
<1>2. Stored
  BY DEF QuietInv
<1>3. Unlinked => Restful(mem, last_base + 1)
  BY DEF Unlinked
<1> QED BY <1>1, <1>2, <1>3 DEF Stored, Unborn

\* What recovery makes of the flash, at once or after it was cut short.
LEMMA RecoveredData ==
    ASSUME QuietInv, NEW m, \/ m = mem
                            \/ \E c \in Candidates(mem), n \in Page : mem[c[1]].entries[c[2]].targets[n] # None /\ m = Cut(mem, c, n)
    PROVE  \E b \in Pool : /\ IsImage(Recovered(m)) /\ Restful(Recovered(m), b) /\ Dated(Recovered(m), changes)
                           /\ Image(Recovered(m)) = IF Critical THEN Image(View) ELSE Image(mem)
<1>1. PICK x : x = mem
  OBVIOUS
<1>2. CASE Critical
  <2>1. PICK V, b, k : V = View /\ b = last_base /\ k = journal_slot
    OBVIOUS
  <2>2. Redoable(x, V, b, k)
    BY <1>1, <1>2, <2>1, BatchRedoable
  <2>3. Redoable(m, V, b, k)
    BY <1>1, <2>2, BatchCut
  <2>4. IsData(V, Rom) /\ Dated(V, changes)
    BY <2>1, ViewDated DEF QuietInv
  <2>5. PICK r : r = Recovered(m)
    OBVIOUS
  <2>6. /\ IsImage(r) /\ Restful(r, b)
        /\ \A s \in b .. NumSectors : r[s] = V[s]
        /\ \A s \in Sector : IsData(r, s) => r[s] = V[s]
    BY <2>3, <2>4, <2>5, BatchRecovery
  <2>7. Dated(r, changes)
    BY <2>4, <2>6 DEF Dated, IsData
  <2>8. Walk(V, b) /\ b \in Pool
    BY <2>2 DEF Redoable
  <2>9. Image(r) = Image(V)
    BY <2>4, <2>6, <2>8, SameImage
  <2> QED BY <1>2, <2>1, <2>5, <2>6, <2>7, <2>8, <2>9
<1>3. CASE ~Critical
  <2>1. PICK b : Restful(x, b)
    BY <1>1, <1>3, AtRest
  <2>2. IsImage(x) /\ Dated(x, changes)
    BY <1>1 DEF QuietInv, Types
  <2>3. /\ IsImage(m) /\ Restful(m, b)
        /\ \A s \in b .. NumSectors : m[s] = x[s]
        /\ \A s \in Sector : IsData(m, s) => \E y \in Sector : m[s] = x[y]
    <3>1. CASE m = mem
      BY <1>1, <2>1, <2>2, <3>1
    <3>2. CASE m # mem
      <4>1. PICK c \in Candidates(x), n \in Page : x[c[1]].entries[c[2]].targets[n] # None /\ m = Cut(x, c, n)
        BY <1>1, <3>2
      <4>2. /\ IsImage(Cut(x, c, n)) /\ Restful(Cut(x, c, n), b)
            /\ \A s \in b .. NumSectors : Cut(x, c, n)[s] = x[s]
            /\ \A s \in Sector : IsData(Cut(x, c, n), s) => \E y \in Sector : Cut(x, c, n)[s] = x[y]
        BY <2>1, <2>2, <4>1, RestfulCut
      <4> QED BY <4>1, <4>2
    <3> QED BY <3>1, <3>2
  <2>4. PICK r : r = Recovered(m)
    OBVIOUS
  <2>5. /\ IsImage(r) /\ Restful(r, b)
        /\ \A s \in b .. NumSectors : r[s] = m[s]
        /\ \A s \in Sector : IsData(r, s) => \E y \in Sector : r[s] = m[y]
    BY <2>3, <2>4, RestfulRecovery
  <2>6. Dated(r, changes)
    BY <2>2, <2>3, <2>5 DEF Dated, IsData
  <2>7. Walk(x, b) /\ IsData(x, Rom) /\ b \in Pool
    BY <2>1, <2>2 DEF Restful, Walk, IsImage
  <2>8. Image(r) = Image(x)
    BY <2>3, <2>5, <2>7, SameImage
  <2> QED BY <1>1, <1>3, <2>4, <2>5, <2>6, <2>7, <2>8
<1> QED BY <1>2, <1>3

LEMMA PowerLossStep == QuietInv /\ PowerLoss => QuietInv'
<1> SUFFICES ASSUME QuietInv, PowerLoss PROVE QuietInv'
  OBVIOUS
<1>1. PICK m : /\ \/ m = mem
                  \/ \E c \in Candidates(mem), n \in Page : mem[c[1]].entries[c[2]].targets[n] # None /\ m = Cut(mem, c, n)
               /\ Reboot(m)
  BY DEF PowerLoss, CutShort, Cut
<1>2. PICK r : r = Recovered(m)
  OBVIOUS
<1>3. PICK b \in Pool : IsImage(r) /\ Restful(r, b) /\ Dated(r, changes)
  BY <1>1, <1>2, RecoveredData
<1>4. Booted(r)' /\ changes' = changes
  BY <1>1, <1>2 DEF Reboot, Booted
<1>5. changes \in Int
  BY DEF QuietInv, Types
<1>6. Fresh(r, b)'
  BY <1>3, <1>4, <1>5 DEF Fresh
<1> QED BY <1>6, AfterReboot

\* The properties.
LEMMA QuietProperties == QuietInv => BatchesKept /\ SyncedSurvives
<1> SUFFICES ASSUME QuietInv PROVE BatchesKept /\ SyncedSurvives
  OBVIOUS
<1>1. PICK m : m = mem
  OBVIOUS
<1>2. Image(Recovered(m)) = IF Critical THEN Image(View) ELSE Image(mem)
  BY <1>1, RecoveredData
<1>3. Image(Recovered(mem)) \in batches
  BY <1>1, <1>2 DEF QuietInv, Seen, Critical, Writing
<1>4. SyncedSurvives
  BY <1>3 DEF QuietInv, Seen, Covers, SyncedSurvives
<1>5. JournalComplete
  <2> SUFFICES ASSUME core0.pc = "write", NEW i \in Ready
               PROVE  /\ mem[pending_journal_addr[1]].kind = "journal"
                      /\ mem[pending_journal_addr[1]].entries[pending_journal_addr[2]].status = "pending"
                      /\ mem[pending_journal_addr[1]].entries[pending_journal_addr[2]].targets[i] = flash_pages[i].addr
                      /\ mem[pending_journal_addr[1] - i] = flash_pages[i].data
    BY DEF JournalComplete
  <2>1. core0.pc \in Writing
    BY DEF Writing
  <2>2. pending_journal_addr[1] = last_base - 1 /\ pending_journal_addr[2] = journal_slot
    BY <2>1 DEF QuietInv, Redone
  <2>3. mem[last_base - 1].kind = "journal"
    BY <2>1 DEF QuietInv, Journaled
  <2>4. Entry.status = "pending" /\ Entry.targets[i] = flash_pages[i].addr
    BY <2>1 DEF QuietInv, Redone
  <2>5. i \in Page /\ flash_pages[i].addr # None /\ View[flash_pages[i].addr] = flash_pages[i].data
    BY Reading DEF QuietInv, Ready
  <2>6. mem[last_base - 1 - i] = flash_pages[i].data
    BY <2>1, <2>4, <2>5 DEF QuietInv, Redone
  <2> QED BY <2>2, <2>3, <2>4, <2>6 DEF Entry
<1> QED BY <1>3, <1>4, <1>5 DEF BatchesKept, RecoversABatch

-----------------------------------------------------------------------------
(* Steps that leave the cache alone *)

LEMMA ViewFrame ==
    ASSUME UNCHANGED flash_pages
    PROVE  /\ Ready' = Ready /\ DOMAIN View' = Sector
           /\ \A s \in Sector : mem'[s] = mem[s] => View'[s] = View[s]
           /\ mem' = mem => View' = View
<1>1. \A s : PageOf(s)' = PageOf(s)
  BY DEF PageOf
<1>2. DOMAIN View = Sector /\ DOMAIN View' = Sector
  BY DEF View
<1>3. ASSUME NEW s \in Sector, mem'[s] = mem[s] PROVE View'[s] = View[s]
  <2>1. PICK P : P = PageOf(s)
    OBVIOUS
  <2>2. PageOf(s)' = P
    BY <1>1, <2>1
  <2>3. View[s] = IF P = {} THEN mem[s] ELSE flash_pages[CHOOSE i \in P : TRUE].data
    BY <2>1 DEF View
  <2>4. View'[s] = IF P = {} THEN mem'[s] ELSE flash_pages'[CHOOSE i \in P : TRUE].data
    BY <2>2 DEF View
  <2> QED BY <1>3, <2>3, <2>4
<1>4. ASSUME mem' = mem PROVE View' = View
  <2>1. \A s \in Sector : View'[s] = View[s]
    BY <1>3, <1>4
  <2>2. View = [s \in Sector |-> View[s]] /\ View' = [s \in Sector |-> View'[s]]
    BY DEF View
  <2> QED BY <2>1, <2>2
<1> QED BY <1>2, <1>3, <1>4 DEF Ready

\* Steps of control: a request, a wait, the begin or the end of a task.
LEMMA ControlStep ==
    ASSUME QuietInv, UNCHANGED <<mem, flash_pages, last_base, journal_slot, journal_pending, last_journal_sector,
                                 pending_journal_addr, changes>>,
           DOMAIN core0' = {"pc", "sector", "page"}, core0'.page \in Page
    PROVE  Types' /\ Ready' = Ready /\ View' = View /\ Image(View)' = Image(View) /\ Image(mem)' = Image(mem)
<1>1. Ready' = Ready /\ View' = View
  BY ViewFrame
<1>2. Types'
  BY <1>1 DEF QuietInv, Types
<1>3. PICK m, V : m = mem /\ V = View
  OBVIOUS
<1>4. mem' = m /\ View' = V
  BY <1>1, <1>3
<1> QED BY <1>1, <1>2, <1>3, <1>4

LEMMA TaskBegins == QuietInv /\ TaskBegin => QuietInv'
<1> SUFFICES ASSUME QuietInv, TaskBegin PROVE QuietInv'
  OBVIOUS
<1>1. /\ core0.pc = "idle" /\ flash_available
      /\ UNCHANGED <<mem, flash_pages, flash_available, last_base, journal, core1, changes, synced, batches>>
      /\ core0' = [core0 EXCEPT !.pc = "check"]
  BY DEF TaskBegin, QuietInv, Control, Stay
<1>2. UNCHANGED <<journal_pending, journal_finalize_pending, journal_slot, last_journal_sector, pending_journal_addr>>
  BY <1>1 DEF journal
<1>3. core0'.pc = "check" /\ DOMAIN core0' = {"pc", "sector", "page"} /\ core0'.page = core0.page
  BY <1>1 DEF QuietInv, Types
<1>4. Types' /\ Ready' = Ready /\ View' = View /\ Image(View)' = Image(View) /\ Image(mem)' = Image(mem)
  BY <1>1, <1>2, <1>3, ControlStep DEF QuietInv, Types
<1>5. Control'
  BY <1>1, <1>2, <1>3, <1>4 DEF QuietInv, Control, Unborn, Preparing, Writing
<1>6. Cached'
  BY <1>1, <1>4 DEF QuietInv, Cached, Bottom
<1>7. Stored'
  BY <1>1, <1>2, <1>3 DEF QuietInv, Stored, Critical, Unborn, Unlinked, Writing
<1>8. Journaled'
  BY <1>1, <1>2, <1>3 DEF QuietInv, Journaled, InUse, Preparing, Writing
<1>9. Redone'
  BY <1>3 DEF Redone, Writing
<1>10. Seen'
  BY <1>1, <1>3, <1>4 DEF QuietInv, Seen, Critical, Writing
<1> QED BY <1>4, <1>5, <1>6, <1>7, <1>8, <1>9, <1>10 DEF QuietInv

LEMMA Requests == QuietInv /\ (Commit \/ SyncBegin("idle", "sync") \/ SyncBegin("grow_sync", "grow_wait") \/ SyncTimeout("sync", "idle")) => QuietInv'
<1> SUFFICES ASSUME QuietInv, Commit \/ SyncBegin("idle", "sync") \/ SyncBegin("grow_sync", "grow_wait") \/ SyncTimeout("sync", "idle")
             PROVE  QuietInv'
  OBVIOUS
<1>1. /\ core0.pc = "idle" /\ flash_available' = TRUE
      /\ UNCHANGED <<mem, flash_pages, last_base, journal, core0, changes, synced, batches>>
      /\ \/ core1 = "idle" /\ core1' = "idle"
         \/ core1 = "idle" /\ core1' = "sync"
         \/ core1 = "grow_sync" /\ core1' = "grow_wait"
         \/ core1 = "sync" /\ core1' = "idle"
  BY DEF Commit, SyncBegin, SyncTimeout, QuietInv, Control
<1>2. UNCHANGED <<journal_pending, journal_finalize_pending, journal_slot, last_journal_sector, pending_journal_addr>>
  BY <1>1 DEF journal
<1>4. Types' /\ Ready' = Ready /\ View' = View /\ Image(View)' = Image(View) /\ Image(mem)' = Image(mem)
  BY <1>1, <1>2, ControlStep DEF QuietInv, Types
<1>5. Control'
  BY <1>1, <1>2, <1>4 DEF QuietInv, Control, Unborn, Preparing, Writing, Extending
<1>6. Cached'
  BY <1>1, <1>4 DEF QuietInv, Cached, Bottom, Extending
<1>7. Stored'
  BY <1>1, <1>2 DEF QuietInv, Stored, Critical, Unborn, Unlinked, Writing
<1>8. Journaled'
  BY <1>1, <1>2 DEF QuietInv, Journaled, InUse, Preparing, Writing
<1>9. Redone'
  BY <1>1 DEF Redone, Writing
<1>10. Seen'
  BY <1>1, <1>4 DEF QuietInv, Seen, Critical, Writing
<1> QED BY <1>4, <1>5, <1>6, <1>7, <1>8, <1>9, <1>10 DEF QuietInv

\* A clean cache: readers see the flash.
LEMMA CleanCache ==
    ASSUME QuietInv, Ready = {}
    PROVE  (\A s \in Sector : View[s] = mem[s]) /\ Walk(mem, Bottom) /\ Image(View) = Image(mem)
<1>1. \A s \in Sector : View[s] = mem[s]
  BY Reading DEF QuietInv
<1>2. PICK m, V, b : m = mem /\ V = View /\ b = Bottom
  OBVIOUS
<1>3. Walk(V, b) /\ IsData(V, Rom)
  BY <1>2, ViewDated DEF QuietInv, Cached
<1>4. \A s \in b .. NumSectors : m[s] = V[s]
  BY <1>1, <1>2, <1>3, Numbers DEF Walk
<1>5. Walk(m, b) /\ Image(m) = Image(V)
  BY <1>3, <1>4, SameImage
<1> QED BY <1>1, <1>2, <1>5

\* Where the list ends below a sector, it does not end at it.
LEMMA OneBottom == ASSUME NEW m, NEW b, Walk(m, b), Walk(m, b + 1) PROVE FALSE
<1>1. b + 1 \in b + 1 .. NumSectors - 1
  BY Numbers DEF Walk
<1> QED BY <1>1 DEF Walk

LEMMA SyncEnds == QuietInv /\ (SyncEnd("sync", "idle") \/ SyncEnd("grow_wait", "grow_publish")) => QuietInv'
<1> SUFFICES ASSUME QuietInv, SyncEnd("sync", "idle") \/ SyncEnd("grow_wait", "grow_publish") PROVE QuietInv'
  OBVIOUS
<1>1. /\ core0.pc = "idle" /\ ~flash_available
      /\ UNCHANGED <<mem, flash_pages, flash_available, last_base, journal, core0, changes>>
      /\ (core1 = "sync" /\ core1' = "idle") \/ (core1 = "grow_wait" /\ core1' = "grow_publish")
      /\ synced' = Image(View) /\ batches' = {Image(View)}
  BY DEF SyncEnd, Drained
<1>2. UNCHANGED <<journal_pending, journal_finalize_pending, journal_slot, last_journal_sector, pending_journal_addr>>
  BY <1>1 DEF journal
<1>3. Ready = {}
  BY <1>1 DEF QuietInv, Control
<1>4. Types' /\ Ready' = Ready /\ View' = View /\ Image(View)' = Image(View) /\ Image(mem)' = Image(mem)
  BY <1>1, <1>2, ControlStep DEF QuietInv, Types
<1>5. Control'
  BY <1>1, <1>2, <1>3, <1>4 DEF QuietInv, Control, Unborn, Preparing, Writing, Extending
<1>6. Cached'
  BY <1>1, <1>3, <1>4 DEF QuietInv, Cached, Bottom, Extending
<1>7. Stored'
  BY <1>1, <1>2 DEF QuietInv, Stored, Critical, Unborn, Unlinked, Writing
<1>8. Journaled'
  BY <1>1, <1>2 DEF QuietInv, Journaled, InUse, Preparing, Writing
<1>9. Redone'
  BY <1>1 DEF Redone, Writing
<1>10. Seen'
  <2>1. Image(View) = Image(mem)
    BY <1>3, CleanCache
  <2>2. PICK V, b : V = View /\ b = Bottom
    OBVIOUS
  <2>3. Walk(V, b) /\ IsData(V, Rom) /\ Dated(V, changes)
    BY <2>2, ViewDated DEF QuietInv, Cached
  <2>4. Image(V) = [s \in b .. NumSectors |-> V[s].change]
    BY <2>3, WalkImage
  <2>5. \A s \in b .. NumSectors : V[s].change \in Int
    BY <2>3, Numbers DEF Dated, Walk, IsData
  <2>6. Covers(Image(V), Image(V))
    BY <2>4, <2>5 DEF Covers
  <2> QED BY <1>1, <1>4, <2>1, <2>2, <2>6 DEF Seen
<1> QED BY <1>4, <1>5, <1>6, <1>7, <1>8, <1>9, <1>10 DEF QuietInv

-----------------------------------------------------------------------------
(* Core 0 prepares a batch *)

\* Nothing below the data is seen.
LEMMA Preparation ==
    ASSUME QuietInv, core0.pc \in {"erase"} \cup Preparing, DOMAIN mem' = Sector,
           UNCHANGED <<flash_pages, flash_available, last_base, core1, changes, synced, batches>>,
           \A s \in Sector : s >= last_base => mem'[s] = mem[s]
    PROVE  Ready' = Ready /\ Cached' /\ Seen' /\ core1 \in {"idle", "sync", "grow_wait"} /\ flash_available /\ ~Critical
<1>1. core1 \in {"idle", "sync", "grow_wait"} /\ ~Critical /\ last_base \in Pool /\ flash_available
  BY DEF QuietInv, Control, Types, Preparing, Writing, Critical
<1>2. Ready' = Ready /\ \A s \in Sector : s >= last_base => View'[s] = View[s]
  BY ViewFrame
<1>3. Bottom' = Bottom /\ Bottom \in {last_base, last_base + 1}
  BY DEF Bottom
<1>4. PICK V, W, b : V = View /\ W = View' /\ b = Bottom
  OBVIOUS
<1>5. Walk(V, b) /\ IsData(V, Rom)
  BY <1>4, ViewDated DEF QuietInv, Cached
<1>6. \A s \in b .. NumSectors : W[s] = V[s]
  BY <1>1, <1>2, <1>3, <1>4, <1>5, Numbers DEF Walk
<1>7. Walk(W, b) /\ Image(W) = Image(V)
  BY <1>5, <1>6, SameImage
<1>8. last_base \in Sector /\ View'[last_base] = View[last_base]
  BY <1>1, <1>2, Numbers
<1>9. Cached'
  BY <1>1, <1>2, <1>3, <1>4, <1>7, <1>8 DEF QuietInv, Cached, Extending
<1>10. Image(mem)' = Image(mem)
  <2>1. PICK b0 \in {last_base, last_base + 1} : Restful(mem, b0)
    BY <1>1, AtRest
  <2>2. PICK m, n : m = mem /\ n = mem'
    OBVIOUS
  <2>3. Walk(m, b0) /\ IsData(m, Rom)
    BY <2>1, <2>2 DEF QuietInv, Types, IsImage, Restful
  <2>4. \A s \in b0 .. NumSectors : n[s] = m[s]
    BY <1>1, <2>1, <2>2, <2>3, Numbers DEF Walk
  <2>5. Image(n) = Image(m)
    BY <2>3, <2>4, SameImage
  <2> QED BY <2>2, <2>5
<1>11. Image(View)' = Image(View)
  BY <1>4, <1>7
<1>12. Image(mem) \in batches /\ Image(View) \in batches
  BY <1>1 DEF QuietInv, Seen, Preparing
<1>13. Seen'
  BY <1>10, <1>11, <1>12 DEF QuietInv, Seen
<1> QED BY <1>1, <1>2, <1>9, <1>13

\* ... and the flash stays at rest.
LEMMA StillAtRest ==
    ASSUME QuietInv, ~Critical, ~Critical', flash_available, core1 \in {"idle", "sync", "grow_wait"},
           UNCHANGED <<last_base, core1, flash_available>>, last_journal_sector' \in {last_journal_sector, last_base - 1},
           mem'[last_base] = mem[last_base],
           \A b \in {last_base, last_base + 1} : Restful(mem, b) => Restful(mem', b)
    PROVE  Stored'
<1>1. Unlinked => Unlinked'
  BY DEF Unlinked, IsData
<1> QED BY <1>1 DEF QuietInv, Stored, Unborn

LEMMA Checks == QuietInv /\ Check => QuietInv'
<1> SUFFICES ASSUME QuietInv, Check PROVE QuietInv'
  OBVIOUS
<1>1. /\ core0.pc = "check" /\ flash_available /\ ~journal_pending /\ core1 \in {"idle", "sync", "grow_wait"}
      /\ UNCHANGED <<mem, flash_pages, last_base, journal, core1, changes, synced>>
  BY DEF Check, QuietInv, Control, Writing
<1>2. UNCHANGED <<journal_pending, journal_finalize_pending, journal_slot, last_journal_sector, pending_journal_addr>>
  BY <1>1 DEF journal
<1>3. ~Critical /\ ~journal_finalize_pending
  BY <1>1 DEF Critical, Writing, QuietInv, Control
<1>4. CASE Ready = {}
  <2>1. flash_available' = FALSE /\ core0' = Idle0 /\ batches' = batches
    BY <1>4 DEF Check, Leave
  <2>2. core0'.pc = "idle" /\ DOMAIN core0' = {"pc", "sector", "page"} /\ core0'.page \in Page
    BY <2>1, Numbers DEF Idle0
  <2>3. Types' /\ Ready' = Ready /\ View' = View /\ Image(View)' = Image(View) /\ Image(mem)' = Image(mem)
    BY <1>1, <1>2, <2>2, ControlStep
  <2>4. core1 \in {"idle", "sync"}
    BY <1>1, <1>4 DEF QuietInv, Control, Unborn, Writing
  <2>5. Control'
    BY <1>1, <1>2, <1>3, <1>4, <2>1, <2>2, <2>3, <2>4 DEF Control, Unborn, Preparing, Writing, Extending
  <2>6. Cached'
    BY <1>1, <1>4, <2>3, <2>4 DEF QuietInv, Cached, Bottom, Extending
  <2>7. Stored'
    BY <1>1, <1>2, <1>3, <2>2, <2>4 DEF QuietInv, Stored, Critical, Unborn, Unlinked, Writing
  <2>8. Journaled'
    BY <1>1, <1>2, <2>2 DEF QuietInv, Journaled, InUse, Preparing, Writing
  <2>9. Redone'
    BY <2>2 DEF Redone, Writing
  <2>10. Seen'
    BY <1>1, <1>3, <2>1, <2>2, <2>3 DEF QuietInv, Seen
  <2> QED BY <2>3, <2>5, <2>6, <2>7, <2>8, <2>9, <2>10 DEF QuietInv
<1>5. CASE Ready # {}
  <2>1. /\ flash_available' = flash_available /\ batches' = batches \cup {Image(View)}
        /\ \/ core0' = Idle0
           \/ /\ last_base >= 2
              /\ \/ core0' = [sector |-> last_base - 1, page |-> Min(Ready), pc |-> "erase"]
                 \/ /\ core0' = [sector |-> last_base - 1, page |-> Min(Ready), pc |-> "redo"]
                    /\ last_base - 1 = last_journal_sector /\ journal_slot # 0
    <3>1. last_base \in Int
      BY Numbers DEF QuietInv, Types
    <3>2. flash_available' = flash_available /\ batches' = batches \cup {Image(View)}
      BY <1>1, <1>5 DEF Check
    <3>3. IF last_base - 1 < 1 THEN core0' = Idle0
          ELSE core0' = [sector |-> last_base - 1, page |-> Min(Ready), pc |-> IF FreshJournal(last_base - 1) THEN "erase" ELSE "redo"]
      BY <1>1, <1>5 DEF Check, Leave
    <3> QED BY <3>1, <3>2, <3>3 DEF FreshJournal
  <2>2. Ready \in SUBSET Nat /\ Ready \subseteq Page
    BY Numbers DEF Ready
  <2>14. PICK p : p = Min(Ready)
    OBVIOUS
  <2>3. p \in Ready /\ p \in Page /\ \A i \in Ready : p <= i
    BY <1>5, <2>2, <2>14, LeastIn
  <2>4. /\ DOMAIN core0' = {"pc", "sector", "page"} /\ core0'.page \in Page
        /\ \/ core0'.pc = "idle"
           \/ /\ core0'.pc \in {"erase", "redo"} /\ core0'.sector = last_base - 1 /\ core0'.page = p /\ last_base >= 2
              /\ core0'.pc = "redo" => last_base - 1 = last_journal_sector /\ journal_slot # 0
    <3>1. CASE core0' = Idle0
      BY <3>1, Numbers DEF Idle0
    <3>2. CASE /\ last_base >= 2
               /\ core0' = [sector |-> last_base - 1, page |-> p, pc |-> "erase"]
      BY <2>3, <3>2
    <3>3. CASE /\ last_base >= 2
               /\ core0' = [sector |-> last_base - 1, page |-> p, pc |-> "redo"]
               /\ last_base - 1 = last_journal_sector /\ journal_slot # 0
      BY <2>3, <3>3
    <3> QED BY <2>1, <2>14, <3>1, <3>2, <3>3
  <2>5. Types' /\ Ready' = Ready /\ View' = View /\ Image(View)' = Image(View) /\ Image(mem)' = Image(mem)
    BY <1>1, <1>2, <2>4, ControlStep
  <2>6. Control'
    BY <1>1, <1>2, <1>3, <1>5, <2>1, <2>4, <2>5 DEF QuietInv, Control, Unborn, Preparing, Writing, Extending
  <2>7. Cached'
    BY <1>1, <2>5 DEF QuietInv, Cached, Bottom
  <2>8. ~Critical'
    BY <2>4 DEF Critical, Writing
  <2>9. Stored'
    BY <1>1, <1>2, <1>3, <2>1, <2>8, StillAtRest
  <2>11. Journaled'
    <3>1. CASE core0'.pc \in {"idle", "erase"}
      BY <1>1, <1>2, <3>1 DEF QuietInv, Journaled, InUse, Preparing, Writing
    <3>2. CASE core0'.pc = "redo"
      <4>1. last_base - 1 # None
        BY <2>4, <3>2, Numbers DEF QuietInv, Types, None
      <4>2. InUse /\ journal_slot # 0
        BY <2>4, <3>2, <4>1 DEF InUse
      <4> QED BY <1>1, <1>2, <3>2, <4>2 DEF QuietInv, Journaled, InUse, Preparing, Writing
    <3> QED BY <2>4, <3>1, <3>2
  <2>12. Redone'
    <3>1. \A i \in Ready : ~(i < p)
      BY <2>2, <2>3
    <3> QED BY <2>3, <2>4, <2>5, <3>1 DEF Redone, Writing
  <2>13. Seen'
    BY <1>1, <1>3, <2>1, <2>4, <2>5, <2>8 DEF QuietInv, Seen
  <2> QED BY <2>5, <2>6, <2>7, <2>9, <2>11, <2>12, <2>13 DEF QuietInv
<1> QED BY <1>4, <1>5

LEMMA TypesStep ==
    ASSUME QuietInv, IsImage(mem'), Dated(mem', changes), UNCHANGED <<flash_pages, last_base, changes>>,
           journal_slot' \in Slot, last_journal_sector' = last_journal_sector \/ (last_journal_sector' = last_base - 1 /\ last_base - 1 \in Pool),
           DOMAIN core0' = {"pc", "sector", "page"}, core0'.page \in Page
    PROVE  Types'
<1>1. Ready' = Ready
  BY ViewFrame
<1>2. last_journal_sector' \in Pool \cup {None} /\ (last_journal_sector' # None => last_journal_sector' >= last_base - 1)
  BY Numbers DEF QuietInv, Types
<1> QED BY <1>1, <1>2 DEF QuietInv, Types

NoEntries == [k \in Slot |-> NoEntry]

LEMMA ErasedJournal ==
    ASSUME NEW m, NEW j \in Pool, IsImage(m), NEW n,
           DOMAIN n = Sector, n[j] = Journal(NoEntries), \A s \in Sector : s # j => n[s] = m[s]
    PROVE  /\ IsImage(n) /\ n[j].kind = "journal" /\ (\A k \in Slot : n[j].entries[k] = NoEntry)
           /\ \A s \in Sector : s # j => n[s] = m[s]
           /\ \A b : Restful(m, b) /\ j < b /\ j \in {b - 1, b - 2} => Restful(n, b)
<1>1. j \in Sector /\ j # Rom
  BY Numbers
<1>2. DOMAIN n = Sector /\ n[j] = Journal(NoEntries) /\ \A s \in Sector : s # j => n[s] = m[s]
  OBVIOUS
<1>3. NoEntries \in [Slot -> Entries] /\ \A k \in Slot : NoEntries[k] = NoEntry /\ NoEntry.status = "erased"
  BY Numbers DEF NoEntries, NoEntry, Entries, None
<1>4. n[j].kind = "journal" /\ n[j].entries = NoEntries
  BY <1>2 DEF Journal
<1>5. IsImage(n)
  BY <1>1, <1>2, <1>3, <1>4, Numbers DEF IsImage, IsData
<1>6. ASSUME NEW b, Restful(m, b), j < b, j \in {b - 1, b - 2} PROVE Restful(n, b)
  <2>1. \A s \in b .. NumSectors : n[s] = m[s]
    BY <1>2, <1>6, Numbers DEF Restful, Walk
  <2>2. Walk(n, b)
    BY <1>6, <2>1, SameImage DEF Restful, IsImage
  <2>3. Places(n, b)
    BY <1>2, <1>6 DEF Restful, Places
  <2>4. ASSUME NEW s \in Sector, NEW k \in Slot, PendingAt(n, s, k) PROVE Harmless(n, b, s, k)
    <3>1. s # j
      BY <1>3, <1>4, <2>4 DEF PendingAt
    <3> QED BY <1>2, <1>6, <2>4, <3>1 DEF Restful, PendingAt, Harmless
  <2> QED BY <2>2, <2>3, <2>4 DEF Restful
<1> QED BY <1>2, <1>3, <1>4, <1>5, <1>6

LEMMA ErasesJournal == QuietInv /\ EraseJournal => QuietInv'
<1> SUFFICES ASSUME QuietInv, EraseJournal PROVE QuietInv'
  OBVIOUS
<1>1. core0.pc = "erase" /\ core0.sector = last_base - 1 /\ last_base >= 2 /\ last_base \in Pool /\ core0.page \in Page
  BY DEF EraseJournal, QuietInv, Control, Types, Preparing, Writing
<1>2. /\ mem' = [mem EXCEPT ![last_base - 1] = Journal(NoEntries)]
      /\ last_journal_sector' = last_base - 1 /\ journal_slot' = 0
      /\ core0' = [core0 EXCEPT !.pc = "redo"]
      /\ UNCHANGED <<flash_pages, flash_available, last_base, journal_pending, journal_finalize_pending, core1, changes, synced, batches>>
  BY <1>1 DEF EraseJournal, Stay, NoEntries
<1>3. last_base - 1 \in Pool /\ last_base - 1 # None /\ 0 \in Slot
  BY <1>1, Numbers DEF None
<1>4. core0'.pc = "redo" /\ DOMAIN core0' = {"pc", "sector", "page"} /\ core0'.page = core0.page /\ core0'.sector = core0.sector
  BY <1>2 DEF QuietInv, Types
<1>5. PICK m, n, j : m = mem /\ n = mem' /\ j = last_base - 1
  OBVIOUS
<1>6. IsImage(m) /\ j \in Pool /\ DOMAIN n = Sector /\ n[j] = Journal(NoEntries) /\ \A s \in Sector : s # j => n[s] = m[s]
  BY <1>2, <1>3, <1>5, Numbers DEF QuietInv, Types, IsImage
<1>7. /\ IsImage(n) /\ n[j].kind = "journal" /\ (\A k \in Slot : n[j].entries[k] = NoEntry)
      /\ \A s \in Sector : s # j => n[s] = m[s]
      /\ \A b : Restful(m, b) /\ j < b /\ j \in {b - 1, b - 2} => Restful(n, b)
  BY <1>6, ErasedJournal
<1>8. \A s \in Sector : s >= last_base => mem'[s] = mem[s]
  BY <1>1, <1>5, <1>7, Numbers
<1>9. DOMAIN mem' = Sector
  BY <1>5, <1>7 DEF IsImage
<1>10. Ready' = Ready /\ Cached' /\ Seen' /\ core1 \in {"idle", "sync", "grow_wait"} /\ flash_available /\ ~Critical
  BY <1>1, <1>2, <1>8, <1>9, Preparation
<1>11. Types'
  <2>1. Dated(mem', changes)
    BY <1>5, <1>7 DEF QuietInv, Types, Dated, IsData
  <2> QED BY <1>1, <1>2, <1>3, <1>4, <1>5, <1>7, <2>1, TypesStep
<1>12. Control'
  BY <1>1, <1>2, <1>4, <1>10 DEF QuietInv, Control, Unborn, Preparing, Writing
<1>13. ~Critical'
  BY <1>4 DEF Critical, Writing
<1>14. Stored'
  <2>1. \A b \in {last_base, last_base + 1} : Restful(mem, b) => Restful(mem', b)
    BY <1>1, <1>5, <1>7, Numbers
  <2>2. mem'[last_base] = mem[last_base]
    BY <1>1, <1>8, Numbers
  <2> QED BY <1>2, <1>10, <1>13, <2>1, <2>2, StillAtRest
<1>15. Journaled'
  <2>1. mem'[last_base - 1].kind = "journal" /\ \A k \in Slot : mem'[last_base - 1].entries[k] = NoEntry
    BY <1>5, <1>7
  <2>2. NoEntry.status = "erased"
    BY DEF NoEntry
  <2>3. \A k \in Slot : ~PendingAt(mem', last_base - 1, k)
    BY <2>1, <2>2 DEF PendingAt
  <2> QED BY <1>2, <1>3, <1>4, <2>1, <2>3 DEF Journaled, InUse, Preparing, Writing
<1>16. Redone'
  <2>1. core0.page \in Ready /\ \A i \in Ready : core0.page <= i
    BY <1>1 DEF QuietInv, Redone
  <2>2. \A i \in Ready : ~(i < core0.page)
    <3>1. Ready \subseteq Nat
      BY Numbers DEF Ready
    <3>2. PICK p : p = core0.page
      OBVIOUS
    <3>3. p \in Nat /\ \A i \in Ready : i \in Nat /\ p <= i
      BY <2>1, <3>1, <3>2
    <3>4. \A i \in Ready : ~(i < p)
      BY <3>3
    <3> QED BY <3>2, <3>4
  <2> QED BY <1>4, <1>10, <2>1, <2>2 DEF Redone, Writing
<1> QED BY <1>10, <1>11, <1>12, <1>14, <1>15, <1>16 DEF QuietInv

\* The redo sectors, once erased and once programmed.
LEMMA RedoStep ==
    ASSUME QuietInv, core0.pc \in {"redo", "redo_program"}, NEW x \in Pool, x < last_base - 1, NEW c,
           c.kind \in {"torn", "data"}, c.kind = "data" => c.change \in Int /\ c.change <= changes,
           DOMAIN mem' = Sector, mem'[x] = c, \A s \in Sector : s # x => mem'[s] = mem[s],
           UNCHANGED <<flash_pages, flash_available, last_base, journal, core1, changes, synced, batches>>,
           DOMAIN core0' = {"pc", "sector", "page"}, core0'.page \in Page,
           core0'.sector = last_base - 1, core0'.pc \in {"redo", "redo_program", "entry"}
    PROVE  /\ Types' /\ Control' /\ Cached' /\ Stored' /\ Journaled' /\ Seen' /\ Ready' = Ready
<1>1. UNCHANGED <<journal_pending, journal_finalize_pending, journal_slot, last_journal_sector, pending_journal_addr>>
  BY DEF journal
<1>2. x \in Sector /\ x # Rom /\ last_base \in Pool /\ last_base >= 2 /\ ~journal_pending
  BY Numbers DEF QuietInv, Types, Control, Writing
<1>3. DOMAIN mem' = Sector /\ mem'[x] = c /\ \A s \in Sector : s # x => mem'[s] = mem[s]
  OBVIOUS
<1>4. \A s \in Sector : s >= last_base - 1 => mem'[s] = mem[s]
  BY <1>2, <1>3, Numbers
<1>5. \A s \in Sector : s >= last_base => mem'[s] = mem[s]
  BY <1>2, <1>4, Numbers
<1>6. Ready' = Ready /\ Cached' /\ Seen' /\ core1 \in {"idle", "sync", "grow_wait"} /\ flash_available /\ ~Critical
  BY <1>3, <1>5, Preparation DEF Preparing
<1>7. PICK m, n : m = mem /\ n = mem'
  OBVIOUS
<1>8. \A s \in Sector : n[s] = m[s] \/ (s < last_base - 1 /\ n[s].kind # "journal")
  BY <1>3, <1>7
<1>9. PICK b0 : b0 \in {last_base, last_base + 1} /\ Restful(m, b0)
  BY <1>6, <1>7, AtRest
<1>10. \A b \in {last_base, last_base + 1} : Restful(m, b) => IsImage(n) /\ Restful(n, b)
  <2> SUFFICES ASSUME NEW b, b \in {last_base, last_base + 1}, Restful(m, b) PROVE IsImage(n) /\ Restful(n, b)
    OBVIOUS
  <2>1. \A s \in Sector : n[s] = m[s] \/ (s < b /\ n[s].kind # "journal")
    BY <1>2, <1>8, Numbers
  <2>2. IsImage(m) /\ DOMAIN n = Sector
    BY <1>3, <1>7 DEF QuietInv, Types
  <2> QED BY <2>1, <2>2, BelowData
<1>11. IsImage(mem')
  BY <1>7, <1>9, <1>10
<1>12. Dated(mem', changes)
  BY <1>3 DEF QuietInv, Types, Dated, IsData
<1>13. Types'
  <2>1. journal_slot' \in Slot
    BY <1>1 DEF QuietInv, Types
  <2> QED BY <1>1, <1>11, <1>12, <2>1, TypesStep
<1>14. Control'
  BY <1>1, <1>2, <1>6 DEF QuietInv, Control, Unborn, Preparing, Writing
<1>15. ~Critical'
  BY DEF Critical, Writing
<1>16. Stored'
  <2>1. \A b \in {last_base, last_base + 1} : Restful(mem, b) => Restful(mem', b)
    BY <1>7, <1>10
  <2>2. mem'[last_base] = mem[last_base]
    BY <1>2, <1>5, Numbers
  <2> QED BY <1>1, <1>6, <1>15, <2>1, <2>2, StillAtRest
<1>17. mem'[last_base - 1] = mem[last_base - 1]
  BY <1>2, <1>4, Numbers
<1>18. Journaled'
  BY <1>1, <1>17 DEF QuietInv, Journaled, InUse, PendingAt, Preparing, Writing
<1> QED BY <1>3, <1>6, <1>13, <1>14, <1>16, <1>18

LEMMA ErasesRedo == QuietInv /\ EraseRedo => QuietInv'
<1> SUFFICES ASSUME QuietInv, EraseRedo PROVE QuietInv'
  OBVIOUS
<1>1. /\ core0.pc = "redo" /\ core0.sector = last_base - 1 /\ last_base >= 2 /\ last_base \in Pool
      /\ core0.page \in Ready /\ core0.page \in Page
      /\ UNCHANGED <<flash_pages, flash_available, last_base, journal, core1, changes, synced, batches>>
  BY DEF EraseRedo, QuietInv, Control, Types, Redone, Preparing, Writing
<1>2. PICK x : x = last_base - 1 - core0.page
  OBVIOUS
<1>3. x \in Int /\ x < last_base - 1
  BY <1>1, <1>2, Numbers
<1>4. CASE x < 0
  <2>1. mem' = mem /\ core0' = Idle0
    BY <1>1, <1>2, <1>4 DEF EraseRedo, RedoOf, Leave
  <2>2. core0'.pc = "idle" /\ DOMAIN core0' = {"pc", "sector", "page"} /\ core0'.page \in Page
    BY <2>1, Numbers DEF Idle0
  <2>3. UNCHANGED <<journal_pending, journal_finalize_pending, journal_slot, last_journal_sector, pending_journal_addr>>
    BY <1>1 DEF journal
  <2>4. Types' /\ Ready' = Ready /\ View' = View /\ Image(View)' = Image(View) /\ Image(mem)' = Image(mem)
    BY <1>1, <2>1, <2>2, <2>3, ControlStep
  <2>5. core1 \in {"idle", "sync", "grow_wait"} /\ flash_available /\ ~Critical /\ ~journal_pending /\ ~journal_finalize_pending
    BY <1>1 DEF QuietInv, Control, Critical, Writing
  <2>6. Control'
    BY <1>1, <2>2, <2>3, <2>4, <2>5 DEF QuietInv, Control, Unborn, Preparing, Writing
  <2>7. Cached'
    BY <1>1, <2>4 DEF QuietInv, Cached, Bottom
  <2>8. ~Critical'
    BY <2>2 DEF Critical, Writing
  <2>9. Stored'
    BY <1>1, <2>1, <2>3, <2>5, <2>8, StillAtRest
  <2>10. Journaled'
    BY <1>1, <2>1, <2>2, <2>3 DEF QuietInv, Journaled, InUse, Preparing, Writing
  <2>11. Redone'
    BY <2>2 DEF Redone, Writing
  <2>12. Seen'
    BY <1>1, <2>2, <2>4, <2>5 DEF QuietInv, Seen
  <2> QED BY <2>4, <2>6, <2>7, <2>9, <2>10, <2>11, <2>12 DEF QuietInv
<1>5. CASE x >= 0
  <2>1. mem' = [mem EXCEPT ![x] = Torn] /\ core0' = [core0 EXCEPT !.pc = "redo_program"]
    BY <1>1, <1>2, <1>3, <1>5 DEF EraseRedo, RedoOf, Stay
  <2>2. core0'.pc = "redo_program" /\ DOMAIN core0' = {"pc", "sector", "page"} /\ core0'.page = core0.page /\ core0'.sector = core0.sector
    BY <2>1 DEF QuietInv, Types
  <2>3. x \in Pool /\ x \in Nat
    BY <1>1, <1>3, <1>5, Numbers
  <2>4. Torn.kind = "torn"
    BY DEF Torn
  <2>8. DOMAIN mem' = Sector /\ mem'[x] = Torn /\ \A s \in Sector : s # x => mem'[s] = mem[s]
    BY <2>1, <2>3, Numbers DEF QuietInv, Types, IsImage
  <2>5. Types' /\ Control' /\ Cached' /\ Stored' /\ Journaled' /\ Seen' /\ Ready' = Ready
    BY <1>1, <1>3, <2>2, <2>3, <2>4, <2>8, RedoStep
  <2>6. ASSUME NEW i \in Ready, i < core0.page PROVE Copied(i)'
    <3>1. Copied(i)
      BY <1>1, <2>6 DEF QuietInv, Redone
    <3>2. i \in Page
      BY <2>6 DEF Ready
    <3>3. last_base - 1 - i \in Sector /\ last_base - 1 - i # x
      BY <1>1, <1>2, <2>6, <3>1, <3>2, Numbers DEF Copied
    <3> QED BY <1>1, <2>8, <3>1, <3>3 DEF Copied
  <2>7. Redone'
    BY <1>1, <1>2, <2>2, <2>3, <2>5, <2>6 DEF Redone, Writing
  <2> QED BY <2>5, <2>7 DEF QuietInv
<1> QED BY <1>3, <1>4, <1>5

LEMMA ProgramsRedo == QuietInv /\ ProgramRedo => QuietInv'
<1> SUFFICES ASSUME QuietInv, ProgramRedo PROVE QuietInv'
  OBVIOUS
<1>1. /\ core0.pc = "redo_program" /\ core0.sector = last_base - 1 /\ last_base >= 2 /\ last_base \in Pool
      /\ core0.page \in Ready /\ core0.page \in Page /\ last_base - 1 - core0.page \in Nat
      /\ UNCHANGED <<flash_pages, flash_available, last_base, journal, core1, changes, synced, batches>>
  BY DEF ProgramRedo, QuietInv, Control, Types, Redone, Preparing, Writing
<1>2. PICK x, p, c : x = last_base - 1 - core0.page /\ p = core0.page /\ c = flash_pages[core0.page].data
  OBVIOUS
<1>3. x \in Pool /\ x \in Nat /\ x < last_base - 1 /\ p \in Page /\ p \in Ready
  BY <1>1, <1>2, Numbers
<1>4. flash_pages[p].addr # None
  BY <1>3 DEF Ready
<1>5. c.kind = "data" /\ c.change \in Int /\ c.change <= changes
  BY <1>2, <1>3, <1>4 DEF QuietInv, Types, NoPage
<1>6. mem' = [mem EXCEPT ![x] = c]
  BY <1>1, <1>2 DEF ProgramRedo, RedoOf
<1>7. DOMAIN mem' = Sector /\ mem'[x] = c /\ \A s \in Sector : s # x => mem'[s] = mem[s]
  BY <1>3, <1>6, Numbers DEF QuietInv, Types, IsImage
<1>8. PICK more : more = {i \in Ready : i > p}
  OBVIOUS
<1>9. IF more = {} THEN core0' = [core0 EXCEPT !.pc = "entry"] ELSE core0' = [core0 EXCEPT !.pc = "redo", !.page = Min(more)]
  BY <1>2, <1>8 DEF ProgramRedo, Stay
<1>10. /\ DOMAIN core0' = {"pc", "sector", "page"} /\ core0'.sector = last_base - 1 /\ core0'.page \in Page
       /\ \/ core0'.pc = "entry" /\ \A i \in Ready : i <= p
          \/ core0'.pc = "redo" /\ core0'.page \in Ready /\ \A i \in Ready : i < core0'.page => i <= p
  <2>1. Ready \subseteq Page /\ Ready \subseteq Nat /\ p \in Nat
    BY <1>3, Numbers DEF Ready
  <2>2. CASE more = {}
    <3>1. core0'.pc = "entry" /\ core0'.sector = core0.sector /\ core0'.page = core0.page /\ DOMAIN core0' = {"pc", "sector", "page"}
      BY <1>9, <2>2 DEF QuietInv, Types
    <3>2. \A i \in Ready : i <= p
      BY <1>8, <2>1, <2>2
    <3> QED BY <1>1, <3>1, <3>2
  <2>3. CASE more # {}
    <3>1. PICK q : q = Min(more)
      OBVIOUS
    <3>2. core0'.pc = "redo" /\ core0'.sector = core0.sector /\ core0'.page = q /\ DOMAIN core0' = {"pc", "sector", "page"}
      BY <1>9, <2>3, <3>1 DEF QuietInv, Types
    <3>3. more \in SUBSET Nat
      BY <1>8, <2>1
    <3>4. q \in more /\ \A i \in more : q <= i
      BY <2>3, <3>1, <3>3, LeastIn
    <3>5. ASSUME NEW i \in Ready, i < q PROVE i <= p
      <4>1. i \in Nat /\ q \in Nat /\ ~(q <= i)
        BY <2>1, <3>3, <3>4, <3>5
      <4>2. i \notin more
        BY <3>4, <4>1
      <4> QED BY <1>8, <2>1, <3>5, <4>1, <4>2
    <3> QED BY <1>1, <1>8, <2>1, <3>2, <3>4, <3>5
  <2> QED BY <2>2, <2>3
<1>11. Types' /\ Control' /\ Cached' /\ Stored' /\ Journaled' /\ Seen' /\ Ready' = Ready
  BY <1>1, <1>3, <1>5, <1>7, <1>10, RedoStep
<1>12. ASSUME NEW i \in Ready, i <= p PROVE Copied(i)'
  <2>1. i \in Page /\ i \in Nat
    BY Numbers DEF Ready
  <2>2. CASE i = p
    BY <1>1, <1>2, <1>7, <2>2 DEF Copied
  <2>3. CASE i # p
    <3>1. i < p
      BY <1>3, <1>12, <2>1, <2>3, Numbers
    <3>2. Copied(i)
      BY <1>1, <1>2, <3>1 DEF QuietInv, Redone
    <3>3. last_base - 1 - i \in Sector /\ last_base - 1 - i # x
      BY <1>1, <1>2, <1>3, <2>1, <2>3, <3>2, Numbers DEF Copied
    <3> QED BY <1>1, <1>7, <3>2, <3>3 DEF Copied
  <2> QED BY <2>2, <2>3
<1>13. Redone'
  BY <1>10, <1>11, <1>12 DEF Redone, Writing
<1> QED BY <1>11, <1>13 DEF QuietInv

-----------------------------------------------------------------------------
(* The journal entry *)

LEMMA JournalTouched ==
    ASSUME NEW m, NEW n, NEW j \in Sector, NEW b, IsImage(m), Restful(m, b), m[j].kind = "journal", j < b,
           \A s \in Sector : s # j => n[s] = m[s],
           \A l \in Slot : PendingAt(n, j, l) => Harmless(n, b, j, l)
    PROVE  Restful(n, b)
<1>1. \A s \in b .. NumSectors : n[s] = m[s]
  BY Numbers DEF Restful, Walk
<1>2. Walk(n, b)
  BY <1>1, SameImage DEF Restful, IsImage
<1>3. Places(n, b)
  BY DEF Restful, Places
<1>4. ASSUME NEW s \in Sector, NEW l \in Slot, PendingAt(n, s, l) PROVE Harmless(n, b, s, l)
  <2>1. CASE s = j
    BY <1>4, <2>1
  <2>2. CASE s # j
    BY <1>4, <2>2 DEF Restful, PendingAt, Harmless
  <2> QED BY <2>1, <2>2
<1> QED BY <1>2, <1>3, <1>4 DEF Restful

Written(m, j, k, x) == [m EXCEPT ![j].entries[k] = x]

LEMMA EntryWritten ==
    ASSUME NEW m, IsImage(m), NEW j \in Sector, m[j].kind = "journal", NEW k \in Slot, NEW x \in Entries, NEW n,
           n = Written(m, j, k, x)
    PROVE  /\ IsImage(n) /\ n[j].kind = "journal" /\ n[j].entries[k] = x
           /\ \A l \in Slot : l # k => n[j].entries[l] = m[j].entries[l]
           /\ \A s \in Sector : s # j => n[s] = m[s]
<1>1. PICK e \in [Slot -> Entries] : m[j] = [kind |-> "journal", entries |-> e]
  BY DEF IsImage, Journal
<1>2. PICK f : f = [e EXCEPT ![k] = x]
  OBVIOUS
<1>3. f \in [Slot -> Entries] /\ f[k] = x /\ \A l \in Slot : l # k => f[l] = e[l]
  BY <1>2
<1>4. m[j].entries = e
  BY <1>1
<1>5. [m[j] EXCEPT !.entries = f] = [kind |-> "journal", entries |-> f]
  BY <1>1
<1>6. n = [m EXCEPT ![j] = [m[j] EXCEPT !.entries = [e EXCEPT ![k] = x]]]
  BY <1>4 DEF Written
<1>7. n = [m EXCEPT ![j] = [kind |-> "journal", entries |-> f]]
  BY <1>2, <1>5, <1>6
<1>8. DOMAIN n = Sector /\ n[j] = [kind |-> "journal", entries |-> f] /\ \A s \in Sector : s # j => n[s] = m[s]
  BY <1>7 DEF IsImage
<1>9. j # Rom
  BY DEF IsImage, IsData
<1>10. IsData(n, Rom)
  BY <1>8, <1>9, Numbers DEF IsImage, IsData
<1>11. n[j] = Journal(n[j].entries) /\ n[j].entries = f /\ n[j].kind = "journal"
  BY <1>8 DEF Journal
<1>12. IsImage(n)
  BY <1>3, <1>8, <1>10, <1>11 DEF IsImage
<1> QED BY <1>1, <1>3, <1>4, <1>8, <1>11, <1>12

LEMMA WritesEntry == QuietInv /\ WriteEntry => QuietInv'
<1> SUFFICES ASSUME QuietInv, WriteEntry PROVE QuietInv'
  OBVIOUS
<1>1. /\ core0.pc = "entry" /\ core0.sector = last_base - 1 /\ last_base >= 2 /\ last_base \in Pool
      /\ UNCHANGED <<flash_pages, flash_available, last_base, journal, core1, changes, synced, batches>>
      /\ core0' = [core0 EXCEPT !.pc = "pending"] /\ journal_slot \in Slot /\ ~journal_pending
  BY DEF WriteEntry, Stay, QuietInv, Control, Types, Preparing, Writing
<1>2. UNCHANGED <<journal_pending, journal_finalize_pending, journal_slot, last_journal_sector, pending_journal_addr>>
  BY <1>1 DEF journal
<1>3. core0'.pc = "pending" /\ DOMAIN core0' = {"pc", "sector", "page"} /\ core0'.page = core0.page /\ core0'.sector = core0.sector
  BY <1>1 DEF QuietInv, Types
<1>4. InUse /\ mem[last_base - 1].kind = "journal"
  BY <1>1 DEF QuietInv, Journaled, Preparing
<1>5. /\ mem[last_base - 1].entries[journal_slot] = NoEntry
      /\ \A k \in Slot : k > journal_slot => mem[last_base - 1].entries[k] = NoEntry
      /\ \A k \in Slot : ~PendingAt(mem, last_base - 1, k)
  BY <1>1, <1>4 DEF QuietInv, Journaled, Preparing, Writing
<1>6. PICK x : x = [targets |-> [i \in Page |-> flash_pages[i].addr], status |-> "empty"]
  OBVIOUS
<1>7. x \in Entries
  <2>1. \A i \in Page : flash_pages[i].addr \in Int
    BY Numbers DEF QuietInv, Types, NoPage, None
  <2> QED BY <1>6, <2>1 DEF Entries
<1>8. Programmed(NoEntry.targets, [i \in Page |-> flash_pages[i].addr]) = [i \in Page |-> flash_pages[i].addr]
  <2>1. \A i \in Page : NoEntry.targets[i] = None
    BY DEF NoEntry
  <2> QED BY <2>1 DEF Programmed
<1>9. mem' = [mem EXCEPT ![last_base - 1].entries[journal_slot] = x]
  <2>1. mem' = [mem EXCEPT ![last_base - 1].entries[journal_slot] =
                  [targets |-> Programmed(mem[last_base - 1].entries[journal_slot].targets, [i \in Page |-> flash_pages[i].addr]), status |-> "empty"]]
    BY <1>1, <1>4 DEF WriteEntry
  <2> QED BY <1>5, <1>6, <1>8, <2>1
<1>10. last_base - 1 \in Sector /\ last_base - 1 \in Pool
  BY <1>1, Numbers
<1>11. PICK m, n, j, k : m = mem /\ n = mem' /\ j = last_base - 1 /\ k = journal_slot
  OBVIOUS
<1>12. n = Written(m, j, k, x)
  BY <1>9, <1>11 DEF Written
<1>13. /\ IsImage(n) /\ n[j].kind = "journal" /\ n[j].entries[k] = x
       /\ \A l \in Slot : l # k => n[j].entries[l] = m[j].entries[l]
       /\ \A s \in Sector : s # j => n[s] = m[s]
  <2>1. IsImage(m) /\ j \in Sector /\ m[j].kind = "journal" /\ k \in Slot
    BY <1>1, <1>4, <1>10, <1>11 DEF QuietInv, Types
  <2> QED BY <1>7, <1>12, <2>1, EntryWritten
<1>14. \A l \in Slot : ~PendingAt(n, j, l)
  <2>1. x.status = "empty"
    BY <1>6
  <2> QED BY <1>4, <1>5, <1>11, <1>13, <2>1 DEF PendingAt
<1>15. \A s \in Sector : s >= last_base => mem'[s] = mem[s]
  BY <1>1, <1>11, <1>13, Numbers
<1>16. DOMAIN mem' = Sector
  BY <1>11, <1>13 DEF IsImage
<1>17. Ready' = Ready /\ Cached' /\ Seen' /\ core1 \in {"idle", "sync", "grow_wait"} /\ flash_available /\ ~Critical
  BY <1>1, <1>15, <1>16, Preparation DEF Preparing
<1>18. Types'
  <2>1. Dated(mem', changes)
    BY <1>11, <1>13 DEF QuietInv, Types, Dated, IsData
  <2>2. core0'.page \in Page
    BY <1>3 DEF QuietInv, Types
  <2> QED BY <1>1, <1>2, <1>3, <1>11, <1>13, <2>1, <2>2, TypesStep
<1>19. Control'
  BY <1>1, <1>2, <1>3, <1>17 DEF QuietInv, Control, Unborn, Preparing, Writing
<1>20. ~Critical'
  BY <1>3 DEF Critical, Writing
<1>21. Stored'
  <2>1. ASSUME NEW b \in {last_base, last_base + 1}, Restful(mem, b) PROVE Restful(mem', b)
    <3>1. j < b /\ j \in Sector /\ IsImage(m) /\ Restful(m, b) /\ m[j].kind = "journal"
      BY <1>1, <1>4, <1>10, <1>11, <2>1, Numbers DEF QuietInv, Types
    <3> QED BY <1>11, <1>13, <1>14, <3>1, JournalTouched
  <2>2. mem'[last_base] = mem[last_base]
    BY <1>1, <1>15, Numbers
  <2> QED BY <1>1, <1>2, <1>17, <1>20, <2>1, <2>2, StillAtRest
<1>22. Journaled'
  <2>1. InUse' /\ mem'[last_base - 1].kind = "journal" /\ mem'[last_base - 1].entries[journal_slot] = x
    BY <1>1, <1>2, <1>4, <1>11, <1>13 DEF InUse
  <2>2. \A l \in Slot : l > journal_slot => mem'[last_base - 1].entries[l] = NoEntry
    <3>1. \A l \in Slot : l > journal_slot => l # journal_slot
      BY <1>1, Numbers
    <3> QED BY <1>5, <1>11, <1>13, <3>1
  <2>3. \A l \in Slot : ~PendingAt(mem', last_base - 1, l)
    BY <1>11, <1>14
  <2> QED BY <1>1, <1>2, <1>3, <1>6, <2>1, <2>2, <2>3 DEF Journaled, Entry, Preparing, Writing
<1>23. Redone'
  <2>1. ASSUME NEW i \in Ready PROVE Copied(i)'
    <3>1. Copied(i) /\ i \in Page
      BY <1>1 DEF QuietInv, Redone, Ready
    <3>2. last_base - 1 - i \in Sector /\ last_base - 1 - i # last_base - 1
      BY <1>1, <3>1, Numbers DEF Copied
    <3> QED BY <1>1, <1>11, <1>13, <3>1, <3>2 DEF Copied
  <2> QED BY <1>3, <1>17, <2>1 DEF Redone, Writing
<1> QED BY <1>17, <1>18, <1>19, <1>21, <1>22, <1>23 DEF QuietInv

LEMMA MarksPending == QuietInv /\ MarkPending => QuietInv'
<1> SUFFICES ASSUME QuietInv, MarkPending PROVE QuietInv'
  OBVIOUS
<1>1. /\ core0.pc = "pending" /\ core0.sector = last_base - 1 /\ last_base >= 2 /\ last_base \in Pool
      /\ UNCHANGED <<flash_pages, flash_available, last_base, journal_finalize_pending, journal_slot,
                     last_journal_sector, core1, changes, synced, batches>>
      /\ core0' = [core0 EXCEPT !.pc = "write"] /\ journal_slot \in Slot /\ ~journal_pending /\ ~journal_finalize_pending
      /\ journal_pending' = TRUE /\ pending_journal_addr' = <<last_base - 1, journal_slot>>
      /\ mem' = SetStatus(mem, last_base - 1, journal_slot, "pending")
  BY DEF MarkPending, Stay, QuietInv, Control, Types, Preparing, Writing
<1>2. core0'.pc = "write" /\ DOMAIN core0' = {"pc", "sector", "page"} /\ core0'.page = core0.page /\ core0'.sector = core0.sector
  BY <1>1 DEF QuietInv, Types
<1>3. InUse /\ mem[last_base - 1].kind = "journal"
  BY <1>1 DEF QuietInv, Journaled, Preparing
<1>4. /\ Entry = [targets |-> [i \in Page |-> flash_pages[i].addr], status |-> "empty"]
      /\ \A k \in Slot : k > journal_slot => mem[last_base - 1].entries[k] = NoEntry
      /\ \A k \in Slot : ~PendingAt(mem, last_base - 1, k)
  BY <1>1, <1>3 DEF QuietInv, Journaled, Preparing, Writing
<1>5. last_base - 1 \in Sector /\ last_base - 1 \in Pool /\ last_base \in Sector
  BY <1>1, Numbers
<1>6. PICK m, n, j, k : m = mem /\ n = mem' /\ j = last_base - 1 /\ k = journal_slot
  OBVIOUS
<1>7. IsImage(m) /\ j \in Sector /\ m[j].kind = "journal" /\ k \in Slot /\ n = SetStatus(m, j, k, "pending")
  BY <1>1, <1>3, <1>5, <1>6 DEF QuietInv, Types
<1>8. IsImage(n) /\ Marked(m, n, j, k, "pending")
  BY <1>7, StatusSet DEF Statuses
<1>9. \A s \in Sector : s # j => mem'[s] = mem[s]
  BY <1>6, <1>8 DEF Marked
<1>10. \A s \in Sector : s >= last_base => mem'[s] = mem[s]
  BY <1>1, <1>6, <1>9, Numbers
<1>11. DOMAIN mem' = Sector
  BY <1>6, <1>8 DEF IsImage
<1>12. Ready' = Ready /\ Cached' /\ Seen' /\ core1 \in {"idle", "sync", "grow_wait"} /\ flash_available /\ ~Critical
  BY <1>1, <1>10, <1>11, Preparation DEF Preparing
<1>13. Types'
  <2>1. Dated(mem', changes)
    BY <1>6, <1>8 DEF QuietInv, Types, Dated, IsData, Marked
  <2>2. core0'.page \in Page
    BY <1>2 DEF QuietInv, Types
  <2> QED BY <1>1, <1>2, <1>6, <1>8, <2>1, <2>2, TypesStep
<1>14. Control'
  BY <1>1, <1>2, <1>12 DEF QuietInv, Control, Unborn, Preparing, Writing
<1>15. PICK T : T = [i \in Page |-> flash_pages[i].addr]
  OBVIOUS
<1>16. n[j].kind = "journal" /\ n[j].entries[k].targets = T /\ n[j].entries[k].status = "pending"
  BY <1>4, <1>6, <1>8, <1>15 DEF Marked, Entry
<1>17. \A i \in Page : T[i] # None => i \in Ready
  BY <1>15 DEF Ready
<1>18. \A i \in Ready : i \in Page /\ T[i] = flash_pages[i].addr /\ Copied(i) /\ T[i] >= last_base /\ (core1 = "grow_wait" => T[i] = last_base)
  <2>1. ASSUME NEW i \in Ready PROVE Copied(i) /\ i \in Page
    BY <1>1 DEF QuietInv, Redone, Ready
  <2>2. ASSUME NEW i \in Ready PROVE flash_pages[i].addr >= last_base /\ (core1 = "grow_wait" => flash_pages[i].addr = last_base)
    BY <1>1, <1>12, Numbers DEF QuietInv, Cached, Extending
  <2> QED BY <1>15, <2>1, <2>2
<1>19. \A l \in Slot : PendingAt(n, j, l) => l = k
  <2> SUFFICES ASSUME NEW l \in Slot, PendingAt(n, j, l), l # k PROVE FALSE
    OBVIOUS
  <2>1. n[j].entries[l] = m[j].entries[l]
    BY <1>8 DEF Marked
  <2>2. PendingAt(m, j, l)
    BY <1>7, <2>1 DEF PendingAt
  <2> QED BY <1>4, <1>6, <2>2
<1>20. Stored'
  <2>1. CASE core1 \in {"idle", "sync"}
    <3>1. \/ Restful(mem, last_base)
          \/ Restful(mem, last_base + 1) /\ IsData(mem, last_base) /\ ~mem[last_base].more
      BY <1>12, <2>1 DEF QuietInv, Stored, Unlinked
    <3>2. \A s \in Sector : mem'[s].kind = "journal" <=> mem[s].kind = "journal"
      BY <1>3, <1>6, <1>9, <1>16
    <3>3. Places(mem', last_base) /\ (IsData(mem', last_base) => ~mem'[last_base].more)
      <4>1. mem'[last_base] = mem[last_base]
        BY <1>1, <1>5, <1>10, Numbers
      <4>2. CASE Restful(mem, last_base)
        BY <3>2, <4>1, <4>2 DEF Restful, Places, Walk, IsData
      <4>3. CASE Restful(mem, last_base + 1) /\ IsData(mem, last_base) /\ ~mem[last_base].more
        <5>1. ASSUME NEW s \in Sector, mem[s].kind = "journal" PROVE s = last_base - 1
          <6>1. PICK b : b = last_base + 1
            OBVIOUS
          <6>2. Restful(mem, b)
            BY <4>3, <6>1
          <6>3. s \in {b - 1, b - 2}
            BY <5>1, <6>2 DEF Restful, Places
          <6>4. s # last_base
            BY <4>3, <5>1 DEF IsData
          <6> QED BY <1>1, <6>1, <6>3, <6>4, Numbers
        <5> QED BY <3>2, <4>1, <4>3, <5>1 DEF Places, IsData
      <4> QED BY <3>1, <4>2, <4>3
    <3>4. ASSUME NEW s \in Sector, NEW l \in Slot, PendingAt(mem', s, l) PROVE Current(s, l) \/ Harmless(mem', last_base, s, l)
      <4>1. CASE s = j
        BY <1>6, <1>19, <3>4, <4>1 DEF Current
      <4>2. CASE s # j
        <5>1. PendingAt(mem, s, l) /\ mem'[s] = mem[s]
          BY <1>9, <3>4, <4>2 DEF PendingAt
        <5>2. CASE Restful(mem, last_base)
          BY <5>1, <5>2 DEF Restful, Harmless
        <5>3. CASE Restful(mem, last_base + 1)
          <6>1. PICK b : b = last_base + 1
            OBVIOUS
          <6>2. Restful(mem, b)
            BY <5>3, <6>1
          <6>3. s = b - 2
            BY <5>1, <6>2 DEF Restful, Harmless
          <6> QED BY <1>1, <1>6, <4>2, <6>1, <6>3, Numbers
        <5> QED BY <3>1, <5>2, <5>3
      <4> QED BY <4>1, <4>2
    <3>5. Critical'
      BY <1>1, <1>2, <2>1 DEF Critical, Writing
    <3>7. \A s, l : Current(s, l)' <=> Current(s, l)
      BY <1>1 DEF Current
    <3> QED BY <1>1, <2>1, <3>3, <3>4, <3>5, <3>7 DEF Stored, Unborn, Harmless
  <2>2. CASE core1 = "grow_wait"
    <3>1. Restful(m, last_base + 1)
      BY <1>6, <1>12, <2>2 DEF QuietInv, Stored, Unborn
    <3>2. ASSUME NEW l \in Slot, PendingAt(n, j, l) PROVE Harmless(n, last_base + 1, j, l)
      <4>1. l = k
        BY <1>19, <3>2
      <4>2. \A i \in Page : T[i] # None => T[i] = last_base /\ last_base - 1 - i \in Nat
        BY <1>17, <1>18, <2>2 DEF Copied
      <4>3. PICK b : b = last_base + 1
        OBVIOUS
      <4>4. j = b - 2 /\ last_base = b - 1
        BY <1>1, <1>6, <4>3, Numbers
      <4>5. \A i \in Page : T[i] # None => T[i] = b - 1 /\ j - i \in Nat
        BY <1>6, <4>2, <4>4
      <4>6. n[j].entries[l].targets = T
        BY <1>16, <4>1
      <4>7. Harmless(n, b, j, l)
        BY <4>4, <4>5, <4>6 DEF Harmless
      <4> QED BY <4>3, <4>7
    <3>3. j < last_base + 1
      BY <1>1, <1>6, Numbers
    <3>4. Restful(n, last_base + 1)
      <4>1. PICK b : b = last_base + 1
        OBVIOUS
      <4> QED BY <1>7, <1>8, <3>1, <3>2, <3>3, <4>1, JournalTouched DEF Marked
    <3> QED BY <1>1, <1>6, <1>12, <2>2, <3>4 DEF Stored, Unborn, Critical
  <2> QED BY <1>12, <2>1, <2>2
<1>21. Journaled'
  <2>1. InUse' /\ mem'[last_base - 1].kind = "journal"
    BY <1>1, <1>3, <1>6, <1>16 DEF InUse
  <2>2. \A l \in Slot : l > journal_slot => mem'[last_base - 1].entries[l] = NoEntry
    <3>1. \A l \in Slot : l > journal_slot => l # journal_slot
      BY <1>1, Numbers
    <3> QED BY <1>4, <1>6, <1>8, <3>1 DEF Marked
  <2>3. \A l \in Slot : PendingAt(mem', last_base - 1, l) => l = journal_slot
    BY <1>6, <1>19
  <2> QED BY <1>1, <1>2, <2>1, <2>2, <2>3 DEF Journaled, Preparing, Writing
<1>22. Redone'
  <2>1. Entry' = n[j].entries[k]
    BY <1>1, <1>6 DEF Entry
  <2>2. \E i \in Page : T[i] # None
    <3>1. PICK i : i \in Ready
      BY <1>1 DEF QuietInv, Control
    <3> QED BY <1>18, <3>1 DEF Ready
  <2>3. ASSUME NEW i \in Page, T[i] # None
        PROVE  /\ T[i] \in Pool /\ T[i] >= last_base /\ last_base - 1 - i \in Nat
               /\ mem'[last_base - 1 - i] = View'[T[i]]
    <3>1. i \in Ready
      BY <1>17, <2>3
    <3>2. T[i] \in Pool /\ View[T[i]] = flash_pages[i].data
      BY <1>18, <3>1, Reading DEF QuietInv
    <3>3. last_base - 1 - i \in Nat /\ mem[last_base - 1 - i] = flash_pages[i].data /\ T[i] >= last_base
      BY <1>18, <3>1 DEF Copied
    <3>4. last_base - 1 - i \in Sector /\ last_base - 1 - i # j
      BY <1>1, <1>6, <3>3, Numbers
    <3>5. T[i] \in Sector /\ View'[T[i]] = View[T[i]]
      <4>1. T[i] \in Sector
        BY <3>2, Numbers
      <4>2. mem'[T[i]] = mem[T[i]]
        BY <1>10, <3>3, <4>1
      <4> QED BY <1>1, <4>1, <4>2, ViewFrame
    <3> QED BY <1>9, <3>2, <3>3, <3>4, <3>5
  <2>4. \A i \in Ready : T[i] = flash_pages[i].addr
    BY <1>18
  <2> QED BY <1>1, <1>2, <1>12, <1>16, <2>1, <2>2, <2>3, <2>4 DEF Redone, Writing
<1> QED BY <1>12, <1>13, <1>14, <1>20, <1>21, <1>22 DEF QuietInv

-----------------------------------------------------------------------------
(* Core 0 writes a batch *)

\* A step inside the write-out: one sector of the batch changes, and no reader sees it.
LEMMA TargetStep ==
    ASSUME QuietInv, core0.pc \in {"write", "program"}, core0'.pc \in {"write", "program"}, Types',
           UNCHANGED <<flash_available, last_base, journal, core1, changes, synced, batches>>,
           NEW x \in Pool, x >= last_base, core1 = "grow_wait" => x = last_base,
           \A s \in Sector : s # x => mem'[s] = mem[s],
           mem'[x].kind # "journal", x = last_base /\ IsData(mem', x) => ~mem'[x].more,
           View' = View, Ready' \subseteq Ready, \A i \in Ready' : flash_pages'[i] = flash_pages[i]
    PROVE  Cached' /\ Stored' /\ Journaled' /\ Redone' /\ Seen'
<1>1. UNCHANGED <<journal_pending, journal_finalize_pending, journal_slot, last_journal_sector, pending_journal_addr>>
  BY DEF journal
<1>2. /\ core1 \in {"idle", "sync", "grow_wait"} /\ flash_available /\ last_base \in Pool /\ last_base >= 2
      /\ core0.pc \in Writing /\ core0'.pc \in Writing /\ core0.pc # "idle" /\ core0.pc # "check"
      /\ core0.pc # "pending" /\ core0'.pc # "pending" /\ core0.pc # "redo" /\ core0.pc # "redo_program" /\ core0.pc # "entry"
  BY DEF QuietInv, Control, Types, Writing
<1>3. last_base - 1 \in Sector /\ x # last_base - 1 /\ last_base \in Sector /\ x \in Sector
  BY <1>2, Numbers
<1>4. mem'[last_base - 1] = mem[last_base - 1]
  BY <1>3
<1>5. \A s \in Sector : s < last_base => mem'[s] = mem[s]
  BY <1>2, Numbers
<1>6. Cached'
  BY <1>2 DEF QuietInv, Cached, Bottom, Extending
<1>7. Journaled'
  BY <1>1, <1>2, <1>4 DEF QuietInv, Journaled, InUse, PendingAt, Preparing, Writing
<1>8. Redone'
  <2>1. Entry' = Entry
    BY <1>1, <1>4 DEF Entry
  <2>2. ASSUME NEW i \in Page, Entry.targets[i] # None
        PROVE  /\ Entry.targets[i] \in Pool /\ Entry.targets[i] >= last_base
               /\ last_base - 1 - i \in Nat
               /\ mem'[last_base - 1 - i] = View[Entry.targets[i]]
    <3>1. /\ Entry.targets[i] \in Pool /\ Entry.targets[i] >= last_base
          /\ last_base - 1 - i \in Nat
          /\ mem[last_base - 1 - i] = View[Entry.targets[i]]
      BY <1>2, <2>2 DEF QuietInv, Redone
    <3>2. last_base - 1 - i \in Sector /\ last_base - 1 - i < last_base
      BY <1>2, <3>1, Numbers
    <3> QED BY <1>5, <3>1, <3>2
  <2>3. /\ pending_journal_addr = <<last_base - 1, journal_slot>>
        /\ Entry.status = "pending"
        /\ \E i \in Page : Entry.targets[i] # None
        /\ \A i \in Ready : Entry.targets[i] = flash_pages[i].addr
    BY <1>2 DEF QuietInv, Redone
  <2> QED BY <1>1, <1>2, <2>1, <2>2, <2>3 DEF Redone, Writing
<1>9. CASE core1 \in {"idle", "sync"}
  <2>1. Critical /\ Critical'
    BY <1>2, <1>9 DEF Critical
  <2>2. Places(mem', last_base)
    BY <2>1 DEF QuietInv, Stored, Places
  <2>3. ASSUME NEW s \in Sector, NEW k \in Slot, PendingAt(mem', s, k) PROVE Current(s, k)' \/ Harmless(mem', last_base, s, k)
    <3>1. s # x /\ PendingAt(mem, s, k) /\ mem'[s] = mem[s]
      BY <2>3 DEF PendingAt
    <3>2. Current(s, k) \/ Harmless(mem, last_base, s, k)
      BY <2>1, <3>1 DEF QuietInv, Stored
    <3> QED BY <1>1, <3>1, <3>2 DEF Current, Harmless
  <2>4. IsData(mem', last_base) => ~mem'[last_base].more
    <3>1. CASE x = last_base
      BY <3>1
    <3>2. CASE x # last_base
      BY <1>3, <2>1, <3>2 DEF QuietInv, Stored, IsData
    <3> QED BY <3>1, <3>2
  <2>5. Stored'
    BY <1>2, <1>9, <2>1, <2>2, <2>3, <2>4 DEF Stored, Unborn
  <2>6. Image(View)' = Image(View)
    <3>1. PICK V : V = View
      OBVIOUS
    <3>2. View' = V
      BY <3>1
    <3> QED BY <3>1, <3>2
  <2>7. Seen'
    BY <1>2, <2>1, <2>6 DEF QuietInv, Seen
  <2> QED BY <1>6, <1>7, <1>8, <2>5, <2>7
<1>10. CASE core1 = "grow_wait"
  <2>1. ~Critical /\ ~Critical' /\ Unborn /\ Unborn'
    BY <1>2, <1>10 DEF Critical, Unborn
  <2>2. PICK m, n, b : m = mem /\ n = mem' /\ b = last_base + 1
    OBVIOUS
  <2>3. IsImage(m) /\ Restful(m, b) /\ DOMAIN n = Sector
    BY <2>1, <2>2 DEF QuietInv, Stored, Types, IsImage
  <2>4. \A s \in Sector : n[s] = m[s] \/ (s < b /\ n[s].kind # "journal")
    BY <1>2, <1>10, <2>2, Numbers
  <2>5. Restful(n, b) /\ \A s \in b .. NumSectors : n[s] = m[s]
    BY <2>3, <2>4, BelowData
  <2>6. Stored'
    BY <1>2, <1>10, <2>1, <2>2, <2>5 DEF Stored, Unborn
  <2>7. Image(n) = Image(m)
    BY <2>3, <2>5, SameImage DEF Restful, IsImage
  <2>8. PICK V : V = View
    OBVIOUS
  <2>9. View' = V
    BY <2>8
  <2>10. Seen'
    BY <1>2, <2>1, <2>2, <2>7, <2>8, <2>9 DEF QuietInv, Seen
  <2> QED BY <1>6, <1>7, <1>8, <2>6, <2>10
<1> QED BY <1>2, <1>9, <1>10

\* The page that is written next.
LEMMA NextTarget ==
    ASSUME QuietInv, core0.pc \in {"write", "program"}, Ready # {}
    PROVE  /\ Min(Ready) \in Ready /\ Min(Ready) \in Page
           /\ flash_pages[Min(Ready)].addr \in Pool /\ flash_pages[Min(Ready)].addr >= last_base
           /\ core1 = "grow_wait" => flash_pages[Min(Ready)].addr = last_base
           /\ View[flash_pages[Min(Ready)].addr] = flash_pages[Min(Ready)].data
           /\ flash_pages[Min(Ready)].data.kind = "data"
           /\ flash_pages[Min(Ready)].data.change \in Int /\ flash_pages[Min(Ready)].data.change <= changes
<1>1. Ready \in SUBSET Nat /\ Ready \subseteq Page
  BY Numbers DEF Ready
<1>2. PICK i : i = Min(Ready)
  OBVIOUS
<1>3. i \in Ready /\ i \in Page /\ flash_pages[i].addr # None
  BY <1>1, <1>2, LeastIn DEF Ready
<1>4. flash_pages[i].addr \in Pool /\ View[flash_pages[i].addr] = flash_pages[i].data
  BY <1>3, Reading DEF QuietInv
<1>5. core1 \in {"idle", "sync", "grow_wait"} /\ last_base \in Pool
  BY DEF QuietInv, Control, Types
<1>6. flash_pages[i].addr >= last_base /\ (core1 = "grow_wait" => flash_pages[i].addr = last_base)
  BY <1>3, <1>5, Numbers DEF QuietInv, Cached, Extending
<1>7. flash_pages[i].data.kind = "data" /\ flash_pages[i].data.change \in Int /\ flash_pages[i].data.change <= changes
  BY <1>3 DEF QuietInv, Types, NoPage
<1> QED BY <1>2, <1>3, <1>4, <1>6, <1>7

LEMMA ErasesTarget == QuietInv /\ EraseTarget => QuietInv'
<1> SUFFICES ASSUME QuietInv, EraseTarget PROVE QuietInv'
  OBVIOUS
<1>1. /\ core0.pc = "write" /\ Ready # {}
      /\ UNCHANGED <<flash_pages, flash_available, last_base, journal, core1, changes, synced, batches>>
      /\ core0' = [core0 EXCEPT !.pc = "program"]
  BY DEF EraseTarget, Stay
<1>2. PICK x, i : x = flash_pages[Min(Ready)].addr /\ i = Min(Ready)
  OBVIOUS
<1>3. i \in Ready /\ i \in Page /\ x = flash_pages[i].addr /\ x \in Pool /\ x >= last_base /\ (core1 = "grow_wait" => x = last_base)
  BY <1>1, <1>2, NextTarget
<1>4. mem' = [mem EXCEPT ![x] = Torn]
  BY <1>2 DEF EraseTarget
<1>5. DOMAIN mem' = Sector /\ mem'[x] = Torn /\ (\A s \in Sector : s # x => mem'[s] = mem[s]) /\ x \in Sector /\ x # Rom
  BY <1>3, <1>4, Numbers DEF QuietInv, Types, IsImage
<1>6. Torn.kind = "torn"
  BY DEF Torn
<1>7. core0'.pc = "program" /\ DOMAIN core0' = {"pc", "sector", "page"} /\ core0'.page = core0.page /\ core0'.sector = core0.sector
  BY <1>1 DEF QuietInv, Types
<1>8. UNCHANGED <<journal_pending, journal_finalize_pending, journal_slot, last_journal_sector, pending_journal_addr>>
  BY <1>1 DEF journal
<1>9. Types'
  <2>1. IsData(mem', Rom)
    BY <1>5, Numbers DEF QuietInv, Types, IsImage, IsData
  <2>2. IsImage(mem')
    BY <1>5, <1>6, <2>1 DEF QuietInv, Types, IsImage
  <2>3. Dated(mem', changes)
    BY <1>5, <1>6 DEF QuietInv, Types, Dated, IsData
  <2>4. core0'.page \in Page /\ journal_slot' \in Slot
    BY <1>7, <1>8 DEF QuietInv, Types
  <2> QED BY <1>1, <1>7, <1>8, <2>2, <2>3, <2>4, TypesStep
<1>10. Ready' = Ready
  BY <1>1, ViewFrame
<1>11. View' = View
  <2>1. DOMAIN View = Sector /\ DOMAIN View' = Sector
    BY DEF View
  <2>2. View[x] = flash_pages[i].data
    BY <1>3, Reading DEF QuietInv
  <2>3. View'[x] = flash_pages[i].data
    BY <1>1, <1>3, <1>9, <1>10, ReadingLater
  <2>4. \A s \in Sector : View'[s] = View[s]
    BY <1>1, <1>5, <2>2, <2>3, ViewFrame
  <2>5. View = [s \in Sector |-> View[s]] /\ View' = [s \in Sector |-> View'[s]]
    BY DEF View
  <2> QED BY <2>4, <2>5
<1>12. Control'
  BY <1>1, <1>7, <1>8, <1>10 DEF QuietInv, Control, Unborn, Preparing, Writing
<1>13. Cached' /\ Stored' /\ Journaled' /\ Redone' /\ Seen'
  BY <1>1, <1>3, <1>5, <1>6, <1>7, <1>9, <1>10, <1>11, TargetStep DEF IsData
<1> QED BY <1>9, <1>12, <1>13 DEF QuietInv

LEMMA ProgramsTarget == QuietInv /\ ProgramTarget => QuietInv'
<1> SUFFICES ASSUME QuietInv, ProgramTarget PROVE QuietInv'
  OBVIOUS
<1>1. /\ core0.pc = "program" /\ Ready # {}
      /\ UNCHANGED <<flash_available, last_base, journal, core1, changes, synced, batches>>
      /\ core0' = [core0 EXCEPT !.pc = "write"]
  BY DEF ProgramTarget, Stay, QuietInv, Control
<1>2. PICK x, i, c : x = flash_pages[Min(Ready)].addr /\ i = Min(Ready) /\ c = flash_pages[Min(Ready)].data
  OBVIOUS
<1>3. /\ i \in Ready /\ i \in Page /\ x = flash_pages[i].addr /\ x \in Pool /\ x >= last_base /\ (core1 = "grow_wait" => x = last_base)
      /\ c = flash_pages[i].data /\ View[x] = c /\ c.kind = "data" /\ c.change \in Int /\ c.change <= changes
  BY <1>1, <1>2, NextTarget
<1>4. mem' = [mem EXCEPT ![x] = c] /\ flash_pages' = [flash_pages EXCEPT ![i] = NoPage]
  BY <1>2 DEF ProgramTarget
<1>5. DOMAIN mem' = Sector /\ mem'[x] = c /\ (\A s \in Sector : s # x => mem'[s] = mem[s]) /\ x \in Sector /\ x # Rom
  BY <1>3, <1>4, Numbers DEF QuietInv, Types, IsImage
<1>6. DOMAIN flash_pages' = Page /\ flash_pages'[i] = NoPage /\ \A n \in Page : n # i => flash_pages'[n] = flash_pages[n]
  BY <1>3, <1>4 DEF QuietInv, Types
<1>7. core0'.pc = "write" /\ DOMAIN core0' = {"pc", "sector", "page"} /\ core0'.page = core0.page /\ core0'.sector = core0.sector
  BY <1>1 DEF QuietInv, Types
<1>8. UNCHANGED <<journal_pending, journal_finalize_pending, journal_slot, last_journal_sector, pending_journal_addr>>
  BY <1>1 DEF journal
<1>9. Ready' = Ready \ {i}
  BY <1>6 DEF Ready, NoPage
<1>10. Types'
  <2>1. IsData(mem', Rom)
    BY <1>5, Numbers DEF QuietInv, Types, IsImage, IsData
  <2>2. IsImage(mem')
    BY <1>3, <1>5, <2>1 DEF QuietInv, Types, IsImage
  <2>3. Dated(mem', changes)
    BY <1>3, <1>5 DEF QuietInv, Types, Dated, IsData
  <2>4. \A n \in Page : \/ flash_pages'[n] = NoPage
                        \/ /\ flash_pages'[n].addr \in Pool
                           /\ flash_pages'[n].data.kind = "data"
                           /\ flash_pages'[n].data.change \in Int /\ flash_pages'[n].data.change <= changes
    BY <1>6 DEF QuietInv, Types
  <2>5. \A k, n \in Ready' : flash_pages'[k].addr = flash_pages'[n].addr => k = n
    BY <1>6, <1>9 DEF QuietInv, Types, Ready
  <2> QED BY <1>1, <1>6, <1>7, <1>8, <2>2, <2>3, <2>4, <2>5 DEF QuietInv, Types
<1>11. View' = View
  <2>1. \A n \in Ready' : n \in Ready /\ n \in Page /\ flash_pages'[n] = flash_pages[n] /\ n # i
    BY <1>6, <1>9 DEF Ready
  <2>2. ASSUME NEW s \in Sector PROVE View'[s] = View[s]
    <3>1. CASE s = x
      <4>1. \A n \in Ready' : flash_pages'[n].addr # s
        BY <1>3, <2>1, <3>1 DEF QuietInv, Types
      <4>2. View'[s] = mem'[s]
        BY <1>10, <4>1, ReadingLater
      <4> QED BY <1>3, <1>5, <3>1, <4>2
    <3>2. CASE s # x /\ \E n \in Ready : flash_pages[n].addr = s
      <4>1. PICK n \in Ready : flash_pages[n].addr = s
        BY <3>2
      <4>2. n \in Ready' /\ flash_pages'[n] = flash_pages[n]
        BY <1>3, <1>9, <2>1, <3>2, <4>1
      <4>3. View[s] = flash_pages[n].data
        BY <4>1, Reading DEF QuietInv
      <4>4. View'[s] = flash_pages'[n].data
        BY <1>10, <4>1, <4>2, ReadingLater
      <4> QED BY <4>2, <4>3, <4>4
    <3>3. CASE s # x /\ \A n \in Ready : flash_pages[n].addr # s
      <4>1. View[s] = mem[s]
        BY <3>3, Reading DEF QuietInv
      <4>2. \A n \in Ready' : flash_pages'[n].addr # s
        BY <2>1, <3>3
      <4>3. View'[s] = mem'[s]
        BY <1>10, <4>2, ReadingLater
      <4> QED BY <1>5, <3>3, <4>1, <4>3
    <3> QED BY <3>1, <3>2, <3>3
  <2>3. View = [s \in Sector |-> View[s]] /\ View' = [s \in Sector |-> View'[s]]
    BY DEF View
  <2> QED BY <2>2, <2>3
<1>12. Control'
  BY <1>1, <1>7, <1>8 DEF QuietInv, Control, Unborn, Preparing, Writing
<1>13. x = last_base /\ IsData(mem', x) => ~mem'[x].more
  <2>1. ASSUME x = last_base PROVE ~c.more
    <3>1. core1 \in {"idle", "sync", "grow_wait"}
      BY <1>1 DEF QuietInv, Control
    <3>2. ~View[last_base].more
      BY <3>1 DEF QuietInv, Cached, Bottom, Extending, Walk
    <3> QED BY <1>3, <2>1, <3>2
  <2> QED BY <1>5, <2>1
<1>14. Ready' \subseteq Ready /\ \A n \in Ready' : flash_pages'[n] = flash_pages[n]
  BY <1>6, <1>9 DEF Ready
<1>15. mem'[x].kind # "journal"
  BY <1>3, <1>5
<1>16. Cached' /\ Stored' /\ Journaled' /\ Redone' /\ Seen'
  BY <1>1, <1>3, <1>5, <1>7, <1>10, <1>11, <1>13, <1>14, <1>15, TargetStep
<1> QED BY <1>10, <1>12, <1>16 DEF QuietInv

LEMMA AllAreWritten == QuietInv /\ AllWritten => QuietInv'
<1> SUFFICES ASSUME QuietInv, AllWritten PROVE QuietInv'
  OBVIOUS
<1>1. /\ core0.pc = "write" /\ Ready = {} /\ journal_finalize_pending' = TRUE /\ core0' = [core0 EXCEPT !.pc = "done"]
      /\ UNCHANGED <<mem, flash_pages, flash_available, last_base, journal_pending, journal_slot,
                     last_journal_sector, pending_journal_addr, core1, changes, synced, batches>>
  BY DEF AllWritten, Stay
<1>2. core0'.pc = "done" /\ DOMAIN core0' = {"pc", "sector", "page"} /\ core0'.page = core0.page /\ core0'.sector = core0.sector
  BY <1>1 DEF QuietInv, Types
<1>3. Types' /\ Ready' = Ready /\ View' = View /\ Image(View)' = Image(View) /\ Image(mem)' = Image(mem)
  BY <1>1, <1>2, ControlStep DEF QuietInv, Types
<1>4. Critical' = Critical
  BY <1>1, <1>2 DEF Critical, Writing
<1>5. Control'
  BY <1>1, <1>2, <1>3 DEF QuietInv, Control, Unborn, Preparing, Writing
<1>6. Cached'
  BY <1>1, <1>3 DEF QuietInv, Cached, Bottom
<1>7. Stored'
  BY <1>1, <1>4 DEF QuietInv, Stored, Unborn, Unlinked, Current, Harmless
<1>8. Journaled'
  BY <1>1, <1>2 DEF QuietInv, Journaled, InUse, Preparing, Writing
<1>9. Redone'
  BY <1>1, <1>2, <1>3 DEF QuietInv, Redone, Entry, Writing
<1>10. Seen'
  BY <1>1, <1>2, <1>3, <1>4 DEF QuietInv, Seen
<1> QED BY <1>3, <1>5, <1>6, <1>7, <1>8, <1>9, <1>10 DEF QuietInv

LEMMA SlotAfter == ASSUME journal_slot \in Slot PROVE NextSlot \in Slot /\ (NextSlot = 0 \/ NextSlot = journal_slot + 1)
<1>1. PICK k, n : k = journal_slot /\ n = JournalSlots
  OBVIOUS
<1>2. k \in Nat /\ n \in Nat /\ n > 0 /\ k < n
  BY <1>1, Numbers
<1>3. CASE k + 1 < n
  <2>1. (k + 1) % n = k + 1
    BY <1>2, <1>3
  <2> QED BY <1>1, <1>2, <1>3, <2>1, Numbers DEF NextSlot
<1>4. CASE k + 1 = n
  <2>1. n % n = 0
    BY <1>2
  <2> QED BY <1>1, <1>2, <1>4, <2>1, Numbers DEF NextSlot
<1> QED BY <1>2, <1>3, <1>4

LEMMA MarksDone == QuietInv /\ MarkDone => QuietInv'
<1> SUFFICES ASSUME QuietInv, MarkDone PROVE QuietInv'
  OBVIOUS
<1>1. /\ core0.pc = "done" /\ core0.sector = last_base - 1 /\ last_base >= 2 /\ last_base \in Pool /\ Ready = {}
      /\ core1 \in {"idle", "sync", "grow_wait"} /\ flash_available /\ journal_slot \in Slot
  BY DEF MarkDone, QuietInv, Control, Types, Preparing, Writing
<1>2. /\ pending_journal_addr[1] = last_base - 1 /\ pending_journal_addr[2] = journal_slot
      /\ InUse /\ mem[last_base - 1].kind = "journal"
  BY <1>1 DEF QuietInv, Journaled, Redone, Writing
<1>3. /\ mem' = SetStatus(mem, last_base - 1, journal_slot, "done")
      /\ journal_pending' = FALSE /\ journal_finalize_pending' = FALSE /\ journal_slot' = NextSlot
      /\ core0' = Idle0 /\ flash_available' = FALSE
      /\ UNCHANGED <<flash_pages, last_base, last_journal_sector, core1, changes, synced, batches>>
  BY <1>1, <1>2 DEF MarkDone, Leave
<1>4. core0'.pc = "idle" /\ DOMAIN core0' = {"pc", "sector", "page"} /\ core0'.page \in Page
  BY <1>3, Numbers DEF Idle0
<1>5. last_base - 1 \in Sector /\ last_base \in Sector
  BY <1>1, Numbers
<1>6. PICK m, n, j, k, b : m = mem /\ n = mem' /\ j = last_base - 1 /\ k = journal_slot /\ b = last_base
  OBVIOUS
<1>7. IsImage(m) /\ j \in Sector /\ m[j].kind = "journal" /\ k \in Slot /\ n = SetStatus(m, j, k, "done") /\ b \in Int /\ j = b - 1
  BY <1>1, <1>2, <1>3, <1>5, <1>6, Numbers DEF QuietInv, Types
<1>8. IsImage(n) /\ Marked(m, n, j, k, "done")
  BY <1>7, StatusSet DEF Statuses
<1>9. \A s \in Sector : s # j => n[s] = m[s]
  BY <1>8 DEF Marked
<1>10. \A l \in Slot : ~PendingAt(n, j, l)
  <2> SUFFICES ASSUME NEW l \in Slot, PendingAt(n, j, l) PROVE FALSE
    OBVIOUS
  <2>1. l # k /\ n[j].entries[l] = m[j].entries[l]
    BY <1>8 DEF Marked, PendingAt
  <2>2. PendingAt(m, j, l)
    BY <1>7, <2>1 DEF PendingAt
  <2> QED BY <1>2, <1>6, <2>1, <2>2 DEF QuietInv, Journaled
<1>11. Ready' = Ready /\ \A s \in Sector : s # j => View'[s] = View[s]
  BY <1>3, <1>6, <1>9, ViewFrame
<1>12. Types'
  <2>1. Dated(mem', changes)
    BY <1>6, <1>8 DEF QuietInv, Types, Dated, IsData, Marked
  <2>2. journal_slot' \in Slot
    BY <1>1, <1>3, SlotAfter
  <2> QED BY <1>3, <1>4, <1>6, <1>8, <2>1, <2>2, TypesStep
<1>13. Control'
  BY <1>1, <1>3, <1>4, <1>11 DEF QuietInv, Control, Unborn, Preparing, Writing, Extending
<1>14. PICK V, W, t : V = View /\ W = View' /\ t = Bottom
  OBVIOUS
<1>15. t \in {b, b + 1} /\ Bottom' = t
  BY <1>3, <1>6, <1>14 DEF Bottom
<1>16. /\ Walk(V, t) /\ IsData(V, Rom) /\ Walk(m, t) /\ IsData(m, Rom) /\ Image(V) = Image(m)
       /\ \A s \in Sector : V[s] = m[s]
  BY <1>1, <1>6, <1>7, <1>14, CleanCache, ViewDated DEF QuietInv, Cached, IsImage
<1>17. \A s \in t .. NumSectors : s \in Sector /\ s # j
  BY <1>7, <1>15, <1>16, Numbers DEF Walk
<1>18. Walk(n, t) /\ Image(n) = Image(m)
  BY <1>9, <1>16, <1>17, SameImage
<1>19. Walk(W, t) /\ Image(W) = Image(V)
  BY <1>11, <1>14, <1>16, <1>17, SameImage
<1>20. b \in Sector /\ b # j /\ n[b] = m[b] /\ W[b] = V[b]
  BY <1>5, <1>6, <1>7, <1>9, <1>11, <1>14
<1>21. Cached'
  BY <1>1, <1>3, <1>6, <1>11, <1>14, <1>15, <1>19, <1>20 DEF QuietInv, Cached, Extending
<1>22. ~Critical'
  BY <1>4 DEF Critical, Writing
<1>23. Stored'
  <2>1. CASE core1 \in {"idle", "sync"}
    <3>1. t = b
      BY <1>6, <1>14, <2>1 DEF Bottom, Extending
    <3>2. /\ Places(m, b)
          /\ \A s \in Sector, l \in Slot : PendingAt(m, s, l) => (s = j /\ l = k) \/ Harmless(m, b, s, l)
      BY <1>1, <1>6, <2>1 DEF QuietInv, Stored, Critical, Current, Writing
    <3>3. Places(n, b)
      BY <1>7, <1>9, <3>2 DEF Places
    <3>4. ASSUME NEW s \in Sector, NEW l \in Slot, PendingAt(n, s, l) PROVE Harmless(n, b, s, l)
      <4>1. s # j /\ n[s] = m[s]
        BY <1>9, <1>10, <3>4
      <4> QED BY <3>2, <3>4, <4>1 DEF PendingAt, Harmless
    <3>5. Restful(n, b)
      BY <1>18, <3>1, <3>3, <3>4 DEF Restful
    <3> QED BY <1>3, <1>6, <1>22, <2>1, <3>5 DEF Stored, Unborn
  <2>2. CASE core1 = "grow_wait"
    <3>1. Restful(m, b + 1)
      BY <1>1, <1>6, <2>2 DEF QuietInv, Stored, Unborn
    <3>2. PICK c : c = b + 1
      OBVIOUS
    <3>3. Restful(n, c)
      <4>1. j < c
        BY <1>7, <3>2
      <4>2. Restful(m, c)
        BY <3>1, <3>2
      <4> QED BY <1>7, <1>9, <1>10, <4>1, <4>2, JournalTouched
    <3>4. IsData(n, b) /\ ~n[b].more
      <4>1. V[b].kind = "data" /\ ~V[b].more
        BY <1>6, <1>14, <2>2 DEF QuietInv, Cached, Extending
      <4> QED BY <1>16, <1>20, <4>1 DEF IsData
    <3>5. last_journal_sector' = last_base - 1
      BY <1>2, <1>3 DEF InUse
    <3>6. Unlinked'
      BY <1>1, <1>3, <1>6, <3>2, <3>3, <3>4, <3>5 DEF Unlinked
    <3> QED BY <1>3, <1>22, <2>2, <3>6 DEF Stored, Unborn
  <2> QED BY <1>1, <2>1, <2>2
<1>24. Journaled'
  <2>1. mem'[last_base - 1].kind = "journal"
    BY <1>6, <1>8 DEF Marked
  <2>2. \A l \in Slot : l > journal_slot => mem'[last_base - 1].entries[l] = NoEntry
    <3>1. \A l \in Slot : l > journal_slot => l # journal_slot
      BY <1>1, Numbers
    <3>2. \A l \in Slot : l > journal_slot => mem[last_base - 1].entries[l] = NoEntry
      BY <1>1, <1>2 DEF QuietInv, Journaled, Writing
    <3> QED BY <1>6, <1>8, <3>1, <3>2 DEF Marked
  <2>3. ASSUME journal_slot' # 0, NEW l \in Slot, l > journal_slot' \/ l = journal_slot' PROVE mem'[last_base - 1].entries[l] = NoEntry
    <3>1. journal_slot' = journal_slot + 1
      BY <1>1, <1>3, <2>3, SlotAfter
    <3>2. l > journal_slot
      BY <1>1, <2>3, <3>1, Numbers
    <3> QED BY <2>2, <3>2
  <2>4. \A l \in Slot : ~PendingAt(mem', last_base - 1, l)
    BY <1>6, <1>10
  <2> QED BY <1>3, <1>4, <2>1, <2>3, <2>4 DEF Journaled, InUse, Preparing, Writing
<1>25. Redone'
  BY <1>4 DEF Redone, Writing
<1>26. Seen'
  <2>1. Image(V) \in batches /\ Covers(Image(V), synced) /\ \A f \in batches : Covers(f, synced)
    BY <1>1, <1>14 DEF QuietInv, Seen
  <2> QED BY <1>3, <1>4, <1>6, <1>14, <1>16, <1>18, <1>19, <2>1 DEF Seen
<1> QED BY <1>12, <1>13, <1>21, <1>23, <1>24, <1>25, <1>26 DEF QuietInv

-----------------------------------------------------------------------------
(* Core 1 *)

\* A change in the cache.
LEMMA Caches ==
    ASSUME QuietInv, NEW s \in Pool, NEW more, Program(s, more)
    PROVE  /\ core0.pc = "idle" /\ changes' = changes + 1 /\ changes \in Int
           /\ UNCHANGED <<mem, flash_available, last_base, journal, core0, synced, batches>>
           /\ Types'
           /\ View'[s] = Data(changes + 1, more)
           /\ \A t \in Sector : t # s => View'[t] = View[t]
           /\ Ready' # {}
           /\ \A n \in Ready' : (flash_pages'[n].addr = s /\ flash_pages'[n].data = Data(changes + 1, more))
                                \/ (n \in Ready /\ flash_pages'[n] = flash_pages[n])
<1>1. PICK i, c : i = Min(FreePage(s)) /\ c = Data(changes + 1, more)
  OBVIOUS
<1>2. /\ core0.pc = "idle" /\ FreePage(s) # {} /\ changes' = changes + 1
      /\ flash_pages' = [flash_pages EXCEPT ![i] = [addr |-> s, data |-> c]]
      /\ UNCHANGED <<mem, flash_available, last_base, journal, core0, synced, batches>>
  BY <1>1 DEF Program
<1>3. i \in FreePage(s) /\ i \in Page
  <2>1. FreePage(s) \subseteq Page
    BY DEF FreePage, PageOf
  <2>2. FreePage(s) \in SUBSET Nat
    BY <2>1, Numbers
  <2> QED BY <1>1, <1>2, <2>1, <2>2, LeastIn
<1>4. i \in PageOf(s) \/ (PageOf(s) = {} /\ i \notin Ready)
  BY <1>3 DEF FreePage
<1>5. c.kind = "data" /\ c.change = changes + 1 /\ changes \in Int
  BY <1>1 DEF Data, QuietInv, Types
<1>6. DOMAIN flash_pages' = Page /\ flash_pages'[i].addr = s /\ flash_pages'[i].data = c /\ \A n \in Page : n # i => flash_pages'[n] = flash_pages[n]
  BY <1>2, <1>3 DEF QuietInv, Types
<1>7. Ready' = Ready \cup {i}
  BY <1>3, <1>6, Numbers DEF Ready
<1>8. \A n \in Ready : n # i => flash_pages[n].addr # s
  <2> SUFFICES ASSUME NEW n \in Ready, n # i, flash_pages[n].addr = s PROVE FALSE
    OBVIOUS
  <2>1. n \in PageOf(s)
    BY DEF PageOf, Ready
  <2>2. i \in Ready /\ flash_pages[i].addr = s
    BY <1>3, <1>4, <2>1, Numbers DEF PageOf, Ready
  <2> QED BY <2>2 DEF QuietInv, Types
<1>9. Types'
  <2>1. Dated(mem', changes')
    BY <1>2, <1>5 DEF QuietInv, Types, Dated
  <2>2. \A n \in Page : \/ flash_pages'[n] = NoPage
                        \/ /\ flash_pages'[n].addr \in Pool
                           /\ flash_pages'[n].data.kind = "data"
                           /\ flash_pages'[n].data.change \in Int /\ flash_pages'[n].data.change <= changes'
    <3> TAKE n \in Page
    <3>1. CASE n = i
      BY <1>2, <1>5, <1>6, <3>1
    <3>2. CASE n # i
      BY <1>2, <1>5, <1>6, <3>2 DEF QuietInv, Types
    <3> QED BY <3>1, <3>2
  <2>3. \A k, n \in Ready' : flash_pages'[k].addr = flash_pages'[n].addr => k = n
    <3> TAKE k, n \in Ready'
    <3>1. CASE k # i /\ n # i
      BY <1>6, <1>7, <3>1 DEF QuietInv, Types, Ready
    <3>2. CASE k = i \/ n = i
      BY <1>6, <1>7, <1>8, <3>2 DEF Ready
    <3> QED BY <3>1, <3>2
  <2>4. UNCHANGED <<journal_slot, last_journal_sector>>
    BY <1>2 DEF journal
  <2> QED BY <1>2, <1>5, <1>6, <2>1, <2>2, <2>3, <2>4 DEF QuietInv, Types
<1>10. View'[s] = c
  BY <1>6, <1>7, <1>9, ReadingLater
<1>11. ASSUME NEW t \in Sector, t # s PROVE View'[t] = View[t]
  <2>1. \A n \in Ready' : n # i => n \in Ready /\ flash_pages'[n] = flash_pages[n]
    BY <1>6, <1>7 DEF Ready
  <2>2. CASE \E n \in Ready : flash_pages[n].addr = t
    <3>1. PICK n \in Ready : flash_pages[n].addr = t
      BY <2>2
    <3>2. n # i
      BY <1>4, <1>11, <3>1 DEF PageOf
    <3>3. View[t] = flash_pages[n].data
      BY <3>1, Reading DEF QuietInv
    <3>4. n \in Ready' /\ flash_pages'[n] = flash_pages[n]
      BY <1>7, <2>1, <3>1, <3>2
    <3>5. View'[t] = flash_pages'[n].data
      BY <1>9, <3>1, <3>4, ReadingLater
    <3> QED BY <3>3, <3>4, <3>5
  <2>3. CASE \A n \in Ready : flash_pages[n].addr # t
    <3>1. View[t] = mem[t]
      BY <2>3, Reading DEF QuietInv
    <3>2. \A n \in Ready' : flash_pages'[n].addr # t
      BY <1>6, <1>11, <2>1, <2>3
    <3>3. View'[t] = mem'[t]
      BY <1>9, <3>2, ReadingLater
    <3> QED BY <1>2, <3>1, <3>3
  <2> QED BY <2>2, <2>3
<1>12. \A n \in Ready' : (flash_pages'[n].addr = s /\ flash_pages'[n].data = c) \/ (n \in Ready /\ flash_pages'[n] = flash_pages[n])
  BY <1>6, <1>7 DEF Ready
<1> QED BY <1>1, <1>2, <1>5, <1>7, <1>9, <1>10, <1>11, <1>12

\* A longer list of newer records covers what the old one did.
LEMMA Newer ==
    ASSUME NEW V, NEW W, NEW b, NEW c, NEW g, Walk(V, b), Walk(W, c), c <= b, IsData(V, Rom), IsData(W, Rom),
           \A t \in b .. NumSectors : V[t].change \in Int /\ W[t].change \in Int /\ W[t].change >= V[t].change,
           Covers(Image(V), g)
    PROVE  Covers(Image(W), g)
<1>1. Image(V) = [t \in b .. NumSectors |-> V[t].change] /\ Image(W) = [t \in c .. NumSectors |-> W[t].change]
  BY WalkImage
<1>2. PICK v, w : v = Image(V) /\ w = Image(W)
  OBVIOUS
<1>3. ASSUME NEW t \in DOMAIN g PROVE t \in DOMAIN w /\ w[t] \in Int /\ g[t] \in Int /\ w[t] >= g[t]
  <2>1. t \in DOMAIN v /\ v[t] \in Int /\ g[t] \in Int /\ v[t] >= g[t]
    BY <1>2 DEF Covers
  <2>2. t \in b .. NumSectors /\ v[t] = V[t].change
    BY <1>1, <1>2, <2>1
  <2>3. t \in c .. NumSectors
    BY <2>2, Numbers DEF Walk
  <2>4. w[t] = W[t].change
    BY <1>1, <1>2, <2>3
  <2>5. w[t] \in Int /\ w[t] >= v[t]
    BY <2>2, <2>4
  <2> QED BY <1>1, <1>2, <2>1, <2>3, <2>5
<1> QED BY <1>2, <1>3 DEF Covers

\* What follows of a change in the cache for the parts of the invariant that read it.
LEMMA ChangeCovers ==
    ASSUME QuietInv, NEW s \in Pool, NEW more, Program(s, more), NEW c \in Pool, Walk(View', c), c <= Bottom
    PROVE  Covers(Image(View), synced)'
<1>1. PICK V, W, b, x : V = View /\ W = View' /\ b = Bottom /\ x = changes
  OBVIOUS
<1>2. Walk(V, b) /\ IsData(V, Rom) /\ Dated(V, x) /\ x \in Int /\ Covers(Image(V), synced)
  BY <1>1, ViewDated DEF QuietInv, Cached, Types, Seen
<1>3. W[s] = Data(x + 1, more) /\ (\A t \in Sector : t # s => W[t] = V[t]) /\ synced' = synced
  BY <1>1, Caches
<1>4. W[s].change = x + 1 /\ s # Rom
  BY <1>3, Numbers DEF Data
<1>5. IsData(W, Rom)
  BY <1>2, <1>3, <1>4, Numbers DEF IsData
<1>6. ASSUME NEW t \in b .. NumSectors PROVE V[t].change \in Int /\ W[t].change \in Int /\ W[t].change >= V[t].change
  <2>1. t \in Sector /\ IsData(V, t)
    BY <1>2, Numbers DEF Walk, IsData
  <2>2. V[t].change \in Int /\ V[t].change <= x
    BY <1>2, <2>1 DEF Dated
  <2>3. CASE t = s
    BY <1>2, <1>4, <2>2, <2>3
  <2>4. CASE t # s
    BY <1>3, <2>1, <2>2, <2>4
  <2> QED BY <2>3, <2>4
<1>7. Covers(Image(W), synced)
  BY <1>1, <1>2, <1>5, <1>6, Newer
<1> QED BY <1>1, <1>3, <1>7

\* ... and for those that do not.
LEMMA ChangeLeaves ==
    ASSUME QuietInv, NEW s \in Pool, NEW more, Program(s, more), Covers(Image(View), synced)'
    PROVE  ~Critical /\ ~Critical' /\ Journaled' /\ Redone' /\ Seen'
<1>1. core0.pc = "idle" /\ UNCHANGED <<mem, flash_available, last_base, journal, core0, synced, batches>>
  BY Caches
<1>2. UNCHANGED <<journal_pending, journal_finalize_pending, journal_slot, last_journal_sector, pending_journal_addr>>
  BY <1>1 DEF journal
<1>3. ~Critical /\ ~Critical'
  BY <1>1 DEF Critical, Writing
<1>4. Journaled'
  BY <1>1, <1>2 DEF QuietInv, Journaled, InUse, PendingAt, Preparing, Writing
<1>5. Redone'
  BY <1>1 DEF Redone, Writing
<1>6. Image(mem)' = Image(mem)
  <2>1. PICK m : m = mem
    OBVIOUS
  <2> QED BY <1>1, <2>1
<1>7. Seen'
  BY <1>1, <1>3, <1>6 DEF QuietInv, Seen
<1> QED BY <1>3, <1>4, <1>5, <1>7

LEMMA Writes == ASSUME NEW s \in Sector PROVE QuietInv /\ PersistentWrites = FALSE /\ Write(s) => QuietInv'
<1> SUFFICES ASSUME QuietInv, PersistentWrites = FALSE, Write(s) PROVE QuietInv'
  OBVIOUS
<1>1. core1 = "idle" /\ core1' = "idle" /\ s \in Readable(View) /\ s # Rom /\ Program(s, View[s].more)
  BY DEF Write
<1>2. PICK V, W, b, x, more : V = View /\ W = View' /\ b = last_base /\ x = changes /\ more = View[s].more
  OBVIOUS
<1>3. Walk(V, b) /\ Bottom = b /\ Bottom' = last_base'
  BY <1>1, <1>2 DEF QuietInv, Cached, Bottom, Extending
<1>4. s \in Pool /\ s \in b .. NumSectors - 1 /\ b \in Pool
  <2>1. s \in Live(V)
    BY <1>1, <1>2 DEF Readable
  <2> QED BY <1>3, <2>1, WalkLive DEF Live, Walk
<1>5. /\ core0.pc = "idle" /\ UNCHANGED <<mem, flash_available, last_base, journal, core0, synced, batches>> /\ Types'
      /\ W[s] = Data(x + 1, more) /\ (\A t \in Sector : t # s => W[t] = V[t]) /\ Ready' # {}
      /\ \A n \in Ready' : flash_pages'[n].addr = s \/ (n \in Ready /\ flash_pages'[n] = flash_pages[n])
  BY <1>1, <1>2, <1>4, Caches
<1>6. UNCHANGED <<journal_pending, journal_finalize_pending, journal_slot, last_journal_sector, pending_journal_addr>>
  BY <1>5 DEF journal
<1>7. W[s].kind = "data" /\ W[s].more = V[s].more
  BY <1>2, <1>5 DEF Data
<1>8. Walk(W, b)
  <2>1. \A t \in b .. NumSectors - 1 : W[t].kind = "data" /\ W[t].more = V[t].more
    <3> TAKE t \in b .. NumSectors - 1
    <3>1. t \in Sector /\ V[t].kind = "data"
      BY <1>3, <1>4, Numbers DEF Walk, IsData
    <3> QED BY <1>5, <1>7, <3>1
  <2>2. b \in b .. NumSectors - 1 /\ \A t \in b + 1 .. NumSectors - 1 : t \in b .. NumSectors - 1
    BY <1>4, Numbers
  <2> QED BY <1>3, <1>4, <2>1, <2>2 DEF Walk, IsData
<1>9. Covers(Image(View), synced)'
  <2>1. b <= Bottom
    BY <1>3, <1>4, Numbers
  <2>2. Walk(View', b)
    BY <1>2, <1>8
  <2> QED BY <1>1, <1>4, <2>1, <2>2, ChangeCovers
<1>10. ~Critical /\ ~Critical' /\ Journaled' /\ Redone' /\ Seen'
  BY <1>1, <1>4, <1>9, ChangeLeaves
<1>11. Control'
  BY <1>1, <1>5, <1>6 DEF QuietInv, Control, Unborn, Preparing, Writing, Extending
<1>12. Cached'
  <2>1. \A n \in Ready' : flash_pages'[n].addr >= last_base
    BY <1>1, <1>2, <1>4, <1>5 DEF QuietInv, Cached
  <2>2. core1' = "idle" /\ last_base' = b
    BY <1>1, <1>2, <1>5
  <2>3. Bottom' = b
    BY <2>2 DEF Bottom, Extending
  <2>4. Walk(View', Bottom')
    BY <1>2, <1>8, <2>3
  <2> QED BY <1>2, <2>1, <2>2, <2>4 DEF Cached, Extending
<1>13. Stored'
  BY <1>1, <1>5, <1>6, <1>10 DEF QuietInv, Stored, Unborn, Unlinked
<1> QED BY <1>5, <1>10, <1>11, <1>12, <1>13 DEF QuietInv

LEMMA Allocates == QuietInv /\ QuietGrowth = TRUE /\ GrowAllocate => QuietInv'
<1> SUFFICES ASSUME QuietInv, QuietGrowth = TRUE, GrowAllocate PROVE QuietInv'
  OBVIOUS
<1>1. /\ core1 = "idle" /\ core1' = "grow_base" /\ Ready = {} /\ ~flash_available
      /\ NewSector >= 0 /\ Program(NewSector, FALSE)
  BY DEF GrowAllocate
<1>2. PICK V, W, b, x, s : V = View /\ W = View' /\ b = last_base /\ x = changes /\ s = NewSector
  OBVIOUS
<1>3. Walk(V, b) /\ Bottom = b /\ Bottom' = last_base' /\ IsData(V, Rom)
  BY <1>1, <1>2, ViewDated DEF QuietInv, Cached, Bottom, Extending
<1>4. s = b - 1 /\ s \in Pool /\ b \in Pool /\ b >= 1
  <2>1. s = LastBase(V) - 1
    BY <1>2 DEF NewSector
  <2> QED BY <1>1, <1>2, <1>3, <2>1, WalkLive, Numbers DEF Walk
<1>5. Program(s, FALSE)
  BY <1>1, <1>2
<1>6. /\ core0.pc = "idle" /\ UNCHANGED <<mem, flash_available, last_base, journal, core0, synced, batches>> /\ Types'
      /\ W[s] = Data(x + 1, FALSE) /\ (\A t \in Sector : t # s => W[t] = V[t]) /\ Ready' # {}
      /\ \A n \in Ready' : flash_pages'[n].addr = s /\ flash_pages'[n].data = Data(x + 1, FALSE)
  BY <1>1, <1>2, <1>4, <1>5, Caches
<1>7. UNCHANGED <<journal_pending, journal_finalize_pending, journal_slot, last_journal_sector, pending_journal_addr>>
  BY <1>6 DEF journal
<1>8. Data(x + 1, FALSE).kind = "data" /\ ~Data(x + 1, FALSE).more
  BY DEF Data
<1>9. Walk(W, b)
  <2>1. \A t \in b .. NumSectors : t \in Sector /\ t # s
    BY <1>4, Numbers
  <2> QED BY <1>3, <1>6, <2>1, SameImage
<1>10. Covers(Image(View), synced)'
  <2>1. b <= Bottom /\ Walk(View', b)
    BY <1>2, <1>3, <1>4, <1>9, Numbers
  <2> QED BY <1>4, <1>5, <2>1, ChangeCovers
<1>11. ~Critical /\ ~Critical' /\ Journaled' /\ Redone' /\ Seen'
  BY <1>4, <1>5, <1>10, ChangeLeaves
<1>12. Control'
  BY <1>1, <1>6, <1>7 DEF QuietInv, Control, Unborn, Preparing, Writing, Extending
<1>13. Cached'
  BY <1>1, <1>2, <1>3, <1>4, <1>6, <1>8, <1>9 DEF Cached, Extending
<1>14. Stored'
  <2>1. Walk(mem, last_base)
    BY <1>1, <1>2, <1>3, CleanCache
  <2>2. PICK m : m = mem
    OBVIOUS
  <2>3. ~Unlinked
    <3> SUFFICES ASSUME Unlinked PROVE FALSE
      OBVIOUS
    <3>1. Walk(m, b + 1) /\ Walk(m, b)
      BY <1>2, <2>1, <2>2 DEF Unlinked, Restful
    <3> QED BY <3>1, OneBottom
  <2>4. Restful(mem, last_base)
    BY <1>1, <1>11, <2>3 DEF QuietInv, Stored
  <2> QED BY <1>1, <1>6, <1>11, <2>4 DEF Stored, Unborn
<1> QED BY <1>6, <1>11, <1>12, <1>13, <1>14 DEF QuietInv

LEMMA LowersBase == QuietInv /\ GrowBase => QuietInv'
<1> SUFFICES ASSUME QuietInv, GrowBase PROVE QuietInv'
  OBVIOUS
<1>1. /\ core1 = "grow_base" /\ core1' = "grow_sync" /\ core0.pc = "idle" /\ ~flash_available /\ Ready # {}
      /\ UNCHANGED <<mem, flash_pages, flash_available, journal, core0, changes, synced, batches>>
      /\ last_base' = Min({last_base, NewSector})
  BY DEF GrowBase, QuietInv, Control
<1>2. UNCHANGED <<journal_pending, journal_finalize_pending, journal_slot, last_journal_sector, pending_journal_addr>>
  BY <1>1 DEF journal
<1>3. PICK V, b, m : V = View /\ b = last_base /\ m = mem
  OBVIOUS
<1>4. Walk(V, b) /\ b \in Pool /\ b >= 1
  BY <1>1, <1>3 DEF QuietInv, Cached, Bottom, Extending, Types
<1>5. last_base' = b - 1
  <2>1. NewSector = b - 1
    BY <1>3, <1>4, WalkLive DEF NewSector
  <2>2. PICK S, y : S = {b, b - 1} /\ y = Min(S)
    OBVIOUS
  <2>3. S \in SUBSET Nat /\ S # {}
    BY <1>4, <2>2, Numbers
  <2>4. y \in S /\ y <= b - 1
    BY <2>2, <2>3, LeastIn
  <2>5. y = b - 1
    BY <1>4, <2>2, <2>4, Numbers
  <2> QED BY <1>1, <1>3, <2>1, <2>2, <2>5
<1>6. b - 1 \in Pool /\ b = (b - 1) + 1
  BY <1>4, Numbers
<1>7. Ready' = Ready /\ View' = V /\ Image(View)' = Image(View) /\ Image(mem)' = Image(mem)
  <2>1. Ready' = Ready /\ View' = V
    BY <1>1, <1>3, ViewFrame
  <2> QED BY <1>1, <1>3, <2>1
<1>8. Types'
  <2>1. last_journal_sector # None => last_journal_sector >= b - 1 - 1
    <3>1. last_journal_sector # None => last_journal_sector \in Int /\ last_journal_sector >= b - 1
      BY <1>3, Numbers DEF QuietInv, Types
    <3> QED BY <1>4, <3>1, Numbers
  <2> QED BY <1>1, <1>2, <1>5, <1>6, <1>7, <2>1 DEF QuietInv, Types
<1>9. Control'
  BY <1>1, <1>2, <1>7 DEF QuietInv, Control, Unborn, Preparing, Writing, Extending
<1>10. Cached'
  <2>1. Bottom' = b
    BY <1>1, <1>5, <1>6 DEF Bottom, Extending
  <2> QED BY <1>1, <1>3, <1>4, <1>5, <1>7, <2>1 DEF QuietInv, Cached, Extending
<1>11. ~Critical /\ ~Critical'
  BY <1>1 DEF Critical, Writing
<1>12. Stored'
  <2>1. Restful(m, b)
    BY <1>1, <1>3 DEF QuietInv, Stored
  <2>2. Restful(mem, last_base + 1)'
    BY <1>1, <1>3, <1>5, <1>6, <2>1
  <2> QED BY <1>1, <1>11, <2>2 DEF Stored, Unborn
<1>13. Journaled'
  <2>1. ~InUse'
    <3>1. last_journal_sector # None => last_journal_sector \in Int /\ last_journal_sector >= b - 1
      BY <1>3, Numbers DEF QuietInv, Types
    <3>2. last_journal_sector' = last_journal_sector /\ (last_journal_sector # None => last_journal_sector # b - 1 - 1)
      BY <1>2, <1>4, <3>1, Numbers
    <3> QED BY <1>5, <3>2 DEF InUse
  <2> QED BY <1>1, <2>1 DEF Journaled, Preparing, Writing
<1>14. Redone'
  BY <1>1 DEF Redone, Writing
<1>15. Seen'
  BY <1>1, <1>7, <1>11 DEF QuietInv, Seen
<1> QED BY <1>8, <1>9, <1>10, <1>12, <1>13, <1>14, <1>15 DEF QuietInv

LEMMA Publishes == QuietInv /\ GrowPublish => QuietInv'
<1> SUFFICES ASSUME QuietInv, GrowPublish PROVE QuietInv'
  OBVIOUS
<1>1. core1 = "grow_publish" /\ core1' = "idle" /\ Program(LastBase(View), TRUE) /\ Ready = {}
  BY DEF GrowPublish, QuietInv, Control
<1>2. PICK V, W, b, x, s : V = View /\ W = View' /\ b = last_base /\ x = changes /\ s = LastBase(View)
  OBVIOUS
<1>3. Walk(V, b + 1) /\ Bottom = b + 1 /\ Bottom' = last_base'
  BY <1>1, <1>2 DEF QuietInv, Cached, Bottom, Extending
<1>4. s = b + 1 /\ s \in Pool /\ b \in Pool
  <2>1. s = LastBase(V)
    BY <1>2
  <2>2. PICK c : c = b + 1
    OBVIOUS
  <2>3. Walk(V, c)
    BY <1>3, <2>2
  <2> QED BY <1>2, <2>1, <2>2, <2>3, WalkLive DEF QuietInv, Types, Walk
<1>5. Program(s, TRUE)
  BY <1>1, <1>2
<1>6. /\ core0.pc = "idle" /\ UNCHANGED <<mem, flash_available, last_base, journal, core0, synced, batches>> /\ Types'
      /\ W[s] = Data(x + 1, TRUE) /\ (\A t \in Sector : t # s => W[t] = V[t]) /\ Ready' # {}
      /\ \A n \in Ready' : flash_pages'[n].addr = s
  BY <1>1, <1>2, <1>4, <1>5, Caches
<1>7. UNCHANGED <<journal_pending, journal_finalize_pending, journal_slot, last_journal_sector, pending_journal_addr>>
  BY <1>6 DEF journal
<1>8. W[s].kind = "data" /\ W[s].more
  BY <1>6 DEF Data
<1>9. V[b].kind = "data" /\ ~V[b].more
  BY <1>1, <1>2 DEF QuietInv, Cached, Extending
<1>10. Walk(W, b)
  <2>1. b \in Sector /\ b # s /\ W[b] = V[b]
    BY <1>4, <1>6, Numbers
  <2>2. ASSUME NEW t \in b + 1 .. NumSectors - 1 PROVE W[t].kind = "data" /\ W[t].more
    <3>1. CASE t = s
      BY <1>8, <3>1
    <3>2. CASE t # s
      <4>1. t \in Sector /\ t \in b + 1 + 1 .. NumSectors - 1 /\ t \in b + 1 .. NumSectors - 1
        BY <1>4, <2>2, <3>2, Numbers
      <4>2. V[t].kind = "data" /\ V[t].more
        BY <1>3, <4>1 DEF Walk, IsData
      <4> QED BY <1>6, <3>2, <4>1, <4>2
    <3> QED BY <3>1, <3>2
  <2>3. \A t \in b .. NumSectors - 1 : t = b \/ t \in b + 1 .. NumSectors - 1
    BY <1>4, Numbers
  <2> QED BY <1>4, <1>9, <2>1, <2>2, <2>3 DEF Walk, IsData
<1>11. Covers(Image(View), synced)'
  <2>1. b <= Bottom /\ Walk(View', b)
    BY <1>2, <1>3, <1>4, <1>10, Numbers
  <2> QED BY <1>4, <1>5, <2>1, ChangeCovers
<1>12. ~Critical /\ ~Critical' /\ Journaled' /\ Redone' /\ Seen'
  BY <1>4, <1>5, <1>11, ChangeLeaves
<1>13. Control'
  BY <1>1, <1>6, <1>7 DEF QuietInv, Control, Unborn, Preparing, Writing, Extending
<1>14. Cached'
  <2>1. \A n \in Ready' : flash_pages'[n].addr >= last_base
    BY <1>2, <1>4, <1>6, Numbers
  <2> QED BY <1>1, <1>2, <1>3, <1>6, <1>10, <2>1 DEF Cached, Extending
<1>15. Stored'
  <2>1. Unlinked
    BY <1>1 DEF QuietInv, Stored
  <2>2. Unlinked'
    BY <1>6, <1>7, <2>1 DEF Unlinked
  <2> QED BY <1>1, <1>12, <2>2 DEF Stored, Unborn
<1> QED BY <1>6, <1>12, <1>13, <1>14, <1>15 DEF QuietInv

-----------------------------------------------------------------------------
(* The quiet environment *)

LEMMA QuietNext ==
    ASSUME QuietInv, LockoutFails = FALSE, QuietGrowth = TRUE, PersistentWrites = FALSE, Next
    PROVE  QuietInv'
<1>1. CASE Core0
  BY <1>1, TaskBegins, Checks, ErasesJournal, ErasesRedo, ProgramsRedo, WritesEntry, MarksPending, ErasesTarget,
     ProgramsTarget, AllAreWritten, MarksDone DEF Core0
<1>2. CASE Core1
  <2>1. core1 # "grow_unlink" /\ core1 # "grow_zero"
    BY DEF QuietInv, Control, Extending
  <2>2. ~GrowUnlink /\ ~GrowZero
    BY <2>1 DEF GrowUnlink, GrowZero
  <2>3. CASE \E s \in Sector : Write(s)
    BY <2>3, Writes
  <2>4. CASE GrowAllocate
    BY <2>4, Allocates
  <2>5. CASE GrowBase
    BY <2>5, LowersBase
  <2>6. CASE GrowPublish
    BY <2>6, Publishes
  <2>7. CASE SyncEnd("sync", "idle") \/ SyncEnd("grow_wait", "grow_publish")
    BY <2>7, SyncEnds
  <2>8. CASE Commit \/ SyncBegin("idle", "sync") \/ SyncBegin("grow_sync", "grow_wait") \/ SyncTimeout("sync", "idle")
    BY <2>8, Requests
  <2> QED BY <1>2, <2>2, <2>3, <2>4, <2>5, <2>6, <2>7, <2>8 DEF Core1
<1>3. CASE PowerLoss
  BY <1>3, PowerLossStep
<1>4. ~Lockout
  BY DEF Lockout
<1> QED BY <1>1, <1>2, <1>3, <1>4 DEF Next

LEMMA QuietStutter == QuietInv /\ UNCHANGED vars => QuietInv'
<1> SUFFICES ASSUME QuietInv, UNCHANGED vars PROVE QuietInv'
  OBVIOUS
<1>1. /\ UNCHANGED <<mem, flash_pages, flash_available, last_base, core0, core1, changes, synced, batches>>
      /\ UNCHANGED <<journal_pending, journal_finalize_pending, journal_slot, last_journal_sector, pending_journal_addr>>
  BY DEF vars, journal
<1>2. Types' /\ Ready' = Ready /\ View' = View /\ Image(View)' = Image(View) /\ Image(mem)' = Image(mem)
  BY <1>1, ControlStep DEF QuietInv, Types
<1>3. Critical' = Critical /\ Unborn' = Unborn /\ Bottom' = Bottom /\ InUse' = InUse /\ Entry' = Entry
  BY <1>1 DEF Critical, Unborn, Bottom, InUse, Entry
<1>4. Control'
  BY <1>1, <1>2, <1>3 DEF QuietInv, Control
<1>5. Cached'
  BY <1>1, <1>2, <1>3 DEF QuietInv, Cached
<1>6. Stored'
  BY <1>1, <1>3 DEF QuietInv, Stored, Unlinked, Current
<1>7. Journaled'
  BY <1>1, <1>3 DEF QuietInv, Journaled
<1>8. Redone'
  BY <1>1, <1>2, <1>3 DEF QuietInv, Redone, Copied
<1>9. Seen'
  BY <1>1, <1>2, <1>3 DEF QuietInv, Seen
<1> QED BY <1>2, <1>4, <1>5, <1>6, <1>7, <1>8, <1>9 DEF QuietInv

-----------------------------------------------------------------------------
(* The inductive invariant of any environment *)

Targets == [Page -> Int \ {Garbled}]

\* Journal sectors have well-formed entries, none of them garbled.
Sound(m) ==
    /\ DOMAIN m = Sector
    /\ \A s \in Sector : m[s].kind = "journal" =>
           /\ m[s] = Journal(m[s].entries)
           /\ m[s].entries \in [Slot -> [targets : Targets, status : Statuses]]

\* Of the journal sector in use the slots behind the current one are free, and the current one holds at
\* most what the next attempt at the batch writes into it.
InPlay == last_journal_sector \in Sector /\ mem[last_journal_sector].kind = "journal"
          /\ (journal_slot # 0 \/ journal_pending \/ core0.pc \in Preparing)

SlotsFree ==
    InPlay => \A l \in Slot, i \in Page :
        /\ l > journal_slot => mem[last_journal_sector].entries[l].targets[i] = None
        /\ l = journal_slot /\ ~journal_pending => mem[last_journal_sector].entries[l].targets[i] \in {None, flash_pages[i].addr}

PagesSound ==
    /\ DOMAIN flash_pages = Page
    /\ \A i \in Page : flash_pages[i].addr \in Sector \cup {None} /\ flash_pages[i].data.kind # "journal"

TaskSound ==
    /\ DOMAIN core0 = {"pc", "sector", "page"}
    /\ core0.page \in Page
    /\ core0.pc \in {"idle", "finalize", "check", "erase"} \cup Preparing \cup Writing
    /\ journal_slot \in Slot /\ pending_journal_addr[2] \in Slot
    /\ journal_finalize_pending => journal_pending
    /\ core0.pc \in {"finalize", "done"} => journal_finalize_pending
    /\ core0.pc \in Writing => journal_pending
    /\ core0.pc \in {"erase"} \cup Preparing => ~journal_pending
    /\ core0.pc \in Preparing => core0.sector = last_journal_sector
    /\ core0.pc = "program" => Ready # {}

EntryInv == Sound(mem) /\ SlotsFree /\ PagesSound /\ TaskSound

TargetsKept(m, n) ==
    \A s \in Sector : n[s].kind = "journal" =>
        m[s].kind = "journal" /\ \A l \in Slot : n[s].entries[l].targets = m[s].entries[l].targets

LEMMA SoundChange ==
    ASSUME NEW m, NEW n, Sound(m), DOMAIN n = Sector, \A s \in Sector : (\E x \in Sector : n[s] = m[x]) \/ n[s].kind # "journal"
    PROVE  Sound(n)
BY DEF Sound

\* A sector that is written with anything but a journal.
LEMMA SectorWritten ==
    ASSUME NEW m, NEW n, NEW x, NEW c, Sound(m), n = [m EXCEPT ![x] = c], c.kind # "journal"
    PROVE  Sound(n) /\ TargetsKept(m, n) /\ (x \in Sector => n[x] = c) /\ \A s \in Sector : s # x => n[s] = m[s]
<1>1. DOMAIN n = Sector /\ (\A s \in Sector : n[s] = IF s = x THEN c ELSE m[s])
  BY DEF Sound
<1>2. DOMAIN n = Sector /\ \A s \in Sector : (\E y \in Sector : n[s] = m[y]) \/ n[s].kind # "journal"
  BY <1>1
<1>3. Sound(n)
  BY <1>2, SoundChange
<1> QED BY <1>1, <1>3 DEF TargetsKept

LEMMA StatusWritten ==
    ASSUME NEW m, Sound(m), NEW j, NEW k \in Slot, NEW status \in Statuses
    PROVE  Sound(SetStatus(m, j, k, status)) /\ TargetsKept(m, SetStatus(m, j, k, status))
<1> DEFINE n == SetStatus(m, j, k, status)
<1>1. Torn.kind = "torn"
  BY DEF Torn
<1>2. CASE m[j].kind # "journal"
  <2>1. n = [m EXCEPT ![j] = Torn]
    BY <1>2 DEF SetStatus
  <2> HIDE DEF n
  <2>2. Sound(n) /\ TargetsKept(m, n)
    BY <1>1, <2>1, SectorWritten
  <2> QED BY <2>2 DEF n
<1>3. CASE m[j].kind = "journal" /\ j \notin Sector
  <2>1. n = [m EXCEPT ![j] = [m[j] EXCEPT !.entries[k].status = status]]
    BY <1>3 DEF SetStatus
  <2>2. DOMAIN n = Sector /\ \A s \in Sector : n[s] = m[s]
    BY <1>3, <2>1 DEF Sound
  <2> HIDE DEF n
  <2>3. Sound(n) /\ TargetsKept(m, n)
    BY <2>2, SoundChange DEF TargetsKept
  <2> QED BY <2>3 DEF n
<1>4. CASE m[j].kind = "journal" /\ j \in Sector
  <2>1. PICK e \in [Slot -> [targets : Targets, status : Statuses]] : m[j] = [kind |-> "journal", entries |-> e]
    BY <1>4 DEF Sound, Journal
  <2>2. PICK g : g = [e EXCEPT ![k] = [targets |-> e[k].targets, status |-> status]]
    OBVIOUS
  <2>3. g \in [Slot -> [targets : Targets, status : Statuses]] /\ \A l \in Slot : g[l].targets = e[l].targets
    BY <2>2
  <2>4. n = [m EXCEPT ![j] = [kind |-> "journal", entries |-> g]]
    <3>1. n = [m EXCEPT ![j].entries[k].status = status]
      BY <1>4 DEF SetStatus
    <3>2. [e[k] EXCEPT !.status = status] = [targets |-> e[k].targets, status |-> status]
      OBVIOUS
    <3>3. m[j].entries = e
      BY <2>1
    <3>4. [m[j] EXCEPT !.entries = g] = [kind |-> "journal", entries |-> g]
      BY <2>1
    <3>5. [e EXCEPT ![k] = [e[k] EXCEPT !.status = status]] = g
      BY <2>2, <3>2
    <3>6. n = [m EXCEPT ![j] = [m[j] EXCEPT !.entries = [e EXCEPT ![k] = [e[k] EXCEPT !.status = status]]]]
      BY <3>1, <3>3
    <3> QED BY <3>4, <3>5, <3>6
  <2>5. DOMAIN n = Sector /\ n[j] = [kind |-> "journal", entries |-> g] /\ \A s \in Sector : s # j => n[s] = m[s]
    BY <1>4, <2>4 DEF Sound
  <2> HIDE DEF n
  <2>6. Sound(n)
    <3>1. n[j] = Journal(n[j].entries) /\ n[j].entries = g
      BY <2>5 DEF Journal
    <3> QED BY <2>3, <2>5, <3>1 DEF Sound
  <2>7. m[j].entries = e /\ n[j].entries = g
    BY <2>1, <2>5
  <2>8. TargetsKept(m, n)
    BY <1>4, <2>3, <2>5, <2>7 DEF TargetsKept
  <2> QED BY <2>6, <2>8 DEF n
<1> QED BY <1>2, <1>3, <1>4

\* Recovery: the entry it finds has its redo copies in the pool.
LEMMA GreatestIn == ASSUME NEW b \in Nat, NEW S \in SUBSET (0 .. b), S # {} PROVE Max(S) \in S
<1>1. PICK Down : Down = {b - x : x \in S}
  OBVIOUS
<1>2. Down \in SUBSET Nat /\ Down # {}
  <2>1. ASSUME NEW z \in Down PROVE z \in Nat
    <3>1. PICK x \in S : z = b - x
      BY <1>1
    <3>2. x \in 0 .. b
      OBVIOUS
    <3> QED BY <3>1, <3>2
  <2>2. PICK x : x \in S
    OBVIOUS
  <2>3. b - x \in Down
    BY <1>1, <2>2
  <2> QED BY <2>1, <2>3
<1>3. PICK y : y = Min(Down)
  OBVIOUS
<1>4. y \in Down /\ \A z \in Down : y <= z
  BY <1>2, <1>3, LeastIn
<1>5. PICK x \in S : y = b - x
  BY <1>1, <1>4
<1>6. \A z \in S : z <= x
  <2> TAKE z \in S
  <2>1. b - z \in Down
    BY <1>1
  <2>2. b - x <= b - z
    BY <1>4, <1>5, <2>1
  <2> QED BY <2>2
<1>7. S \in SUBSET Int
  OBVIOUS
<1> QED BY <1>6, <1>7, GreatestIs

LEMMA LastBaseIn == ASSUME NEW m PROVE LastBase(m) \in 0 .. NumSectors
<1>1. Live(m) \subseteq 0 .. NumSectors - 1
  BY Numbers DEF Live
<1>2. 0 \in Int /\ NumSectors - 1 \in Int /\ ~(0 > NumSectors - 1)
  BY Numbers
<1>3. IsFiniteSet(0 .. NumSectors - 1)
  BY <1>2, FS_Interval
<1>4. Cardinality(0 .. NumSectors - 1) = IF 0 > NumSectors - 1 THEN 0 ELSE NumSectors - 1 - 0 + 1
  BY <1>2, FS_Interval
<1>5. IsFiniteSet(Live(m)) /\ Cardinality(Live(m)) <= Cardinality(0 .. NumSectors - 1)
  BY <1>1, <1>3, FS_Subset
<1>6. Cardinality(Live(m)) \in Nat
  BY <1>5, FS_CardinalityType
<1>7. Cardinality(0 .. NumSectors - 1) = NumSectors
  BY <1>2, <1>4, Numbers
<1> QED BY <1>5, <1>6, <1>7, Numbers DEF LastBase

LEMMA CandidateIs ==
    ASSUME NEW m, NEW c \in Candidates(m)
    PROVE  /\ Candidates(m) = {c} /\ c[1] \in Pool /\ c[2] \in Slot
           /\ \A i \in Page : m[c[1]].entries[c[2]].targets[i] # None => c[1] - i \in Pool
<1>1. PICK b, found, j : b = LastBase(m) /\ found = JournalSectors(m) /\ j = Max(found)
  OBVIOUS
<1>2. PICK V, P : V = ValidSlots(m, j) /\ P = {k \in V : m[j].entries[k].status = "pending"}
  OBVIOUS
<1>3. found # {} /\ Candidates(m) = IF Corrupted(m) THEN {<<j, ForcedSlot(V)>>} ELSE IF P = {} THEN {} ELSE {<<j, Min(P)>>}
  BY <1>1, <1>2 DEF Candidates
<1>4. b \in 0 .. NumSectors
  BY <1>1, LastBaseIn
<1>5. found \in SUBSET (0 .. NumSectors) /\ \A s \in found : s \in Pool /\ ValidSlots(m, s) # {}
  BY <1>1, <1>4, Numbers DEF JournalSectors
<1>6. j \in found /\ j \in Pool /\ V # {}
  <2>1. NumSectors \in Nat
    BY Numbers
  <2>2. j \in found
    BY <1>1, <1>3, <1>5, <2>1, GreatestIn
  <2> QED BY <1>2, <1>5, <2>2
<1>7. \A k \in V : k \in Slot /\ Valid(m[j].entries[k], j)
  BY <1>2 DEF ValidSlots
<1>8. PICK k \in V : c = <<j, k>> /\ Candidates(m) = {<<j, k>>}
  <2>1. CASE Corrupted(m)
    <3>1. V \in SUBSET (0 .. JournalSlots)
      BY <1>7, Numbers
    <3>2. JournalSlots \in Nat
      BY Numbers
    <3>3. ForcedSlot(V) \in V
      BY <1>6, <3>1, <3>2, GreatestIn DEF ForcedSlot
    <3>4. Candidates(m) = {<<j, ForcedSlot(V)>>}
      BY <1>3, <2>1
    <3> QED BY <3>3, <3>4
  <2>2. CASE ~Corrupted(m)
    <3>1. P # {} /\ Candidates(m) = {<<j, Min(P)>>}
      BY <1>3, <2>2
    <3>2. P \in SUBSET Nat /\ P \subseteq V
      BY <1>2, <1>7, Numbers
    <3>3. Min(P) \in V
      BY <3>1, <3>2, LeastIn
    <3> QED BY <3>1, <3>3
  <2> QED BY <2>1, <2>2
<1>9. c[1] = j /\ c[2] = k /\ k \in Slot
  BY <1>7, <1>8
<1>10. ASSUME NEW i \in Page, m[j].entries[k].targets[i] # None PROVE j - i \in Pool
  <2>1. RedoOf(j, i) >= 0
    BY <1>7, <1>10 DEF Valid
  <2> QED BY <1>6, <2>1, Numbers DEF RedoOf
<1> QED BY <1>6, <1>8, <1>9, <1>10

LEMMA ReplaySound ==
    ASSUME NEW m, Sound(m), NEW c \in Candidates(m), NEW I \in SUBSET Page
    PROVE  Sound(Replayed(m, c[1], c[2], I))
<1>1. PICK n, j, k : n = Replayed(m, c[1], c[2], I) /\ j = c[1] /\ k = c[2]
  OBVIOUS
<1>2. \A i \in Page : m[j].entries[k].targets[i] # None => j - i \in Pool
  BY <1>1, CandidateIs
<1>3. /\ DOMAIN n = Sector
      /\ \A s \in Sector : \/ n[s] = m[s]
                           \/ \E i \in I : m[j].entries[k].targets[i] = s /\ n[s] = m[j - i]
  BY <1>1, ReplayedIs
<1>4. ASSUME NEW s \in Sector PROVE \E x \in Sector : n[s] = m[x]
  <2>1. CASE n[s] = m[s]
    BY <2>1
  <2>2. CASE \E i \in I : m[j].entries[k].targets[i] = s /\ n[s] = m[j - i]
    <3>1. PICK i \in I : m[j].entries[k].targets[i] = s /\ n[s] = m[j - i]
      BY <2>2
    <3>2. j - i \in Sector
      BY <1>2, <3>1, Numbers
    <3> QED BY <3>1, <3>2
  <2> QED BY <1>3, <2>1, <2>2
<1>5. Sound(n)
  BY <1>3, <1>4, SoundChange
<1> QED BY <1>1, <1>5

LEMMA RecoverySound == ASSUME NEW m, Sound(m) PROVE Sound(Recovered(m))
<1>1. CASE Candidates(m) = {}
  BY <1>1 DEF Recovered
<1>2. CASE Candidates(m) # {}
  <2>1. PICK c : c \in Candidates(m) /\ c = CHOOSE x \in Candidates(m) : TRUE
    BY <1>2
  <2>2. PICK n : n = Replayed(m, c[1], c[2], Page)
    OBVIOUS
  <2>3. Sound(n)
    BY <2>1, <2>2, ReplaySound
  <2>4. Recovered(m) = SetStatus(n, c[1], c[2], "done")
    BY <1>2, <2>1, <2>2 DEF Recovered
  <2>5. c[2] \in Slot
    BY <2>1, CandidateIs
  <2> QED BY <2>3, <2>4, <2>5, StatusWritten DEF Statuses
<1> QED BY <1>1, <1>2

-----------------------------------------------------------------------------
(* Any environment *)

\* Core 1 changes a sector in the cache.
CacheStep ==
    /\ core0.pc = "idle"
    /\ \E s \in Sector \cup {None} : \E c, more :
           /\ FreePage(s) # {}
           /\ flash_pages' = [flash_pages EXCEPT ![Min(FreePage(s))] = [addr |-> s, data |-> Data(c, more)]]
    /\ UNCHANGED <<mem, journal, core0>>

\* Core 0 gives a batch up.
GiveUp == core0.pc \in LockoutPcs /\ Leave /\ UNCHANGED <<mem, flash_pages, journal>>

WaitStep == UNCHANGED <<mem, flash_pages, journal, core0>>

AnyStep == Core0 \/ CacheStep \/ GiveUp \/ WaitStep \/ PowerLoss

\* Steps after which the slot in use holds no more than before.
LEMMA SlotsStay ==
    ASSUME EntryInv, TargetsKept(mem, mem'), UNCHANGED <<journal_slot, last_journal_sector>>,
           core0'.pc \in Preparing => journal_slot # 0 \/ core0.pc \in Preparing,
           journal_pending' => journal_pending \/ core0.pc \in Preparing,
           ~journal_pending' => /\ ~journal_pending
                                /\ \A i \in Page : flash_pages[i].addr \in {None, flash_pages'[i].addr}
    PROVE  SlotsFree'
<1> SUFFICES ASSUME InPlay', NEW l \in Slot, NEW i \in Page
             PROVE  /\ l > journal_slot' => mem'[last_journal_sector'].entries[l].targets[i] = None
                    /\ l = journal_slot' /\ ~journal_pending' => mem'[last_journal_sector'].entries[l].targets[i] \in {None, flash_pages'[i].addr}
  BY DEF SlotsFree
<1>1. last_journal_sector \in Sector /\ mem'[last_journal_sector].kind = "journal"
      /\ (journal_slot # 0 \/ journal_pending' \/ core0'.pc \in Preparing)
  BY DEF InPlay
<1>2. mem[last_journal_sector].kind = "journal" /\ mem'[last_journal_sector].entries[l].targets = mem[last_journal_sector].entries[l].targets
  BY <1>1 DEF TargetsKept
<1>3. InPlay
  BY <1>1, <1>2 DEF InPlay
<1>4. /\ l > journal_slot => mem[last_journal_sector].entries[l].targets[i] = None
      /\ l = journal_slot /\ ~journal_pending => mem[last_journal_sector].entries[l].targets[i] \in {None, flash_pages[i].addr}
  BY <1>3 DEF EntryInv, SlotsFree
<1> QED BY <1>2, <1>4

LEMMA CheckEntries == EntryInv /\ Check => EntryInv'
<1> SUFFICES ASSUME EntryInv, Check PROVE EntryInv'
  OBVIOUS
<1>1. core0.pc = "check" /\ UNCHANGED <<mem, flash_pages, last_base, journal>>
  BY DEF Check
<1>2. UNCHANGED <<journal_pending, journal_finalize_pending, journal_slot, last_journal_sector, pending_journal_addr>>
  BY <1>1 DEF journal
<1>3. Ready' = Ready /\ Ready \subseteq Page /\ Ready \in SUBSET Nat
  BY <1>1, Numbers DEF Ready
<1>4. PICK p, j : p = Min(Ready) /\ j = last_base - 1
  OBVIOUS
<1>5. Ready # {} => p \in Page
  BY <1>3, <1>4, LeastIn
<1>6. DOMAIN core0 = {"pc", "sector", "page"} /\ core0.page \in Page
  BY DEF EntryInv, TaskSound
<1>7. /\ DOMAIN core0' = {"pc", "sector", "page"} /\ core0'.page \in Page
      /\ \/ core0'.pc = "idle"
         \/ core0'.pc = "write" /\ journal_pending
         \/ core0'.pc = "erase" /\ ~journal_pending
         \/ core0'.pc = "redo" /\ ~journal_pending /\ core0'.sector = last_journal_sector /\ journal_slot # 0
  <2>1. CASE core0' = Idle0
    BY <2>1, Numbers DEF Idle0
  <2>2. CASE journal_pending /\ core0' = [core0 EXCEPT !.pc = "write"]
    <3>1. core0'.pc = "write" /\ core0'.page = core0.page /\ DOMAIN core0' = DOMAIN core0
      BY <1>6, <2>2
    <3> QED BY <1>6, <2>2, <3>1
  <2>3. CASE Ready # {} /\ ~journal_pending /\ core0' = [sector |-> j, page |-> p, pc |-> IF FreshJournal(j) THEN "erase" ELSE "redo"]
    <3>1. CASE FreshJournal(j)
      <4>1. core0' = [sector |-> j, page |-> p, pc |-> "erase"]
        BY <2>3, <3>1
      <4> QED BY <1>5, <2>3, <4>1
    <3>2. CASE ~FreshJournal(j)
      <4>1. core0' = [sector |-> j, page |-> p, pc |-> "redo"]
        BY <2>3, <3>2
      <4> QED BY <1>5, <2>3, <3>2, <4>1 DEF FreshJournal
    <3> QED BY <3>1, <3>2
  <2> QED BY <1>4, <2>1, <2>2, <2>3 DEF Check, Leave, Stay
<1>8. SlotsFree'
  <2>1. TargetsKept(mem, mem')
    BY <1>1 DEF TargetsKept
  <2>2. core0'.pc \in Preparing => journal_slot # 0
    BY <1>7 DEF Preparing
  <2> QED BY <1>1, <1>2, <2>1, <2>2, SlotsStay
<1>9. TaskSound'
  BY <1>1, <1>2, <1>3, <1>7 DEF EntryInv, TaskSound, Preparing, Writing
<1> QED BY <1>1, <1>8, <1>9 DEF EntryInv, PagesSound

LEMMA EraseJournalEntries == EntryInv /\ EraseJournal => EntryInv'
<1> SUFFICES ASSUME EntryInv, EraseJournal PROVE EntryInv'
  OBVIOUS
<1>1. PICK j : j = core0.sector
  OBVIOUS
<1>2. /\ core0.pc = "erase" /\ mem' = [mem EXCEPT ![j] = Journal(NoEntries)]
      /\ last_journal_sector' = j /\ journal_slot' = 0 /\ core0' = [core0 EXCEPT !.pc = "redo"]
      /\ UNCHANGED <<flash_pages, journal_pending, journal_finalize_pending, pending_journal_addr>>
  BY <1>1 DEF EraseJournal, Stay, NoEntries
<1>3. core0'.pc = "redo" /\ DOMAIN core0' = {"pc", "sector", "page"} /\ core0'.page = core0.page /\ core0'.sector = j /\ ~journal_pending
  BY <1>1, <1>2 DEF EntryInv, TaskSound
<1>4. NoEntry \in [targets : Targets, status : Statuses] /\ \A i \in Page : NoEntry.targets[i] = None
  BY Numbers DEF NoEntry, Targets, Statuses, None, Garbled
<1>5. NoEntries \in [Slot -> [targets : Targets, status : Statuses]] /\ \A l \in Slot : NoEntries[l] = NoEntry
  BY <1>4 DEF NoEntries
<1>6. PICK m, n, e : m = mem /\ n = mem' /\ e = NoEntries
  OBVIOUS
<1>7. DOMAIN n = Sector /\ \A s \in Sector : n[s] = IF s = j THEN Journal(e) ELSE m[s]
  BY <1>2, <1>6 DEF EntryInv, Sound
<1>8. Journal(e).entries = e
  BY DEF Journal
<1>9. Sound(n)
  <2>1. ASSUME NEW s \in Sector, n[s].kind = "journal"
        PROVE  n[s] = Journal(n[s].entries) /\ n[s].entries \in [Slot -> [targets : Targets, status : Statuses]]
    <3>1. CASE s = j
      BY <1>5, <1>6, <1>7, <1>8, <3>1
    <3>2. CASE s # j
      <4>1. n[s] = m[s]
        BY <1>7, <3>2
      <4> QED BY <1>6, <2>1, <4>1 DEF EntryInv, Sound
    <3> QED BY <3>1, <3>2
  <2> QED BY <1>7, <2>1 DEF Sound
<1>10. SlotsFree'
  <2>1. ASSUME j \in Sector, NEW l \in Slot, NEW i \in Page PROVE n[j].entries[l].targets[i] = None
    BY <1>4, <1>5, <1>6, <1>7, <1>8, <2>1
  <2> QED BY <1>2, <1>6, <2>1 DEF SlotsFree, InPlay
<1>11. Ready' = Ready /\ 0 \in Slot
  BY <1>2, Numbers DEF Ready
<1>12. TaskSound'
  BY <1>2, <1>3, <1>11 DEF EntryInv, TaskSound, Preparing, Writing
<1> QED BY <1>2, <1>6, <1>9, <1>10, <1>12 DEF EntryInv, PagesSound

LEMMA EntrySet ==
    ASSUME NEW m, Sound(m), NEW j \in Sector, m[j].kind = "journal", NEW k \in Slot,
           NEW x \in [targets : Targets, status : Statuses], NEW n, n = Written(m, j, k, x)
    PROVE  /\ Sound(n) /\ n[j].kind = "journal" /\ n[j].entries[k] = x
           /\ \A l \in Slot : l # k => n[j].entries[l] = m[j].entries[l]
           /\ \A s \in Sector : s # j => n[s] = m[s]
<1>1. PICK e \in [Slot -> [targets : Targets, status : Statuses]] : m[j] = [kind |-> "journal", entries |-> e]
  BY DEF Sound, Journal
<1>2. PICK f : f = [e EXCEPT ![k] = x]
  OBVIOUS
<1>3. f \in [Slot -> [targets : Targets, status : Statuses]] /\ f[k] = x /\ \A l \in Slot : l # k => f[l] = e[l]
  BY <1>2
<1>4. m[j].entries = e
  BY <1>1
<1>5. [m[j] EXCEPT !.entries = f] = [kind |-> "journal", entries |-> f]
  BY <1>1
<1>6. n = [m EXCEPT ![j] = [m[j] EXCEPT !.entries = [e EXCEPT ![k] = x]]]
  BY <1>4 DEF Written
<1>7. n = [m EXCEPT ![j] = [kind |-> "journal", entries |-> f]]
  BY <1>2, <1>5, <1>6
<1>8. DOMAIN n = Sector /\ n[j] = [kind |-> "journal", entries |-> f] /\ \A s \in Sector : s # j => n[s] = m[s]
  BY <1>7 DEF Sound
<1>9. n[j] = Journal(n[j].entries) /\ n[j].entries = f /\ n[j].kind = "journal"
  BY <1>8 DEF Journal
<1>10. Sound(n)
  BY <1>3, <1>8, <1>9 DEF Sound
<1> QED BY <1>1, <1>3, <1>4, <1>8, <1>9, <1>10

LEMMA WriteEntryEntries == EntryInv /\ WriteEntry => EntryInv'
<1> SUFFICES ASSUME EntryInv, WriteEntry PROVE EntryInv'
  OBVIOUS
<1>1. /\ core0.pc = "entry" /\ core0' = [core0 EXCEPT !.pc = "pending"]
      /\ UNCHANGED <<flash_pages, journal>>
  BY DEF WriteEntry, Stay
<1>2. UNCHANGED <<journal_pending, journal_finalize_pending, journal_slot, last_journal_sector, pending_journal_addr>>
  BY <1>1 DEF journal
<1>3. core0'.pc = "pending" /\ DOMAIN core0' = {"pc", "sector", "page"} /\ core0'.page = core0.page /\ core0'.sector = core0.sector
  BY <1>1 DEF EntryInv, TaskSound
<1>4. ~journal_pending /\ core0.sector = last_journal_sector /\ journal_slot \in Slot /\ core0.pc \in Preparing
  BY <1>1 DEF EntryInv, TaskSound, Preparing
<1>5. Ready' = Ready
  BY <1>1 DEF Ready
<1>6. TaskSound'
  BY <1>1, <1>2, <1>3, <1>4, <1>5 DEF EntryInv, TaskSound, Preparing, Writing
<1>7. PagesSound'
  BY <1>1 DEF EntryInv, PagesSound
<1>8. PICK m, n, j, k, new : m = mem /\ n = mem' /\ j = core0.sector /\ k = journal_slot /\ new = [i \in Page |-> flash_pages[i].addr]
  OBVIOUS
<1>9. Sound(m) /\ k \in Slot /\ j = last_journal_sector
  BY <1>4, <1>8 DEF EntryInv
<1>10. CASE m[j].kind # "journal"
  <2>1. n = [m EXCEPT ![j] = Torn] /\ Torn.kind = "torn"
    BY <1>8, <1>10 DEF WriteEntry, Torn
  <2>2. Sound(n) /\ TargetsKept(m, n)
    BY <1>9, <2>1, SectorWritten
  <2>3. SlotsFree'
    <3>1. \A i \in Page : flash_pages[i].addr \in {None, flash_pages'[i].addr}
      BY <1>1
    <3> QED BY <1>2, <1>4, <1>8, <2>2, <3>1, SlotsStay
  <2> QED BY <1>6, <1>7, <1>8, <2>2, <2>3 DEF EntryInv
<1>11. CASE m[j].kind = "journal"
  <2>1. PICK old : old = m[j].entries[k].targets
    OBVIOUS
  <2>2. PICK x : x = [targets |-> Programmed(old, new), status |-> "empty"]
    OBVIOUS
  <2>3. n = Written(m, j, k, x)
    BY <1>8, <1>11, <2>1, <2>2 DEF WriteEntry, Written
  <2>4. CASE j \notin Sector
    <3>1. PICK c : c = [m[j] EXCEPT !.entries[k] = x]
      OBVIOUS
    <3>2. n = [m EXCEPT ![j] = c]
      BY <2>3, <3>1 DEF Written
    <3>3. DOMAIN n = Sector /\ \A s \in Sector : n[s] = m[s]
      BY <1>9, <2>4, <3>2 DEF Sound
    <3>4. Sound(n)
      BY <1>9, <3>3, SoundChange
    <3>5. ~InPlay'
      BY <1>2, <1>9, <2>4 DEF InPlay
    <3> QED BY <1>6, <1>7, <1>8, <3>4, <3>5 DEF EntryInv, SlotsFree
  <2>5. CASE j \in Sector
    <3>1. InPlay
      BY <1>4, <1>8, <1>9, <1>11, <2>5 DEF InPlay
    <3>2. \A i \in Page : old[i] \in {None, new[i]}
      BY <1>4, <1>8, <1>9, <2>1, <3>1 DEF EntryInv, SlotsFree
    <3>3. \A l \in Slot, i \in Page : l > k => m[j].entries[l].targets[i] = None
      BY <1>4, <1>8, <1>9, <3>1 DEF EntryInv, SlotsFree
    <3>4. PICK T : T = Programmed(old, new)
      OBVIOUS
    <3>5. \A i \in Page : T[i] = new[i]
      BY <3>2, <3>4 DEF Programmed
    <3>6. \A i \in Page : new[i] \in Int \ {Garbled}
      BY <1>8, Numbers DEF EntryInv, PagesSound, None, Garbled
    <3>7. DOMAIN T = Page /\ T = [i \in Page |-> T[i]]
      BY <3>4 DEF Programmed
    <3>8. T \in Targets
      BY <3>5, <3>6, <3>7 DEF Targets
    <3>9. x \in [targets : Targets, status : Statuses] /\ x.targets = T
      BY <2>2, <3>4, <3>8 DEF Statuses
    <3>10. /\ Sound(n) /\ n[j].kind = "journal" /\ n[j].entries[k] = x
           /\ \A l \in Slot : l # k => n[j].entries[l] = m[j].entries[l]
      BY <1>9, <1>11, <2>3, <2>5, <3>9, EntrySet
    <3>11. SlotsFree'
      <4>1. ASSUME NEW l \in Slot, NEW i \in Page
            PROVE  /\ l > k => n[j].entries[l].targets[i] = None
                   /\ l = k => n[j].entries[l].targets[i] = new[i]
        <5>1. k \in Int
          BY <1>9, Numbers
        <5>2. CASE l = k
          BY <3>5, <3>9, <3>10, <5>1, <5>2
        <5>3. CASE l # k
          BY <3>3, <3>10, <5>3
        <5> QED BY <5>2, <5>3
      <4>2. \A i \in Page : new[i] = flash_pages'[i].addr
        BY <1>1, <1>8
      <4> QED BY <1>2, <1>8, <1>9, <4>1, <4>2 DEF SlotsFree
    <3> QED BY <1>6, <1>7, <1>8, <3>10, <3>11 DEF EntryInv
  <2> QED BY <2>4, <2>5
<1> QED BY <1>10, <1>11

\* Steps that write a sector, and leave the journal's state alone.
LEMMA SectorStep ==
    ASSUME EntryInv, NEW x, NEW c, mem' = mem \/ (mem' = [mem EXCEPT ![x] = c] /\ c.kind # "journal"),
           UNCHANGED journal, core0'.pc \in Preparing => core0.pc \in Preparing,
           ~journal_pending => \A i \in Page : flash_pages[i].addr \in {None, flash_pages'[i].addr}
    PROVE  /\ Sound(mem') /\ SlotsFree'
           /\ UNCHANGED <<journal_pending, journal_finalize_pending, journal_slot, last_journal_sector, pending_journal_addr>>
<1>1. UNCHANGED <<journal_pending, journal_finalize_pending, journal_slot, last_journal_sector, pending_journal_addr>>
  BY DEF journal
<1>2. PICK m, n : m = mem /\ n = mem'
  OBVIOUS
<1>3. Sound(m)
  BY <1>2 DEF EntryInv
<1>4. Sound(n) /\ TargetsKept(m, n)
  <2>1. CASE n = m
    BY <1>3, <2>1 DEF TargetsKept
  <2>2. CASE n = [m EXCEPT ![x] = c] /\ c.kind # "journal"
    BY <1>3, <2>2, SectorWritten
  <2> QED BY <1>2, <2>1, <2>2
<1>5. SlotsFree'
  BY <1>1, <1>2, <1>4, SlotsStay
<1> QED BY <1>1, <1>2, <1>4, <1>5

LEMMA RedoEntries == EntryInv /\ (EraseRedo \/ ProgramRedo) => EntryInv'
<1> SUFFICES ASSUME EntryInv, EraseRedo \/ ProgramRedo PROVE EntryInv'
  OBVIOUS
<1>1. core0.pc \in {"redo", "redo_program"} /\ UNCHANGED <<flash_pages, journal>>
  BY DEF EraseRedo, ProgramRedo
<1>2. DOMAIN core0 = {"pc", "sector", "page"} /\ core0.page \in Page /\ core0.pc \in Preparing /\ core0.sector = last_journal_sector /\ ~journal_pending
  BY <1>1 DEF EntryInv, TaskSound, Preparing
<1>3. PICK p, x, c : p = core0.page /\ x = RedoOf(core0.sector, core0.page) /\ c = IF core0.pc = "redo" THEN Torn ELSE flash_pages[core0.page].data
  OBVIOUS
<1>4. c.kind # "journal"
  <2>1. Torn.kind = "torn"
    BY DEF Torn
  <2> QED BY <1>2, <1>3, <2>1 DEF EntryInv, PagesSound
<1>5. mem' = mem \/ mem' = [mem EXCEPT ![x] = c]
  BY <1>1, <1>3 DEF EraseRedo, ProgramRedo
<1>6. /\ DOMAIN core0' = {"pc", "sector", "page"} /\ core0'.page \in Page
      /\ core0'.pc = "idle" \/ (core0'.pc \in {"redo", "redo_program", "entry"} /\ core0'.sector = last_journal_sector)
  <2>1. CASE core0' = Idle0
    BY <2>1, Numbers DEF Idle0
  <2>2. CASE core0' = [core0 EXCEPT !.pc = "redo_program"] \/ core0' = [core0 EXCEPT !.pc = "entry"]
    BY <1>2, <2>2
  <2>3. CASE core0.pc = "redo_program"
    <3>1. PICK more : more = {i \in Ready : i > p}
      OBVIOUS
    <3>2. IF more = {} THEN core0' = [core0 EXCEPT !.pc = "entry"] ELSE core0' = [core0 EXCEPT !.pc = "redo", !.page = Min(more)]
      BY <1>3, <2>3, <3>1 DEF EraseRedo, ProgramRedo, Stay
    <3>3. CASE more = {}
      BY <1>2, <3>2, <3>3
    <3>4. CASE more # {}
      <4>1. PICK q : q = Min(more)
        OBVIOUS
      <4>2. more \in SUBSET Nat /\ more \subseteq Page
        BY <3>1, Numbers DEF Ready
      <4>3. q \in Page
        BY <3>4, <4>1, <4>2, LeastIn
      <4>4. core0' = [core0 EXCEPT !.pc = "redo", !.page = q]
        BY <3>2, <3>4, <4>1
      <4> QED BY <1>2, <4>3, <4>4
    <3> QED BY <3>3, <3>4
  <2>4. CASE core0.pc = "redo"
    BY <2>1, <2>2, <2>4 DEF EraseRedo, ProgramRedo, Leave, Stay
  <2> QED BY <1>1, <2>3, <2>4
<1>7. /\ Sound(mem') /\ SlotsFree'
      /\ UNCHANGED <<journal_pending, journal_finalize_pending, journal_slot, last_journal_sector, pending_journal_addr>>
  <2>1. \A i \in Page : flash_pages[i].addr \in {None, flash_pages'[i].addr}
    BY <1>1
  <2> QED BY <1>1, <1>2, <1>4, <1>5, <2>1, SectorStep
<1>8. Ready' = Ready
  BY <1>1 DEF Ready
<1>9. TaskSound'
  BY <1>2, <1>6, <1>7, <1>8 DEF EntryInv, TaskSound, Preparing, Writing
<1> QED BY <1>1, <1>7, <1>9 DEF EntryInv, PagesSound

LEMMA MarkPendingEntries == EntryInv /\ MarkPending => EntryInv'
<1> SUFFICES ASSUME EntryInv, MarkPending PROVE EntryInv'
  OBVIOUS
<1>1. /\ core0.pc = "pending" /\ core0' = [core0 EXCEPT !.pc = "write"]
      /\ mem' = SetStatus(mem, core0.sector, journal_slot, "pending") /\ journal_pending' = TRUE
      /\ pending_journal_addr' = <<core0.sector, journal_slot>>
      /\ UNCHANGED <<flash_pages, journal_finalize_pending, journal_slot, last_journal_sector>>
  BY DEF MarkPending, Stay
<1>2. journal_slot \in Slot /\ core0.pc \in Preparing
  BY <1>1 DEF EntryInv, TaskSound, Preparing
<1>3. PICK m, n, j : m = mem /\ n = mem' /\ j = core0.sector
  OBVIOUS
<1>4. Sound(n) /\ TargetsKept(m, n)
  BY <1>1, <1>2, <1>3, StatusWritten DEF EntryInv, Statuses
<1>5. core0'.pc = "write" /\ DOMAIN core0' = {"pc", "sector", "page"} /\ core0'.page = core0.page
  BY <1>1 DEF EntryInv, TaskSound
<1>6. SlotsFree'
  BY <1>1, <1>2, <1>3, <1>4, <1>5, SlotsStay DEF Preparing
<1>7. pending_journal_addr'[2] = journal_slot
  BY <1>1
<1>8. TaskSound'
  BY <1>1, <1>2, <1>5, <1>7 DEF EntryInv, TaskSound, Preparing, Writing
<1> QED BY <1>1, <1>3, <1>4, <1>6, <1>8 DEF EntryInv, PagesSound

LEMMA TargetEntries == EntryInv /\ (EraseTarget \/ ProgramTarget) => EntryInv'
<1> SUFFICES ASSUME EntryInv, EraseTarget \/ ProgramTarget PROVE EntryInv'
  OBVIOUS
<1>1. core0.pc \in {"write", "program"} /\ Ready # {} /\ UNCHANGED journal
  BY DEF EraseTarget, ProgramTarget, EntryInv, TaskSound
<1>2. PICK i, x, c : i = Min(Ready) /\ x = flash_pages[Min(Ready)].addr /\ c = IF core0.pc = "write" THEN Torn ELSE flash_pages[Min(Ready)].data
  OBVIOUS
<1>3. i \in Ready /\ i \in Page
  <2>1. Ready \in SUBSET Nat /\ Ready \subseteq Page
    BY Numbers DEF Ready
  <2> QED BY <1>1, <1>2, <2>1, LeastIn
<1>4. c.kind # "journal" /\ mem' = [mem EXCEPT ![x] = c]
  <2>1. Torn.kind = "torn"
    BY DEF Torn
  <2>2. c.kind # "journal"
    BY <1>2, <1>3, <2>1 DEF EntryInv, PagesSound
  <2>3. mem' = [mem EXCEPT ![x] = c]
    BY <1>2 DEF EraseTarget, ProgramTarget
  <2> QED BY <2>2, <2>3
<1>5. /\ DOMAIN core0 = {"pc", "sector", "page"} /\ core0.page \in Page /\ journal_pending /\ core0.pc \notin Preparing
  BY <1>1 DEF EntryInv, TaskSound, Preparing, Writing
<1>6. /\ DOMAIN core0' = {"pc", "sector", "page"} /\ core0'.page = core0.page
      /\ \/ core0'.pc = "program" /\ flash_pages' = flash_pages
         \/ core0'.pc = "write" /\ flash_pages' = [flash_pages EXCEPT ![i] = NoPage]
  BY <1>2, <1>5 DEF EraseTarget, ProgramTarget, Stay
<1>7. /\ Sound(mem') /\ SlotsFree'
      /\ UNCHANGED <<journal_pending, journal_finalize_pending, journal_slot, last_journal_sector, pending_journal_addr>>
  BY <1>1, <1>4, <1>5, <1>6, SectorStep DEF Preparing
<1>8. PagesSound'
  <2>1. CASE flash_pages' = flash_pages
    BY <2>1 DEF EntryInv, PagesSound
  <2>2. CASE flash_pages' = [flash_pages EXCEPT ![i] = NoPage]
    <3>1. NoPage.addr = None /\ NoPage.data.kind = "erased"
      BY DEF NoPage, Erased
    <3> QED BY <2>2, <3>1 DEF EntryInv, PagesSound
  <2> QED BY <1>6, <2>1, <2>2
<1>9. core0'.pc = "program" => Ready' # {}
  BY <1>1, <1>6 DEF Ready
<1>10. TaskSound'
  BY <1>5, <1>6, <1>7, <1>9 DEF EntryInv, TaskSound, Preparing, Writing
<1> QED BY <1>7, <1>8, <1>10 DEF EntryInv

LEMMA MarkDoneEntries == EntryInv /\ MarkDone => EntryInv'
<1> SUFFICES ASSUME EntryInv, MarkDone PROVE EntryInv'
  OBVIOUS
<1>1. /\ core0.pc \in {"done", "finalize"}
      /\ mem' = SetStatus(mem, pending_journal_addr[1], pending_journal_addr[2], "done")
      /\ journal_pending' = FALSE /\ journal_finalize_pending' = FALSE /\ journal_slot' = NextSlot
      /\ core0' = Idle0 \/ core0' = [core0 EXCEPT !.pc = "check"]
      /\ UNCHANGED <<flash_pages, last_journal_sector, pending_journal_addr>>
  BY DEF MarkDone, Leave, Stay
<1>2. PICK m, n, j, k : m = mem /\ n = mem' /\ j = pending_journal_addr[1] /\ k = pending_journal_addr[2]
  OBVIOUS
<1>3. k \in Slot /\ journal_slot \in Slot /\ journal_pending /\ DOMAIN core0 = {"pc", "sector", "page"} /\ core0.page \in Page
  BY <1>1, <1>2 DEF EntryInv, TaskSound
<1>4. Sound(n) /\ TargetsKept(m, n)
  BY <1>1, <1>2, <1>3, StatusWritten DEF EntryInv, Statuses
<1>5. core0'.pc \in {"idle", "check"} /\ DOMAIN core0' = {"pc", "sector", "page"} /\ core0'.page \in Page
  <2>1. CASE core0' = Idle0
    BY <2>1, Numbers DEF Idle0
  <2>2. CASE core0' = [core0 EXCEPT !.pc = "check"]
    BY <1>3, <2>2
  <2> QED BY <1>1, <2>1, <2>2
<1>6. journal_slot' \in Slot /\ (journal_slot' = 0 \/ journal_slot' = journal_slot + 1)
  BY <1>1, <1>3, SlotAfter
<1>7. SlotsFree'
  <2> SUFFICES ASSUME InPlay', NEW l \in Slot, NEW i \in Page, l > journal_slot' \/ l = journal_slot'
               PROVE  mem'[last_journal_sector'].entries[l].targets[i] = None
    BY DEF SlotsFree
  <2>1. last_journal_sector \in Sector /\ mem'[last_journal_sector].kind = "journal" /\ journal_slot' # 0
    BY <1>1, <1>5 DEF InPlay, Preparing
  <2>2. mem[last_journal_sector].kind = "journal" /\ mem'[last_journal_sector].entries[l].targets = mem[last_journal_sector].entries[l].targets
    BY <1>2, <1>4, <2>1 DEF TargetsKept
  <2>3. InPlay
    BY <1>3, <2>1, <2>2 DEF InPlay
  <2>4. l > journal_slot
    BY <1>3, <1>6, <2>1, Numbers
  <2>5. mem[last_journal_sector].entries[l].targets[i] = None
    BY <2>3, <2>4 DEF EntryInv, SlotsFree
  <2> QED BY <1>1, <2>2, <2>5
<1>8. TaskSound'
  BY <1>1, <1>5, <1>6 DEF EntryInv, TaskSound, Preparing, Writing
<1> QED BY <1>1, <1>2, <1>4, <1>7, <1>8 DEF EntryInv, PagesSound

\* Steps of control.
LEMMA ControlEntries == EntryInv /\ (TaskBegin \/ AllWritten \/ GiveUp \/ WaitStep) => EntryInv'
<1> SUFFICES ASSUME EntryInv, TaskBegin \/ AllWritten \/ GiveUp \/ WaitStep PROVE EntryInv'
  OBVIOUS
<1>1. DOMAIN core0 = {"pc", "sector", "page"} /\ core0.page \in Page
  BY DEF EntryInv, TaskSound
<1>2. /\ UNCHANGED <<mem, flash_pages, journal_pending, journal_slot, last_journal_sector, pending_journal_addr>>
      /\ DOMAIN core0' = {"pc", "sector", "page"} /\ core0'.page \in Page
      /\ \/ core0'.pc = "finalize" /\ journal_finalize_pending /\ journal_finalize_pending' = journal_finalize_pending
         \/ core0'.pc = "check" /\ journal_finalize_pending' = journal_finalize_pending
         \/ core0'.pc = "done" /\ core0.pc = "write" /\ journal_finalize_pending'
         \/ core0'.pc = "idle" /\ journal_finalize_pending' = journal_finalize_pending
         \/ core0' = core0 /\ journal_finalize_pending' = journal_finalize_pending
  <2>1. CASE TaskBegin
    <3>1. UNCHANGED <<mem, flash_pages, journal>>
      BY <2>1 DEF TaskBegin
    <3>2. core0' = [core0 EXCEPT !.pc = IF journal_finalize_pending THEN "finalize" ELSE "check"]
      BY <2>1 DEF TaskBegin, Stay
    <3> QED BY <1>1, <3>1, <3>2 DEF journal
  <2>2. CASE AllWritten
    BY <1>1, <2>2 DEF AllWritten, Stay
  <2>3. CASE GiveUp
    BY <2>3, Numbers DEF GiveUp, Leave, Idle0, journal
  <2>4. CASE WaitStep
    BY <1>1, <2>4 DEF WaitStep, journal
  <2> QED BY <2>1, <2>2, <2>3, <2>4
<1>3. TargetsKept(mem, mem')
  BY <1>2 DEF TargetsKept
<1>4. SlotsFree'
  <2>1. \A i \in Page : flash_pages[i].addr \in {None, flash_pages'[i].addr}
    BY <1>2
  <2>2. core0'.pc \in Preparing => core0.pc \in Preparing
    BY <1>2 DEF Preparing
  <2> QED BY <1>2, <1>3, <2>1, <2>2, SlotsStay
<1>5. Ready' = Ready
  BY <1>2 DEF Ready
<1>6. TaskSound'
  BY <1>2, <1>5 DEF EntryInv, TaskSound, Preparing, Writing
<1> QED BY <1>2, <1>4, <1>6 DEF EntryInv, PagesSound

LEMMA CacheEntries == EntryInv /\ CacheStep => EntryInv'
<1> SUFFICES ASSUME EntryInv, CacheStep PROVE EntryInv'
  OBVIOUS
<1>1. PICK s \in Sector \cup {None} : \E c, more :
          /\ FreePage(s) # {}
          /\ flash_pages' = [flash_pages EXCEPT ![Min(FreePage(s))] = [addr |-> s, data |-> Data(c, more)]]
  BY DEF CacheStep
<1>2. PICK c, more :
          /\ FreePage(s) # {}
          /\ flash_pages' = [flash_pages EXCEPT ![Min(FreePage(s))] = [addr |-> s, data |-> Data(c, more)]]
  BY <1>1
<1>3. core0.pc = "idle" /\ UNCHANGED <<mem, journal, core0>>
  BY DEF CacheStep
<1>4. UNCHANGED <<journal_pending, journal_finalize_pending, journal_slot, last_journal_sector, pending_journal_addr>>
  BY <1>3 DEF journal
<1>5. PICK i, d : i = Min(FreePage(s)) /\ d = Data(c, more)
  OBVIOUS
<1>6. i \in FreePage(s) /\ i \in Page
  <2>1. FreePage(s) \subseteq Page
    BY DEF FreePage, PageOf
  <2>2. FreePage(s) \in SUBSET Nat
    BY <2>1, Numbers
  <2> QED BY <1>2, <1>5, <2>1, <2>2, LeastIn
<1>7. flash_pages[i].addr \in {None, s}
  BY <1>6 DEF FreePage, PageOf, Ready
<1>8. /\ DOMAIN flash_pages' = Page /\ flash_pages'[i].addr = s /\ flash_pages'[i].data = d
      /\ \A n \in Page : n # i => flash_pages'[n] = flash_pages[n]
  BY <1>2, <1>5, <1>6 DEF EntryInv, PagesSound
<1>9. PagesSound'
  <2>1. d.kind = "data"
    BY <1>5 DEF Data
  <2> QED BY <1>8, <2>1 DEF EntryInv, PagesSound
<1>10. SlotsFree'
  <2>1. TargetsKept(mem, mem')
    BY <1>3 DEF TargetsKept
  <2>2. \A n \in Page : flash_pages[n].addr \in {None, flash_pages'[n].addr}
    BY <1>7, <1>8
  <2> QED BY <1>3, <1>4, <2>1, <2>2, SlotsStay DEF Preparing
<1>11. TaskSound'
  BY <1>3, <1>4 DEF EntryInv, TaskSound
<1> QED BY <1>3, <1>9, <1>10, <1>11 DEF EntryInv

BootedEntries(m) == Sound(m) /\ Booted(m)

LEMMA BootEntries == ASSUME NEW m PROVE BootedEntries(m) => EntryInv
<1> SUFFICES ASSUME BootedEntries(m) PROVE EntryInv
  OBVIOUS
<1>1. /\ mem = m /\ flash_pages = NoPages /\ journal_pending = FALSE /\ journal_finalize_pending = FALSE
      /\ journal_slot = 0 /\ pending_journal_addr = <<None, 0>> /\ core0 = Idle0 /\ Sound(m)
  BY DEF BootedEntries, Booted
<1>2. core0.pc = "idle" /\ core0.page = 1 /\ DOMAIN core0 = {"pc", "sector", "page"}
  BY <1>1 DEF Idle0
<1>3. 0 \in Slot /\ 1 \in Page /\ pending_journal_addr[2] = 0
  BY <1>1, Numbers
<1>4. TaskSound
  BY <1>1, <1>2, <1>3 DEF TaskSound, Preparing, Writing
<1>5. SlotsFree
  BY <1>1, <1>2 DEF SlotsFree, InPlay, Preparing
<1>6. DOMAIN flash_pages = Page /\ \A i \in Page : flash_pages[i].addr = None /\ flash_pages[i].data.kind = "erased"
  BY <1>1 DEF NoPages, NoPage, Erased
<1>7. PagesSound
  BY <1>6 DEF PagesSound
<1> QED BY <1>1, <1>4, <1>5, <1>7 DEF EntryInv

LEMMA RebootEntries == ASSUME NEW m PROVE BootedEntries(m)' => EntryInv'
BY BootEntries, PTL

LEMMA PowerLossEntries == EntryInv /\ PowerLoss => EntryInv'
<1> SUFFICES ASSUME EntryInv, PowerLoss PROVE EntryInv'
  OBVIOUS
<1>1. PICK x : x = mem
  OBVIOUS
<1>2. PICK m : Reboot(m) /\ Sound(m)
  <2>1. CASE Reboot(mem)
    BY <2>1 DEF EntryInv
  <2>2. CASE \E c \in Candidates(mem), n \in Page : mem[c[1]].entries[c[2]].targets[n] # None /\ Reboot(CutShort(c, n))
    <3>1. PICK c \in Candidates(x), n \in Page : Reboot(CutShort(c, n))
      BY <1>1, <2>2
    <3>2. PICK y, t, I : y = Replayed(x, c[1], c[2], I) /\ I = 1 .. n - 1 /\ t = x[c[1]].entries[c[2]].targets[n]
      OBVIOUS
    <3>3. I \in SUBSET Page
      BY <3>2, Numbers
    <3>4. Sound(y)
      BY <1>1, <3>2, <3>3, ReplaySound DEF EntryInv
    <3>5. PICK z : z = CutShort(c, n)
      OBVIOUS
    <3>6. z = [y EXCEPT ![t] = Torn] /\ Torn.kind = "torn"
      BY <1>1, <3>2, <3>5 DEF CutShort, Torn
    <3>7. Sound(z)
      BY <3>4, <3>6, SectorWritten
    <3> QED BY <3>1, <3>5, <3>7
  <2> QED BY <2>1, <2>2 DEF PowerLoss
<1>3. PICK r : r = Recovered(m)
  OBVIOUS
<1>4. Sound(r)
  BY <1>2, <1>3, RecoverySound
<1>5. Booted(r)'
  BY <1>2, <1>3 DEF Reboot, Booted
<1>6. BootedEntries(r)'
  BY <1>4, <1>5 DEF BootedEntries
<1> QED BY <1>6, RebootEntries

LEMMA AnyStepEntries == EntryInv /\ AnyStep => EntryInv'
BY CheckEntries, EraseJournalEntries, WriteEntryEntries, RedoEntries, MarkPendingEntries, TargetEntries, MarkDoneEntries,
   ControlEntries, CacheEntries, PowerLossEntries DEF AnyStep, Core0

LEMMA EntryInit == Init => EntryInv
<1> SUFFICES ASSUME Init PROVE EntryInv
  OBVIOUS
<1>1. PICK m : m = InitialMem
  OBVIOUS
<1>2. IsImage(m) /\ \A s \in Sector, k \in Slot, i \in Page : m[s].kind = "journal" => m[s].entries[k].targets[i] # Garbled
  BY <1>1, InitialImage
<1>3. ASSUME NEW s \in Sector, m[s].kind = "journal"
      PROVE  m[s] = Journal(m[s].entries) /\ m[s].entries \in [Slot -> [targets : Targets, status : Statuses]]
  <2>1. m[s] = Journal(m[s].entries) /\ m[s].entries \in [Slot -> Entries]
    BY <1>2, <1>3 DEF IsImage
  <2>2. ASSUME NEW k \in Slot PROVE m[s].entries[k] \in [targets : Targets, status : Statuses]
    <3>1. PICK x : x = m[s].entries[k]
      OBVIOUS
    <3>2. x \in Entries /\ \A i \in Page : x.targets[i] # Garbled
      BY <1>2, <1>3, <2>1, <3>1
    <3>3. x.targets \in Targets
      BY <3>2 DEF Entries, Targets
    <3> QED BY <3>1, <3>2, <3>3 DEF Entries, Statuses
  <2> QED BY <2>1, <2>2
<1>4. Sound(m)
  BY <1>2, <1>3 DEF Sound, IsImage
<1>5. BootedEntries(m)
  BY <1>1, <1>4 DEF BootedEntries, Init
<1> QED BY <1>5, BootEntries

LEMMA NextIsAny == Next => AnyStep
<1> SUFFICES ASSUME Next PROVE AnyStep
  OBVIOUS
<1>1. ASSUME NEW s \in Sector \cup {None}, NEW more, Program(s, more) PROVE CacheStep
  BY <1>1 DEF Program, CacheStep
<1>2. PICK b : b = LastBase(View)
  OBVIOUS
<1>3. b \in Sector \cup {None} /\ b - 1 \in Sector \cup {None}
  BY <1>2, LastBaseIn, Numbers DEF None
<1>4. CASE Lockout
  BY <1>4 DEF Lockout, GiveUp, AnyStep
<1>5. CASE Core1
  <2>1. CASE \E s \in Sector : Write(s)
    BY <1>1, <2>1 DEF Write, AnyStep
  <2>2. CASE GrowAllocate \/ GrowZero
    BY <1>1, <1>2, <1>3, <2>2 DEF GrowAllocate, GrowZero, NewSector, AnyStep
  <2>3. CASE GrowPublish \/ GrowUnlink
    BY <1>1, <1>2, <1>3, <2>3 DEF GrowPublish, GrowUnlink, AnyStep
  <2>4. CASE Commit \/ GrowBase
    BY <2>4 DEF Commit, GrowBase, WaitStep, AnyStep
  <2>5. ASSUME NEW from, NEW to, SyncBegin(from, to) \/ SyncEnd(from, to) \/ SyncTimeout(from, to) PROVE AnyStep
    BY <2>5 DEF SyncBegin, SyncEnd, SyncTimeout, WaitStep, AnyStep
  <2> QED BY <1>5, <2>1, <2>2, <2>3, <2>4, <2>5 DEF Core1
<1> QED BY <1>4, <1>5 DEF Next, AnyStep

\* The environments differ in what core 1 and the lockout do; the operators are the same.
LEMMA SameOperators ==
    /\ \A S : Faulty!Min(S) = Min(S) /\ Faulty!Max(S) = Max(S)
    /\ Faulty!Ready = Ready /\ Faulty!View = View
    /\ \A s : Faulty!FreePage(s) = FreePage(s)
    /\ \A c, more : Faulty!Data(c, more) = Data(c, more)
    /\ \A m : Faulty!LastBase(m) = LastBase(m) /\ Faulty!Image(m) = Image(m)
    /\ \A m, j, k, status : Faulty!SetStatus(m, j, k, status) = SetStatus(m, j, k, status)
    /\ \A m : Faulty!Candidates(m) = Candidates(m) /\ Faulty!Recovered(m) = Recovered(m)
    /\ \A m, j, k, I : Faulty!Replayed(m, j, k, I) = Replayed(m, j, k, I)
    /\ \A j, i : Faulty!RedoOf(j, i) = RedoOf(j, i)
    /\ \A old, new : Faulty!Programmed(old, new) = Programmed(old, new)
    /\ Faulty!None = None /\ Faulty!Page = Page /\ Faulty!Slot = Slot /\ Faulty!Sector = Sector /\ Faulty!Pool = Pool
    /\ Faulty!Torn = Torn /\ Faulty!NoPage = NoPage /\ Faulty!NoPages = NoPages /\ Faulty!NoEntry = NoEntry /\ Faulty!Idle0 = Idle0
    /\ \A e : Faulty!Journal(e) = Journal(e)
<1>0. \A S, T : S = T => (CHOOSE x \in S : TRUE) = (CHOOSE x \in T : TRUE)
  OBVIOUS
<1>1. \A S : Faulty!Min(S) = Min(S) /\ Faulty!Max(S) = Max(S)
  BY DEF Faulty!Min, Min, Faulty!Max, Max
<1>2. Faulty!None = None /\ Faulty!Page = Page /\ Faulty!Slot = Slot /\ Faulty!Sector = Sector /\ Faulty!Pool = Pool /\ Faulty!Rom = Rom
  BY DEF Faulty!None, None, Faulty!Page, Page, Faulty!Slot, Slot, Faulty!Sector, Sector, Faulty!Pool, Pool, Faulty!Rom, Rom
<1>3. \A c, more : Faulty!Data(c, more) = Data(c, more)
  BY DEF Faulty!Data, Data
<1>4. Faulty!Erased = Erased /\ Faulty!Torn = Torn
  BY DEF Faulty!Erased, Erased, Faulty!Torn, Torn
<1>5. Faulty!NoPage = NoPage /\ Faulty!NoPages = NoPages /\ Faulty!NoEntry = NoEntry /\ Faulty!Idle0 = Idle0
  BY <1>2, <1>4 DEF Faulty!NoPage, NoPage, Faulty!NoPages, NoPages, Faulty!NoEntry, NoEntry, Faulty!Idle0, Idle0
<1>6. \A e : Faulty!Journal(e) = Journal(e)
  BY DEF Faulty!Journal, Journal
<1>7. Faulty!Ready = Ready /\ \A s : Faulty!PageOf(s) = PageOf(s) /\ Faulty!FreePage(s) = FreePage(s)
  BY <1>2 DEF Faulty!Ready, Ready, Faulty!PageOf, PageOf, Faulty!FreePage, FreePage
<1>8. Faulty!View = View
  <2>1. \A s : Faulty!PageOf(s) = PageOf(s)
    BY <1>7
  <2>2. Faulty!Sector = Sector
    BY <1>2
  <2>3. ASSUME NEW s
        PROVE  (IF Faulty!PageOf(s) = {} THEN mem[s] ELSE flash_pages[CHOOSE i \in Faulty!PageOf(s) : TRUE].data)
                 = IF PageOf(s) = {} THEN mem[s] ELSE flash_pages[CHOOSE i \in PageOf(s) : TRUE].data
    <3>1. (CHOOSE i \in Faulty!PageOf(s) : TRUE) = CHOOSE i \in PageOf(s) : TRUE
      BY <1>0, <2>1
    <3> QED BY <2>1, <3>1
  <2> QED BY <2>2, <2>3 DEF Faulty!View, View
<1>9. \A m, s : Faulty!IsData(m, s) = IsData(m, s)
  BY DEF Faulty!IsData, IsData
<1>10. \A m : Faulty!Live(m) = Live(m)
  BY <1>2, <1>9 DEF Faulty!Live, Live, Faulty!Reaches, Reaches
<1>11. \A m : Faulty!LastBase(m) = LastBase(m) /\ Faulty!Corrupted(m) = Corrupted(m) /\ Faulty!Readable(m) = Readable(m) /\ Faulty!Image(m) = Image(m)
  <2> SUFFICES ASSUME NEW m PROVE Faulty!LastBase(m) = LastBase(m) /\ Faulty!Corrupted(m) = Corrupted(m) /\ Faulty!Readable(m) = Readable(m) /\ Faulty!Image(m) = Image(m)
    OBVIOUS
  <2>1. Faulty!LastBase(m) = LastBase(m)
    <3>1. \A S : Faulty!Cardinality(S) = Cardinality(S)
      BY Zenon DEF Faulty!Cardinality, Cardinality
    <3> QED BY <1>10, <3>1 DEF Faulty!LastBase, LastBase
  <2>2. Faulty!Corrupted(m) = Corrupted(m)
    BY <2>1 DEF Faulty!Corrupted, Corrupted
  <2>3. Faulty!Readable(m) = Readable(m)
    BY <1>2, <1>9, <1>10 DEF Faulty!Readable, Readable
  <2>4. Faulty!Image(m) = Image(m)
    BY <2>3, Zenon DEF Faulty!Image, Image
  <2> QED BY <2>1, <2>2, <2>3, <2>4
<1>12. \A j, i : Faulty!RedoOf(j, i) = RedoOf(j, i)
  BY DEF Faulty!RedoOf, RedoOf
<1>13. \A m, j : Faulty!ValidSlots(m, j) = ValidSlots(m, j)
  <2>1. \A e, j : Faulty!Valid(e, j) <=> Valid(e, j)
    BY <1>2, <1>12 DEF Faulty!Valid, Valid
  <2>2. \A m, j : {k \in Slot : Faulty!Valid(m[j].entries[k], j)} = {k \in Slot : Valid(m[j].entries[k], j)}
    BY <2>1
  <2> QED BY <1>2, <2>2 DEF Faulty!ValidSlots, ValidSlots
<1>14. \A m : Faulty!Candidates(m) = Candidates(m)
  <2>1. \A m : Faulty!JournalSectors(m) = JournalSectors(m)
    BY <1>11, <1>13 DEF Faulty!JournalSectors, JournalSectors
  <2>2. \A S : Faulty!ForcedSlot(S) = ForcedSlot(S)
    BY <1>1 DEF Faulty!ForcedSlot, ForcedSlot
  <2> QED BY <1>1, <1>11, <1>13, <2>1, <2>2 DEF Faulty!Candidates, Candidates
<1>15. \A m, j, k, I : Faulty!Replayed(m, j, k, I) = Replayed(m, j, k, I)
  BY <1>2, <1>12 DEF Faulty!Replayed, Replayed
<1>16. \A m, j, k, status : Faulty!SetStatus(m, j, k, status) = SetStatus(m, j, k, status)
  BY <1>4 DEF Faulty!SetStatus, SetStatus
<1>17. \A m : Faulty!Recovered(m) = Recovered(m)
  <2> SUFFICES ASSUME NEW m PROVE Faulty!Recovered(m) = Recovered(m)
    OBVIOUS
  <2>1. PICK c : c = CHOOSE x \in Candidates(m) : TRUE
    OBVIOUS
  <2>4. c = CHOOSE x \in Faulty!Candidates(m) : TRUE
    BY <1>0, <1>14, <2>1
  <2>2. Faulty!Recovered(m) = IF Candidates(m) = {} THEN m ELSE SetStatus(Replayed(m, c[1], c[2], Page), c[1], c[2], "done")
    BY <1>2, <1>14, <1>15, <1>16, <2>4 DEF Faulty!Recovered
  <2>3. Recovered(m) = IF Candidates(m) = {} THEN m ELSE SetStatus(Replayed(m, c[1], c[2], Page), c[1], c[2], "done")
    BY <2>1 DEF Recovered
  <2> QED BY <2>2, <2>3
<1>18. \A old, new : Faulty!Programmed(old, new) = Programmed(old, new)
  BY <1>2 DEF Faulty!Programmed, Programmed, Faulty!Garbled, Garbled
<1> QED BY <1>1, <1>2, <1>3, <1>4, <1>5, <1>6, <1>7, <1>8, <1>11, <1>12, <1>14, <1>15, <1>16, <1>17, <1>18

LEMMA SameCore0 == Faulty!Core0 => Core0
<1>1. Faulty!TaskBegin => TaskBegin
  BY DEF Faulty!TaskBegin, TaskBegin, Faulty!Stay, Stay, Faulty!journal, journal
<1>2. Faulty!Check => Check
  BY SameOperators DEF Faulty!Check, Check, Faulty!Stay, Stay, Faulty!Leave, Leave, Faulty!FreshJournal, FreshJournal, Faulty!journal, journal
<1>3. Faulty!EraseJournal => EraseJournal
  BY SameOperators DEF Faulty!EraseJournal, EraseJournal, Faulty!Stay, Stay
<1>4. Faulty!EraseRedo => EraseRedo
  BY SameOperators DEF Faulty!EraseRedo, EraseRedo, Faulty!Stay, Stay, Faulty!Leave, Leave, Faulty!journal, journal
<1>5. Faulty!ProgramRedo => ProgramRedo
  BY SameOperators DEF Faulty!ProgramRedo, ProgramRedo, Faulty!Stay, Stay, Faulty!journal, journal
<1>6. Faulty!WriteEntry => WriteEntry
  BY SameOperators DEF Faulty!WriteEntry, WriteEntry, Faulty!Stay, Stay, Faulty!journal, journal
<1>7. Faulty!MarkPending => MarkPending
  BY SameOperators DEF Faulty!MarkPending, MarkPending, Faulty!Stay, Stay
<1>8. Faulty!EraseTarget => EraseTarget
  BY SameOperators DEF Faulty!EraseTarget, EraseTarget, Faulty!Stay, Stay, Faulty!journal, journal
<1>9. Faulty!ProgramTarget => ProgramTarget
  BY SameOperators DEF Faulty!ProgramTarget, ProgramTarget, Faulty!Stay, Stay, Faulty!journal, journal
<1>10. Faulty!AllWritten => AllWritten
  BY SameOperators DEF Faulty!AllWritten, AllWritten, Faulty!Stay, Stay
<1>11. Faulty!MarkDone => MarkDone
  BY SameOperators DEF Faulty!MarkDone, MarkDone, Faulty!Stay, Stay, Faulty!Leave, Leave, Faulty!NextSlot, NextSlot
<1> QED BY <1>1, <1>2, <1>3, <1>4, <1>5, <1>6, <1>7, <1>8, <1>9, <1>10, <1>11 DEF Faulty!Core0, Core0

LEMMA FaultyNextIsAny == Faulty!Next => AnyStep
<1> SUFFICES ASSUME Faulty!Next PROVE AnyStep
  OBVIOUS
<1>1. ASSUME NEW s \in Sector \cup {None}, NEW more, Faulty!Program(s, more) PROVE CacheStep
  BY <1>1, SameOperators DEF Faulty!Program, CacheStep, Faulty!journal, journal
<1>2. PICK b : b = LastBase(View)
  OBVIOUS
<1>3. b \in Sector \cup {None} /\ b - 1 \in Sector \cup {None} /\ Faulty!LastBase(Faulty!View) = b /\ Faulty!NewSector = b - 1
  BY <1>2, LastBaseIn, SameOperators, Numbers DEF None, Faulty!NewSector
<1>4. CASE Faulty!Lockout
  BY <1>4, SameOperators DEF Faulty!Lockout, Faulty!LockoutPcs, LockoutPcs, Faulty!Leave, Leave, Faulty!journal, journal, GiveUp, AnyStep
<1>5. CASE Faulty!Core1
  <2>1. CASE \E s \in Faulty!Sector : Faulty!Write(s)
    BY <1>1, <2>1, SameOperators DEF Faulty!Write, AnyStep
  <2>2. CASE Faulty!GrowAllocate \/ Faulty!GrowZero
    BY <1>1, <1>3, <2>2 DEF Faulty!GrowAllocate, Faulty!GrowZero, AnyStep
  <2>3. CASE Faulty!GrowPublish \/ Faulty!GrowUnlink
    BY <1>1, <1>3, <2>3 DEF Faulty!GrowPublish, Faulty!GrowUnlink, AnyStep
  <2>4. CASE Faulty!Commit \/ Faulty!GrowBase
    BY <2>4 DEF Faulty!Commit, Faulty!GrowBase, WaitStep, AnyStep, Faulty!journal, journal
  <2>5. ASSUME NEW from, NEW to, Faulty!SyncBegin(from, to) \/ Faulty!SyncEnd(from, to) \/ Faulty!SyncTimeout(from, to) PROVE AnyStep
    BY <2>5 DEF Faulty!SyncBegin, Faulty!SyncEnd, Faulty!SyncTimeout, WaitStep, AnyStep, Faulty!journal, journal
  <2> QED BY <1>5, <2>1, <2>2, <2>3, <2>4, <2>5 DEF Faulty!Core1
<1>6. CASE Faulty!PowerLoss
  <2>1. ASSUME NEW m, Faulty!Reboot(m) PROVE Reboot(m)
    BY <2>1, SameOperators DEF Faulty!Reboot, Reboot
  <2>2. ASSUME NEW c, NEW n PROVE Faulty!CutShort(c, n) = CutShort(c, n)
    BY SameOperators DEF Faulty!CutShort, CutShort
  <2>3. PowerLoss
    BY <1>6, <2>1, <2>2, SameOperators DEF Faulty!PowerLoss, PowerLoss
  <2> QED BY <2>3 DEF AnyStep
<1> QED BY <1>4, <1>5, <1>6, SameCore0 DEF Faulty!Next, AnyStep

-----------------------------------------------------------------------------
(* The theorems *)

LEMMA EntriesNamed == EntryInv => EntriesNotGarbled
<1> SUFFICES ASSUME EntryInv, NEW s \in Sector, mem[s].kind = "journal", NEW k \in Slot, NEW i \in Page
             PROVE  mem[s].entries[k].targets[i] # Garbled
  BY DEF EntriesNotGarbled
<1>1. mem[s].entries[k] \in [targets : Targets, status : Statuses]
  BY DEF EntryInv, Sound
<1>2. mem[s].entries[k].targets \in Targets
  BY <1>1
<1> QED BY <1>2 DEF Targets

LEMMA EntryStutter == UNCHANGED vars => AnyStep
BY DEF vars, journal, AnyStep, WaitStep

\* Both invariants, of a behaviour that keeps to its environment.
MCInv ==
    /\ environment \in {"quiet", "faulty"}
    /\ EntryInv
    /\ environment = "quiet" => QuietInv

LEMMA MCInvariant ==
    ASSUME LockoutFails = FALSE, QuietGrowth = TRUE, PersistentWrites = FALSE
    PROVE  MCSpec => []MCInv
<1>1. MCInit => MCInv
  BY EntryInit, QuietInit DEF MCInit, MCInv
<1>2. MCInv /\ [MCNext]_MCVars => MCInv'
  <2> SUFFICES ASSUME MCInv, [MCNext]_MCVars PROVE MCInv'
    OBVIOUS
  <2>1. CASE environment = "quiet" /\ Next /\ UNCHANGED environment
    BY <2>1, NextIsAny, AnyStepEntries, QuietNext DEF MCInv
  <2>2. CASE environment = "faulty" /\ Faulty!Next /\ UNCHANGED environment
    BY <2>2, FaultyNextIsAny, AnyStepEntries DEF MCInv
  <2>3. CASE UNCHANGED MCVars
    <3>1. UNCHANGED vars /\ UNCHANGED environment
      BY <2>3 DEF MCVars
    <3> QED BY <3>1, EntryStutter, AnyStepEntries, QuietStutter DEF MCInv
  <2> QED BY <2>1, <2>2, <2>3 DEF MCNext
<1> QED BY <1>1, <1>2, PTL DEF MCSpec

\* Whatever the environment does, a journal slot that low_flash_task programs a second time still
\* names the sectors of its batch; and where lockouts succeed, growth waits for a clean cache and the
\* persistent region is left alone, the journal of a batch is complete before its first target is
\* erased, and low_flash_recover_journal brings back one batch or the other, wherever the power fails.
THEOREM JournalIsKept ==
    ASSUME LockoutFails = FALSE, QuietGrowth = TRUE, PersistentWrites = FALSE
    PROVE  MCSpec => []JournalKept
<1>1. MCInv => JournalKept
  BY EntriesNamed, QuietProperties DEF MCInv, JournalKept
<1>2. MCSpec => []MCInv
  BY MCInvariant
<1> QED BY <1>1, <1>2, PTL

\* In the same quiet environment, once flash_commit_sync has returned true no power loss, during a
\* write-out or again during recovery, takes back what core 1 saw then.
THEOREM SyncsAreDurable ==
    ASSUME LockoutFails = FALSE, QuietGrowth = TRUE, PersistentWrites = FALSE
    PROVE  MCSpec => []SyncIsDurable
<1>1. MCInv => SyncIsDurable
  BY QuietProperties DEF MCInv, SyncIsDurable
<1>2. MCSpec => []MCInv
  BY MCInvariant
<1> QED BY <1>1, <1>2, PTL

-----------------------------------------------------------------------------
(* Records: the list *)

\* The records of L in m are a list from the top down: each leads to the next one below it, is whole,
\* and ends below the one above it.
Below(L, b, x) ==
    \/ x \in L /\ x < b /\ \A c \in L : c < b => c <= x
    \/ x = R!Null /\ \A c \in L : ~(c < b)
Above(L, b, x) == x \in L \cup {R!Head} /\ x > b /\ \A c \in L : c > b => x <= c

ListOf(m, L) ==
    /\ m \in [1 .. R!Head -> R!Records] /\ L \subseteq R!Unit
    /\ \A b \in L \cup {R!Head} : Below(L, b, m[b].next)
    /\ \A b \in L : m[b].fid \in Files /\ m[b].len \in Lens /\ m[b].val \in Vals /\ m[b].prev > b
    /\ \A b \in L, c \in L \cup {R!Head} : b < c => b + m[b].len <= c

LEMMA RecordNumbers ==
    /\ NoFile \notin Files /\ Units \in Nat \ {0} /\ Lens \subseteq 1 .. Units /\ R!Head = Units + 1 /\ R!Null = 0
    /\ R!Unit = 1 .. Units /\ R!Head \in 1 .. R!Head /\ R!Head \notin R!Unit /\ R!Unit \subseteq 1 .. R!Head /\ Lens \subseteq Nat /\ R!Null \notin R!Unit
BY RecordConstants DEF R!ConstantTypes, R!Head, R!Null, R!Unit

\* The least and the greatest of a set of numbers
LEMMA LeastOf == ASSUME NEW X \in SUBSET Nat, X # {} PROVE \E x \in X : \A y \in X : x <= y
BY LeastIn

LEMMA GreatestOf == ASSUME NEW X \in SUBSET (0 .. R!Head), X # {} PROVE R!Max(X) \in X /\ \A y \in X : y <= R!Max(X)
<1> DEFINE Y == {R!Head - x : x \in X}
<1>1. R!Head \in Nat
  BY RecordNumbers
<1>2. Y \in SUBSET Nat /\ Y # {}
  <2>1. \A x \in X : x \in Nat /\ x <= R!Head
    BY <1>1
  <2>2. \A x \in X : R!Head - x \in Nat
    BY <1>1, <2>1
  <2>3. X \subseteq Nat /\ \E x \in X : TRUE
    BY <2>1
  <2> HIDE <1>1
  <2> QED BY <2>2, <2>3, Zenon
<1>3. PICK y \in Y : \A z \in Y : y <= z
  BY <1>2, LeastOf
<1>4. PICK x \in X : y = R!Head - x
  OBVIOUS
<1>5. ASSUME NEW w \in X PROVE w <= x
  <2>1. R!Head - w \in Y
    OBVIOUS
  <2>2. R!Head - x <= R!Head - w
    BY <1>3, <1>4, <2>1
  <2>3. x \in Int /\ w \in Int
    BY <1>1
  <2> HIDE DEF Y
  <2> QED BY <1>1, <2>2, <2>3
<1> HIDE DEF Y
<1>6. \E u \in X : \A w \in X : u >= w
  <2>1. \A w \in X : x >= w
    <3> TAKE w \in X
    <3>1. w <= x /\ w \in Int /\ x \in Int
      BY <1>1, <1>5
    <3> QED BY <3>1
  <2> QED BY <2>1
<1>7. R!Max(X) \in X /\ \A w \in X : R!Max(X) >= w
  BY <1>6 DEF R!Max
<1>8. \A w \in X : w \in Int
  BY <1>1
<1> QED BY <1>7, <1>8

-----------------------------------------------------------------------------
(* Records: what the walks visit *)

\* A walk: goes[b] is where it goes on from b.
Steps(D, goes, from) == from = [b \in D |-> IF goes[b] \in D THEN {b} \cup from[goes[b]] ELSE {b}]

LEMMA WalkExists ==
    ASSUME NEW D, NEW goes
    PROVE  \E from : Steps(D, goes, from)
<1> DEFINE Closed(S) == \A c \in S : goes[c] \in D => goes[c] \in S
           Reach(b) == {x \in D : \A S \in SUBSET D : Closed(S) /\ b \in S => x \in S}
           from == [b \in D |-> Reach(b)]
<1>1. ASSUME NEW b \in D PROVE Reach(b) = IF goes[b] \in D THEN {b} \cup Reach(goes[b]) ELSE {b}
  <2>1. b \in Reach(b)
    OBVIOUS
  <2>2. CASE goes[b] \in D
    <3>1. Reach(goes[b]) \subseteq Reach(b)
      BY <2>2
    <3>2. Closed({b} \cup Reach(goes[b])) /\ {b} \cup Reach(goes[b]) \in SUBSET D
      BY <2>2
    <3>3. Reach(b) \subseteq {b} \cup Reach(goes[b])
      BY <3>2
    <3> QED BY <2>1, <2>2, <3>1, <3>3
  <2>3. CASE goes[b] \notin D
    <3>1. Closed({b}) /\ {b} \in SUBSET D
      BY <2>3
    <3>2. Reach(b) \subseteq {b}
      BY <3>1
    <3> QED BY <2>1, <2>3, <3>2
  <2> QED BY <2>2, <2>3
<1> HIDE DEF Reach
<1>2. from = [b \in D |-> IF goes[b] \in D THEN {b} \cup from[goes[b]] ELSE {b}]
  BY <1>1
<1> QED BY <1>2 DEF Steps

\* Down a list a walk visits all that is below.
LEMMA WalkList ==
    ASSUME NEW D \in SUBSET Nat, NEW goes, NEW from, Steps(D, goes, from), NEW L \in SUBSET D, R!Null \notin D,
           NEW K \in SUBSET D, L \subseteq K, \A b \in K : Below(L, b, goes[b])
    PROVE  \A b \in K : from[b] = {b} \cup {c \in L : c < b}
<1> DEFINE Bad == {b \in K : from[b] # {b} \cup {c \in L : c < b}}
<1> SUFFICES ASSUME Bad # {} PROVE FALSE
  OBVIOUS
<1>1. PICK b \in Bad : \A c \in Bad : b <= c
  BY LeastOf
<1>2. b \in K /\ from[b] # {b} \cup {c \in L : c < b} /\ b \in Nat /\ L \subseteq Nat
  OBVIOUS
<1>3. from[b] = IF goes[b] \in D THEN {b} \cup from[goes[b]] ELSE {b}
  BY <1>2 DEF Steps
<1> DEFINE x == goes[b]
<1>4. CASE x \in L /\ x < b /\ \A c \in L : c < b => c <= x
  <2>1. x \notin Bad /\ x \in Nat
    <3>1. x \in Nat /\ x < b
      BY <1>2, <1>4
    <3>2. ~(b <= x)
      BY <1>2, <3>1
    <3> QED BY <1>1, <3>1, <3>2, Zenon
  <2>2. from[x] = {x} \cup {c \in L : c < x}
    BY <1>4, <2>1
  <2>3. {c \in L : c < b} = {x} \cup {c \in L : c < x}
    <3>1. x \in Nat /\ b \in Nat /\ x < b
      BY <1>2, <1>4
    <3>2. ASSUME NEW c \in L PROVE c < b <=> c = x \/ c < x
      <4>1. c \in Nat /\ (c < b => c <= x)
        BY <1>2, <1>4
      <4> QED BY <3>1, <4>1
    <3> QED BY <1>4, <3>2, Zenon
  <2> QED BY <1>2, <1>3, <1>4, <2>2, <2>3
<1>5. CASE x = R!Null /\ \A c \in L : ~(c < b)
  BY <1>2, <1>3, <1>5
<1> QED BY <1>2, <1>4, <1>5 DEF Below

LEMMA ListTypes ==
    ASSUME NEW m, NEW L, ListOf(m, L)
    PROVE  /\ L \subseteq Nat /\ R!Head \in Nat /\ \A b \in L : b < R!Head /\ b > 0
           /\ \A b \in 1 .. R!Head : m[b] \in R!Records /\ m[b].next \in 0 .. R!Head /\ m[b].prev \in 0 .. R!Head /\ m[b].len \in Nat
<1>1. R!Head \in Nat /\ L \subseteq 1 .. Units /\ R!Head = Units + 1 /\ Units \in Nat
  BY RecordNumbers DEF ListOf
<1>2. \A b \in 1 .. R!Head : m[b] \in R!Records
  BY DEF ListOf
<1>3. \A r \in R!Records : r.next \in 0 .. R!Head /\ r.prev \in 0 .. R!Head /\ r.len \in Nat
  <2>1. {0} \cup Lens \subseteq Nat
    BY RecordNumbers
  <2>2. \A r \in R!Records : r.next \in 0 .. R!Head /\ r.prev \in 0 .. R!Head /\ r.len \in {0} \cup Lens
    BY DEF R!Records
  <2> QED BY <2>1, <2>2
<1>4. \A b \in L : b < R!Head /\ b > 0
  BY <1>1
<1>5. L \subseteq Nat
  BY <1>1
<1> QED BY <1>1, <1>2, <1>3, <1>4, <1>5

\* allocate_free_addr visits the list's records and the head.
LEMMA LinkedIs ==
    ASSUME NEW m, NEW L, ListOf(m, L)
    PROVE  R!Linked(m) = L \cup {R!Head}
<1> DEFINE D == 1 .. R!Head
           Eq(from) == from = [b \in 0 .. R!Head |->
               IF b = R!Null THEN {} ELSE {b} \cup (IF m[b].next < b THEN from[m[b].next] ELSE {})]
           goes == [b \in D |-> IF m[b].next < b THEN m[b].next ELSE R!Null]
           from == CHOOSE from : Eq(from)
<1>1. R!Linked(m) = from[R!Head]
  BY Zenon DEF R!Linked
<1>2. R!Head \in Nat /\ R!Null = 0 /\ R!Head > 0 /\ (\A b \in D : m[b].next \in 0 .. R!Head) /\ L \subseteq D
  <2>1. R!Head \in Nat /\ R!Null = 0 /\ R!Head > 0 /\ R!Unit \subseteq D
    BY RecordNumbers
  <2>2. \A b \in D : m[b].next \in 0 .. R!Head
    BY ListTypes
  <2> QED BY <2>1, <2>2 DEF ListOf
<1>3. \A b \in D : goes[b] \in 0 .. R!Head /\ (goes[b] \in D <=> m[b].next < b /\ m[b].next # R!Null)
                   /\ (goes[b] \in D => goes[b] = m[b].next)
  BY <1>2
<1>4. \E g : Eq(g)
  <2>1. PICK s : Steps(D, goes, s)
    BY WalkExists
  <2> DEFINE g == [b \in 0 .. R!Head |-> IF b = R!Null THEN {} ELSE s[b]]
  <2>2. ASSUME NEW b \in D
        PROVE  g[b] = {b} \cup (IF m[b].next < b THEN g[m[b].next] ELSE {})
    <3>1. g[b] = s[b] /\ s[b] = IF goes[b] \in D THEN {b} \cup s[goes[b]] ELSE {b}
      <4>1. b \in 0 .. R!Head /\ b # R!Null
        BY <1>2
      <4> HIDE DEF goes
      <4> QED BY <2>1, <4>1 DEF Steps
    <3>2. CASE goes[b] \in D
      <4>1. g[m[b].next] = s[goes[b]]
        BY <1>2, <1>3, <3>2
      <4> QED BY <1>3, <3>1, <3>2, <4>1
    <3>3. CASE ~(goes[b] \in D)
      <4>1. m[b].next < b => m[b].next = R!Null
        BY <1>3, <3>3
      <4>2. g[R!Null] = {}
        BY <1>2
      <4> QED BY <3>1, <3>3, <4>1, <4>2
    <3> QED BY <3>2, <3>3
  <2>3. g[R!Null] = {} /\ \A b \in 0 .. R!Head : b = R!Null \/ b \in D
    BY <1>2
  <2>4. g = [b \in 0 .. R!Head |-> IF b = R!Null THEN {} ELSE {b} \cup (IF m[b].next < b THEN g[m[b].next] ELSE {})]
    <3>1. \A b \in 0 .. R!Head : g[b] = IF b = R!Null THEN {} ELSE {b} \cup (IF m[b].next < b THEN g[m[b].next] ELSE {})
      BY <2>2, <2>3
    <3>2. g = [b \in 0 .. R!Head |-> g[b]]
      OBVIOUS
    <3> HIDE DEF g
    <3> QED BY <3>1, <3>2
  <2> HIDE DEF g
  <2> QED BY <2>4
<1>5. Eq(from)
  BY <1>4, Zenon
<1> HIDE DEF from
<1> DEFINE s == [b \in D |-> from[b]]
<1>6. Steps(D, goes, s)
  <2>1. \A b \in D : b \in 0 .. R!Head /\ b # R!Null
    BY <1>2
  <2>2. R!Null \in 0 .. R!Head /\ from[R!Null] = {}
    BY <1>2, <1>5
  <2>3. ASSUME NEW b \in D PROVE s[b] = IF goes[b] \in D THEN {b} \cup s[goes[b]] ELSE {b}
    <3>1. from[b] = {b} \cup (IF m[b].next < b THEN from[m[b].next] ELSE {})
      BY <1>5, <2>1
    <3>2. CASE goes[b] \in D
      BY <1>3, <3>1, <3>2
    <3>3. CASE ~(goes[b] \in D)
      BY <1>3, <2>2, <3>1, <3>3
    <3> QED BY <3>2, <3>3
  <2> HIDE DEF goes
  <2>4. s = [b \in D |-> IF goes[b] \in D THEN {b} \cup s[goes[b]] ELSE {b}]
    <3>1. s = [b \in D |-> s[b]]
      OBVIOUS
    <3> HIDE DEF s
    <3> QED BY <2>3, <3>1
  <2> QED BY <2>4 DEF Steps
<1>7. \A b \in L \cup {R!Head} : Below(L, b, goes[b])
  <2> SUFFICES ASSUME NEW b \in L \cup {R!Head} PROVE Below(L, b, goes[b])
    OBVIOUS
  <2>1. Below(L, b, m[b].next) /\ b \in D /\ b > 0
    BY <1>2 DEF ListOf
  <2>2. m[b].next < b
    BY <1>2, <2>1 DEF Below
  <2> QED BY <2>1, <2>2
<1>8. s[R!Head] = {R!Head} \cup {c \in L : c < R!Head}
  <2>1. D \in SUBSET Nat /\ L \cup {R!Head} \in SUBSET D /\ R!Null \notin D /\ L \in SUBSET D
    BY <1>2
  <2>2. L \subseteq L \cup {R!Head} /\ R!Head \in L \cup {R!Head}
    OBVIOUS
  <2> DEFINE K == L \cup {R!Head}
  <2>3. \A b \in K : Below(L, b, goes[b])
    BY <1>7
  <2>4. L \subseteq K /\ K \in SUBSET D
    BY <2>1, <2>2
  <2> HIDE DEF D, goes, s, K
  <2>5. \A b \in K : s[b] = {b} \cup {c \in L : c < b}
    <3>1. D \in SUBSET Nat
      BY <2>1
    <3>2. L \in SUBSET D /\ R!Null \notin D /\ K \in SUBSET D /\ L \subseteq K
      BY <2>1, <2>4
    <3> QED BY <1>6, <2>3, <3>1, <3>2, WalkList
  <2> QED BY <2>5 DEF K
<1>9. {c \in L : c < R!Head} = L
  BY ListTypes
<1>10. s[R!Head] = from[R!Head]
  BY <1>2
<1> QED BY <1>1, <1>8, <1>9, <1>10

LEMMA ListValid ==
    ASSUME NEW m, NEW L, ListOf(m, L), NEW b \in L
    PROVE  R!Valid(m, b)
<1>1. b \in Nat /\ R!Head \in Nat /\ b < R!Head /\ b > 0 /\ m[b].len \in Nat /\ m[b].prev \in 0 .. R!Head /\ b \in 1 .. R!Head
  BY ListTypes
<1>2. m[b].fid # NoFile /\ m[b].prev > b
  BY RecordNumbers DEF ListOf
<1>3. b + m[b].len <= R!Head
  BY <1>1 DEF ListOf
<1>4. m[b].next < b
  BY <1>1, RecordNumbers DEF ListOf, Below
<1>5. m[b].prev \in b + 1 .. R!Head
  BY <1>1, <1>2
<1>6. m[b].len <= R!Head - b
  BY <1>1, <1>3
<1> QED BY <1>2, <1>4, <1>5, <1>6 DEF R!Valid

\* A reboot registers the list's records.
LEMMA ScannedIs ==
    ASSUME NEW m, NEW L, ListOf(m, L)
    PROVE  R!Scanned(m) = L
<1> DEFINE D == {b \in 1 .. Units : R!Valid(m, b)}
           Eq(from) == from = [b \in 0 .. Units |->
               IF b = R!Null \/ ~R!Valid(m, b) THEN {} ELSE {b} \cup from[m[b].next]]
           goes == [b \in D |-> m[b].next]
           from == CHOOSE from : Eq(from)
<1>1. R!Scanned(m) = from[m[R!Head].next]
  BY Zenon DEF R!Scanned
<1>2. R!Head \in Nat /\ R!Null = 0 /\ Units \in Nat /\ R!Head = Units + 1 /\ R!Head \in 1 .. R!Head
  BY RecordNumbers
<1>3. \A b \in D : b \in 0 .. Units /\ b # R!Null /\ goes[b] = m[b].next /\ goes[b] \in 0 .. Units
  <2> SUFFICES ASSUME NEW b \in D PROVE b \in 0 .. Units /\ b # R!Null /\ m[b].next \in 0 .. Units
    OBVIOUS
  <2>1. b \in 1 .. R!Head
    BY <1>2
  <2>2. m[b].next \in 0 .. R!Head
    BY <2>1, ListTypes
  <2>3. m[b].next < b
    BY DEF R!Valid
  <2> QED BY <1>2, <2>2, <2>3
<1>4. \A b \in 0 .. Units : (b = R!Null \/ ~R!Valid(m, b)) <=> b \notin D
  BY <1>2
<1>5. \E g : Eq(g)
  <2>1. PICK s : Steps(D, goes, s)
    BY WalkExists
  <2> DEFINE g == [b \in 0 .. Units |-> IF b \in D THEN s[b] ELSE {}]
  <2>2. ASSUME NEW b \in 0 .. Units PROVE g[b] = IF b = R!Null \/ ~R!Valid(m, b) THEN {} ELSE {b} \cup g[m[b].next]
    <3>1. CASE b \in D
      <4>1. s[b] = IF goes[b] \in D THEN {b} \cup s[goes[b]] ELSE {b}
        BY <2>1, <3>1 DEF Steps
      <4>2. g[m[b].next] = IF goes[b] \in D THEN s[goes[b]] ELSE {}
        BY <1>3, <3>1
      <4>3. g[b] = s[b]
        BY <3>1
      <4>4. ~(b = R!Null \/ ~R!Valid(m, b))
        BY <1>4, <3>1
      <4> HIDE DEF g, goes, D
      <4> QED BY <4>1, <4>2, <4>3, <4>4
    <3>2. CASE b \notin D
      BY <1>4, <3>2
    <3> QED BY <3>1, <3>2
  <2>3. g = [b \in 0 .. Units |-> IF b = R!Null \/ ~R!Valid(m, b) THEN {} ELSE {b} \cup g[m[b].next]]
    <3>1. g = [b \in 0 .. Units |-> g[b]]
      OBVIOUS
    <3> HIDE DEF g
    <3> QED BY <2>2, <3>1
  <2> HIDE DEF g
  <2> QED BY <2>3
<1>6. Eq(from)
  BY <1>5, Zenon
<1> HIDE DEF from
<1> DEFINE s == [b \in D |-> from[b]]
<1>7. Steps(D, goes, s)
  <2>1. ASSUME NEW b \in D PROVE s[b] = IF goes[b] \in D THEN {b} \cup s[goes[b]] ELSE {b}
    <3>1. b \in 0 .. Units /\ ~(b = R!Null \/ ~R!Valid(m, b))
      BY <1>3, <1>4
    <3>2. from[b] = {b} \cup from[goes[b]]
      BY <1>3, <1>6, <3>1
    <3>3. goes[b] \notin D => from[goes[b]] = {}
      BY <1>3, <1>4, <1>6
    <3> HIDE DEF D, goes
    <3> QED BY <3>2, <3>3
  <2> HIDE DEF goes, D
  <2>2. s = [b \in D |-> IF goes[b] \in D THEN {b} \cup s[goes[b]] ELSE {b}]
    <3>1. s = [b \in D |-> s[b]]
      OBVIOUS
    <3> HIDE DEF s
    <3> QED BY <2>1, <3>1
  <2> QED BY <2>2 DEF Steps
<1>8. L \subseteq D
  BY ListValid, RecordNumbers DEF ListOf
<1>9. \A b \in L : s[b] = {b} \cup {c \in L : c < b}
  <2>1. D \in SUBSET Nat /\ R!Null \notin D
    BY <1>2
  <2>2. \A b \in L : Below(L, b, goes[b])
    BY <1>8 DEF ListOf
  <2> HIDE DEF D, goes, s
  <2> QED BY <1>7, <1>8, <2>1, <2>2, WalkList
<1> DEFINE x == m[R!Head].next
<1>10. Below(L, R!Head, x)
  BY DEF ListOf
<1>11. \A c \in L : c < R!Head /\ c \in Nat
  BY ListTypes
<1>12. CASE x \in L
  <2>1. from[x] = {x} \cup {c \in L : c < x}
    BY <1>8, <1>9, <1>12
  <2>2. \A c \in L : c <= x /\ c \in Nat /\ x \in Nat
    BY <1>10, <1>11, <1>12, <1>2, RecordNumbers DEF Below
  <2>3. \A c \in L : c = x \/ c < x
    BY <2>2
  <2> QED BY <1>1, <1>12, <2>1, <2>3
<1>13. CASE x = R!Null /\ L = {}
  <2>1. from[x] = {}
    BY <1>2, <1>6, <1>13
  <2> QED BY <1>1, <1>13, <2>1
<1> QED BY <1>10, <1>11, <1>12, <1>13 DEF Below

\* A scan accepts all of a list, and its records do not overlap.
LEMMA ListSound ==
    ASSUME NEW m, NEW L, ListOf(m, L)
    PROVE  ~R!Corrupted(m) /\ R!NeverOverlap(m)
<1>1. R!Scanned(m) = L /\ R!Linked(m) = L \cup {R!Head}
  BY LinkedIs, ScannedIs
<1>2. ASSUME NEW b \in {R!Head} \cup L, m[b].next # R!Null PROVE R!Valid(m, m[b].next)
  <2>1. m[b].next \in L
    BY <1>2 DEF ListOf, Below
  <2> QED BY <2>1, ListValid
<1>3. ASSUME NEW b \in L \cup {R!Head}, NEW c \in L \cup {R!Head}, b < c, c < R!Head PROVE b + m[b].len <= c
  <2>1. b # R!Head
    BY <1>3, RecordNumbers, ListTypes
  <2> QED BY <1>3, <2>1 DEF ListOf
<1>4. ~R!Corrupted(m)
  BY <1>1, <1>2 DEF R!Corrupted
<1> QED BY <1>1, <1>3, <1>4 DEF R!NeverOverlap

\* The records of L that belong to file f are the one at b, none if b is null, with content c.
Bound(m, L, f, b, c) ==
    /\ {r \in L : m[r].fid = f} = (IF b = R!Null THEN {} ELSE {b})
    /\ R!ContentAt(m, b) = c

\* The back links of all records, but perhaps that of x, lead to the record above.
BackTo(m, L, x) == \A b \in L : b # x => Above(L, b, m[b].prev)

\* A reboot binds a file to one of its records.
LEMMA FoundIs ==
    ASSUME NEW m, NEW L, ListOf(m, L), NEW f \in Files
    PROVE  /\ R!Found(m)[f] = R!ContentAt(m, R!Indexed(m)[f])
           /\ \/ {r \in L : m[r].fid = f} = {} /\ R!Indexed(m)[f] = R!Null
              \/ R!Indexed(m)[f] \in {r \in L : m[r].fid = f}
<1> DEFINE H == {r \in L : m[r].fid = f}
<1>1. R!Indexed(m)[f] = IF H = {} THEN R!Null ELSE R!Min(H)
  BY ScannedIs DEF R!Indexed
<1>2. H \in SUBSET Nat
  BY ListTypes
<1>3. H # {} => R!Min(H) \in H
  <2> SUFFICES ASSUME H # {} PROVE R!Min(H) \in H
    OBVIOUS
  <2>1. \E x \in H : \A y \in H : x <= y
    BY <1>2, LeastOf
  <2> HIDE DEF H
  <2> QED BY <2>1, Zenon DEF R!Min
<1> QED BY <1>1, <1>3 DEF R!Found

LEMMA BoundFound ==
    ASSUME NEW m, NEW L, ListOf(m, L), NEW f \in Files, NEW b, NEW c, Bound(m, L, f, b, c)
    PROVE  R!Indexed(m)[f] = b /\ R!Found(m)[f] = c
BY FoundIs DEF Bound

\* Changes that no walk sees leave a list as it is.
LEMMA SameList ==
    ASSUME NEW m, NEW L, ListOf(m, L), NEW n \in [1 .. R!Head -> R!Records],
           n[R!Head].next = m[R!Head].next,
           \A b \in L : /\ n[b].next = m[b].next /\ n[b].fid = m[b].fid /\ n[b].len = m[b].len /\ n[b].val = m[b].val
                        /\ n[b].prev > b
    PROVE  /\ ListOf(n, L)
           /\ \A f, b, c : Bound(m, L, f, b, c) => Bound(n, L, f, b, c)
<1>1. ListOf(n, L)
  BY DEF ListOf
<1>2. ASSUME NEW f, NEW b, NEW c, Bound(m, L, f, b, c) PROVE Bound(n, L, f, b, c)
  <2>1. {r \in L : n[r].fid = f} = {r \in L : m[r].fid = f}
    OBVIOUS
  <2>2. b = R!Null \/ b \in L
    BY <1>2 DEF Bound
  <2>3. R!ContentAt(n, b) = R!ContentAt(m, b)
    BY <2>2 DEF R!ContentAt
  <2> QED BY <1>2, <2>1, <2>3 DEF Bound
<1> QED BY <1>1, <1>2

\* Writes to a unit outside the list
LEMMA Outside ==
    ASSUME NEW m, NEW L, ListOf(m, L), NEW n \in [1 .. R!Head -> R!Records], NEW u, u \notin L \cup {R!Head},
           \A v \in 1 .. R!Head : v # u => n[v] = m[v]
    PROVE  /\ ListOf(n, L)
           /\ \A f, b, c : Bound(m, L, f, b, c) => Bound(n, L, f, b, c)
           /\ \A x : BackTo(m, L, x) => BackTo(n, L, x)
<1>1. \A b \in L \cup {R!Head} : n[b] = m[b]
  BY RecordNumbers DEF ListOf
<1>2. \A b \in L : n[b].prev > b
  BY <1>1 DEF ListOf
<1>3. ListOf(n, L) /\ \A f, b, c : Bound(m, L, f, b, c) => Bound(n, L, f, b, c)
  BY <1>1, <1>2, SameList
<1> QED BY <1>1, <1>3 DEF BackTo

\* flash_program_block on one field
LEMMA OneField ==
    ASSUME NEW m \in [1 .. R!Head -> R!Records], NEW u \in 1 .. R!Head
    PROVE  /\ \A z \in 0 .. R!Head : LET n == [m EXCEPT ![u].next = z] IN
                 /\ n \in [1 .. R!Head -> R!Records] /\ \A v \in 1 .. R!Head : v # u => n[v] = m[v]
                 /\ n[u] = [m[u] EXCEPT !.next = z]
           /\ \A z \in 0 .. R!Head : LET n == [m EXCEPT ![u].prev = z] IN
                 /\ n \in [1 .. R!Head -> R!Records] /\ \A v \in 1 .. R!Head : v # u => n[v] = m[v]
                 /\ n[u] = [m[u] EXCEPT !.prev = z]
           /\ \A z \in {0} \cup Lens : LET n == [m EXCEPT ![u].len = z] IN
                 /\ n \in [1 .. R!Head -> R!Records] /\ \A v \in 1 .. R!Head : v # u => n[v] = m[v]
                 /\ n[u] = [m[u] EXCEPT !.len = z]
           /\ \A z \in Vals \cup {R!Zero} : LET n == [m EXCEPT ![u].val = z] IN
                 /\ n \in [1 .. R!Head -> R!Records] /\ \A v \in 1 .. R!Head : v # u => n[v] = m[v]
                 /\ n[u] = [m[u] EXCEPT !.val = z]
           /\ \A z \in Files \cup {NoFile} : LET n == [m EXCEPT ![u].fid = z] IN
                 /\ n \in [1 .. R!Head -> R!Records] /\ \A v \in 1 .. R!Head : v # u => n[v] = m[v]
                 /\ n[u] = [m[u] EXCEPT !.fid = z]
<1>1. m[u] \in R!Records
  OBVIOUS
<1>2. /\ \A z \in 0 .. R!Head : [m[u] EXCEPT !.next = z] \in R!Records
      /\ \A z \in 0 .. R!Head : [m[u] EXCEPT !.prev = z] \in R!Records
      /\ \A z \in {0} \cup Lens : [m[u] EXCEPT !.len = z] \in R!Records
      /\ \A z \in Vals \cup {R!Zero} : [m[u] EXCEPT !.val = z] \in R!Records
      /\ \A z \in Files \cup {NoFile} : [m[u] EXCEPT !.fid = z] \in R!Records
  BY <1>1 DEF R!Records
<1> QED BY <1>2

\* ... or on several at once
LEMMA OneUnit ==
    ASSUME NEW m, m \in [1 .. R!Head -> R!Records], NEW u \in 1 .. R!Head, NEW r \in R!Records, NEW n, n = [m EXCEPT ![u] = r]
    PROVE  n \in [1 .. R!Head -> R!Records] /\ (\A v \in 1 .. R!Head : v # u => n[v] = m[v]) /\ n[u] = r
OBVIOUS

\* The record at a lies in the gap between x and b, knows both, and is known to x.
InGap(m, L, b, x, a) ==
    /\ ListOf(m, L) /\ b \in L \cup {R!Head} /\ a \in R!Unit /\ Below(L, b, x)
    /\ m[a].fid \in Files /\ m[a].len \in Lens /\ m[a].val \in Vals /\ m[a].next = x /\ m[a].prev = b
    /\ a + m[a].len = b /\ (x # R!Null => x + m[x].len <= a /\ m[x].prev = a) /\ BackTo(m, L, x)

\* n is m with the link of b set to a.
NextSet(m, n, b, a) ==
    /\ n \in [1 .. R!Head -> R!Records] /\ n[b] = [m[b] EXCEPT !.next = a]
    /\ \A v \in 1 .. R!Head : v # b => n[v] = m[v]

\* Linking the record at a
LEMMA Insert ==
    ASSUME NEW m, NEW L, NEW b, NEW x, NEW a, InGap(m, L, b, x, a), NEW n, NextSet(m, n, b, a)
    PROVE  /\ ListOf(n, L \cup {a}) /\ BackTo(n, L \cup {a}, R!Null) /\ a \notin L
           /\ \A c \in L \cup {a} : n[c].fid = m[c].fid /\ R!ContentAt(n, c) = R!ContentAt(m, c)
<1> DEFINE K == L \cup {a}
<1>0. /\ ListOf(m, L) /\ b \in L \cup {R!Head} /\ a \in R!Unit /\ Below(L, b, x)
      /\ m[a].fid \in Files /\ m[a].len \in Lens /\ m[a].val \in Vals /\ m[a].next = x /\ m[a].prev = b
      /\ a + m[a].len = b /\ (x # R!Null => x + m[x].len <= a /\ m[x].prev = a) /\ BackTo(m, L, x)
      /\ n \in [1 .. R!Head -> R!Records] /\ n[b] = [m[b] EXCEPT !.next = a]
      /\ \A v \in 1 .. R!Head : v # b => n[v] = m[v]
  BY DEF InGap, NextSet
<1> USE <1>0
<1>1. L \subseteq Nat /\ a \in Nat /\ b \in Nat /\ R!Head \in Nat /\ R!Null = 0 /\ a > 0 /\ a < R!Head /\ b <= R!Head
      /\ (\A c \in L : c < R!Head /\ c > 0)
  BY ListTypes, RecordNumbers
<1>2. m[a].len \in Nat /\ m[a].len > 0 /\ a < b
  <2>1. m[a].len \in Nat /\ m[a].len > 0
    BY RecordNumbers
  <2> QED BY <1>1, <2>1
<1>3. L \subseteq 1 .. R!Head /\ a \in 1 .. R!Head /\ b \in 1 .. R!Head /\ K \subseteq R!Unit /\ R!Head \in 1 .. R!Head
  BY RecordNumbers DEF ListOf
<1>4. \A c \in L : m[c].len \in Nat /\ m[c].len > 0
  BY RecordNumbers DEF ListOf
<1>5. \/ x = R!Null /\ \A c \in L : ~(c < b)
      \/ x \in L /\ x < a /\ \A c \in L : c < b => c <= x
  <2>1. CASE x \in L /\ x < b /\ \A c \in L : c < b => c <= x
    <3>1. x \in Nat /\ m[x].len \in Nat /\ m[x].len > 0 /\ x # R!Null
      BY <1>1, <1>4, <2>1
    <3>2. x + m[x].len <= a
      BY <3>1
    <3>3. x < a
      BY <1>1, <3>1, <3>2
    <3> QED BY <2>1, <3>3
  <2> QED BY <2>1 DEF Below
<1>6. \A c \in L : (c < a => c \in Nat /\ x \in L /\ c <= x /\ x < a) /\ (c > a => b <= c) /\ c # a
  <2> SUFFICES ASSUME NEW c \in L
               PROVE  (c < a => c \in Nat /\ x \in L /\ c <= x /\ x < a) /\ (c > a => b <= c) /\ c # a
    OBVIOUS
  <2>1. c \in Nat
    BY <1>1
  <2>2. CASE x = R!Null /\ \A d \in L : ~(d < b)
    BY <1>1, <1>2, <2>1, <2>2
  <2>3. CASE x \in L /\ x < a /\ \A d \in L : d < b => d <= x
    <3>1. x \in Nat /\ (c < b => c <= x)
      BY <1>1, <2>3
    <3> QED BY <1>1, <1>2, <2>1, <2>3, <3>1
  <2> QED BY <1>5, <2>2, <2>3
<1>7. \A c \in L \cup {R!Head} : c > a => b <= c
  BY <1>1, <1>6
<1>8. n[b].next = a /\ (\A c \in K \cup {R!Head} : n[c].fid = m[c].fid /\ n[c].len = m[c].len /\ n[c].val = m[c].val /\ n[c].prev = m[c].prev)
      /\ \A c \in K \cup {R!Head} : c # b => n[c].next = m[c].next
  <2>1. m[b] \in R!Records
    BY <1>3 DEF ListOf
  <2>2. n[b].next = a /\ n[b].fid = m[b].fid /\ n[b].len = m[b].len /\ n[b].val = m[b].val /\ n[b].prev = m[b].prev
    BY <2>1 DEF R!Records
  <2> QED BY <1>3, <2>2
<1>9. ASSUME NEW c \in K \cup {R!Head} PROVE Below(K, c, n[c].next)
  <2>1. CASE c = b
    <3>1. \A d \in K : d < b => d <= a
      BY <1>1, <1>6
    <3> QED BY <1>2, <1>8, <2>1, <3>1 DEF Below
  <2>2. CASE c = a
    <3>1. n[c].next = x
      BY <1>2, <1>8, <2>2, <1>1
    <3>2. CASE x = R!Null
      <4>1. \A d \in K : ~(d < a)
        BY <1>1, <1>5, <1>6, <3>2
      <4> QED BY <2>2, <3>1, <3>2, <4>1 DEF Below
    <3>3. CASE x \in L
      <4>1. x < a
        BY <1>1, <1>5, <3>3
      <4>2. \A d \in K : d < a => d <= x
        BY <1>1, <1>6
      <4> QED BY <2>2, <3>1, <3>3, <4>1, <4>2 DEF Below
    <3> QED BY <1>5, <3>2, <3>3
  <2>3. CASE c # a /\ c # b
    <3>1. c \in L \cup {R!Head} /\ n[c].next = m[c].next /\ c \in Nat
      BY <1>1, <1>8, <2>3
    <3> DEFINE y == m[c].next
    <3>2. Below(L, c, y)
      BY <3>1 DEF ListOf
    <3>3. CASE c < a
      <4>1. ~(a < c)
        BY <1>1, <3>1, <3>3
      <4> QED BY <3>1, <3>2, <4>1 DEF Below
    <3>4. CASE c > a
      <4>1. b <= c /\ b < c
        BY <1>1, <1>7, <2>3, <3>1, <3>4
      <4>2. b \in L
        BY <1>1, <3>1, <4>1
      <4>3. y \in L /\ b <= y /\ y < c /\ \A d \in L : d < c => d <= y
        BY <3>2, <4>1, <4>2 DEF Below
      <4>4. y \in Nat
        BY <1>1, <4>3
      <4>5. a <= y
        BY <1>1, <1>2, <4>3, <4>4
      <4> QED BY <3>1, <4>3, <4>5 DEF Below
    <3> QED BY <1>1, <2>3, <3>1, <3>3, <3>4
  <2> QED BY <2>1, <2>2, <2>3
<1>10. \A c \in K : n[c].fid \in Files /\ n[c].len \in Lens /\ n[c].val \in Vals /\ n[c].prev > c
  <2>1. \A c \in K : m[c].fid \in Files /\ m[c].len \in Lens /\ m[c].val \in Vals
    BY DEF ListOf
  <2>2. \A c \in L : m[c].prev > c
    BY DEF ListOf
  <2>3. m[a].prev > a
    BY <1>1, <1>2
  <2> QED BY <1>8, <2>1, <2>2, <2>3
<1>11. ASSUME NEW c \in K, NEW d \in K \cup {R!Head}, c < d PROVE c + n[c].len <= d
  <2>1. n[c].len = m[c].len /\ c \in Nat /\ d \in Nat
    BY <1>1, <1>8
  <2>2. CASE c = a
    <3>1. b <= d
      BY <1>1, <1>7, <1>11, <2>1, <2>2
    <3> QED BY <1>1, <1>2, <2>1, <2>2, <3>1
  <2>3. CASE c \in L /\ d \in L \cup {R!Head}
    BY <1>11, <2>1, <2>3 DEF ListOf
  <2>4. CASE c \in L /\ d = a
    <3>1. x \in L /\ c <= x /\ x < a /\ x \in Nat /\ x # R!Null
      BY <1>1, <1>6, <1>11, <2>4
    <3>2. CASE c = x
      BY <2>1, <2>4, <3>1, <3>2
    <3>3. CASE c < x
      <4>1. c + m[c].len <= x
        BY <2>4, <3>1, <3>3 DEF ListOf
      <4>2. m[c].len \in Nat
        BY <1>4, <2>4
      <4> QED BY <1>1, <2>1, <2>4, <3>1, <4>1, <4>2
    <3> QED BY <1>1, <2>1, <3>1, <3>2, <3>3
  <2> QED BY <2>2, <2>3, <2>4
<1>12. ASSUME NEW c \in K PROVE Above(K, c, n[c].prev)
  <2>1. n[c].prev = m[c].prev /\ c \in Nat
    BY <1>1, <1>8
  <2>2. CASE c = a
    <3>1. \A d \in K : d > a => b <= d
      BY <1>1, <1>6
    <3> QED BY <1>1, <1>2, <2>1, <2>2, <3>1 DEF Above
  <2>3. CASE c \in L /\ c = x
    <3>1. m[c].prev = a /\ a > c
      BY <1>1, <1>5, <2>3
    <3>2. \A d \in K : d > c => a <= d
      <4> SUFFICES ASSUME NEW d \in L, d > c, ~(a <= d) PROVE FALSE
        BY <1>1
      <4>1. d \in Nat /\ d < a
        BY <1>1
      <4>2. d <= c
        BY <1>6, <2>3, <4>1
      <4> QED BY <2>1, <4>1, <4>2
    <3> QED BY <2>1, <3>1, <3>2 DEF Above
  <2>4. CASE c \in L /\ c # x
    <3> DEFINE p == m[c].prev
    <3>1. p \in L \cup {R!Head} /\ p > c /\ \A d \in L : d > c => p <= d
      BY <2>4 DEF BackTo, Above
    <3>2. p \in Nat
      BY <1>1, <3>1
    <3>3. a > c => p <= a
      <4> SUFFICES ASSUME a > c PROVE p <= a
        OBVIOUS
      <4>1. x \in L /\ c <= x /\ x < a /\ x \in Nat
        BY <1>1, <1>6, <2>1, <2>4
      <4>2. x > c
        BY <2>1, <2>4, <4>1
      <4>3. p <= x
        BY <3>1, <4>1, <4>2
      <4> HIDE DEF p
      <4> QED BY <1>1, <3>2, <4>1, <4>3
    <3> QED BY <2>1, <3>1, <3>3 DEF Above
  <2> QED BY <2>2, <2>3, <2>4
<1>13. ListOf(n, K)
  BY <1>3, <1>9, <1>10, <1>11 DEF ListOf
<1>14. \A c \in K : R!ContentAt(n, c) = R!ContentAt(m, c)
  BY <1>8 DEF R!ContentAt
<1>15. BackTo(n, K, R!Null) /\ a \notin L
  BY <1>6, <1>12 DEF BackTo
<1> QED BY <1>8, <1>13, <1>14, <1>15

\* Unlinking the record at a, between b above and x below
LEMMA Remove ==
    ASSUME NEW m, NEW L, ListOf(m, L), NEW a \in L, NEW b, Above(L, a, b), NEW x, Below(L, a, x), BackTo(m, L, R!Null),
           NEW n, NextSet(m, n, b, x)
    PROVE  /\ ListOf(n, L \ {a}) /\ BackTo(n, L \ {a}, x) /\ Below(L \ {a}, b, x) /\ b \in (L \ {a}) \cup {R!Head}
           /\ \A c \in L : n[c].fid = m[c].fid /\ R!ContentAt(n, c) = R!ContentAt(m, c)
<1> DEFINE K == L \ {a}
<1>0. n \in [1 .. R!Head -> R!Records] /\ n[b] = [m[b] EXCEPT !.next = x] /\ \A v \in 1 .. R!Head : v # b => n[v] = m[v]
  BY DEF NextSet
<1> USE <1>0
<1>1. L \subseteq Nat /\ a \in Nat /\ b \in Nat /\ R!Head \in Nat /\ R!Null = 0 /\ a > 0 /\ a < R!Head /\ b <= R!Head
      /\ (\A c \in L : c < R!Head /\ c > 0) /\ b \in L \cup {R!Head} /\ b > a
  BY ListTypes, RecordNumbers DEF Above
<1>2. L \subseteq 1 .. R!Head /\ b \in 1 .. R!Head /\ K \subseteq R!Unit /\ R!Head \in 1 .. R!Head
  BY <1>1, RecordNumbers DEF ListOf
<1>3. n[b].next = x /\ (\A c \in L \cup {R!Head} : n[c].fid = m[c].fid /\ n[c].len = m[c].len /\ n[c].val = m[c].val /\ n[c].prev = m[c].prev)
      /\ \A c \in L \cup {R!Head} : c # b => n[c].next = m[c].next
  <2>1. m[b] \in R!Records
    BY <1>2 DEF ListOf
  <2>2. n[b].next = x /\ n[b].fid = m[b].fid /\ n[b].len = m[b].len /\ n[b].val = m[b].val /\ n[b].prev = m[b].prev
    BY <2>1 DEF R!Records
  <2> QED BY <1>2, <2>2
<1>4. \A c \in L : (c > a => b <= c) /\ (c < a => x \in L /\ x < a /\ c <= x)
  BY DEF Above, Below
<1>5. (x \in L /\ x < a) \/ x = R!Null
  BY DEF Below
<1>6. Below(K, b, x)
  <2>1. \A c \in K : c < b => c < a
    BY <1>1, <1>4
  <2>2. CASE x \in L /\ x < a
    <3>1. x < b /\ x # a /\ x \in Nat
      BY <1>1, <2>2
    <3> QED BY <1>4, <2>1, <2>2, <3>1 DEF Below
  <2>3. CASE x = R!Null /\ ~(x \in L /\ x < a)
    BY <1>4, <2>1, <2>3 DEF Below
  <2> QED BY <1>5, <2>2, <2>3
<1>7. ASSUME NEW c \in K \cup {R!Head} PROVE Below(K, c, n[c].next)
  <2>1. CASE c = b
    BY <1>3, <1>6, <2>1
  <2>2. CASE c # b
    <3> DEFINE y == m[c].next
    <3>1. Below(L, c, y) /\ n[c].next = y /\ c \in Nat
      BY <1>1, <1>3, <2>2 DEF ListOf
    <3>2. y = a => FALSE
      <4> SUFFICES ASSUME y = a PROVE FALSE
        OBVIOUS
      <4>1. a < c /\ \A d \in L : d < c => d <= a
        BY <1>1, <3>1 DEF Below
      <4>2. b <= c
        BY <1>1, <1>4, <4>1
      <4>3. b < c
        BY <1>1, <2>2, <3>1, <4>2
      <4>4. b \in L
        BY <1>1, <3>1, <4>3
      <4>5. b <= a
        BY <4>1, <4>3, <4>4
      <4> QED BY <1>1, <4>5
    <3> QED BY <3>1, <3>2 DEF Below
  <2> QED BY <2>1, <2>2
<1>8. \A c \in K : n[c].fid \in Files /\ n[c].len \in Lens /\ n[c].val \in Vals /\ n[c].prev > c
  BY <1>3 DEF ListOf
<1>9. \A c \in K, d \in K \cup {R!Head} : c < d => c + n[c].len <= d
  BY <1>3 DEF ListOf
<1>10. ASSUME NEW c \in K, c # x PROVE Above(K, c, n[c].prev)
  <2> DEFINE p == m[c].prev
  <2>1. p \in L \cup {R!Head} /\ p > c /\ (\A d \in L : d > c => p <= d) /\ n[c].prev = p /\ c \in Nat
    BY <1>1, <1>3 DEF BackTo, Above
  <2>2. p = a => FALSE
    <3> SUFFICES ASSUME p = a PROVE FALSE
      OBVIOUS
    <3>1. c < a
      BY <1>1, <2>1
    <3>2. x \in L /\ x < a /\ c <= x /\ x \in Nat
      BY <1>1, <1>4, <3>1
    <3>3. x > c
      BY <1>10, <2>1, <3>2
    <3>4. a <= x
      BY <2>1, <3>2, <3>3
    <3> QED BY <1>1, <3>2, <3>4
  <2> QED BY <2>1, <2>2 DEF Above
<1>11. ListOf(n, K)
  BY <1>2, <1>7, <1>8, <1>9 DEF ListOf
<1>12. \A c \in L : R!ContentAt(n, c) = R!ContentAt(m, c)
  BY <1>3 DEF R!ContentAt
<1>13. BackTo(n, K, x)
  BY <1>10 DEF BackTo
<1>14. b \in K \cup {R!Head}
  <2>1. b # a
    BY <1>1
  <2>2. b \in L \cup {R!Head}
    BY <1>1
  <2> QED BY <2>1, <2>2
<1> QED BY <1>3, <1>6, <1>11, <1>12, <1>13, <1>14

-----------------------------------------------------------------------------
(* Records: the inductive invariant *)

Operations ==
    [pc : {"idle", "length", "payload", "back", "fill", "wait", "publish", "unlink", "zero", "zero_payload", "mend",
           "wipe", "final"},
     file : Files \cup {NoFile}, len : 0 .. Units, val : Vals \cup {R!Zero}, new : 0 .. Units, base : 0 .. R!Head,
     next : 0 .. Units, old : 0 .. Units, then : {"done", "sync", "fail"}]

\* What the operation makes of its file
Target(o) == R!Content(o.len, o.val)

Kept(m, L, x, c, f) == Bound(m, L, f, x[f], c[f])

\* A write in place has its record, and nothing written yet; or the length.
Overwriting(m, L, x, o, c) ==
    /\ o.pc \in {"length", "payload"} /\ o.file \in Files
    /\ o.old = x[o.file] /\ o.old # R!Null
    /\ o.len \in Lens /\ o.val \in Vals /\ o.then \in {"done", "sync"}
    /\ BackTo(m, L, R!Null)
    /\ IF o.pc = "length"
       THEN Kept(m, L, x, c, o.file) /\ o.len <= m[o.old].len
       ELSE /\ Bound(m, L, o.file, o.old, R!Content(o.len, m[o.old].val))
            /\ \E n \in Lens : c[o.file] = R!Content(n, m[o.old].val)

\* A new record lies in a gap of the list, with its links, and from "fill" on the record below knows it.
Placing(m, L, x, o, c) ==
    /\ o.pc \in {"back", "fill", "wait", "publish"} /\ o.file \in Files
    /\ o.old = x[o.file] /\ Kept(m, L, x, c, o.file)
    /\ o.len \in Lens /\ o.val \in Vals /\ o.then = "done"
    /\ o.base \in L \cup {R!Head} /\ Below(L, o.base, o.next)
    /\ o.new \in R!Unit /\ o.new + o.len = o.base
    /\ m[o.new].next = o.next /\ m[o.new].prev = o.base
    /\ o.next # R!Null => o.next + m[o.next].len <= o.new
    /\ BackTo(m, L, IF o.pc = "back" THEN R!Null ELSE o.next)
    /\ o.next # R!Null /\ o.pc # "back" => m[o.next].prev = o.new
    /\ o.pc \in {"wait", "publish"} => m[o.new].fid = o.file /\ m[o.new].len = o.len /\ m[o.new].val = o.val

\* The old record of a file is still linked, above or below the new one if there is one.
Unlinking(m, L, x, o, c) ==
    /\ o.pc = "unlink" /\ o.then \in {"done", "sync"} /\ o.file \in Files
    /\ o.old \in L /\ Above(L, o.old, o.base) /\ Below(L, o.old, o.next) /\ BackTo(m, L, R!Null)
    /\ R!ContentAt(m, o.old) = c[o.file] /\ R!ContentAt(m, o.new) = Target(o)
    /\ {r \in L : m[r].fid = o.file} = {o.old} \cup (IF o.new = R!Null THEN {} ELSE {o.new})
    /\ o.new # o.old

\* A record that is not linked, or no longer, is cleared: an old one, or a new one that gives up.
Clearing(m, L, x, o, c) ==
    /\ o.pc \in {"zero", "zero_payload", "mend", "wipe"} \/ (o.pc = "unlink" /\ o.then = "fail")
    /\ o.file \in Files /\ o.old \in R!Unit \ L
    /\ o.base \in L \cup {R!Head} /\ Below(L, o.base, o.next)
    /\ BackTo(m, L, IF o.pc = "wipe" THEN R!Null ELSE o.next)
    /\ IF o.then = "fail" THEN Kept(m, L, x, c, o.file) ELSE Bound(m, L, o.file, o.new, Target(o))

\* The last sync
Ending(m, L, x, o, c) ==
    /\ o.pc = "final" /\ o.then = "sync" /\ o.file \in Files
    /\ BackTo(m, L, R!Null) /\ Bound(m, L, o.file, o.new, Target(o))

Resting(m, L, x, o, c) == o = R!Idle /\ BackTo(m, L, R!Null)

\* The list, the index and the operation of core 1 fit each other.
Fit(m, L, x, o, c) ==
    /\ ListOf(m, L)
    /\ x \in [Files -> 0 .. Units] /\ DOMAIN c = Files /\ o \in Operations
    /\ \A f \in Files \ {o.file} : Kept(m, L, x, c, f)
    /\ \/ Resting(m, L, x, o, c) \/ Overwriting(m, L, x, o, c) \/ Placing(m, L, x, o, c)
       \/ Unlinking(m, L, x, o, c) \/ Clearing(m, L, x, o, c) \/ Ending(m, L, x, o, c)

\* What a reboot finds of a file is one of contents S, or a mix of two payloads.
FoundAs(m, f, S) ==
    R!Found(m)[f] \in S \/ (Cardinality(S) # 1 /\ \E v, w \in Vals : v # w)

Recoverable(m, s) ==
    ~R!Corrupted(m) /\ R!NeverOverlap(m) /\ \A f \in Files : FoundAs(m, f, s[f])

RecordsInv ==
    /\ crashes \in Nat
    /\ R!FirstLife => (\E L : Fit(ram, L, index, op, contents)) /\ Recoverable(flash, saved)

LEMMA StageOf ==
    ASSUME NEW m, NEW L, NEW x, NEW o, NEW c, Fit(m, L, x, o, c)
    PROVE  /\ o.pc = "idle" => Resting(m, L, x, o, c)
           /\ o.pc \in {"length", "payload"} => Overwriting(m, L, x, o, c)
           /\ o.pc \in {"back", "fill", "wait", "publish"} => Placing(m, L, x, o, c)
           /\ o.pc = "unlink" => Unlinking(m, L, x, o, c) \/ (Clearing(m, L, x, o, c) /\ o.then = "fail")
           /\ o.pc \in {"zero", "zero_payload", "mend", "wipe"} => Clearing(m, L, x, o, c)
           /\ o.pc = "final" => Ending(m, L, x, o, c)
<1>1. R!Idle.pc = "idle"
  BY DEF R!Idle
<1> QED BY <1>1 DEF Fit, Resting, Overwriting, Placing, Unlinking, Clearing, Ending

\* A write-out at any step leaves each file with its content or the one it is about to have.
LEMMA DrainFound ==
    ASSUME NEW m, NEW L, NEW x, NEW o, NEW c, Fit(m, L, x, o, c), NEW f \in Files
    PROVE  FoundAs(m, f, {c[f]} \cup (IF f = o.file THEN {Target(o)} ELSE {}))
<1> DEFINE S == {c[f]} \cup (IF f = o.file THEN {Target(o)} ELSE {})
<1> SUFFICES R!Found(m)[f] \in S \/ (Cardinality(S) # 1 /\ \E v, w \in Vals : v # w)
  BY DEF FoundAs
<1>0. ListOf(m, L)
  BY DEF Fit
<1>1. Kept(m, L, x, c, f) => R!Found(m)[f] = c[f]
  BY <1>0, BoundFound DEF Kept
<1>2. \A b : Bound(m, L, f, b, Target(o)) => R!Found(m)[f] = Target(o)
  BY <1>0, BoundFound
<1>3. CASE f # o.file
  BY <1>1, <1>3 DEF Fit
<1>4. CASE f = o.file /\ Resting(m, L, x, o, c)
  <2>1. o.file = NoFile
    BY <1>4 DEF Resting, R!Idle
  <2> QED BY <1>4, <2>1, RecordNumbers
<1>5. CASE f = o.file /\ Overwriting(m, L, x, o, c) /\ o.pc = "length"
  BY <1>1, <1>5 DEF Overwriting
<1>6. CASE f = o.file /\ Overwriting(m, L, x, o, c) /\ o.pc # "length"
  <2> DEFINE v == m[o.old].val
  <2>1. Bound(m, L, f, o.old, R!Content(o.len, v)) /\ o.val \in Vals
    BY <1>6 DEF Overwriting
  <2>2. PICK n \in Lens : c[f] = R!Content(n, v)
    BY <1>6 DEF Overwriting
  <2>3. R!Found(m)[f] = R!Content(o.len, v)
    BY <1>0, <2>1, BoundFound
  <2>4. CASE v = o.val
    BY <1>6, <2>3, <2>4 DEF Target
  <2>5. CASE v # o.val
    <3>1. o.old \in L
      BY <1>6, <2>1 DEF Bound, Overwriting
    <3>2. v \in Vals
      BY <1>0, <3>1 DEF ListOf
    <3>3. c[f] # Target(o)
      BY <2>2, <2>5 DEF Target, R!Content
    <3>4. S = {c[f], Target(o)}
      BY <1>6
    <3>5. Cardinality({c[f], Target(o)}) # 1
      <4>1. IsFiniteSet({Target(o)}) /\ Cardinality({Target(o)}) = 1
        BY FS_Singleton
      <4>2. Cardinality({Target(o)} \cup {c[f]}) = 2
        BY <3>3, <4>1, FS_AddElement
      <4>3. {Target(o)} \cup {c[f]} = {c[f], Target(o)}
        OBVIOUS
      <4> QED BY <4>2, <4>3
    <3> QED BY <2>1, <2>5, <3>2, <3>4, <3>5
  <2> QED BY <2>4, <2>5
<1>7. CASE f = o.file /\ Placing(m, L, x, o, c)
  BY <1>1, <1>7 DEF Placing
<1>8. CASE f = o.file /\ Unlinking(m, L, x, o, c)
  <2>1. {r \in L : m[r].fid = f} = {o.old} \cup (IF o.new = R!Null THEN {} ELSE {o.new})
    BY <1>8 DEF Unlinking
  <2>2. R!Indexed(m)[f] \in {o.old, o.new} /\ R!Found(m)[f] = R!ContentAt(m, R!Indexed(m)[f])
    BY <1>0, <2>1, FoundIs
  <2> QED BY <1>8, <2>2 DEF Unlinking
<1>9. CASE f = o.file /\ Clearing(m, L, x, o, c)
  BY <1>1, <1>2, <1>9 DEF Clearing
<1>10. CASE f = o.file /\ Ending(m, L, x, o, c)
  BY <1>2, <1>10 DEF Ending
<1> QED BY <1>3, <1>4, <1>5, <1>6, <1>7, <1>8, <1>9, <1>10 DEF Fit

LEMMA DrainRecoverable ==
    ASSUME NEW m, NEW L, NEW x, NEW o, NEW c, Fit(m, L, x, o, c)
    PROVE  Recoverable(m, [f \in Files |-> {c[f]} \cup (IF f = o.file THEN {R!Content(o.len, o.val)} ELSE {})])
<1>1. ~R!Corrupted(m) /\ R!NeverOverlap(m)
  BY ListSound DEF Fit
<1>2. \A f \in Files : FoundAs(m, f, {c[f]} \cup (IF f = o.file THEN {R!Content(o.len, o.val)} ELSE {}))
  BY DrainFound DEF Target
<1> QED BY <1>1, <1>2 DEF Recoverable

\* A write to the length or the payload of a listed record
LEMMA InPlace ==
    ASSUME NEW m, NEW L, ListOf(m, L), NEW a \in L, NEW n \in [1 .. R!Head -> R!Records],
           \A b \in 1 .. R!Head : b # a => n[b] = m[b],
           n[a].next = m[a].next, n[a].prev = m[a].prev, n[a].fid = m[a].fid,
           n[a].len \in Lens, n[a].len <= m[a].len, n[a].val \in Vals
    PROVE  /\ ListOf(n, L)
           /\ \A y : BackTo(m, L, y) => BackTo(n, L, y)
           /\ \A f, b, c : b # a /\ Bound(m, L, f, b, c) => Bound(n, L, f, b, c)
           /\ \A f, c : Bound(m, L, f, a, c) => Bound(n, L, f, a, R!Content(n[a].len, n[a].val))
<1>1. L \subseteq 1 .. R!Head /\ R!Head \in 1 .. R!Head /\ a # R!Head /\ a # R!Null /\ L \subseteq Nat
  BY ListTypes, RecordNumbers DEF ListOf
<1>2. \A b \in L \cup {R!Head} : n[b].next = m[b].next
  BY <1>1
<1>3. \A b \in L : n[b].prev = m[b].prev /\ n[b].fid = m[b].fid
  BY <1>1
<1>4. ASSUME NEW b \in L, NEW c \in L \cup {R!Head}, b < c PROVE b + n[b].len <= c
  <2>1. b + m[b].len <= c
    BY <1>4 DEF ListOf
  <2>2. m[b].len \in Nat /\ n[b].len \in Nat /\ n[b].len <= m[b].len
    <3>1. m[b].len \in Nat /\ (n[a].len \in Nat)
      BY <1>1, ListTypes, RecordNumbers
    <3>2. CASE b = a
      BY <3>1, <3>2
    <3>3. CASE b # a
      BY <1>1, <3>1, <3>3
    <3> QED BY <3>2, <3>3
  <2>3. b \in Nat /\ c \in Nat
    BY <1>1, RecordNumbers
  <2> QED BY <2>1, <2>2, <2>3
<1>5. \A b \in L : n[b].fid \in Files /\ n[b].len \in Lens /\ n[b].val \in Vals /\ n[b].prev > b
  BY <1>1, <1>3 DEF ListOf
<1>6. ListOf(n, L)
  <2>1. \A b \in L \cup {R!Head} : Below(L, b, n[b].next)
    BY <1>2 DEF ListOf
  <2> QED BY <1>4, <1>5, <2>1 DEF ListOf
<1>7. \A f : {r \in L : n[r].fid = f} = {r \in L : m[r].fid = f}
  BY <1>3
<1>8. \A b \in L : b # a => R!ContentAt(n, b) = R!ContentAt(m, b)
  BY <1>1 DEF R!ContentAt
<1>9. R!ContentAt(n, R!Null) = R!ContentAt(m, R!Null) /\ R!ContentAt(n, a) = R!Content(n[a].len, n[a].val)
  BY <1>1 DEF R!ContentAt
<1>10. ASSUME NEW f, NEW b, NEW c, b # a, Bound(m, L, f, b, c) PROVE Bound(n, L, f, b, c)
  <2>1. b = R!Null \/ b \in L
    BY <1>10 DEF Bound
  <2> QED BY <1>7, <1>8, <1>9, <1>10, <2>1 DEF Bound
<1>11. \A f, c : Bound(m, L, f, a, c) => Bound(n, L, f, a, R!Content(n[a].len, n[a].val))
  BY <1>7, <1>9 DEF Bound
<1>12. \A y : BackTo(m, L, y) => BackTo(n, L, y)
  BY <1>3 DEF BackTo
<1> QED BY <1>6, <1>10, <1>11, <1>12

-----------------------------------------------------------------------------
(* Records: one lemma per step of core 1 *)

NowFits(L) == R!FirstLife /\ Fit(ram, L, index, op, contents)
NextFits(L) == Fit(ram', L, index', op', contents')

LEMMA FitTypes ==
    ASSUME NEW L, NowFits(L)
    PROVE  /\ ListOf(ram, L) /\ ram \in [1 .. R!Head -> R!Records] /\ L \subseteq R!Unit
           /\ index \in [Files -> 0 .. Units] /\ DOMAIN contents = Files /\ op \in Operations
           /\ \A f \in Files \ {op.file} : Kept(ram, L, index, contents, f)
BY DEF NowFits, Fit, ListOf

LEMMA AtRestNow ==
    ASSUME NEW L, NowFits(L), op = R!Idle
    PROVE  /\ op.pc = "idle" /\ op.file = NoFile /\ BackTo(ram, L, R!Null)
           /\ \A f \in Files : Kept(ram, L, index, contents, f)
<1>1. op.pc = "idle" /\ op.file = NoFile
  BY DEF R!Idle
<1>2. BackTo(ram, L, R!Null)
  BY <1>1, StageOf DEF NowFits, Resting
<1> QED BY <1>1, <1>2, FitTypes, RecordNumbers

LEMMA PutsInPlace ==
    ASSUME NEW L, NowFits(L), NEW f \in Files, NEW n \in Lens, NEW v \in Vals, R!PutInPlace(f, n, v)
    PROVE  NextFits(L)
<1>1. op = R!Idle /\ index[f] # R!Null /\ n <= R!Size(f) /\ UNCHANGED <<ram, index, contents>>
  BY DEF R!PutInPlace
<1>2. BackTo(ram, L, R!Null) /\ \A g \in Files : Kept(ram, L, index, contents, g)
  BY <1>1, AtRestNow
<1>3. /\ op'.pc = "length" /\ op'.file = f /\ op'.len = n /\ op'.val = v /\ op'.old = index[f]
      /\ op'.then \in {"done", "sync"} /\ op' \in Operations
  <2>1. R!AfterWrite(R!Size(f) > UnitsPerSector) \in {"done", "sync"}
    BY DEF R!AfterWrite
  <2>2. n \in 0 .. Units /\ index[f] \in 0 .. Units /\ 0 \in 0 .. Units /\ 0 \in 0 .. R!Head /\ R!Null = 0
    BY FitTypes, RecordNumbers
  <2>3. op' = [R!Idle EXCEPT !.pc = "length", !.file = f, !.len = n, !.val = v, !.old = index[f],
                             !.then = R!AfterWrite(R!Size(f) > UnitsPerSector)]
    BY DEF R!PutInPlace
  <2> DEFINE t == R!AfterWrite(R!Size(f) > UnitsPerSector)
  <2> HIDE DEF t
  <2>4. op' = [pc |-> "length", file |-> f, len |-> n, val |-> v, new |-> R!Null, base |-> R!Null,
               next |-> R!Null, old |-> index[f], then |-> t]
    BY <2>3 DEF R!Idle, t
  <2>5. t \in {"done", "sync"}
    BY <2>1 DEF t
  <2> QED BY <2>2, <2>4, <2>5 DEF Operations
<1>4. n <= ram[index[f]].len
  BY <1>1 DEF R!Size, R!ContentAt, R!Content
<1>5. Overwriting(ram, L, index, op', contents)
  BY <1>1, <1>2, <1>3, <1>4 DEF Overwriting
<1> QED BY <1>1, <1>2, <1>3, <1>5, FitTypes DEF NextFits, Fit

LEMMA PutsOffset ==
    ASSUME NEW L, NowFits(L), NEW f \in Files, NEW v \in Vals, R!PutOffset(f, v)
    PROVE  NextFits(L)
<1> DEFINE a == index[f]  n == R!Size(f)  t == R!AfterWrite(n > UnitsPerSector)
<1>1. /\ op = R!Idle /\ a # R!Null /\ UNCHANGED <<ram, index, contents>>
      /\ op' = [R!Idle EXCEPT !.pc = "payload", !.file = f, !.len = n, !.val = v, !.old = a, !.then = t]
  BY DEF R!PutOffset
<1>2. BackTo(ram, L, R!Null) /\ \A g \in Files : Kept(ram, L, index, contents, g)
  BY <1>1, AtRestNow
<1>3. a \in L /\ n = ram[a].len /\ contents[f] = R!Content(n, ram[a].val) /\ Bound(ram, L, f, a, contents[f])
  <2>1. Bound(ram, L, f, a, contents[f])
    BY <1>2 DEF Kept
  <2>2. R!ContentAt(ram, a) = R!Content(ram[a].len, ram[a].val)
    BY <1>1 DEF R!ContentAt
  <2>3. n = ram[a].len
    BY <2>2 DEF R!Size, R!Content
  <2> QED BY <1>1, <2>1, <2>2, <2>3 DEF Bound
<1>4. n \in Lens /\ n \in 0 .. Units /\ a \in 0 .. Units /\ 0 \in 0 .. Units /\ 0 \in 0 .. R!Head /\ R!Null = 0
  <2>1. n \in Lens
    BY <1>3, FitTypes DEF ListOf
  <2>2. Lens \subseteq 1 .. Units /\ Units \in Nat /\ R!Head = Units + 1 /\ R!Null = 0
    BY RecordNumbers
  <2>3. n \in 0 .. Units /\ 0 \in 0 .. Units /\ 0 \in 0 .. R!Head
    <3>1. n \in 1 .. Units
      BY <2>1, <2>2
    <3> HIDE DEF n
    <3> QED BY <2>2, <3>1
  <2> QED BY <2>1, <2>2, <2>3, FitTypes
<1>5. t \in {"done", "sync"}
  BY DEF R!AfterWrite
<1> HIDE DEF n, t
<1>6. op' = [pc |-> "payload", file |-> f, len |-> n, val |-> v, new |-> R!Null, base |-> R!Null,
             next |-> R!Null, old |-> a, then |-> t]
  BY <1>1 DEF R!Idle
<1>7. op' \in Operations
  BY <1>4, <1>5, <1>6 DEF Operations
<1>8. Overwriting(ram, L, index, op', contents)
  BY <1>1, <1>2, <1>3, <1>4, <1>5, <1>6 DEF Overwriting
<1> QED BY <1>1, <1>2, <1>6, <1>7, <1>8, FitTypes DEF NextFits, Fit

LEMMA WritesLength ==
    ASSUME NEW L, NowFits(L), R!WriteLength
    PROVE  NextFits(L)
<1> DEFINE a == op.old  f == op.file
<1>1. op.pc = "length" /\ ram' = [ram EXCEPT ![a].len = op.len] /\ op' = [op EXCEPT !.pc = "payload"] /\ UNCHANGED <<index, contents>>
  BY DEF R!WriteLength, R!Step
<1>2. Overwriting(ram, L, index, op, contents)
  BY <1>1, StageOf DEF NowFits
<1>3. a = index[f] /\ f \in Files /\ a # R!Null /\ Kept(ram, L, index, contents, f) /\ op.len <= ram[a].len /\ op.len \in Lens /\ BackTo(ram, L, R!Null)
  BY <1>1, <1>2 DEF Overwriting
<1>4. a \in L /\ ram[a].fid = f /\ contents[f] = R!Content(ram[a].len, ram[a].val)
  BY <1>3 DEF Kept, Bound, R!ContentAt
<1>5. a \in 1 .. R!Head /\ ram[a].len \in Lens /\ ram[a].val \in Vals /\ ram[a] \in R!Records /\ ListOf(ram, L)
  BY <1>4, FitTypes, RecordNumbers DEF ListOf
<1>6. ram' \in [1 .. R!Head -> R!Records] /\ (\A b \in 1 .. R!Head : b # a => ram'[b] = ram[b]) /\ ram'[a] = [ram[a] EXCEPT !.len = op.len]
  BY <1>1, <1>3, <1>5, FitTypes, OneField
<1>7. ram'[a].next = ram[a].next /\ ram'[a].prev = ram[a].prev /\ ram'[a].fid = ram[a].fid /\ ram'[a].len = op.len /\ ram'[a].val = ram[a].val
  BY <1>5, <1>6 DEF R!Records
<1>8. /\ ListOf(ram', L) /\ BackTo(ram', L, R!Null)
      /\ \A g, b, c : b # a /\ Bound(ram, L, g, b, c) => Bound(ram', L, g, b, c)
      /\ \A g, c : Bound(ram, L, g, a, c) => Bound(ram', L, g, a, R!Content(op.len, ram'[a].val))
  <2>1. ram'[a].len \in Lens /\ ram'[a].len <= ram[a].len /\ ram'[a].val \in Vals
    BY <1>3, <1>5, <1>7
  <2>2. /\ ListOf(ram', L)
        /\ \A y : BackTo(ram, L, y) => BackTo(ram', L, y)
        /\ \A g, b, c : b # a /\ Bound(ram, L, g, b, c) => Bound(ram', L, g, b, c)
        /\ \A g, c : Bound(ram, L, g, a, c) => Bound(ram', L, g, a, R!Content(ram'[a].len, ram'[a].val))
    BY <1>4, <1>5, <1>6, <1>7, <2>1, InPlace, Zenon
  <2> QED BY <1>3, <1>7, <2>2
<1>9. op'.pc = "payload" /\ op'.file = f /\ op'.len = op.len /\ op'.val = op.val /\ op'.old = a /\ op'.then = op.then /\ op' \in Operations
  BY <1>1, FitTypes DEF Operations
<1>10. \A g \in Files \ {f} : Kept(ram', L, index, contents, g)
  <2> SUFFICES ASSUME NEW g \in Files \ {f} PROVE Bound(ram', L, g, index[g], contents[g])
    BY DEF Kept
  <2>1. Bound(ram, L, g, index[g], contents[g])
    BY FitTypes DEF Kept
  <2>2. index[g] # a
    BY <1>3, <1>4, <2>1 DEF Bound
  <2> QED BY <1>8, <2>1, <2>2
<1>11. Overwriting(ram', L, index, op', contents)
  <2>1. Bound(ram', L, f, a, R!Content(op.len, ram'[a].val))
    BY <1>3, <1>8 DEF Kept
  <2>2. \E n \in Lens : contents[f] = R!Content(n, ram'[a].val)
    BY <1>4, <1>5, <1>7
  <2> QED BY <1>2, <1>3, <1>8, <1>9, <2>1, <2>2 DEF Overwriting
<1> QED BY <1>1, <1>8, <1>9, <1>10, <1>11, FitTypes DEF NextFits, Fit

\* The payload of the record being overwritten becomes v, whole or not.
PayloadIs(v) ==
    /\ op.pc = "payload" /\ ram' = [ram EXCEPT ![op.old].val = v] /\ UNCHANGED index
    /\ R!Remember(op.file, R!Content(op.len, v))

LEMMA PayloadWritten ==
    ASSUME NEW L, NowFits(L), NEW v \in Vals, PayloadIs(v)
    PROVE  /\ ListOf(ram', L) /\ BackTo(ram', L, R!Null) /\ DOMAIN contents' = Files
           /\ op.file \in Files /\ op.old \in 0 .. Units
           /\ \A g \in Files : Kept(ram', L, index', contents', g)
           /\ Bound(ram', L, op.file, op.old, R!Content(op.len, v))
<1> DEFINE a == op.old  f == op.file  new == R!Content(op.len, v)
<1>1. ram' = [ram EXCEPT ![a].val = v] /\ index' = index /\ contents' = [contents EXCEPT ![f] = new]
  BY DEF PayloadIs, R!Remember, NowFits
<1>2. Overwriting(ram, L, index, op, contents) /\ op.pc = "payload"
  BY StageOf DEF NowFits, PayloadIs
<1>3. a = index[f] /\ f \in Files /\ a # R!Null /\ BackTo(ram, L, R!Null) /\ Bound(ram, L, f, a, R!Content(op.len, ram[a].val))
  BY <1>2 DEF Overwriting
<1>4. a \in L /\ ram[a].fid = f /\ ram[a].len = op.len
  BY <1>3 DEF Bound, R!ContentAt, R!Content
<1>5. a \in 1 .. R!Head /\ ram[a].len \in Lens /\ ram[a] \in R!Records /\ ListOf(ram, L) /\ ram[a].len \in Nat /\ a \in 0 .. Units
  <2>1. a \in 1 .. R!Head /\ a \in 1 .. Units
    BY <1>4, FitTypes, RecordNumbers
  <2>2. a \in 0 .. Units
    BY <2>1
  <2>3. ram[a].len \in Lens /\ ram[a] \in R!Records /\ ListOf(ram, L)
    BY <1>4, <2>1, FitTypes DEF ListOf
  <2> QED BY <2>1, <2>2, <2>3, RecordNumbers
<1>6. ram' \in [1 .. R!Head -> R!Records] /\ (\A b \in 1 .. R!Head : b # a => ram'[b] = ram[b]) /\ ram'[a] = [ram[a] EXCEPT !.val = v]
  <2> DEFINE r == [ram[a] EXCEPT !.val = v]
  <2>1. r \in R!Records
    BY <1>5 DEF R!Records
  <2>2. ram' = [ram EXCEPT ![a] = r]
    BY <1>1
  <2>3. ram \in [1 .. R!Head -> R!Records]
    BY FitTypes
  <2> HIDE DEF r
  <2>4. ram' \in [1 .. R!Head -> R!Records] /\ (\A b \in 1 .. R!Head : b # a => ram'[b] = ram[b]) /\ ram'[a] = r
    BY <1>5, <2>1, <2>2, <2>3, OneUnit
  <2> QED BY <2>4 DEF r
<1>7. ram'[a].next = ram[a].next /\ ram'[a].prev = ram[a].prev /\ ram'[a].fid = ram[a].fid /\ ram'[a].len = op.len /\ ram'[a].val = v
  BY <1>4, <1>5, <1>6 DEF R!Records
<1>8. /\ ListOf(ram', L) /\ BackTo(ram', L, R!Null)
      /\ \A g, b, c : b # a /\ Bound(ram, L, g, b, c) => Bound(ram', L, g, b, c)
      /\ \A g, c : Bound(ram, L, g, a, c) => Bound(ram', L, g, a, new)
  <2>1. ram'[a].len \in Lens /\ ram'[a].len <= ram[a].len /\ ram'[a].val \in Vals
    <3>1. ram'[a].len = ram[a].len /\ ram[a].len \in Nat
      BY <1>4, <1>5, <1>7
    <3> QED BY <1>3, <1>5, <1>7, <3>1
  <2>2. /\ ListOf(ram', L)
        /\ \A y : BackTo(ram, L, y) => BackTo(ram', L, y)
        /\ \A g, b, c : b # a /\ Bound(ram, L, g, b, c) => Bound(ram', L, g, b, c)
        /\ \A g, c : Bound(ram, L, g, a, c) => Bound(ram', L, g, a, R!Content(ram'[a].len, ram'[a].val))
    <3>1. /\ ram'[a].next = ram[a].next /\ ram'[a].prev = ram[a].prev /\ ram'[a].fid = ram[a].fid
          /\ ListOf(ram, L) /\ a \in L /\ ram' \in [1 .. R!Head -> R!Records] /\ \A b \in 1 .. R!Head : b # a => ram'[b] = ram[b]
      BY <1>4, <1>5, <1>6, <1>7
    <3> HIDE DEF a
    <3> QED BY <2>1, <3>1, InPlace, Zenon
  <2> QED BY <1>3, <1>7, <2>2
<1>9. contents'[f] = new /\ DOMAIN contents' = Files /\ \A g \in Files \ {f} : contents'[g] = contents[g]
  BY <1>1, <1>3, FitTypes
<1>10. \A g \in Files : Kept(ram', L, index', contents', g)
  <2> SUFFICES ASSUME NEW g \in Files PROVE Bound(ram', L, g, index[g], contents'[g])
    BY <1>1 DEF Kept
  <2>1. CASE g = f
    BY <1>3, <1>8, <1>9, <2>1
  <2>2. CASE g # f
    <3>1. Bound(ram, L, g, index[g], contents[g])
      BY <2>2, FitTypes DEF Kept
    <3>2. index[g] # a
      BY <1>3, <1>4, <2>2, <3>1 DEF Bound
    <3> QED BY <1>8, <1>9, <2>2, <3>1, <3>2
  <2> QED BY <2>1, <2>2
<1> QED BY <1>3, <1>5, <1>8, <1>9, <1>10

LEMMA WritesPayload ==
    ASSUME NEW L, NowFits(L), R!WritePayload
    PROVE  NextFits(L)
<1> DEFINE a == op.old  f == op.file
<1>1. /\ op.pc = "payload" /\ ram' = [ram EXCEPT ![a].val = op.val] /\ UNCHANGED index
      /\ R!Remember(f, R!Content(op.len, op.val))
      /\ op' = IF op.then = "sync" THEN [op EXCEPT !.pc = "final", !.new = a] ELSE R!Idle
  BY DEF R!WritePayload
<1>2. op.val \in Vals
  BY <1>1, StageOf DEF NowFits, Overwriting
<1>3. /\ ListOf(ram', L) /\ BackTo(ram', L, R!Null) /\ DOMAIN contents' = Files /\ f \in Files /\ a \in 0 .. Units
      /\ \A g \in Files : Kept(ram', L, index', contents', g)
      /\ Bound(ram', L, f, a, R!Content(op.len, op.val))
  BY <1>1, <1>2, PayloadWritten DEF PayloadIs
<1>4. CASE op.then = "sync"
  <2>1. /\ op'.pc = "final" /\ op'.new = a /\ op'.then = "sync" /\ op'.file = f /\ op'.len = op.len /\ op'.val = op.val
        /\ op' \in Operations
    BY <1>1, <1>3, <1>4, FitTypes DEF Operations
  <2>2. Ending(ram', L, index', op', contents')
    BY <1>3, <2>1 DEF Ending, Target
  <2> QED BY <1>1, <1>3, <2>1, <2>2, FitTypes DEF NextFits, Fit
<1>5. CASE op.then # "sync"
  <2>1. op' = R!Idle /\ R!Idle \in Operations
    BY <1>1, <1>5, RecordNumbers DEF Operations, R!Idle
  <2>2. Resting(ram', L, index', op', contents')
    BY <1>3, <2>1 DEF Resting
  <2> QED BY <1>1, <1>3, <2>1, <2>2, FitTypes DEF NextFits, Fit
<1> QED BY <1>4, <1>5

\* An operation that fails before anything of the list has changed
LEMMA LeavesList ==
    ASSUME NEW L, NowFits(L), BackTo(ram, L, R!Null), \A f \in Files : Kept(ram, L, index, contents, f),
           op' = R!Idle, UNCHANGED <<ram, index, contents>>
    PROVE  NextFits(L)
<1>1. R!Idle \in Operations
  BY RecordNumbers DEF Operations, R!Idle
<1>2. Resting(ram', L, index', op', contents')
  BY DEF Resting
<1> QED BY <1>1, <1>2, FitTypes DEF NextFits, Fit

LEMMA OverwriteFails ==
    ASSUME NEW L, NowFits(L), R!LengthFails \/ R!PayloadFails
    PROVE  NextFits(L)
<1>1. CASE R!LengthFails
  <2>1. op.pc = "length" /\ op' = R!Idle /\ UNCHANGED <<ram, index, contents>>
    BY <1>1 DEF R!LengthFails
  <2>2. BackTo(ram, L, R!Null) /\ op.file \in Files /\ Kept(ram, L, index, contents, op.file)
    BY <2>1, StageOf DEF NowFits, Overwriting
  <2> QED BY <2>1, <2>2, FitTypes, LeavesList
<1>2. CASE R!PayloadFails
  <2>1. op.pc = "payload" /\ op' = R!Idle /\ UNCHANGED index
    BY <1>2 DEF R!PayloadFails
  <2>2. PICK v \in Vals : ram' = [ram EXCEPT ![op.old].val = v] /\ R!Remember(op.file, R!Content(op.len, v))
    BY <1>2 DEF R!PayloadFails
  <2>3. ListOf(ram', L) /\ BackTo(ram', L, R!Null) /\ DOMAIN contents' = Files /\ \A g \in Files : Kept(ram', L, index', contents', g)
    BY <2>1, <2>2, PayloadWritten DEF PayloadIs
  <2>4. R!Idle \in Operations
    BY RecordNumbers DEF Operations, R!Idle
  <2>5. Resting(ram', L, index', op', contents')
    BY <2>1, <2>3 DEF Resting
  <2> QED BY <2>1, <2>3, <2>4, <2>5, FitTypes DEF NextFits, Fit
<1> QED BY <1>1, <1>2

LEMMA RecordRanges ==
    /\ R!Head \in Nat
    /\ \A u \in 1 .. R!Head : u \in 0 .. R!Head /\ u \in Nat
    /\ \A u \in 0 .. Units : u \in 0 .. R!Head
BY RecordNumbers

LEMMA GapFree ==
    ASSUME NEW m, NEW L, ListOf(m, L), NEW b \in L \cup {R!Head}, NEW x, Below(L, b, x), NEW a \in R!Unit, NEW n \in Lens,
           a + n = b, x # R!Null => x + m[x].len <= a
    PROVE  a \notin L \cup {R!Head} /\ a # x /\ a \in 1 .. R!Head /\ b \in 1 .. R!Head /\ a < b
           /\ (x # R!Null => x \in L /\ x < a /\ x < b /\ x \in 1 .. R!Head)
<1>1. a \in Nat /\ b \in Nat /\ n \in Nat /\ n > 0 /\ a < R!Head /\ R!Head \in Nat /\ L \subseteq Nat /\ a > 0 /\ R!Null = 0
      /\ b <= R!Head
  <2>1. n \in 1 .. Units /\ a \in 1 .. Units /\ R!Head = Units + 1 /\ Units \in Nat /\ R!Null = 0
    BY RecordNumbers
  <2>2. L \subseteq Nat /\ \A c \in L : c < R!Head
    BY ListTypes
  <2> QED BY <2>1, <2>2
<1>2. a < b
  BY <1>1
<1>3. x # R!Null => x \in L /\ x < b /\ x < a /\ \A c \in L : c < b => c <= x
  <2> SUFFICES ASSUME x # R!Null PROVE x \in L /\ x < b /\ x < a /\ \A c \in L : c < b => c <= x
    OBVIOUS
  <2>1. x \in L /\ x < b /\ \A c \in L : c < b => c <= x
    BY DEF Below
  <2>2. m[x].len \in Lens /\ x \in Nat
    BY <1>1, <2>1 DEF ListOf
  <2>3. m[x].len \in Nat /\ m[x].len > 0
    <3>1. m[x].len \in 1 .. Units /\ Units \in Nat
      BY <2>2, RecordNumbers
    <3> QED BY <3>1
  <2>4. x + m[x].len <= a
    OBVIOUS
  <2> QED BY <1>1, <2>1, <2>2, <2>3, <2>4
<1>4. a \notin L
  <2> SUFFICES ASSUME a \in L PROVE FALSE
    OBVIOUS
  <2>1. x # R!Null
    <3>1. R!Null \notin L
      BY RecordNumbers DEF ListOf
    <3> QED BY <1>2, <3>1 DEF Below
  <2>2. a <= x /\ x < a /\ x \in Nat
    BY <1>1, <1>2, <1>3, <2>1
  <2> QED BY <1>1, <2>2
<1>5. x # R!Null => x \in 1 .. R!Head
  BY <1>3, RecordNumbers DEF ListOf
<1>6. a # x
  BY <1>1, <1>3
<1> QED BY <1>1, <1>2, <1>3, <1>4, <1>5, <1>6

LEMMA BackSet ==
    ASSUME NEW m, m \in [1 .. R!Head -> R!Records], NEW u, u \in 1 .. R!Head, NEW z, z \in 0 .. R!Head,
           NEW n, n = [m EXCEPT ![u].prev = z]
    PROVE  /\ n \in [1 .. R!Head -> R!Records] /\ \A v \in 1 .. R!Head : v # u => n[v] = m[v]
           /\ n[u] = [m[u] EXCEPT !.prev = z]
<1>1. m[u] \in R!Records
  OBVIOUS
<1>2. [m[u] EXCEPT !.prev = z] \in R!Records
  BY <1>1 DEF R!Records
<1> QED BY <1>2

\* The gap that is found holds the record.
LEMMA GapFound ==
    ASSUME NEW L, NowFits(L), NEW n \in Lens, {b \in R!Linked(ram) : R!Fits(b, n)} # {},
           NEW base, base = R!Max({b \in R!Linked(ram) : R!Fits(b, n)}), NEW x, x = ram[base].next, NEW a, a = base - n
    PROVE  /\ ListOf(ram, L) /\ base \in L \cup {R!Head} /\ Below(L, base, x) /\ (x # R!Null => x \in L)
           /\ a \in R!Unit /\ a + n = base /\ (x # R!Null => x + ram[x].len <= a)
           /\ a \notin L \cup {R!Head} /\ a # x /\ a \in 1 .. R!Head /\ base \in 1 .. R!Head
           /\ x \in 0 .. Units /\ x \in 0 .. R!Head /\ base \in 0 .. R!Head /\ a \in 0 .. Units /\ n \in 0 .. Units
<1> DEFINE B == {b \in R!Linked(ram) : R!Fits(b, n)}
<1>3. ListOf(ram, L) /\ R!Linked(ram) = L \cup {R!Head}
  BY FitTypes, LinkedIs
<1>4. base \in L \cup {R!Head} /\ R!Fits(base, n)
  <2>1. R!Linked(ram) \subseteq 0 .. R!Head
    BY <1>3, FitTypes, RecordNumbers
  <2>2. B \in SUBSET (0 .. R!Head)
    BY <2>1
  <2>3. base \in B
    BY <2>2, GreatestOf
  <2> QED BY <1>3, <2>3
<1>5. Below(L, base, x) /\ (x # R!Null => x \in L)
  BY <1>3, <1>4 DEF ListOf, Below
<1>6. base \in Nat /\ n \in Nat /\ n > 0 /\ base <= R!Head /\ R!Head = Units + 1 /\ Units \in Nat /\ R!Null = 0
  <2>1. n \in 1 .. Units /\ R!Head = Units + 1 /\ Units \in Nat /\ R!Null = 0
    BY RecordNumbers
  <2>2. base \in 1 .. R!Head
    BY <1>4, <2>1, FitTypes, RecordNumbers
  <2> QED BY <2>1, <2>2
<1>7. a \in R!Unit /\ a + n = base /\ (x # R!Null => x + ram[x].len <= a)
  <2>1. a >= R!GapEnd(base) /\ a \in Int
    BY <1>4, <1>6 DEF R!Fits
  <2>2. CASE x = R!Null
    <3>1. a >= 1
      BY <2>1, <2>2 DEF R!GapEnd
    <3> QED BY <1>6, <2>1, <2>2, <3>1 DEF R!Unit
  <2>3. CASE x # R!Null
    <3>1. a >= x + ram[x].len
      BY <2>1, <2>3 DEF R!GapEnd
    <3>2. x \in Nat /\ ram[x].len \in Nat /\ x >= 1
      <4>1. x \in L /\ x \in 1 .. R!Head
        BY <1>5, <2>3, FitTypes, RecordNumbers
      <4> QED BY <1>3, <4>1, ListTypes
    <3>3. a >= 1 /\ x + ram[x].len <= a /\ a <= Units
      BY <1>6, <2>1, <3>1, <3>2
    <3> QED BY <1>6, <2>1, <3>3 DEF R!Unit
  <2> QED BY <2>2, <2>3
<1>8. a \notin L \cup {R!Head} /\ a # x /\ a \in 1 .. R!Head /\ base \in 1 .. R!Head
  BY <1>3, <1>4, <1>5, <1>7, GapFree
<1>9. x \in 0 .. Units /\ x \in 0 .. R!Head /\ base \in 0 .. R!Head /\ a \in 0 .. Units /\ n \in 0 .. Units
  <2>1. x \in L => x \in 1 .. Units
    BY FitTypes, RecordNumbers
  <2>2. a \in 1 .. Units /\ n \in 1 .. Units
    BY <1>7, RecordNumbers
  <2> QED BY <1>5, <1>6, <2>1, <2>2
<1> QED BY <1>3, <1>4, <1>5, <1>7, <1>8, <1>9

LEMMA AllocatesRecord ==
    ASSUME NEW L, NowFits(L), NEW f \in Files, NEW n \in Lens, NEW v \in Vals, R!Allocate(f, n, v)
    PROVE  NextFits(L)
<1> DEFINE B == {b \in R!Linked(ram) : R!Fits(b, n)}
           base == R!Max(B)
           x == ram[base].next
           a == base - n
<1>1. /\ op = R!Idle /\ B # {} /\ UNCHANGED <<index, contents>>
      /\ ram' = [ram EXCEPT ![a].next = x, ![a].prev = base]
      /\ op' = [pc |-> "back", file |-> f, len |-> n, val |-> v, new |-> a, base |-> base, next |-> x,
                old |-> index[f], then |-> "done"]
  BY DEF R!Allocate
<1>2. BackTo(ram, L, R!Null) /\ \A g \in Files : Kept(ram, L, index, contents, g)
  BY <1>1, AtRestNow
<1>3. /\ ListOf(ram, L) /\ base \in L \cup {R!Head} /\ Below(L, base, x) /\ (x # R!Null => x \in L)
      /\ a \in R!Unit /\ a + n = base /\ (x # R!Null => x + ram[x].len <= a)
      /\ a \notin L \cup {R!Head} /\ a # x /\ a \in 1 .. R!Head /\ base \in 1 .. R!Head
      /\ x \in 0 .. Units /\ x \in 0 .. R!Head /\ base \in 0 .. R!Head /\ a \in 0 .. Units /\ n \in 0 .. Units
  BY <1>1, GapFound
<1> HIDE DEF base, a, x
<1>9. index[f] \in 0 .. Units
  BY FitTypes
<1>10. /\ ram' \in [1 .. R!Head -> R!Records] /\ \A u \in 1 .. R!Head : u # a => ram'[u] = ram[u]
       /\ ram'[a].next = x /\ ram'[a].prev = base
  <2> DEFINE m1 == [ram EXCEPT ![a].next = x]
  <2>1. ram' = [m1 EXCEPT ![a].prev = base]
    BY <1>1
  <2>2. m1 \in [1 .. R!Head -> R!Records] /\ (\A u \in 1 .. R!Head : u # a => m1[u] = ram[u]) /\ m1[a] = [ram[a] EXCEPT !.next = x]
    BY <1>3, FitTypes, OneField
  <2>3. m1[a] \in R!Records /\ ram[a] \in R!Records
    BY <1>3, <2>2, FitTypes
  <2> HIDE DEF m1
  <2>4. ram' \in [1 .. R!Head -> R!Records] /\ (\A u \in 1 .. R!Head : u # a => ram'[u] = m1[u]) /\ ram'[a] = [m1[a] EXCEPT !.prev = base]
    BY <1>3, <2>1, <2>2, BackSet
  <2>5. m1[a].next = x
    BY <2>2, <2>3 DEF R!Records
  <2>6. ram'[a].next = x /\ ram'[a].prev = base
    BY <2>3, <2>4, <2>5 DEF R!Records
  <2> QED BY <2>2, <2>4, <2>6
<1>11. /\ ListOf(ram', L) /\ BackTo(ram', L, R!Null)
       /\ \A g, b, c : Bound(ram, L, g, b, c) => Bound(ram', L, g, b, c)
  BY <1>2, <1>3, <1>10, Outside
<1>12. \A g \in Files : Kept(ram', L, index, contents, g)
  BY <1>2, <1>11 DEF Kept
<1>13. op' \in Operations
  BY <1>1, <1>3, <1>9 DEF Operations
<1>14. x # R!Null => x + ram'[x].len <= a
  <2>1. x # R!Null => x \in 1 .. R!Head
    BY <1>3, FitTypes, RecordNumbers
  <2> QED BY <1>3, <1>10, <2>1
<1>15. Placing(ram', L, index, op', contents)
  <2>1. /\ op'.pc = "back" /\ op'.file = f /\ op'.len = n /\ op'.val = v /\ op'.new = a /\ op'.base = base /\ op'.next = x
        /\ op'.old = index[f] /\ op'.then = "done"
    BY <1>1
  <2> QED BY <1>3, <1>10, <1>11, <1>12, <1>14, <2>1 DEF Placing
<1> QED BY <1>1, <1>11, <1>12, <1>13, <1>15, FitTypes DEF NextFits, Fit

LEMMA AllocationFails ==
    ASSUME NEW L, NowFits(L), NEW f \in Files, NEW n \in Lens, R!AllocateFails(f, n)
    PROVE  NextFits(L)
<1> DEFINE B == {b \in R!Linked(ram) : R!Fits(b, n)}
           base == R!Max(B)
           x == ram[base].next
           a == base - n
<1>1. /\ op = R!Idle /\ op' = op /\ B # {} /\ UNCHANGED <<index, contents>>
      /\ ram' \in {ram, [ram EXCEPT ![a].next = x]}
  BY DEF R!AllocateFails
<1>2. BackTo(ram, L, R!Null) /\ \A g \in Files : Kept(ram, L, index, contents, g)
  BY <1>1, AtRestNow
<1>3. ListOf(ram, L) /\ a \notin L \cup {R!Head} /\ a \in 1 .. R!Head /\ x \in 0 .. R!Head
  BY <1>1, GapFound
<1> HIDE DEF base, a, x
<1>4. CASE ram' = ram
  BY <1>1, <1>2, <1>4, LeavesList
<1>5. CASE ram' = [ram EXCEPT ![a].next = x]
  <2>1. ram' \in [1 .. R!Head -> R!Records] /\ \A u \in 1 .. R!Head : u # a => ram'[u] = ram[u]
    <3> DEFINE r == [ram[a] EXCEPT !.next = x]
    <3>1. ram \in [1 .. R!Head -> R!Records] /\ ram[a] \in R!Records
      BY <1>3, FitTypes
    <3>2. r \in R!Records
      BY <1>3, <3>1 DEF R!Records
    <3>3. ram' = [ram EXCEPT ![a] = r]
      BY <1>5
    <3> HIDE DEF r
    <3> QED BY <1>3, <3>1, <3>2, <3>3, OneUnit
  <2>2. /\ ListOf(ram', L) /\ BackTo(ram', L, R!Null)
        /\ \A g, b, c : Bound(ram, L, g, b, c) => Bound(ram', L, g, b, c)
    BY <1>2, <1>3, <2>1, Outside
  <2>3. \A g \in Files : Kept(ram', L, index, contents, g)
    BY <1>2, <2>2 DEF Kept
  <2>4. Resting(ram', L, index, op', contents)
    BY <1>1, <2>2 DEF Resting
  <2> QED BY <1>1, <2>2, <2>3, <2>4, FitTypes DEF NextFits, Fit
<1> QED BY <1>1, <1>4, <1>5

\* The gap a new record is placed in
LEMMA PlacingGap ==
    ASSUME NEW L, NowFits(L), Placing(ram, L, index, op, contents)
    PROVE  /\ op.new \notin L \cup {R!Head} /\ op.new # op.next /\ op.new \in 1 .. R!Head /\ op.base \in 1 .. R!Head
           /\ op.next # R!Null => op.next \in L /\ op.next < op.new /\ op.next \in 1 .. R!Head
<1>1. /\ ListOf(ram, L) /\ op.base \in L \cup {R!Head} /\ Below(L, op.base, op.next) /\ op.new \in R!Unit /\ op.len \in Lens
      /\ op.new + op.len = op.base /\ (op.next # R!Null => op.next + ram[op.next].len <= op.new)
  BY FitTypes DEF Placing
<1> QED BY <1>1, GapFree

LEMMA LinksBack ==
    ASSUME NEW L, NowFits(L), R!LinkBack
    PROVE  NextFits(L)
<1> DEFINE a == op.new  x == op.next
<1>1. /\ op.pc = "back" /\ op' = [op EXCEPT !.pc = "fill"] /\ UNCHANGED <<index, contents>>
      /\ ram' = IF x = R!Null THEN ram ELSE [ram EXCEPT ![x].prev = a]
  BY DEF R!LinkBack, R!Step
<1>2. Placing(ram, L, index, op, contents)
  BY <1>1, StageOf DEF NowFits
<1>3. BackTo(ram, L, R!Null) /\ R!Null \notin L
  BY <1>1, <1>2, FitTypes, RecordNumbers DEF Placing
<1>4. /\ op' \in Operations /\ op'.pc = "fill" /\ op'.file = op.file /\ op'.len = op.len /\ op'.val = op.val /\ op'.new = a
      /\ op'.base = op.base /\ op'.next = x /\ op'.old = op.old /\ op'.then = op.then
  BY <1>1, FitTypes DEF Operations
<1>5. a \notin L \cup {R!Head} /\ a # x /\ a \in 1 .. R!Head /\ (x # R!Null => x \in L /\ x < a /\ x \in 1 .. R!Head)
  BY <1>2, PlacingGap
<1>6. /\ ListOf(ram', L) /\ BackTo(ram', L, x) /\ ram'[a] = ram[a] /\ (x # R!Null => ram'[x].prev = a /\ ram'[x].len = ram[x].len)
      /\ \A g, b, c : Bound(ram, L, g, b, c) => Bound(ram', L, g, b, c)
  <2>1. CASE x = R!Null
    BY <1>1, <1>3, <2>1, FitTypes
  <2>2. CASE x # R!Null
    <3>1. ram' \in [1 .. R!Head -> R!Records] /\ (\A u \in 1 .. R!Head : u # x => ram'[u] = ram[u]) /\ ram'[x] = [ram[x] EXCEPT !.prev = a]
      <4>1. a \in 0 .. R!Head
        BY <1>5, RecordNumbers
      <4> QED BY <1>1, <1>5, <2>2, <4>1, FitTypes, OneField
    <3>2. ram[x] \in R!Records
      BY <1>5, <2>2, FitTypes
    <3>3. ram'[x].prev = a /\ ram'[x].next = ram[x].next /\ ram'[x].fid = ram[x].fid /\ ram'[x].len = ram[x].len /\ ram'[x].val = ram[x].val
      BY <3>1, <3>2 DEF R!Records
    <3>4. L \subseteq 1 .. R!Head /\ R!Head \in 1 .. R!Head /\ x # R!Head
      BY <1>5, <2>2, FitTypes, RecordNumbers
    <3>5. \A b \in L : b # x => ram'[b] = ram[b]
      BY <3>1, <3>4
    <3>6. \A b \in L : /\ ram'[b].next = ram[b].next /\ ram'[b].fid = ram[b].fid /\ ram'[b].len = ram[b].len
                       /\ ram'[b].val = ram[b].val /\ ram'[b].prev > b
      <4> SUFFICES ASSUME NEW b \in L
                   PROVE  /\ ram'[b].next = ram[b].next /\ ram'[b].fid = ram[b].fid /\ ram'[b].len = ram[b].len
                          /\ ram'[b].val = ram[b].val /\ ram'[b].prev > b
        OBVIOUS
      <4>1. CASE b = x
        <5>1. a > x
          BY <1>5, <2>2, RecordNumbers
        <5> QED BY <3>3, <4>1, <5>1
      <4>2. CASE b # x
        BY <3>5, <4>2, FitTypes DEF ListOf
      <4> QED BY <4>1, <4>2
    <3>7. ListOf(ram', L) /\ \A g, b, c : Bound(ram, L, g, b, c) => Bound(ram', L, g, b, c)
      BY <3>1, <3>4, <3>6, FitTypes, SameList
    <3>8. BackTo(ram', L, x)
      BY <1>3, <3>5 DEF BackTo
    <3> QED BY <1>5, <3>1, <3>3, <3>7, <3>8
  <2> QED BY <2>1, <2>2
<1>7. \A g \in Files \ {op.file} : Kept(ram', L, index, contents, g)
  BY <1>6, FitTypes DEF Kept
<1>8. Placing(ram', L, index, op', contents)
  BY <1>2, <1>4, <1>6 DEF Placing, Kept
<1> QED BY <1>1, <1>4, <1>6, <1>7, <1>8, FitTypes DEF NextFits, Fit

LEMMA LinkBackMayFail ==
    ASSUME NEW L, NowFits(L), R!LinkBackFails
    PROVE  NextFits(L)
<1>1. op.pc = "back" /\ op' = R!Idle /\ UNCHANGED <<ram, index, contents>>
  BY DEF R!LinkBackFails
<1>2. BackTo(ram, L, R!Null) /\ op.file \in Files /\ Kept(ram, L, index, contents, op.file)
  BY <1>1, StageOf DEF NowFits, Placing
<1> QED BY <1>1, <1>2, FitTypes, LeavesList

LEMMA FillsRecord ==
    ASSUME NEW L, NowFits(L), R!FillRecord
    PROVE  NextFits(L)
<1> DEFINE a == op.new  x == op.next
           pc == IF R!NeedsSync THEN "wait" ELSE "publish"
<1>1. /\ op.pc = "fill" /\ op' = [op EXCEPT !.pc = pc] /\ UNCHANGED <<index, contents>>
      /\ ram' = [ram EXCEPT ![a].fid = op.file, ![a].len = op.len, ![a].val = op.val]
  BY DEF R!FillRecord, R!Step
<1>2. Placing(ram, L, index, op, contents)
  BY <1>1, StageOf DEF NowFits
<1>3. a \notin L \cup {R!Head} /\ a # x /\ a \in 1 .. R!Head /\ (x # R!Null => x \in L /\ x < a /\ x \in 1 .. R!Head)
  BY <1>2, PlacingGap
<1>4. pc \in {"wait", "publish"}
  OBVIOUS
<1> HIDE DEF pc
<1>5. /\ op' \in Operations /\ op'.pc = pc /\ op'.file = op.file /\ op'.len = op.len /\ op'.val = op.val /\ op'.new = a
      /\ op'.base = op.base /\ op'.next = x /\ op'.old = op.old /\ op'.then = op.then
  BY <1>1, <1>4, FitTypes DEF Operations
<1>6. /\ ram' \in [1 .. R!Head -> R!Records] /\ \A u \in 1 .. R!Head : u # a => ram'[u] = ram[u]
      /\ ram'[a].next = ram[a].next /\ ram'[a].prev = ram[a].prev
      /\ ram'[a].fid = op.file /\ ram'[a].len = op.len /\ ram'[a].val = op.val
  <2> DEFINE r == [ram[a] EXCEPT !.fid = op.file, !.len = op.len, !.val = op.val]
  <2>1. ram[a] \in R!Records /\ op.file \in Files /\ op.len \in Lens /\ op.val \in Vals
    BY <1>2, <1>3, FitTypes DEF Placing
  <2>2. /\ r \in R!Records /\ r.next = ram[a].next /\ r.prev = ram[a].prev /\ r.fid = op.file /\ r.len = op.len
        /\ r.val = op.val
    BY <2>1 DEF R!Records
  <2>3. ram' = [ram EXCEPT ![a] = r]
    BY <1>1, <1>3, FitTypes
  <2> HIDE DEF r
  <2> QED BY <1>3, <2>2, <2>3, FitTypes
<1>7. /\ ListOf(ram', L)
      /\ \A y : BackTo(ram, L, y) => BackTo(ram', L, y)
      /\ \A g, b, c : Bound(ram, L, g, b, c) => Bound(ram', L, g, b, c)
  BY <1>3, <1>6, FitTypes, Outside
<1>8. BackTo(ram', L, x)
  BY <1>1, <1>2, <1>7 DEF Placing
<1>9. \A g \in Files \ {op.file} : Kept(ram', L, index, contents, g)
  BY <1>7, FitTypes DEF Kept
<1>10. x # R!Null => ram'[x] = ram[x]
  BY <1>3, <1>6
<1>11. Placing(ram', L, index, op', contents)
  <2>1. /\ op.file \in Files /\ op.old = index[op.file] /\ Kept(ram, L, index, contents, op.file)
        /\ op.len \in Lens /\ op.val \in Vals /\ op.then = "done" /\ op.base \in L \cup {R!Head} /\ Below(L, op.base, x)
        /\ a \in R!Unit /\ a + op.len = op.base /\ ram[a].next = x /\ ram[a].prev = op.base
        /\ (x # R!Null => x + ram[x].len <= a) /\ (x # R!Null => ram[x].prev = a)
    BY <1>1, <1>2 DEF Placing
  <2>2. (x # R!Null => x + ram'[x].len <= a) /\ (x # R!Null => ram'[x].prev = a)
    BY <1>10, <2>1
  <2>3. Kept(ram', L, index, contents, op.file)
    BY <1>7, <2>1 DEF Kept
  <2>4. pc # "back"
    BY <1>4
  <2>5. BackTo(ram', L, IF pc = "back" THEN R!Null ELSE x)
    BY <1>8, <2>4
  <2> QED BY <1>4, <1>5, <1>6, <2>1, <2>2, <2>3, <2>5 DEF Placing
<1> QED BY <1>1, <1>5, <1>7, <1>9, <1>11, FitTypes DEF NextFits, Fit

LEMMA SyncsDone ==
    ASSUME NEW L, NowFits(L), R!SyncDone
    PROVE  NextFits(L)
<1>1. op.pc = "wait" /\ op' = [op EXCEPT !.pc = "publish"] /\ UNCHANGED <<ram, index, contents>>
  BY DEF R!SyncDone
<1>2. Placing(ram, L, index, op, contents)
  BY <1>1, StageOf DEF NowFits
<1>3. /\ op' \in Operations /\ op'.pc = "publish" /\ op'.file = op.file /\ op'.len = op.len /\ op'.val = op.val /\ op'.new = op.new
      /\ op'.base = op.base /\ op'.next = op.next /\ op'.old = op.old /\ op'.then = op.then
  BY <1>1, FitTypes DEF Operations
<1>4. Placing(ram, L, index, op', contents)
  BY <1>1, <1>2, <1>3 DEF Placing
<1> QED BY <1>1, <1>3, <1>4, FitTypes DEF NextFits, Fit

\* A new record that is given up is cleared next.
LEMMA GivesUpRecord ==
    ASSUME NEW L, NowFits(L), op.pc \in {"fill", "wait", "publish"}, op' = R!Cleared(op.new, "fail"),
           UNCHANGED <<index, contents>>, ram' \in [1 .. R!Head -> R!Records],
           \A u \in 1 .. R!Head : u # op.new => ram'[u] = ram[u],
           ram'[op.new].next = ram[op.new].next, ram'[op.new].prev = ram[op.new].prev
    PROVE  NextFits(L)
<1>1. Placing(ram, L, index, op, contents)
  BY StageOf DEF NowFits
<1>2. /\ ram[op.new].prev = op.base /\ ram[op.new].next = op.next /\ op.new \notin L \cup {R!Head} /\ op.new \in R!Unit
      /\ BackTo(ram, L, op.next) /\ Kept(ram, L, index, contents, op.file)
  BY <1>1, PlacingGap DEF Placing
<1>3. op' = [op EXCEPT !.pc = "unlink", !.old = op.new, !.base = op.base, !.next = op.next, !.then = "fail"]
  BY <1>2 DEF R!Cleared
<1>4. /\ op' \in Operations /\ op'.pc = "unlink" /\ op'.file = op.file /\ op'.base = op.base /\ op'.next = op.next
      /\ op'.old = op.new /\ op'.then = "fail"
  BY <1>3, FitTypes DEF Operations
<1>5. /\ ListOf(ram', L)
      /\ \A f, b, c : Bound(ram, L, f, b, c) => Bound(ram', L, f, b, c)
      /\ \A x : BackTo(ram, L, x) => BackTo(ram', L, x)
  BY <1>2, FitTypes, Outside
<1>6. Clearing(ram', L, index, op', contents)
  BY <1>1, <1>2, <1>4, <1>5 DEF Placing, Clearing, Kept
<1>7. \A g \in Files \ {op.file} : Kept(ram', L, index, contents, g)
  BY <1>5, FitTypes DEF Kept
<1> QED BY <1>4, <1>5, <1>6, <1>7, FitTypes DEF NextFits, Fit

LEMMA PlacingFails ==
    ASSUME NEW L, NowFits(L), ~broken', R!SyncTimeout \/ R!HeaderFails \/ R!FillFails \/ R!PublishFails
    PROVE  NextFits(L)
<1> DEFINE a == op.new
<1>1. op.pc \in {"fill", "wait", "publish"} /\ UNCHANGED <<index, contents>>
  BY DEF R!SyncTimeout, R!HeaderFails, R!FillFails, R!PublishFails
<1>2. op' = R!Cleared(a, "fail")
  BY DEF R!SyncTimeout, R!HeaderFails, R!FillFails, R!PublishFails
<1>3. Placing(ram, L, index, op, contents)
  BY <1>1, StageOf DEF NowFits
<1>4. ram[a] \in R!Records /\ a \in 1 .. R!Head /\ op.file \in Files /\ op.len \in Lens /\ ram \in [1 .. R!Head -> R!Records]
  BY <1>3, PlacingGap, FitTypes DEF Placing
<1>5. ASSUME NEW r \in R!Records, r.next = ram[a].next, r.prev = ram[a].prev, ram' = [ram EXCEPT ![a] = r] PROVE NextFits(L)
  <2>1. /\ ram' \in [1 .. R!Head -> R!Records] /\ \A u \in 1 .. R!Head : u # a => ram'[u] = ram[u]
        /\ ram'[a] = r
    BY <1>4, <1>5
  <2> QED BY <1>1, <1>2, <1>5, <2>1, GivesUpRecord
<1>6. CASE ram' = ram
  <2>1. ram' = [ram EXCEPT ![a] = ram[a]]
    BY <1>4, <1>6
  <2> QED BY <1>4, <1>5, <2>1
<1>7. CASE ram' = [ram EXCEPT ![a].fid = op.file]
  <2> DEFINE r == [ram[a] EXCEPT !.fid = op.file]
  <2>1. r \in R!Records /\ r.next = ram[a].next /\ r.prev = ram[a].prev
    BY <1>4 DEF R!Records
  <2>2. ram' = [ram EXCEPT ![a] = r]
    BY <1>4, <1>7
  <2> QED BY <1>5, <2>1, <2>2
<1>8. CASE \E v \in Vals \cup {ram[a].val} : ram' = [ram EXCEPT ![a].fid = op.file, ![a].len = op.len, ![a].val = v]
  <2>1. PICK v \in Vals \cup {ram[a].val} : ram' = [ram EXCEPT ![a].fid = op.file, ![a].len = op.len, ![a].val = v]
    BY <1>8
  <2> DEFINE r == [ram[a] EXCEPT !.fid = op.file, !.len = op.len, !.val = v]
  <2>2. r \in R!Records /\ r.next = ram[a].next /\ r.prev = ram[a].prev
    BY <1>4 DEF R!Records
  <2>3. ram' = [ram EXCEPT ![a] = r]
    BY <1>4, <2>1
  <2> QED BY <1>5, <2>2, <2>3
<1> QED BY <1>6, <1>7, <1>8 DEF R!SyncTimeout, R!HeaderFails, R!FillFails, R!PublishFails

LEMMA LinksRecord ==
    ASSUME NEW L, NowFits(L), R!Publish
    PROVE  NextFits(L \cup {op.new})
<1> DEFINE a == op.new  x == op.next  b == op.base  f == op.file  K == L \cup {a}  new == R!Content(op.len, op.val)
<1>1. /\ op.pc = "publish" /\ ram' = [ram EXCEPT ![b].next = a]
      /\ IF op.old = R!Null
         THEN R!Finish
         ELSE op' = R!Cleared(op.old, R!AfterWrite(op.len >= UnitsPerSector)) /\ UNCHANGED <<index, contents>>
  BY DEF R!Publish
<1>2. Placing(ram, L, index, op, contents)
  BY <1>1, StageOf DEF NowFits
<1>3. a \notin L \cup {R!Head} /\ a # x /\ a \in 1 .. R!Head /\ b \in 1 .. R!Head /\ (x # R!Null => x \in L /\ x < a)
  BY <1>2, PlacingGap
<1>4. ram' \in [1 .. R!Head -> R!Records] /\ (\A u \in 1 .. R!Head : u # b => ram'[u] = ram[u]) /\ ram'[b] = [ram[b] EXCEPT !.next = a]
  <2>1. a \in 0 .. R!Head
    BY <1>3, RecordNumbers
  <2> QED BY <1>1, <1>3, <2>1, FitTypes, OneField
<1>5. /\ f \in Files /\ op.old = index[f] /\ Kept(ram, L, index, contents, f) /\ op.len \in Lens /\ op.val \in Vals /\ op.then = "done"
      /\ b \in L \cup {R!Head} /\ Below(L, b, x) /\ a \in R!Unit /\ a + op.len = b /\ ram[a].next = x /\ ram[a].prev = b
      /\ (x # R!Null => x + ram[x].len <= a /\ ram[x].prev = a) /\ BackTo(ram, L, x)
      /\ ram[a].fid = f /\ ram[a].len = op.len /\ ram[a].val = op.val
  BY <1>1, <1>2 DEF Placing
<1>6. /\ ListOf(ram', K) /\ BackTo(ram', K, R!Null)
      /\ \A c \in K : ram'[c].fid = ram[c].fid /\ R!ContentAt(ram', c) = R!ContentAt(ram, c)
  <2>1. /\ ram[a].fid \in Files /\ ram[a].len \in Lens /\ ram[a].val \in Vals /\ a + ram[a].len = b
        /\ (x # R!Null => x + ram[x].len <= a /\ ram[x].prev = a) /\ ListOf(ram, L)
    BY <1>5, FitTypes
  <2>2. /\ b \in L \cup {R!Head} /\ Below(L, b, x) /\ a \in R!Unit /\ ram[a].next = x /\ ram[a].prev = b /\ BackTo(ram, L, x)
    BY <1>5
  <2>3. InGap(ram, L, b, x, a)
    BY <2>1, <2>2 DEF InGap
  <2>4. NextSet(ram, ram', b, a)
    BY <1>4 DEF NextSet
  <2> QED BY <2>3, <2>4, Insert
<1>7. a \in 0 .. Units /\ a # R!Null /\ R!ContentAt(ram', a) = new
  <2>1. a # R!Null /\ a \in 1 .. Units
    BY <1>5, RecordNumbers
  <2>2. a \in 0 .. Units
    BY <2>1
  <2>3. R!ContentAt(ram, a) = new
    BY <1>5, <2>1 DEF R!ContentAt
  <2> QED BY <1>6, <2>1, <2>2, <2>3
<1>8. ASSUME NEW g, NEW c, NEW d, g # f, Bound(ram, L, g, c, d) PROVE Bound(ram', K, g, c, d)
  <2>1. {r \in K : ram'[r].fid = g} = {r \in L : ram[r].fid = g}
    BY <1>5, <1>6, <1>8
  <2>2. R!ContentAt(ram', c) = R!ContentAt(ram, c)
    <3>1. CASE c = R!Null
      BY <3>1 DEF R!ContentAt
    <3>2. CASE c # R!Null
      <4>1. c \in L
        BY <1>8, <3>2 DEF Bound
      <4> QED BY <1>6, <4>1
    <3> QED BY <3>1, <3>2
  <2> QED BY <1>8, <2>1, <2>2 DEF Bound
<1>9. {r \in K : ram'[r].fid = f} = {a} \cup (IF index[f] = R!Null THEN {} ELSE {index[f]})
  <2>1. {r \in L : ram[r].fid = f} = IF index[f] = R!Null THEN {} ELSE {index[f]}
    BY <1>5 DEF Kept, Bound
  <2>2. {r \in K : ram'[r].fid = f} = {a} \cup {r \in L : ram[r].fid = f}
    BY <1>5, <1>6
  <2> QED BY <2>1, <2>2
<1>10. CASE op.old = R!Null
  <2>1. op' = R!Idle /\ index' = [index EXCEPT ![f] = a] /\ contents' = [contents EXCEPT ![f] = new]
    <3>1. R!Finish /\ op.then = "done"
      BY <1>1, <1>5, <1>10
    <3> QED BY <3>1 DEF R!Finish, R!Remember, NowFits
  <2>2. R!Idle \in Operations /\ R!Idle.file = NoFile
    BY RecordNumbers DEF Operations, R!Idle
  <2>3. index' \in [Files -> 0 .. Units] /\ DOMAIN contents' = Files
    BY <1>7, <2>1, FitTypes
  <2>4. ASSUME NEW g \in Files PROVE Kept(ram', K, index', contents', g)
    <3>1. CASE g = f
      <4>1. index'[g] = a /\ contents'[g] = new
        BY <2>1, <3>1, FitTypes
      <4>2. {r \in K : ram'[r].fid = f} = {a}
        BY <1>5, <1>9, <1>10
      <4> QED BY <1>7, <3>1, <4>1, <4>2 DEF Kept, Bound
    <3>2. CASE g # f
      <4>1. index'[g] = index[g] /\ contents'[g] = contents[g]
        BY <2>1, <3>2, FitTypes
      <4>2. Bound(ram, L, g, index[g], contents[g])
        BY <3>2, FitTypes DEF Kept
      <4> QED BY <1>8, <3>2, <4>1, <4>2 DEF Kept
    <3> QED BY <3>1, <3>2
  <2>5. Resting(ram', K, index', op', contents')
    BY <1>6, <2>1 DEF Resting
  <2> QED BY <1>6, <2>1, <2>2, <2>3, <2>4, <2>5 DEF NextFits, Fit
<1>11. CASE op.old # R!Null
  <2> DEFINE o == op.old  p == ram'[o].prev  q == ram'[o].next
             t == R!AfterWrite(op.len >= UnitsPerSector)
  <2>1. op' = [op EXCEPT !.pc = "unlink", !.old = o, !.base = p, !.next = q, !.then = t] /\ UNCHANGED <<index, contents>>
    BY <1>1, <1>11 DEF R!Cleared
  <2>2. t \in {"done", "sync"}
    BY DEF R!AfterWrite
  <2> HIDE DEF t
  <2>3. o \in L /\ o = index[f] /\ o \in K /\ o # a
    BY <1>3, <1>5, <1>11 DEF Kept, Bound
  <2>4. Above(K, o, p) /\ Below(K, o, q)
    <3>1. o # R!Null
      BY <1>11
    <3> QED BY <1>6, <2>3, <3>1 DEF BackTo, ListOf
  <2>5. p \in 0 .. R!Head /\ q \in 0 .. Units /\ o \in 0 .. Units
    <3>1. K \subseteq 1 .. Units /\ Units \in Nat /\ R!Head = Units + 1 /\ R!Null = 0
      BY <1>5, FitTypes, RecordNumbers
    <3>2. p \in K \cup {R!Head} /\ (q \in K \/ q = R!Null)
      BY <2>4 DEF Above, Below
    <3> HIDE DEF K, p, q
    <3>3. \A u \in 1 .. Units : u \in 0 .. Units /\ u \in 0 .. R!Head
      BY <3>1
    <3>4. R!Head \in 0 .. R!Head /\ R!Null \in 0 .. Units
      BY <3>1
    <3> QED BY <2>3, <3>1, <3>2, <3>3, <3>4
  <2> HIDE DEF p, q
  <2>6. /\ op' \in Operations /\ op'.pc = "unlink" /\ op'.file = f /\ op'.len = op.len /\ op'.val = op.val /\ op'.new = a
        /\ op'.base = p /\ op'.next = q /\ op'.old = o /\ op'.then = t
    BY <2>1, <2>2, <2>5, FitTypes DEF Operations
  <2>7. R!ContentAt(ram', o) = contents[f]
    BY <1>5, <1>6, <2>3 DEF Kept, Bound
  <2>8. \A g \in Files \ {f} : Kept(ram', K, index, contents, g)
    BY <1>8, FitTypes DEF Kept
  <2>9. Unlinking(ram', K, index, op', contents)
    <3>1. {r \in K : ram'[r].fid = f} = {o} \cup (IF a = R!Null THEN {} ELSE {a})
      BY <1>7, <1>9, <1>11, <2>3
    <3>2. R!ContentAt(ram', a) = Target(op')
      BY <1>7, <2>6 DEF Target
    <3> QED BY <1>5, <1>6, <2>2, <2>3, <2>4, <2>6, <2>7, <3>1, <3>2 DEF Unlinking
  <2> QED BY <1>6, <2>1, <2>6, <2>8, <2>9, FitTypes DEF NextFits, Fit
<1> QED BY <1>10, <1>11

LEMMA Unlinks ==
    ASSUME NEW L, NowFits(L), R!Unlink
    PROVE  \E K : NextFits(K)
<1> DEFINE a == op.old  x == op.next  b == op.base  f == op.file
<1>1. /\ op.pc = "unlink" /\ op' = [op EXCEPT !.pc = "zero"] /\ UNCHANGED <<index, contents>>
      /\ ram' = IF b \in 1 .. R!Head THEN [ram EXCEPT ![b].next = x] ELSE ram
  BY DEF R!Unlink, R!Step
<1>2. /\ op' \in Operations /\ op'.pc = "zero" /\ op'.file = f /\ op'.len = op.len /\ op'.val = op.val /\ op'.new = op.new
      /\ op'.base = b /\ op'.next = x /\ op'.old = a /\ op'.then = op.then
  BY <1>1, FitTypes DEF Operations
<1>3. L \subseteq 1 .. R!Head /\ R!Head \in 1 .. R!Head /\ ListOf(ram, L) /\ R!Null \notin L /\ L \subseteq R!Unit
  BY FitTypes, RecordNumbers
<1>4. ASSUME b \in L \cup {R!Head} PROVE NextSet(ram, ram', b, x)
  <2>1. b \in 1 .. R!Head /\ x \in 0 .. R!Head
    <3>1. x \in 0 .. Units
      BY FitTypes DEF Operations
    <3> QED BY <1>3, <1>4, <3>1, RecordRanges
  <2>2. ram' = [ram EXCEPT ![b].next = x]
    BY <1>1, <2>1
  <2> QED BY <2>1, <2>2, FitTypes, OneField DEF NextSet
<1>5. CASE Unlinking(ram, L, index, op, contents)
  <2> DEFINE K == L \ {a}
  <2>1. /\ op.then \in {"done", "sync"} /\ f \in Files /\ a \in L /\ Above(L, a, b) /\ Below(L, a, x) /\ BackTo(ram, L, R!Null)
        /\ R!ContentAt(ram, op.new) = Target(op) /\ op.new # a
        /\ {r \in L : ram[r].fid = f} = {a} \cup (IF op.new = R!Null THEN {} ELSE {op.new})
    BY <1>5 DEF Unlinking
  <2>2. NextSet(ram, ram', b, x)
    BY <1>4, <2>1 DEF Above
  <2>3. /\ ListOf(ram', K) /\ BackTo(ram', K, x) /\ Below(K, b, x) /\ b \in K \cup {R!Head}
        /\ \A c \in L : ram'[c].fid = ram[c].fid /\ R!ContentAt(ram', c) = R!ContentAt(ram, c)
    <3>1. ListOf(ram, L) /\ a \in L /\ Above(L, a, b) /\ Below(L, a, x) /\ BackTo(ram, L, R!Null)
      BY <1>3, <2>1
    <3> HIDE DEF a, b, x
    <3> QED BY <2>2, <3>1, Remove
  <2>4. ASSUME NEW g, NEW c, c = R!Null \/ c \in L PROVE R!ContentAt(ram', c) = R!ContentAt(ram, c)
    BY <2>3, <2>4 DEF R!ContentAt
  <2>5. \A g \in Files \ {f} : Kept(ram', K, index, contents, g)
    <3> SUFFICES ASSUME NEW g \in Files \ {f} PROVE Bound(ram', K, g, index[g], contents[g])
      BY DEF Kept
    <3>1. Bound(ram, L, g, index[g], contents[g])
      BY FitTypes DEF Kept
    <3>2. ram[a].fid = f
      BY <2>1
    <3>3. {r \in K : ram'[r].fid = g} = {r \in L : ram[r].fid = g}
      BY <2>3, <3>2
    <3>4. index[g] = R!Null \/ index[g] \in L
      BY <3>1 DEF Bound
    <3> QED BY <2>4, <3>1, <3>3, <3>4 DEF Bound
  <2>6. Bound(ram', K, f, op.new, Target(op'))
    <3>1. {r \in K : ram'[r].fid = f} = IF op.new = R!Null THEN {} ELSE {op.new}
      <4>1. {r \in K : ram'[r].fid = f} = {r \in L : ram[r].fid = f} \ {a}
        BY <2>3
      <4> QED BY <2>1, <4>1
    <3>2. op.new = R!Null \/ op.new \in L
      BY <2>1
    <3>3. R!ContentAt(ram', op.new) = Target(op')
      BY <1>2, <2>1, <2>4, <3>2 DEF Target
    <3> QED BY <3>1, <3>3 DEF Bound
  <2>7. Clearing(ram', K, index, op', contents)
    BY <1>2, <1>3, <2>1, <2>3, <2>6 DEF Clearing
  <2> QED BY <1>1, <1>2, <2>3, <2>5, <2>7, FitTypes DEF NextFits, Fit
<1>6. CASE Clearing(ram, L, index, op, contents)
  <2>1. /\ op.then = "fail" /\ f \in Files /\ a \in R!Unit \ L /\ b \in L \cup {R!Head} /\ Below(L, b, x) /\ BackTo(ram, L, x)
        /\ Kept(ram, L, index, contents, f)
    BY <1>1, <1>6 DEF Clearing
  <2>2. ram[b].next = x
    <3>1. Below(L, b, ram[b].next)
      BY <1>3, <2>1 DEF ListOf
    <3>2. \A y, z \in L : y <= z /\ z <= y => y = z
      BY FitTypes, ListTypes
    <3> QED BY <1>3, <2>1, <3>1, <3>2 DEF Below
  <2>3. NextSet(ram, ram', b, x)
    BY <1>4, <2>1
  <2>4. ram[b] \in R!Records /\ b \in 1 .. R!Head
    BY <1>3, <2>1, FitTypes
  <2>5. ram'[b] = ram[b]
    BY <2>2, <2>3, <2>4 DEF NextSet, R!Records
  <2>6. ram' \in [1 .. R!Head -> R!Records] /\ \A u \in 1 .. R!Head : ram'[u] = ram[u]
    BY <2>3, <2>5 DEF NextSet
  <2>7. ram' = ram
    <3>1. ram \in [1 .. R!Head -> R!Records] /\ ram' \in [1 .. R!Head -> R!Records]
      BY <2>6, FitTypes
    <3>2. ram = [u \in 1 .. R!Head |-> ram[u]] /\ ram' = [u \in 1 .. R!Head |-> ram'[u]]
      BY <3>1
    <3> QED BY <2>6, <3>2
  <2>8. Clearing(ram, L, index, op', contents)
    BY <1>2, <2>1 DEF Clearing
  <2>9. \A g \in Files \ {f} : Kept(ram, L, index, contents, g)
    BY FitTypes
  <2>10. Fit(ram', L, index', op', contents')
    BY <1>1, <1>2, <1>3, <2>7, <2>8, <2>9, FitTypes DEF Fit
  <2> QED BY <2>10 DEF NextFits
<1> QED BY <1>1, <1>5, <1>6, StageOf DEF NowFits

\* Clearing goes on while only the cleared record changes.
LEMMA ClearsRecord ==
    ASSUME NEW L, NowFits(L), op.pc \in {"zero", "zero_payload"}, NEW pc \in {"zero_payload", "mend"},
           op' = [op EXCEPT !.pc = pc], UNCHANGED <<index, contents>>,
           ram' \in [1 .. R!Head -> R!Records], \A u \in 1 .. R!Head : u # op.old => ram'[u] = ram[u]
    PROVE  NextFits(L)
<1>1. Clearing(ram, L, index, op, contents)
  BY StageOf DEF NowFits
<1>2. /\ op' \in Operations /\ op'.pc = pc /\ op'.file = op.file /\ op'.len = op.len /\ op'.val = op.val /\ op'.new = op.new
      /\ op'.base = op.base /\ op'.next = op.next /\ op'.old = op.old /\ op'.then = op.then
  BY FitTypes DEF Operations
<1>3. op.old \notin L \cup {R!Head}
  BY <1>1, RecordNumbers DEF Clearing
<1>4. /\ ListOf(ram', L)
      /\ \A f, b, c : Bound(ram, L, f, b, c) => Bound(ram', L, f, b, c)
      /\ \A x : BackTo(ram, L, x) => BackTo(ram', L, x)
  BY <1>3, FitTypes, Outside
<1>5. Clearing(ram', L, index, op', contents)
  <2>1. Target(op') = Target(op)
    BY <1>2 DEF Target
  <2>2. IF op.then = "fail" THEN Kept(ram', L, index, contents, op.file) ELSE Bound(ram', L, op.file, op.new, Target(op))
    BY <1>1, <1>4 DEF Clearing, Kept
  <2>3. BackTo(ram', L, op.next)
    BY <1>1, <1>4 DEF Clearing
  <2> QED BY <1>1, <1>2, <2>1, <2>2, <2>3 DEF Clearing
<1>6. \A g \in Files \ {op.file} : Kept(ram', L, index, contents, g)
  BY <1>4, FitTypes DEF Kept
<1> QED BY <1>2, <1>4, <1>5, <1>6, FitTypes DEF NextFits, Fit

LEMMA Zeroes ==
    ASSUME NEW L, NowFits(L), R!ZeroLength \/ R!ZeroPayload
    PROVE  NextFits(L)
<1>1. op.pc \in {"zero", "zero_payload"} /\ UNCHANGED <<index, contents>>
  BY DEF R!ZeroLength, R!ZeroPayload
<1>2. op.old \in 1 .. R!Head
  <2>1. Clearing(ram, L, index, op, contents)
    BY <1>1, StageOf DEF NowFits
  <2> QED BY <2>1, RecordNumbers DEF Clearing
<1>3. CASE R!ZeroLength
  <2>1. ram' = [ram EXCEPT ![op.old].len = 0] /\ op' = [op EXCEPT !.pc = "zero_payload"]
    BY <1>3 DEF R!ZeroLength, R!Step
  <2>2. ram' \in [1 .. R!Head -> R!Records] /\ \A u \in 1 .. R!Head : u # op.old => ram'[u] = ram[u]
    BY <1>2, <2>1, FitTypes, OneField
  <2> QED BY <1>1, <2>1, <2>2, ClearsRecord
<1>4. CASE R!ZeroPayload
  <2>1. ram' = [ram EXCEPT ![op.old].val = R!Zero] /\ op' = [op EXCEPT !.pc = "mend"]
    BY <1>4 DEF R!ZeroPayload, R!Step
  <2>2. ram' \in [1 .. R!Head -> R!Records] /\ \A u \in 1 .. R!Head : u # op.old => ram'[u] = ram[u]
    BY <1>2, <2>1, FitTypes, OneField
  <2> QED BY <1>1, <2>1, <2>2, ClearsRecord
<1> QED BY <1>3, <1>4

\* A new record that was never linked need not be unlinked.
LEMMA ClearStepMayFail ==
    ASSUME NEW L, NowFits(L), ~broken', R!ClearStepFails
    PROVE  NextFits(L)
<1>1. UNCHANGED <<ram, index, contents>> /\ op.pc # "mend" /\ (op.pc = "unlink" => op.then = "fail")
  BY DEF R!ClearStepFails, R!Unpublished
<1>2. CASE op.pc = "unlink" /\ op' = [op EXCEPT !.pc = "zero"]
  <2>1. Clearing(ram, L, index, op, contents)
    BY <1>1, <1>2, StageOf DEF NowFits, Unlinking
  <2>2. /\ op' \in Operations /\ op'.pc = "zero" /\ op'.file = op.file /\ op'.len = op.len /\ op'.val = op.val
        /\ op'.new = op.new /\ op'.base = op.base /\ op'.next = op.next /\ op'.old = op.old /\ op'.then = op.then
    BY <1>2, FitTypes DEF Operations
  <2>3. Clearing(ram, L, index, op', contents)
    BY <1>1, <1>2, <2>1, <2>2 DEF Clearing
  <2> QED BY <1>1, <2>2, <2>3, FitTypes DEF NextFits, Fit
<1>3. CASE op.pc = "zero" /\ op' = [op EXCEPT !.pc = "zero_payload"]
  BY <1>1, <1>3, FitTypes, ClearsRecord
<1> QED BY <1>1, <1>2, <1>3 DEF R!ClearStepFails

LEMMA MendsBack ==
    ASSUME NEW L, NowFits(L), R!MendBack
    PROVE  NextFits(L)
<1> DEFINE x == op.next  b == op.base
<1>1. /\ op.pc = "mend" /\ op' = [op EXCEPT !.pc = "wipe"] /\ UNCHANGED <<index, contents>>
      /\ ram' = IF x = R!Null THEN ram ELSE [ram EXCEPT ![x].prev = b]
  BY DEF R!MendBack, R!Step
<1>2. Clearing(ram, L, index, op, contents)
  BY <1>1, StageOf DEF NowFits
<1>3. /\ op.file \in Files /\ op.old \in R!Unit \ L /\ b \in L \cup {R!Head} /\ Below(L, b, x) /\ BackTo(ram, L, x)
      /\ (IF op.then = "fail" THEN Kept(ram, L, index, contents, op.file) ELSE Bound(ram, L, op.file, op.new, Target(op)))
  BY <1>1, <1>2 DEF Clearing
<1>4. /\ op' \in Operations /\ op'.pc = "wipe" /\ op'.file = op.file /\ op'.len = op.len /\ op'.val = op.val /\ op'.new = op.new
      /\ op'.base = b /\ op'.next = x /\ op'.old = op.old /\ op'.then = op.then
  BY <1>1, FitTypes DEF Operations
<1>5. L \subseteq 1 .. R!Head /\ R!Head \in 1 .. R!Head /\ ListOf(ram, L) /\ R!Null \notin L /\ R!Head \notin L
  BY FitTypes, RecordNumbers
<1>6. /\ ListOf(ram', L) /\ BackTo(ram', L, R!Null)
      /\ \A g, c, d : Bound(ram, L, g, c, d) => Bound(ram', L, g, c, d)
  <2>1. CASE x = R!Null
    BY <1>1, <1>3, <1>5, <2>1
  <2>2. CASE x # R!Null
    <3>1. x \in L /\ x < b /\ \A c \in L : c < b => c <= x
      BY <1>3, <2>2 DEF Below
    <3>2. ram' \in [1 .. R!Head -> R!Records] /\ (\A u \in 1 .. R!Head : u # x => ram'[u] = ram[u]) /\ ram'[x] = [ram[x] EXCEPT !.prev = b]
      <4>1. x \in 1 .. R!Head /\ b \in 0 .. R!Head
        BY <1>3, <1>5, <3>1, RecordRanges
      <4> QED BY <1>1, <2>2, <4>1, FitTypes, OneField
    <3>3. ram[x] \in R!Records
      BY <1>5, <3>1, FitTypes
    <3>4. ram'[x].prev = b /\ ram'[x].next = ram[x].next /\ ram'[x].fid = ram[x].fid /\ ram'[x].len = ram[x].len /\ ram'[x].val = ram[x].val
      BY <3>2, <3>3 DEF R!Records
    <3>5. \A c \in L \cup {R!Head} : c # x => ram'[c] = ram[c]
      BY <1>5, <3>2
    <3>6. \A c \in L : /\ ram'[c].next = ram[c].next /\ ram'[c].fid = ram[c].fid /\ ram'[c].len = ram[c].len
                       /\ ram'[c].val = ram[c].val /\ ram'[c].prev > c
      <4> SUFFICES ASSUME NEW c \in L
                   PROVE  /\ ram'[c].next = ram[c].next /\ ram'[c].fid = ram[c].fid /\ ram'[c].len = ram[c].len
                          /\ ram'[c].val = ram[c].val /\ ram'[c].prev > c
        OBVIOUS
      <4>1. CASE c = x
        <5>1. b > x
          BY <3>1, <1>3, <1>5
        <5> QED BY <3>4, <4>1, <5>1
      <4>2. CASE c # x
        BY <3>5, <4>2, <1>5 DEF ListOf
      <4> QED BY <4>1, <4>2
    <3>7. ListOf(ram', L) /\ \A g, c, d : Bound(ram, L, g, c, d) => Bound(ram', L, g, c, d)
      <4>1. ram'[R!Head].next = ram[R!Head].next
        BY <1>5, <3>1, <3>5
      <4> QED BY <1>5, <3>2, <3>6, <4>1, SameList
    <3>8. Above(L, x, b)
      <4> SUFFICES ASSUME NEW c \in L, c > x PROVE b <= c
        BY <1>3, <3>1, <1>5 DEF Above
      <4>1. c \in Nat /\ x \in Nat /\ b \in Nat
        BY <1>3, <1>5, <3>1, RecordRanges
      <4> QED BY <3>1, <4>1
    <3>9. BackTo(ram', L, R!Null)
      BY <1>3, <3>4, <3>5, <3>8 DEF BackTo
    <3> QED BY <3>7, <3>9
  <2> QED BY <2>1, <2>2
<1>7. \A g \in Files \ {op.file} : Kept(ram', L, index, contents, g)
  BY <1>6, FitTypes DEF Kept
<1>8. Clearing(ram', L, index, op', contents)
  <2>1. Target(op') = Target(op)
    BY <1>4 DEF Target
  <2> QED BY <1>3, <1>4, <1>6, <2>1 DEF Clearing, Kept
<1> QED BY <1>1, <1>4, <1>6, <1>7, <1>8, FitTypes DEF NextFits, Fit

\* What ends an operation binds its file to the record that is left.
LEMMA Finishes ==
    ASSUME NEW L, NowFits(L), op.file \in Files, R!Finish,
           ListOf(ram', L), BackTo(ram', L, R!Null),
           \A f, b, c : Bound(ram, L, f, b, c) => Bound(ram', L, f, b, c),
           IF op.then = "fail" THEN Kept(ram, L, index, contents, op.file) ELSE Bound(ram, L, op.file, op.new, Target(op))
    PROVE  NextFits(L)
<1> DEFINE f == op.file
<1>1. op' = R!Idle /\ R!Idle \in Operations /\ R!Idle.file = NoFile
  BY RecordNumbers DEF R!Finish, Operations, R!Idle
<1>2. Resting(ram', L, index', op', contents')
  BY <1>1 DEF Resting
<1>3. CASE op.then = "fail"
  <2>1. UNCHANGED <<index, contents>>
    BY <1>3 DEF R!Finish
  <2>2. \A g \in Files : Kept(ram', L, index, contents, g)
    BY <1>3, FitTypes DEF Kept
  <2> QED BY <1>1, <1>2, <2>1, <2>2, FitTypes DEF NextFits, Fit
<1>4. CASE op.then # "fail"
  <2>0. op.then \notin {"fail", "overrun"}
    BY <1>4, FitTypes DEF Operations
  <2>1. index' = [index EXCEPT ![f] = op.new] /\ contents' = [contents EXCEPT ![f] = Target(op)]
    BY <2>0 DEF R!Finish, R!Remember, NowFits, Target
  <2>2. op.new \in 0 .. Units
    BY FitTypes DEF Operations
  <2>3. index' \in [Files -> 0 .. Units] /\ DOMAIN contents' = Files
    BY <2>1, <2>2, FitTypes
  <2>4. ASSUME NEW g \in Files PROVE Kept(ram', L, index', contents', g)
    <3>1. CASE g = f
      <4>1. index'[g] = op.new /\ contents'[g] = Target(op)
        BY <2>1, <3>1, FitTypes
      <4>2. Bound(ram', L, f, op.new, Target(op))
        BY <1>4
      <4> QED BY <3>1, <4>1, <4>2 DEF Kept
    <3>2. CASE g # f
      <4>1. index'[g] = index[g] /\ contents'[g] = contents[g]
        BY <2>1, <3>2, FitTypes
      <4>2. Bound(ram, L, g, index[g], contents[g])
        BY <3>2, FitTypes DEF Kept
      <4> QED BY <4>1, <4>2 DEF Kept
    <3> QED BY <3>1, <3>2
  <2> QED BY <1>1, <1>2, <2>3, <2>4 DEF NextFits, Fit
<1> QED BY <1>3, <1>4

\* What the end of a clearing makes of the links of the cleared record does not matter.
LEMMA WipesLinks ==
    ASSUME NEW L, NowFits(L), R!WipeLinks \/ R!WipeFails
    PROVE  NextFits(L)
<1> DEFINE a == op.old
<1>1. /\ op.pc = "wipe" /\ R!AfterClear
      /\ ram' \in {ram, [ram EXCEPT ![a].next = R!Null], [ram EXCEPT ![a].prev = R!Null],
                    [ram EXCEPT ![a].next = R!Null, ![a].prev = R!Null]}
  BY DEF R!WipeLinks, R!WipeFails
<1>2. Clearing(ram, L, index, op, contents)
  BY <1>1, StageOf DEF NowFits
<1>3. /\ op.file \in Files /\ a \in R!Unit \ L /\ BackTo(ram, L, R!Null)
      /\ (IF op.then = "fail" THEN Kept(ram, L, index, contents, op.file) ELSE Bound(ram, L, op.file, op.new, Target(op)))
  BY <1>1, <1>2 DEF Clearing
<1>4. a \in 1 .. R!Head /\ a \notin L \cup {R!Head} /\ R!Null \in 0 .. R!Head
  BY <1>3, RecordNumbers, RecordRanges
<1>5. ram' \in [1 .. R!Head -> R!Records] /\ \A u \in 1 .. R!Head : u # a => ram'[u] = ram[u]
  <2>1. ram \in [1 .. R!Head -> R!Records] /\ ram[a] \in R!Records
    BY <1>4, FitTypes
  <2>2. ASSUME NEW r \in R!Records, ram' = [ram EXCEPT ![a] = r]
        PROVE  ram' \in [1 .. R!Head -> R!Records] /\ \A u \in 1 .. R!Head : u # a => ram'[u] = ram[u]
    BY <1>4, <2>1, <2>2, OneUnit
  <2> DEFINE r1 == [ram[a] EXCEPT !.next = R!Null]
             r2 == [ram[a] EXCEPT !.prev = R!Null]
             r3 == [ram[a] EXCEPT !.next = R!Null, !.prev = R!Null]
  <2>3. r1 \in R!Records /\ r2 \in R!Records /\ r3 \in R!Records
    BY <1>4, <2>1 DEF R!Records
  <2>4. CASE ram' = ram
    BY <2>1, <2>4
  <2>5. CASE ram' = [ram EXCEPT ![a] = r1]
    BY <2>2, <2>3, <2>5
  <2>6. CASE ram' = [ram EXCEPT ![a] = r2]
    BY <2>2, <2>3, <2>6
  <2>7. CASE ram' = [ram EXCEPT ![a] = r3]
    BY <2>2, <2>3, <2>7
  <2>8. [ram EXCEPT ![a].next = R!Null, ![a].prev = R!Null] = [ram EXCEPT ![a] = r3]
    BY <1>4, <2>1
  <2> QED BY <1>1, <2>4, <2>5, <2>6, <2>7, <2>8
<1>6. /\ ListOf(ram', L) /\ BackTo(ram', L, R!Null)
      /\ \A f, b, c : Bound(ram, L, f, b, c) => Bound(ram', L, f, b, c)
  BY <1>3, <1>4, <1>5, FitTypes, Outside
<1>7. CASE op.then = "sync" /\ op' = [op EXCEPT !.pc = "final"] /\ UNCHANGED <<index, contents>>
  <2>1. op' \in Operations /\ op'.pc = "final" /\ op'.file = op.file /\ op'.new = op.new /\ op'.then = "sync" /\ op'.len = op.len /\ op'.val = op.val
    BY <1>7, FitTypes DEF Operations
  <2>2. Ending(ram', L, index, op', contents)
    BY <1>3, <1>6, <1>7, <2>1 DEF Ending, Target
  <2>3. \A g \in Files \ {op.file} : Kept(ram', L, index, contents, g)
    BY <1>6, FitTypes DEF Kept
  <2> QED BY <1>6, <1>7, <2>1, <2>2, <2>3, FitTypes DEF NextFits, Fit
<1>8. CASE R!Finish
  BY <1>3, <1>6, <1>8, Finishes
<1> QED BY <1>1, <1>7, <1>8 DEF R!AfterClear

LEMMA EndsWrite ==
    ASSUME NEW L, NowFits(L), R!FinalDone
    PROVE  NextFits(L)
<1>1. op.pc = "final" /\ R!Finish /\ ram' = ram
  BY DEF R!FinalDone
<1>2. Ending(ram, L, index, op, contents)
  BY <1>1, StageOf DEF NowFits
<1>3. op.then = "sync" /\ op.file \in Files /\ BackTo(ram, L, R!Null) /\ Bound(ram, L, op.file, op.new, Target(op))
  BY <1>2 DEF Ending
<1>4. ListOf(ram', L) /\ BackTo(ram', L, R!Null) /\ \A f, b, c : Bound(ram, L, f, b, c) => Bound(ram', L, f, b, c)
  BY <1>1, <1>3, FitTypes
<1> QED BY <1>1, <1>3, <1>4, Finishes

LEMMA Deletes ==
    ASSUME NEW L, NowFits(L), NEW f \in Files, R!Delete(f)
    PROVE  NextFits(L)
<1> DEFINE a == index[f]  b == ram[a].prev  x == ram[a].next
<1>1. /\ op = R!Idle /\ a # R!Null /\ UNCHANGED <<ram, index, contents>>
      /\ op' = [R!Idle EXCEPT !.pc = "unlink", !.file = f, !.old = a, !.base = b, !.next = x]
  BY DEF R!Delete
<1>2. BackTo(ram, L, R!Null) /\ \A g \in Files : Kept(ram, L, index, contents, g)
  BY <1>1, AtRestNow
<1>3. a \in L /\ {r \in L : ram[r].fid = f} = {a} /\ R!ContentAt(ram, a) = contents[f]
  BY <1>1, <1>2 DEF Kept, Bound
<1>4. Above(L, a, b) /\ Below(L, a, x)
  BY <1>1, <1>2, <1>3, FitTypes DEF BackTo, ListOf
<1>5. a \in 0 .. Units /\ b \in 0 .. R!Head /\ x \in 0 .. Units
  <2>1. L \subseteq 0 .. Units /\ R!Null \in 0 .. Units /\ R!Head \in 0 .. R!Head
    BY FitTypes, RecordNumbers
  <2>2. b \in L \cup {R!Head} /\ x \in L \cup {R!Null}
    BY <1>4 DEF Above, Below
  <2> QED BY <1>3, <2>1, <2>2, RecordRanges
<1> HIDE DEF a, b, x
<1>6. op' = [pc |-> "unlink", file |-> f, len |-> 0, val |-> R!Zero, new |-> R!Null, base |-> b, next |-> x,
             old |-> a, then |-> "done"]
  BY <1>1 DEF R!Idle
<1>7. op' \in Operations
  <2>1. 0 \in 0 .. Units /\ R!Null \in 0 .. Units
    BY RecordNumbers
  <2> QED BY <1>5, <1>6, <2>1 DEF Operations
<1>8. Unlinking(ram, L, index, op', contents)
  <2>1. R!ContentAt(ram, op'.new) = Target(op')
    BY <1>6 DEF R!ContentAt, R!NoContent, Target
  <2>2. /\ op'.pc = "unlink" /\ op'.then = "done" /\ op'.file = f /\ op'.old = a /\ op'.base = b /\ op'.next = x
        /\ op'.new = R!Null
    BY <1>6
  <2>3. {r \in L : ram[r].fid = f} = {a} \cup (IF op'.new = R!Null THEN {} ELSE {op'.new})
    BY <1>3, <2>2
  <2> QED BY <1>1, <1>2, <1>3, <1>4, <2>1, <2>2, <2>3 DEF Unlinking
<1>9. \A g \in Files \ {f} : Kept(ram, L, index, contents, g)
  BY <1>2
<1> QED BY <1>1, <1>6, <1>7, <1>8, <1>9, FitTypes DEF NextFits, Fit

-----------------------------------------------------------------------------
(* Records: the theorems *)

\* A step of core 1 keeps the list.
Core1Step ==
    \/ \E f \in Files, n \in Lens, v \in Vals : R!PutInPlace(f, n, v) \/ R!Allocate(f, n, v)
    \/ \E f \in Files, v \in Vals : R!PutOffset(f, v)
    \/ \E f \in Files, n \in Lens : R!AllocateFails(f, n)
    \/ \E f \in Files : R!Delete(f)
    \/ R!WriteLength \/ R!WritePayload
    \/ R!LinkBack \/ R!FillRecord \/ R!SyncDone \/ R!SyncTimeout \/ R!Publish
    \/ R!Unlink \/ R!ZeroLength \/ R!ZeroPayload \/ R!MendBack \/ R!WipeLinks \/ R!FinalDone
    \/ R!LengthFails \/ R!PayloadFails \/ R!LinkBackFails \/ R!HeaderFails \/ R!FillFails \/ R!PublishFails
    \/ R!ClearStepFails \/ R!Overrun \/ R!WipeFails

LEMMA Core1Keeps ==
    ASSUME NEW L, NowFits(L), Core1Step, ~broken'
    PROVE  \E K : NextFits(K)
<1>1. CASE \E f \in Files, n \in Lens, v \in Vals : R!PutInPlace(f, n, v) \/ R!Allocate(f, n, v)
  BY <1>1, PutsInPlace, AllocatesRecord
<1>2. CASE \E f \in Files : R!Delete(f)
  BY <1>2, Deletes
<1>3. CASE R!WriteLength
  BY <1>3, WritesLength
<1>4. CASE R!WritePayload
  BY <1>4, WritesPayload
<1>5. CASE R!LinkBack
  BY <1>5, LinksBack
<1>6. CASE R!FillRecord
  BY <1>6, FillsRecord
<1>7. CASE R!SyncDone
  BY <1>7, SyncsDone
<1>8. CASE R!SyncTimeout \/ R!HeaderFails \/ R!FillFails \/ R!PublishFails
  BY <1>8, PlacingFails
<1>9. CASE R!Publish
  BY <1>9, LinksRecord
<1>10. CASE R!Unlink
  BY <1>10, Unlinks
<1>11. CASE R!ZeroLength \/ R!ZeroPayload
  BY <1>11, Zeroes
<1>12. CASE R!MendBack
  BY <1>12, MendsBack
<1>13. CASE R!WipeLinks \/ R!WipeFails
  BY <1>13, WipesLinks
<1>14. CASE R!FinalDone
  BY <1>14, EndsWrite
<1>15. CASE \E f \in Files, v \in Vals : R!PutOffset(f, v)
  BY <1>15, PutsOffset
<1>16. CASE \E f \in Files, n \in Lens : R!AllocateFails(f, n)
  BY <1>16, AllocationFails
<1>17. CASE R!LengthFails \/ R!PayloadFails
  BY <1>17, OverwriteFails
<1>18. CASE R!LinkBackFails
  BY <1>18, LinkBackMayFail
<1>19. CASE R!ClearStepFails
  BY <1>19, ClearStepMayFail
<1>20. CASE R!Overrun
  <2>1. op.then = "overrun"
    BY <1>20 DEF R!Overrun
  <2> QED BY <2>1, FitTypes DEF Operations
<1> QED BY <1>1, <1>2, <1>3, <1>4, <1>5, <1>6, <1>7, <1>8, <1>9, <1>10, <1>11, <1>12, <1>13, <1>14,
           <1>15, <1>16, <1>17, <1>18, <1>19, <1>20 DEF Core1Step

LEMMA Core1Frame ==
    ASSUME Core1Step \/ R!Commit \/ UNCHANGED R!vars
    PROVE  UNCHANGED <<crashes, flash, saved>> /\ (broken => broken')
<1>1. CASE \E f \in Files, n \in Lens, v \in Vals : R!PutInPlace(f, n, v) \/ R!Allocate(f, n, v)
  BY <1>1 DEF R!PutInPlace, R!Allocate
<1>2. CASE \E f \in Files : R!Delete(f)
  BY <1>2 DEF R!Delete
<1>3. CASE R!WriteLength \/ R!WritePayload \/ R!LinkBack \/ R!FillRecord \/ R!SyncDone \/ R!SyncTimeout
  BY <1>3 DEF R!WriteLength, R!WritePayload, R!LinkBack, R!FillRecord, R!SyncDone, R!SyncTimeout
<1>4. CASE R!Publish \/ R!Unlink \/ R!ZeroLength \/ R!ZeroPayload \/ R!MendBack
  BY <1>4 DEF R!Publish, R!Unlink, R!ZeroLength, R!ZeroPayload, R!MendBack
<1>5. CASE R!WipeLinks \/ R!FinalDone \/ R!WipeFails
  BY <1>5 DEF R!WipeLinks, R!FinalDone, R!WipeFails
<1>6. CASE R!Commit \/ UNCHANGED R!vars
  BY <1>6 DEF R!Commit, R!vars
<1>7. CASE \E f \in Files, v \in Vals : R!PutOffset(f, v)
  BY <1>7 DEF R!PutOffset
<1>8. CASE \E f \in Files, n \in Lens : R!AllocateFails(f, n)
  BY <1>8 DEF R!AllocateFails
<1>9. CASE R!LengthFails \/ R!PayloadFails \/ R!LinkBackFails \/ R!FillFails \/ R!PublishFails
  BY <1>9 DEF R!LengthFails, R!PayloadFails, R!LinkBackFails, R!FillFails, R!PublishFails
<1>10. CASE R!HeaderFails
  BY <1>10 DEF R!HeaderFails
<1>11. CASE R!ClearStepFails
  BY <1>11 DEF R!ClearStepFails
<1>12. CASE R!Overrun
  BY <1>12 DEF R!Overrun
<1> QED BY <1>1, <1>2, <1>3, <1>4, <1>5, <1>6, <1>7, <1>8, <1>9, <1>10, <1>11, <1>12 DEF Core1Step

LEMMA RecordsInit == R!Init => RecordsInv
<1> SUFFICES ASSUME R!Init PROVE RecordsInv
  OBVIOUS
<1>1. /\ ram = [u \in 1 .. R!Head |-> R!NoRecord] /\ flash = ram /\ index = [f \in Files |-> R!Null] /\ op = R!Idle
      /\ contents = [f \in Files |-> R!NoContent] /\ saved = [f \in Files |-> {R!NoContent}]
  BY DEF R!Init, R!NoContents, R!NothingSaved
<1>2. R!NoRecord \in R!Records /\ R!NoRecord.next = R!Null
  BY RecordNumbers, RecordRanges DEF R!Records, R!NoRecord
<1>3. ListOf(ram, {})
  <2>1. ram \in [1 .. R!Head -> R!Records] /\ ram[R!Head].next = R!Null
    BY <1>1, <1>2, RecordNumbers
  <2>2. Below({}, R!Head, R!Null)
    BY DEF Below
  <2> QED BY <2>1, <2>2 DEF ListOf
<1>4. R!Idle \in Operations /\ R!Idle.file = NoFile /\ R!Idle.len = 0 /\ R!Idle.val = R!Zero
  BY RecordNumbers DEF Operations, R!Idle
<1>5. index \in [Files -> 0 .. Units] /\ DOMAIN contents = Files
  BY <1>1, RecordNumbers
<1>6. \A f \in Files : Kept(ram, {}, index, contents, f)
  BY <1>1 DEF Kept, Bound, R!ContentAt
<1>7. Resting(ram, {}, index, op, contents)
  BY <1>1 DEF Resting, BackTo
<1>8. Fit(ram, {}, index, op, contents)
  BY <1>1, <1>3, <1>4, <1>5, <1>6, <1>7 DEF Fit
<1>9. crashes = 0
  BY DEF R!Init
<1>10. saved = [f \in Files |-> {contents[f]} \cup (IF f = op.file THEN {R!Content(op.len, op.val)} ELSE {})]
  BY <1>1, <1>4, RecordNumbers
<1>11. Recoverable(flash, saved)
  <2>1. flash = ram
    BY <1>1
  <2>2. PICK L : Fit(ram, L, index, op, contents)
    BY <1>8
  <2>3. \A f \in Files : FoundAs(ram, f, saved[f])
    <3> SUFFICES ASSUME NEW f \in Files PROVE FoundAs(ram, f, saved[f])
      OBVIOUS
    <3>1. FoundAs(ram, f, {contents[f]} \cup (IF f = op.file THEN {Target(op)} ELSE {}))
      BY <2>2, DrainFound
    <3> QED BY <1>10, <3>1 DEF Target
  <2> QED BY <2>1, <2>2, <2>3, ListSound DEF Recoverable, Fit
<1> QED BY <1>8, <1>9, <1>11 DEF RecordsInv

LEMMA RecordsNext == RecordsInv /\ [R!Next]_R!vars => RecordsInv'
<1> SUFFICES ASSUME RecordsInv, [R!Next]_R!vars PROVE RecordsInv'
  OBVIOUS
<1>1. ASSUME Core1Step \/ R!Commit \/ UNCHANGED R!vars, R!FirstLife' PROVE RecordsInv'
  <2>1. UNCHANGED <<crashes, flash, saved>> /\ (broken => broken')
    BY <1>1, Core1Frame
  <2>0. R!FirstLife /\ ~broken'
    BY <1>1, <2>1 DEF R!FirstLife
  <2>2. PICK L : NowFits(L)
    BY <2>0 DEF RecordsInv, NowFits
  <2>3. CASE Core1Step
    <3>1. \E K : Fit(ram', K, index', op', contents')
      BY <2>0, <2>2, <2>3, Core1Keeps DEF NextFits
    <3>2. Recoverable(flash', saved') /\ crashes' \in Nat
      BY <2>0, <2>1 DEF RecordsInv
    <3> QED BY <3>1, <3>2 DEF RecordsInv
  <2>4. CASE R!Commit \/ UNCHANGED R!vars
    <3>1. UNCHANGED <<ram, flash, index, op, contents, saved>>
      BY <2>4 DEF R!Commit, R!vars
    <3> QED BY <2>0, <2>1, <3>1 DEF RecordsInv
  <2> QED BY <1>1, <2>3, <2>4
<1>2. ASSUME R!Drain, R!FirstLife' PROVE RecordsInv'
  <2>1. /\ R!FirstLife /\ flash' = ram /\ UNCHANGED <<ram, index, op, contents, crashes>>
        /\ saved' = [f \in Files |-> {contents[f]} \cup (IF f = op.file THEN {R!Content(op.len, op.val)} ELSE {})]
    BY <1>2 DEF R!Drain, R!FirstLife
  <2>2. PICK L : Fit(ram, L, index, op, contents)
    BY <2>1 DEF RecordsInv
  <2>3. Recoverable(flash', saved')
    BY <2>1, <2>2, DrainRecoverable
  <2> QED BY <2>1, <2>2, <2>3 DEF RecordsInv
<1>3. ASSUME R!Crash \/ R!FinalTimeout \/ R!ZeroFails PROVE RecordsInv'
  <2>1. crashes \in Nat /\ (crashes' = crashes + 1 \/ (crashes' = crashes /\ broken'))
    BY <1>3 DEF RecordsInv, R!Crash, R!FinalTimeout, R!ZeroFails
  <2>2. ~R!FirstLife' /\ crashes' \in Nat
    BY <2>1 DEF R!FirstLife
  <2> QED BY <2>2 DEF RecordsInv
<1>4. ASSUME Core1Step \/ R!Commit \/ UNCHANGED R!vars, ~R!FirstLife' PROVE RecordsInv'
  <2>1. UNCHANGED crashes
    BY <1>4, Core1Frame
  <2> QED BY <1>4, <2>1 DEF RecordsInv
<1>5. ASSUME R!Drain, ~R!FirstLife' PROVE RecordsInv'
  BY <1>5 DEF R!Drain, RecordsInv
<1> QED BY <1>1, <1>2, <1>3, <1>4, <1>5 DEF R!Next, Core1Step

LEMMA RecordsMirrored == ASSUME RecordsInv PROVE R!ListMirrored
<1> SUFFICES ASSUME R!FirstLife, op = R!Idle
             PROVE  /\ \A b \in R!Linked(ram) : ram[b].next # R!Null => ram[ram[b].next].prev = b
                    /\ index = R!Indexed(ram)
  BY DEF R!ListMirrored
<1>1. PICK L : NowFits(L)
  BY DEF RecordsInv, NowFits
<1>2. BackTo(ram, L, R!Null) /\ \A f \in Files : Kept(ram, L, index, contents, f)
  BY <1>1, AtRestNow
<1>3. ListOf(ram, L) /\ index \in [Files -> 0 .. Units] /\ R!Linked(ram) = L \cup {R!Head}
  BY <1>1, FitTypes, LinkedIs
<1>4. ASSUME NEW b \in L \cup {R!Head}, ram[b].next # R!Null PROVE ram[ram[b].next].prev = b
  <2> DEFINE x == ram[b].next  p == ram[x].prev
  <2>1. x \in L /\ x < b /\ \A c \in L : c < b => c <= x
    BY <1>3, <1>4 DEF ListOf, Below
  <2>2. p \in L \cup {R!Head} /\ p > x /\ \A c \in L : c > x => p <= c
    BY <1>2, <1>4, <2>1 DEF BackTo, Above
  <2>3. x \in Nat /\ p \in Nat /\ b \in Nat /\ p <= R!Head /\ b <= R!Head /\ R!Head \in Nat
    BY <1>3, <2>1, <2>2, ListTypes
  <2>4. p <= b
    BY <2>1, <2>2, <2>3
  <2>5. ~(p < b)
    BY <2>1, <2>2, <2>3
  <2> HIDE DEF p, x
  <2>6. p = b
    BY <2>3, <2>4, <2>5
  <2> QED BY <2>6 DEF p, x
<1>5. index = R!Indexed(ram)
  <2>1. \A f \in Files : R!Indexed(ram)[f] = index[f]
    <3> SUFFICES ASSUME NEW f \in Files PROVE R!Indexed(ram)[f] = index[f]
      OBVIOUS
    <3>1. Bound(ram, L, f, index[f], contents[f])
      BY <1>2 DEF Kept
    <3> QED BY <1>3, <3>1, BoundFound
  <2>2. R!Indexed(ram) = [f \in Files |-> R!Indexed(ram)[f]] /\ index = [f \in Files |-> index[f]]
    BY <1>3 DEF R!Indexed
  <2> QED BY <2>1, <2>2
<1> QED BY <1>3, <1>4, <1>5

LEMMA RecordsInvariant == RecordsSpec => []RecordsInv
<1>1. RecordsSpec => R!Init /\ [][R!Next]_R!vars
  BY DEF RecordsSpec, R!Spec
<1> QED BY <1>1, RecordsInit, RecordsNext, PTL

LEMMA SameCount == \A S : R!Cardinality(S) = Cardinality(S)
BY Zenon DEF R!Cardinality, Cardinality

\* Whatever the files hold, whichever steps gave up and were undone, wherever the power first fails: the
\* scan accepts every record, no file is harmed but the one being written, and no two records overlap;
\* between operations the links mirror each other and the index is that of a scan. It ends, with
\* FirstLife, at a failure that the code passes over (flash_clear_file of a published record, the last
\* sync of a large one, a header over a stale length).
THEOREM OthersUnharmed == RecordsSpec => [](R!OtherFilesIntact /\ R!ListMirrored /\ R!NoOverlap)
<1>1. RecordsInv => R!OtherFilesIntact
  BY SameCount DEF RecordsInv, Recoverable, FoundAs, R!OtherFilesIntact
<1>2. RecordsInv => R!NoOverlap
  <2> SUFFICES ASSUME RecordsInv, R!FirstLife PROVE R!NeverOverlap(ram) /\ R!NeverOverlap(flash)
    BY DEF R!NoOverlap
  <2>1. PICK L : Fit(ram, L, index, op, contents)
    BY DEF RecordsInv
  <2>2. R!NeverOverlap(ram)
    BY <2>1, ListSound DEF Fit
  <2> QED BY <2>2 DEF RecordsInv, Recoverable
<1>3. RecordsInv => R!OtherFilesIntact /\ R!ListMirrored /\ R!NoOverlap
  BY <1>1, <1>2, RecordsMirrored
<1> QED BY <1>3, RecordsInvariant, PTL

\* With one payload, so that a write in place changes the length only, the file being written is
\* found with its content before or after the write.
THEOREM RecordsAreSafe ==
    ASSUME \A v, w \in Vals : v = w
    PROVE  RecordsSpec => []RecordsSafe
<1>1. RecordsInv => R!FilesAtomic
  BY DEF RecordsInv, Recoverable, FoundAs, R!FilesAtomic
<1>2. RecordsInv /\ (R!OtherFilesIntact /\ R!ListMirrored /\ R!NoOverlap) => RecordsSafe
  BY <1>1 DEF RecordsSafe
<1> QED BY <1>2, RecordsInvariant, OthersUnharmed, PTL
=============================================================================
