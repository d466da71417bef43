---------------------------- MODULE FidoServices ----------------------------
(***************************************************************************)
(* Two services of the FIDO applet that keep state between commands: the   *)
(* audit journal and the transfer of the large-blob array.                 *)
(*                                                                         *)
(* The journal is one file: the entries that are still kept, in a ring of  *)
(* AUDIT_SLOTS slots, and the epoch, a hash over those that were dropped.  *)
(* A checkpoint signs the head of the chain, that is the hash over all     *)
(* entries. A hash over a list of entries is modelled by the list.         *)
(* Every change of the journal waits for the flash; a change of the        *)
(* large-blob file does not.                                               *)
(***************************************************************************)
EXTENDS Integers, Sequences, FiniteSets, SequencesExt

CONSTANTS
    AuditSlots,    \* entries the ring keeps
    MaxEvents,     \* how many events are followed
    MaxMishaps,    \* how many failed writes and power losses are followed
    Blobs,         \* the arrays that clients write
    Fragments      \* fragments of an array

VARIABLES
    cache,      \* journal, switch and large-blob file as the firmware sees them
    flash,      \* ... as a power loss would leave them
    booted,     \* boot_logged: this session has its boot entry
    op,         \* what the command still does to the journal
    lba,        \* the transfer in progress
    hist        \* history and bounds

\* There is room for an entry and an array has a fragment.
ConstantTypes == AuditSlots \in Nat \ {0} /\ Fragments \in Nat \ {0}

vars == <<cache, flash, booted, op, lba, hist>>

-----------------------------------------------------------------------------
(* State *)

\* An entry: the event and how often it was repeated
Entry(e) == [ev |-> e, n |-> 0]

\* epoch: the dropped entries; ring: the kept ones, next - start of them
NoJournal == [epoch |-> <<>>, ring |-> <<>>]
NoTransfer == [len |-> 0, buf |-> <<>>]
NoBlob == <<>>

Init ==
    /\ cache = [jour |-> NoJournal, on |-> FALSE, blob |-> NoBlob]
    /\ flash = cache
    /\ booted = FALSE /\ op = <<>> /\ lba = NoTransfer
    /\ hist = [events |-> 0, mishaps |-> 0, signed |-> {}, kept |-> 0, lost |-> FALSE, failed |-> FALSE]

\* The chain a checkpoint signs: head
Chain(j) == j.epoch \o j.ring
Events(s) == [i \in DOMAIN s |-> s[i].ev]

-----------------------------------------------------------------------------
(* The journal *)

\* Mutant: the entry that makes room is not folded into the epoch.
AppendOne_NoFold(j, e) ==
    IF Len(j.ring) = AuditSlots THEN [j EXCEPT !.ring = Append(Tail(@), Entry(e))]
    ELSE [j EXCEPT !.ring = Append(@, Entry(e))]

\* append_one: a full ring gives its oldest entry to the epoch.
AppendOne(j, e) ==
    IF Len(j.ring) = AuditSlots
    THEN [epoch |-> Append(j.epoch, Head(j.ring)), ring |-> Append(Tail(j.ring), Entry(e))]
    ELSE [j EXCEPT !.ring = Append(@, Entry(e))]

\* The kept entry that a repeated event is added to: for a configuration write the last one only,
\* for an assertion without user presence the youngest assertion that is kept
Repeats(j, e) ==
    LET same == {i \in DOMAIN j.ring : j.ring[i].ev = e} IN
    CASE e = "config" -> same \cap {Len(j.ring)}
      [] e = "silent" -> {i \in DOMAIN j.ring : j.ring[i].ev \in {"silent", "assert"}}
      [] OTHER -> {}

\* append: the first event of a session brings a boot entry along.
Appended(j, e) ==
    LET r == Repeats(j, e) IN
    IF ~booted THEN AppendOne(AppendOne(j, "boot"), e)
    ELSE IF r # {} THEN [j EXCEPT !.ring[Max(r)].n = @ + 1]
    ELSE AppendOne(j, e)

\* audit_scrub
Scrubbed(j) == [epoch |-> Chain(j), ring |-> <<>>]

\* put: the file is written, then everything is waited for. The write or the wait may fail.
Put(new, ok) ==
    /\ cache' = new
    /\ flash' = IF ok THEN new ELSE flash
    /\ hist' = [hist EXCEPT !.kept = IF ok THEN Len(Chain(new.jour)) ELSE @,
                            !.mishaps = IF ok THEN @ ELSE @ + 1, !.failed = @ \/ (~ok /\ Head(op).do # "erase")]

\* One step of what a command does to the journal: an event, the switch, the scrub of a reset; and
\* the erasing of the reset, which is not waited for (of its files, only the large-blob array is
\* here). An event that cannot be written is given up; any other step that fails ends the command.
Event(e) == [do |-> "event", ev |-> e]
Switch(on) == [do |-> "switch", ev |-> IF on THEN "on" ELSE "off"]
Scrub == [do |-> "scrub", ev |-> "reset"]
Erase == [do |-> "erase", ev |-> "reset"]

Target(s) ==
    CASE s.do = "event" -> IF cache.on THEN [cache EXCEPT !.jour = Appended(@, s.ev)] ELSE cache
      [] s.do = "switch" -> [cache EXCEPT !.on = (s.ev = "on")]
      [] s.do = "scrub" -> [cache EXCEPT !.jour = Scrubbed(@)]
      [] s.do = "erase" -> [cache EXCEPT !.blob = NoBlob]

JournalStep ==
    /\ op # <<>>
    /\ LET s == Head(op) IN
          /\ CASE Target(s) = cache -> UNCHANGED <<cache, flash, hist>>
               [] s.do = "erase" -> cache' = Target(s) /\ UNCHANGED <<flash, hist>>
               [] OTHER -> Put(Target(s), TRUE)
          /\ booted' = IF s.do = "event" /\ cache.on THEN TRUE ELSE booted
    /\ op' = Tail(op)
    /\ UNCHANGED lba

JournalFault ==
    /\ op # <<>> /\ hist.mishaps < MaxMishaps /\ Target(Head(op)) # cache
    /\ \E new \in {cache, Target(Head(op))} : Put(new, FALSE)
    /\ op' = IF Head(op).do = "event" THEN Tail(op) ELSE <<>>
    /\ UNCHANGED <<booted, lba>>

Begin(steps) ==
    /\ op = <<>> /\ hist.events < MaxEvents
    /\ op' = steps
    /\ UNCHANGED <<cache, flash, booted, lba>>

\* The commands of the applets report what they did; "silent" is an assertion without user presence,
\* "config" a change of the configuration.
Report(e) == Begin(<<Event(e)>>) /\ hist' = [hist EXCEPT !.events = @ + 1]

\* Mutant: the switch goes off before the event is written.
SwitchSteps_OffFirst(on) == <<Switch(on), Event(IF on THEN "on" ELSE "off")>>

\* Vendor command 14: the journal is switched on before and off after its event.
SwitchSteps(on) == IF on THEN <<Switch(TRUE), Event("on")>> ELSE <<Event("off"), Switch(FALSE)>>

SetEnabled(on) == Begin(SwitchSteps(on)) /\ hist' = [hist EXCEPT !.events = @ + 1]

\* Vendor command 8: the head is signed, then the checkpoint is an event of its own.
Checkpoint ==
    /\ Begin(<<Event("checkpoint")>>)
    /\ hist' = [hist EXCEPT !.events = @ + 1, !.signed = @ \cup {Chain(cache.jour)}]

\* authenticatorReset: scrubbed before anything is deleted, the event comes last. A transfer of the
\* large-blob array goes on.
ResetSteps == (IF cache.jour = NoJournal THEN <<>> ELSE <<Scrub>>) \o <<Erase, Event("reset")>>

ResetCommand == Begin(ResetSteps) /\ hist' = [hist EXCEPT !.events = @ + 1]

-----------------------------------------------------------------------------
(* The large-blob array *)

\* Mutant: the digest at the end of the array is not compared.
Intact_Any(buf) == TRUE

\* The digest fits: all fragments are of the same array.
Intact(buf) == \A i \in DOMAIN buf : buf[i] = buf[1]

\* A fragment with offset 0 starts a transfer even when it is not authorised.
Restarted(i) == IF i = 1 THEN [len |-> Fragments, buf |-> <<>>] ELSE lba

\* authenticatorLargeBlobs (set): fragment i of array b. The last one is checked and stored; an array
\* that fails the check stays where it is until a transfer starts over.
SetFragment(b, i, authorised) ==
    /\ op = <<>>
    /\ LET t == Restarted(i)
           accepted == authorised /\ i = Len(t.buf) + 1 /\ i <= t.len
           full == [t EXCEPT !.buf = Append(@, b)]
           done == accepted /\ i = t.len /\ Intact(full.buf) IN
          /\ lba' = IF done THEN NoTransfer ELSE IF accepted THEN full ELSE t
          /\ cache' = IF done THEN [cache EXCEPT !.blob = full.buf] ELSE cache
    /\ UNCHANGED <<flash, booted, op, hist>>

\* A transfer that is idle for 30 seconds is dropped.
Tick == lba.len > 0 /\ lba' = NoTransfer /\ UNCHANGED <<cache, flash, booted, op, hist>>

-----------------------------------------------------------------------------
(* The flash *)

Drain ==
    /\ flash # cache /\ hist.mishaps < MaxMishaps
    /\ flash' = cache
    /\ hist' = [hist EXCEPT !.kept = Len(Chain(cache.jour))]
    /\ UNCHANGED <<cache, booted, op, lba>>

PowerLoss ==
    /\ hist.mishaps < MaxMishaps
    /\ cache' = flash /\ booted' = FALSE /\ op' = <<>> /\ lba' = NoTransfer
    /\ hist' = [hist EXCEPT !.mishaps = @ + 1, !.lost = @ \/ cache.jour # flash.jour]
    /\ UNCHANGED flash

Next ==
    \/ JournalStep \/ JournalFault \/ Checkpoint \/ ResetCommand \/ Tick \/ Drain \/ PowerLoss
    \/ \E e \in {"assert", "silent", "config"} : Report(e)
    \/ \E on \in BOOLEAN : SetEnabled(on)
    \/ \E b \in Blobs, i \in 1..Fragments, a \in BOOLEAN : SetFragment(b, i, a)

Spec == Init /\ [][Next]_vars

-----------------------------------------------------------------------------
(* Properties *)

\* Whatever the ring dropped, a reset scrubbed or a power loss cut short: a head that was signed is
\* a prefix of the chain as it is now, and the chain on flash has every entry that was waited for.
\* Exempt: repeat counts (see below), and a journal that lost what was never waited for.
CheckpointsHold ==
    /\ \A s \in hist.signed : ~hist.lost => IsPrefix(Events(s), Events(Chain(cache.jour)))
    /\ Len(Chain(flash.jour)) >= hist.kept
    /\ IsPrefix(Events(Chain(flash.jour)), Events(Chain(cache.jour)))

\* ... with the repeat counts (violated: an assertion without user presence is added to an entry
\* that a checkpoint has signed already)
CheckpointsHoldExactly == \A s \in hist.signed : ~hist.lost => IsPrefix(s, Chain(cache.jour))

\* When events go unrecorded, the journal says so: it was switched off by an entry that is its last.
\* Exempt: after a write of the journal that failed.
GapsMarked ==
    ~hist.failed /\ ~flash.on /\ Chain(flash.jour) # <<>> => Last(Chain(flash.jour)).ev = "off"

\* Two clients that write the array at the same time, an unauthorised fragment, a timeout or a
\* power loss never leave a file made of two arrays.
BlobWhole ==
    \A f \in {cache.blob, flash.blob} : f = NoBlob \/ \E b \in Blobs : f = [i \in 1..Fragments |-> b]
===============================================================================
