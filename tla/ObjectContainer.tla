--------------------------- MODULE ObjectContainer ---------------------------
(***************************************************************************)
(* The object container store. A container keeps its objects in one record *)
(* file each and two manifest files, slots 0 and 1. A manifest lists the   *)
(* objects, the record of each and its generation, and carries a           *)
(* generation of its own; the valid manifest with the highest generation   *)
(* is current. An update writes the new records, then a manifest in the    *)
(* other slot, then the marker file that makes the applet see the          *)
(* container, and retires what is not needed any more.                     *)
(*                                                                         *)
(* Every applet brings a layout: where records go, what is retired,        *)
(* whether a failed update is rolled back. The records of the HSM get      *)
(* fresh ids; those of the others have one place per slot and object. The  *)
(* nonce of a record is its id and the generation of the object.           *)
(*                                                                         *)
(* Writes go to the cache; the cache may be written out between any two of *)
(* them (Drain), as one batch.                                             *)
(***************************************************************************)
EXTENDS Integers, Sequences, FiniteSets, SequencesExt

CONSTANTS
    Objects,       \* the objects of the container
    MaxOps,        \* how many operations are followed
    MaxMishaps,    \* how many failed writes and power losses are followed
    Layouts        \* the layouts that are checked

VARIABLES
    layout,     \* the layout of the container
    cache,      \* the files as the firmware sees them
    flash,      \* the files as a power loss would leave them
    op,         \* the operation in progress
    hist        \* history and bounds

vars == <<layout, cache, flash, op, hist>>

-----------------------------------------------------------------------------
(* State *)

ManifestSlots == {0, 1}

\* An entry of a manifest: the record of the object and its generation
Descriptor(r, g) == [rec |-> r, gen |-> g]

\* A record: its header has the generation of the object; ver stands for the payload
Record(g, v) == [gen |-> g, ver |-> v]

NoManifest == [gen |-> 0, objs |-> <<>>]

\* man: the manifests; rec: the records, by record id; mark: the marker; ids: the last record id
\* of the allocator (HSM)
Empty == [man |-> [s \in ManifestSlots |-> NoManifest], rec |-> <<>>, mark |-> FALSE, ids |-> 0]

\* made: the records the update has written; live: it writes over a record of the current manifest;
\* after: the content once the manifest is there
NoView == [st |-> "none", objs |-> <<>>]
Idle == [name |-> "idle", todo |-> <<>>, made |-> {}, live |-> FALSE, after |-> NoView]

Init ==
    /\ layout \in Layouts
    /\ cache = Empty /\ flash = Empty /\ op = Idle
    /\ hist = [ops |-> 0, mishaps |-> 0, ver |-> 0, now |-> NoView, seen |-> {NoView}, sealed |-> {},
               part |-> FALSE, torn |-> FALSE]

-----------------------------------------------------------------------------
(* Layouts *)

\* ids: record ids come from an allocator; back: a failed update is rolled back; marker: when the
\* marker is written; retires: the records looked at when an update retires; drops: the manifests
\* retired with them; sweeps: deactivation deletes every record. A record without allocator has one
\* place per slot and object.
ResidentLayout == [ids |-> FALSE, back |-> TRUE, marker |-> "once", retires |-> "all", drops |-> "other", sweeps |-> TRUE]
OathLayout == [ids |-> FALSE, back |-> FALSE, marker |-> "once", retires |-> "all", drops |-> "other", sweeps |-> TRUE]
OtpLayout == [ids |-> FALSE, back |-> FALSE, marker |-> "never", retires |-> "all", drops |-> "other", sweeps |-> FALSE]
OpenPgpLayout == [ids |-> FALSE, back |-> TRUE, marker |-> "synced", retires |-> "none", drops |-> "none", sweeps |-> FALSE]
HsmLayout == [ids |-> TRUE, back |-> TRUE, marker |-> "synced", retires |-> "target", drops |-> "none", sweeps |-> FALSE]
VaultLayout == [ids |-> FALSE, back |-> TRUE, marker |-> "always", retires |-> "valid", drops |-> "valid", sweeps |-> FALSE]

Layout ==
    CASE layout = "resident" -> ResidentLayout
      [] layout = "oath" -> OathLayout
      [] layout = "otp" -> OtpLayout
      [] layout = "openpgp" -> OpenPgpLayout
      [] layout = "hsm" -> HsmLayout
      [] layout = "vault" -> VaultLayout

\* The sets of objects one update writes. A resident credential is made whole and then updated object
\* by object; OATH and the OTP bank always write all; an OpenPGP key is stored with or without its
\* public part; HSM and vault write what the command touches.
ResidentUpdates(new) == IF new THEN {Objects} ELSE {{o} : o \in Objects}
OathUpdates(new) == {Objects}
OtpUpdates(new) == {Objects}
OpenPgpUpdates(new) == {Objects, {CHOOSE o \in Objects : TRUE}}
HsmUpdates(new) == SUBSET Objects \ {{}}
VaultUpdates(new) == SUBSET Objects \ {{}}

Updates(new) ==
    CASE layout = "resident" -> ResidentUpdates(new)
      [] layout = "oath" -> OathUpdates(new)
      [] layout = "otp" -> OtpUpdates(new)
      [] layout = "openpgp" -> OpenPgpUpdates(new)
      [] layout = "hsm" -> HsmUpdates(new)
      [] layout = "vault" -> VaultUpdates(new)

\* record_allocate: the k-th record of an update to slot t
Place(t, o, k) == IF Layout.ids THEN <<cache.ids + k, o>> ELSE <<t, o>>

-----------------------------------------------------------------------------
(* Loading *)

\* A manifest counts when its authentication tag is right, a record when its header names the
\* object and generation of the descriptor.
Authentic(c, s) == c.man[s] # NoManifest

HeaderFits(c, d) == d.rec \in DOMAIN c.rec /\ c.rec[d.rec].gen = d.gen

\* parse_slot
Valid(c, s) == Authentic(c, s) /\ \A o \in DOMAIN c.man[s].objs : HeaderFits(c, c.man[s].objs[o])

ValidSlots(c) == {s \in ManifestSlots : Valid(c, s)}

Broken(c) ==
    \/ ValidSlots(c) = {} /\ \E s \in ManifestSlots : Authentic(c, s)
    \/ ValidSlots(c) = ManifestSlots /\ c.man[0].gen = c.man[1].gen

Exists(c) == ValidSlots(c) # {} /\ ~Broken(c)

Current(c) == CHOOSE s \in ValidSlots(c) : \A t \in ValidSlots(c) : c.man[s].gen >= c.man[t].gen

References(m, r) == \E o \in DOMAIN m.objs : m.objs[o].rec = r

Unsealed(c, r) == c.rec[r].ver

\* What file_object_container_read gives for every object
View(c) ==
    IF Broken(c) THEN [st |-> "broken", objs |-> <<>>]
    ELSE IF ~Exists(c) THEN NoView
    ELSE LET m == c.man[Current(c)] IN [st |-> "ok", objs |-> [o \in DOMAIN m.objs |-> Unsealed(c, m.objs[o].rec)]]

-----------------------------------------------------------------------------
(* Writing *)

\* One step on the files; ph is the part of the operation it belongs to. A synced step waits until
\* everything is on flash.
Step(ph, f, at, v, sync) == [ph |-> ph, f |-> f, at |-> at, v |-> v, sync |-> sync]
NoRecord == Record(0, 0)
DelRec(ph, r) == Step(ph, "rec", r, NoRecord, FALSE)
DelMan(ph, s) == Step(ph, "man", s, NoManifest, FALSE)

Without(g, r) == [x \in DOMAIN g \ {r} |-> g[x]]
With(g, r, v) == [x \in DOMAIN g \cup {r} |-> IF x = r THEN v ELSE g[x]]

Applied(c, w) ==
    CASE w.f = "rec" -> [c EXCEPT !.rec = IF w.v = NoRecord THEN Without(@, w.at) ELSE With(@, w.at, w.v)]
      [] w.f = "man" -> [c EXCEPT !.man[w.at] = w.v]
      [] w.f = "mark" -> [c EXCEPT !.mark = w.v]
      [] w.f = "ids" -> [c EXCEPT !.ids = w.v]

Ended(todo) == IF todo = <<>> THEN Idle ELSE [op EXCEPT !.todo = todo]

\* The key of a record is derived from its id, the nonce is the id and the generation.
Sealed(w) == <<w.at, w.v.gen, w.v.ver>>

\* The content becomes the new one when the manifest is there, and when a deletion ends.
Counted(w) ==
    [hist EXCEPT !.now = IF (w.f = "man" /\ w.v # NoManifest) \/ (op.name = "delete" /\ Tail(op.todo) = <<>>)
                         THEN op.after ELSE @,
                 !.sealed = IF w.f = "rec" /\ w.v # NoRecord THEN @ \cup {Sealed(w)} ELSE @]

Write ==
    /\ op # Idle
    /\ LET w == Head(op.todo)
           rest == Ended(Tail(op.todo)) IN
          /\ cache' = Applied(cache, w)
          /\ flash' = IF w.sync THEN cache' ELSE flash
          /\ op' = IF rest # Idle /\ w.f = "rec" /\ w.v # NoRecord THEN [rest EXCEPT !.made = @ \cup {w.at}] ELSE rest
          /\ hist' = [Counted(w) EXCEPT !.part = IF w.sync THEN FALSE ELSE @]
    /\ UNCHANGED layout

\* A deletion takes the files away one by one; an update that writes over a live record has lost it.
Unsafe == op.name = "delete" \/ (op.live /\ op.todo # <<>>)

\* A step fails. Records and manifest: rolled back where the layout says so. Marker and deletion:
\* the operation ends. What is retired or rolled back: the result is not looked at.
AfterFault(w) ==
    LET made == SetToSeq(op.made) IN
    CASE w.ph = "retire" -> Ended(Tail(op.todo))
      [] w.ph = "update" /\ Layout.back /\ made # <<>> ->
            [op EXCEPT !.todo = [i \in DOMAIN made |-> DelRec("retire", made[i])], !.made = {}]
      [] OTHER -> Idle

Fault ==
    /\ op # Idle /\ hist.mishaps < MaxMishaps
    /\ op' = AfterFault(Head(op.todo))
    /\ hist' = [hist EXCEPT !.mishaps = @ + 1, !.torn = @ \/ (Unsafe /\ (op.name = "delete" \/ Head(op.todo).ph = "update"))]
    /\ UNCHANGED <<layout, cache, flash>>

Drain ==
    /\ flash # cache /\ hist.mishaps < MaxMishaps
    /\ flash' = cache
    /\ hist' = [hist EXCEPT !.part = Unsafe]
    /\ UNCHANGED <<layout, cache, op>>

PowerLoss ==
    /\ hist.mishaps < MaxMishaps
    /\ cache' = flash
    /\ op' = Idle
    /\ hist' = [hist EXCEPT !.mishaps = @ + 1, !.now = View(flash), !.torn = @ \/ hist.part, !.part = FALSE]
    /\ UNCHANGED <<layout, flash>>

Begin(name, todo, live, after) ==
    /\ op = Idle /\ hist.ops < MaxOps
    /\ op' = [name |-> name, todo |-> todo, made |-> {}, live |-> live, after |-> after]
    /\ hist' = [hist EXCEPT !.ops = @ + 1, !.ver = @ + 1, !.seen = @ \cup {after}]
    /\ UNCHANGED <<layout, cache, flash>>

-----------------------------------------------------------------------------
(* Update *)

NextGen(m, o) == IF o \in DOMAIN m.objs THEN m.objs[o].gen + 1 ELSE 1

\* Mutant: the id is handed out before the allocator is on flash.
Allocation_Late(k) == IF Layout.ids THEN <<Step("update", "ids", 0, cache.ids + k, FALSE)>> ELSE <<>>

\* The id is handed out once both copies of the allocator have it.
Allocation(k) == IF Layout.ids THEN <<Step("update", "ids", 0, cache.ids + k, TRUE)>> ELSE <<>>

\* replace_file: the old file is deleted, the new one made and filled.
RecordSteps(m, t, os) ==
    LET one(k) == LET r == Place(t, os[k], k) IN
                  Allocation(k)
                  \o (IF r \in DOMAIN cache.rec THEN <<DelRec("update", r)>> ELSE <<>>)
                  \o <<Step("update", "rec", r, Record(NextGen(m, os[k]), hist.ver + 1), FALSE)>>
    IN FlattenSeq([k \in 1..Len(os) |-> one(k)])

ManifestSteps(t, next) ==
    (IF cache.man[t] # NoManifest THEN <<DelMan("update", t)>> ELSE <<>>) \o <<Step("update", "man", t, next, FALSE)>>

\* activate
MarkerSteps ==
    CASE Layout.marker = "never" -> <<>>
      [] Layout.marker = "always" -> <<Step("mark", "mark", 0, FALSE, FALSE), Step("mark", "mark", 0, TRUE, FALSE)>>
      [] OTHER -> IF cache.mark THEN <<>> ELSE <<Step("mark", "mark", 0, TRUE, Layout.marker = "synced")>>

\* retire looks at every place of the container, at the records of the valid manifests, or at those
\* of the manifest that was overwritten.
Looked(t) ==
    CASE Layout.retires = "all" -> DOMAIN cache.rec
      [] Layout.retires = "valid" -> {r \in DOMAIN cache.rec : \E s \in ValidSlots(cache) : References(cache.man[s], r)}
      [] Layout.retires = "target" -> {r \in DOMAIN cache.rec : t \in ValidSlots(cache) /\ References(cache.man[t], r)}
      [] Layout.retires = "none" -> {}

\* Mutant: whatever the update has not written goes.
Retired_NotWritten(t, next) ==
    {r \in Looked(t) : r \notin {Place(t, o, 1) : o \in Objects}
                       /\ (Layout.retires = "target" => ~References(cache.man[1 - t], r))}

Retired(t, next) ==
    {r \in Looked(t) : ~References(next, r)
                       /\ (Layout.retires = "target" /\ Exists(cache) => ~References(cache.man[Current(cache)], r))}

Dropped(t) ==
    CASE Layout.drops = "other" -> cache.man[1 - t] # NoManifest
      [] Layout.drops = "valid" -> Valid(cache, 1 - t)
      [] Layout.drops = "none" -> FALSE

RetireSteps(t, next) ==
    LET recs == SetToSeq(Retired(t, next)) IN
    (IF Dropped(t) THEN <<DelMan("retire", 1 - t)>> ELSE <<>>)
    \o [i \in DOMAIN recs |-> DelRec("retire", recs[i])]

\* Mutant: the marker comes before the manifest.
UpdateSteps_MarkerFirst(recs, t, next) == recs \o MarkerSteps \o ManifestSteps(t, next) \o RetireSteps(t, next)

UpdateSteps(recs, t, next) == recs \o ManifestSteps(t, next) \o MarkerSteps \o RetireSteps(t, next)

\* file_object_container_update: an unreadable container is refused.
Update(W) ==
    /\ W \in Updates(~Exists(cache)) /\ ~Broken(cache)
    /\ LET m == IF Exists(cache) THEN cache.man[Current(cache)] ELSE NoManifest
           t == IF Exists(cache) THEN 1 - Current(cache) ELSE 0
           os == SetToSeq(W)
           Pos(o) == CHOOSE k \in DOMAIN os : os[k] = o
           desc == [o \in W |-> Descriptor(Place(t, o, Pos(o)), NextGen(m, o))]
           next == [gen |-> m.gen + 1, objs |-> [o \in W \cup DOMAIN m.objs |-> IF o \in W THEN desc[o] ELSE m.objs[o]]]
           old == View(cache).objs IN
          Begin("update", UpdateSteps(RecordSteps(m, t, os), t, next),
                \E o \in W : References(m, desc[o].rec),
                [st |-> "ok", objs |-> [o \in DOMAIN next.objs |-> IF o \in W THEN hist.ver + 1 ELSE old[o]]])

-----------------------------------------------------------------------------
(* Remove, delete, purge *)

\* file_object_container_remove: a manifest without the object; the last one stays.
RemoveObject(o) ==
    /\ layout \in {"hsm", "vault"} /\ Exists(cache)
    /\ LET m == cache.man[Current(cache)]
           t == 1 - Current(cache)
           next == [gen |-> m.gen + 1, objs |-> Without(m.objs, o)] IN
          /\ o \in DOMAIN m.objs /\ Cardinality(DOMAIN m.objs) > 1
          /\ Begin("remove", ManifestSteps(t, next) \o RetireSteps(t, next), FALSE,
                   [st |-> "ok", objs |-> Without(View(cache).objs, o)])

RecordsOf(s) ==
    LET m == cache.man[s]
        os == SetToSeq(DOMAIN m.objs) IN
    IF Valid(cache, s) THEN [i \in DOMAIN os |-> DelRec("delete", m.objs[os[i]].rec)] ELSE <<>>

\* deactivate: every record where the layout says so, then the marker
Deactivation ==
    LET left == SetToSeq(IF Layout.sweeps THEN DOMAIN cache.rec ELSE {}) IN
    [i \in DOMAIN left |-> DelRec("delete", left[i])]
    \o (IF cache.mark THEN <<Step("delete", "mark", 0, FALSE, FALSE)>> ELSE <<>>)

\* file_object_container_delete: slot by slot, records before their manifest
Delete ==
    /\ layout # "otp" /\ Exists(cache) /\ (Layout.sweeps => cache.mark)
    /\ LET slot(s) == RecordsOf(s) \o (IF cache.man[s] # NoManifest THEN <<DelMan("delete", s)>> ELSE <<>>) IN
          Begin("delete", slot(0) \o slot(1) \o Deactivation, FALSE, NoView)

\* oath_container_purge (RESET): manifests first, so that an unreadable container goes as well; the
\* result for a manifest is not looked at
Purge ==
    /\ layout = "oath" /\ cache.mark
    /\ Begin("delete", <<DelMan("retire", 0), DelMan("retire", 1)>> \o Deactivation, FALSE, NoView)

Next ==
    \/ Write \/ Fault \/ Drain \/ PowerLoss \/ Delete \/ Purge
    \/ \E W \in SUBSET Objects : Update(W)
    \/ \E o \in Objects : RemoveObject(o)

Spec == Init /\ [][Next]_vars

-----------------------------------------------------------------------------
(* Properties *)

\* What a power loss would leave is the content of one update, whole: never a mix of two, never
\* unreadable; and between operations the container reads as the last update left it, or as it was
\* before when that failed. Exempt: a deletion that was cut or failed half-way, and (resident,
\* OpenPGP, vault) an update that was cut or failed while it wrote over a live record.
Safe == ~hist.torn
Whole ==
    /\ Safe /\ ~hist.part => View(flash) \in hist.seen
    /\ Safe /\ op = Idle => View(cache) = hist.now
    /\ layout \in {"oath", "otp", "hsm"} => ~op.live

\* ... also when an update writes over a live record (violated)
WholeInPlace == op = Idle /\ ~hist.part /\ layout # "oath" => View(cache).st # "broken"

\* The applet is never shown a marker of a container it cannot read, with the same exemptions.
Marked == Safe /\ ~hist.part /\ flash.mark => View(flash).st = "ok"

\* No two records of the HSM are sealed with the same key and nonce, that is with the same record
\* id and generation: not when an update failed and was tried again, not after a power loss, not
\* when a key was deleted and made again.
Fresh(S) == \A x, y \in S : x[1] = y[1] /\ x[2] = y[2] => x = y
NonceOnce == layout = "hsm" => Fresh(hist.sealed)

\* ... in every layout (violated: a container that is deleted and made again starts over)
NonceOnceEverywhere == Fresh(hist.sealed)
===============================================================================
