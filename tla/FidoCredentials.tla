--------------------------- MODULE FidoCredentials ---------------------------
(***************************************************************************)
(* The FIDO credentials: the resident slots EF_CRED + i (a container, or a *)
(* file of older firmware counted by its relying party's EF_RP), the       *)
(* handles a host keeps, the sign counter, and the commands on them. A     *)
(* getAssertion with several matches leaves copies for getNextAssertion;   *)
(* credential management walks over relying parties and credentials.       *)
(* Whether a token stands behind "uv" is PinUvAuthToken's subject; left    *)
(* out is EF_DEV_STATE, a random value a host compares.                    *)
(***************************************************************************)
EXTENDS Integers, Sequences, FiniteSets, FiniteSetsExt, SequencesExt

CONSTANTS
    Slots,         \* 0 .. MAX_RESIDENT_CREDENTIALS - 1
    Rps, Users,    \* relying parties, user ids
    Protections,   \* the credProtect levels a host asks for
    MaxIds,        \* how many credentials are made
    MaxSigns,      \* how many assertions are followed
    MaxMishaps,    \* how many failed writes and power losses are followed
    MaxCommands,   \* how many changes of credentials, walks and clock settings are followed
    None

ASSUME ConstantTypes ==
    /\ IsFiniteSet(Slots) /\ Slots # {} /\ Slots = 0..(Cardinality(Slots) - 1)
    /\ Rps # {} /\ Users # {} /\ Protections # {} /\ Protections \subseteq 1..3
    /\ MaxIds \in Nat \ {0} /\ MaxSigns \in Nat /\ MaxMishaps \in Nat /\ MaxCommands \in Nat
    /\ None \notin Slots \cup Rps

VARIABLES
    cache,      \* the files as the firmware sees them
    flash,      \* the files as a power loss would leave them
    ram,        \* credsx and its cursor, the two walks, the clock
    op,         \* the handler in progress
    hist        \* history and bounds

vars == <<cache, flash, ram, op, hist>>

-----------------------------------------------------------------------------
(* State *)

NoCred == [kind |-> "none", id |-> 0, rp |-> None, user |-> None, prot |-> 1,
           st |-> "active", exp |-> FALSE, imported |-> FALSE, btn |-> FALSE, key |-> 0]
Cred(kind, id, rp, user, prot) ==
    [NoCred EXCEPT !.kind = kind, !.id = id, !.rp = rp, !.user = user, !.prot = prot]

\* left: the copies still to be asserted; told, added (history): what a walk has reported, and
\* whether a credential or a clock setting came since it began
NoNext == [left |-> {}, uv |-> FALSE, list |-> FALSE]
NoRpWalk == [on |-> FALSE, index |-> <<>>, at |-> 1, told |-> {}, added |-> FALSE]
NoWalk == [on |-> FALSE, rp |-> None, scan |-> 0, counter |-> 1, total |-> 0, told |-> {}, added |-> FALSE]
Booted == [next |-> NoNext, rps |-> NoRpWalk, walk |-> NoWalk, rtc |-> FALSE]
Idle == [pc |-> "idle", todo |-> <<>>, then |-> "idle", cred |-> NoCred, uv |-> FALSE, list |-> FALSE, next |-> FALSE]

\* What the host of a behaviour does besides making and removing credentials: it signs with
\* protected credentials or walks, and nothing fails; it signs, or sets the clock and expiration
\* dates, on a device where a write fails or power is lost.
Hosts == {"signs", "counts", "walks", "dates"}
Signing == hist.host \in {"signs", "counts"}
Asked == IF hist.host = "signs" THEN Protections ELSE {1}
Sites == IF hist.host = "walks" THEN Rps ELSE {CHOOSE r \in Rps : TRUE}
Persons == IF hist.host = "counts" THEN {CHOOSE u \in Users : TRUE} ELSE Users

\* A new device, or one with a credential of older firmware
Init ==
    /\ \E old \in BOOLEAN, host \in Hosts :
          LET c == Cred("file", 1, CHOOSE r \in Rps : TRUE, CHOOSE u \in Users : TRUE, Max(Protections)) IN
          /\ cache = [slot |-> [s \in Slots |-> IF old /\ s = 0 THEN c ELSE NoCred],
                      rp |-> [r \in Rps |-> IF old /\ r = c.rp THEN 1 ELSE 0], ctr |-> 0, key |-> 0]
          /\ hist = [ids |-> IF old THEN 1 ELSE 0, prot |-> [i \in 1..MaxIds |-> IF old /\ i = 1 THEN c.prot ELSE 0],
                     handles |-> {}, issued |-> {}, settled |-> {}, late |-> FALSE,
                     signs |-> 0, mishaps |-> IF host \in {"signs", "walks"} THEN MaxMishaps ELSE 0, cmds |-> IF host \in {"signs", "counts"} THEN 1 ELSE 0, erased |-> FALSE, twice |-> FALSE, host |-> host]
    /\ flash = cache /\ ram = Booted /\ op = Idle

-----------------------------------------------------------------------------
(* Files *)

Put(f, at, v) == [f |-> f, at |-> at, v |-> v]
SlotIs(s, c) == Put("slot", s, c)

Applied(c, w) == IF w.at = None THEN [c EXCEPT ![w.f] = w.v] ELSE [c EXCEPT ![w.f][w.at] = w.v]

\* The counter that goes into the signature is the one that was stored.
Write ==
    /\ op.pc = "write"
    /\ cache' = Applied(cache, Head(op.todo))
    /\ op' = IF Len(op.todo) > 1 THEN [op EXCEPT !.todo = Tail(@)]
             ELSE IF op.then = "idle" THEN Idle ELSE [op EXCEPT !.todo = <<>>, !.pc = op.then]
    /\ UNCHANGED <<flash, ram, hist>>

\* A write fails: the command ends in an error; getAssertion and getNextAssertion forget the copies.
Fault ==
    /\ op.pc = "write" /\ hist.mishaps < MaxMishaps
    /\ op' = Idle
    /\ ram' = [ram EXCEPT !.next = NoNext]
    /\ hist' = [hist EXCEPT !.mishaps = @ + 1]
    /\ UNCHANGED <<cache, flash>>

Drain ==
    /\ flash # cache /\ hist.mishaps < MaxMishaps
    /\ flash' = cache
    /\ hist' = [hist EXCEPT !.settled = hist.issued]
    /\ UNCHANGED <<cache, ram, op>>

\* The clock is not kept; counters given since the last write-out are open again.
PowerLoss ==
    /\ hist.mishaps < MaxMishaps
    /\ cache' = flash /\ UNCHANGED flash
    /\ ram' = Booted /\ op' = Idle
    /\ hist' = [hist EXCEPT !.mishaps = @ + 1, !.issued = hist.settled]

-----------------------------------------------------------------------------
(* Credentials: credential.c, resident_container.c *)

\* credential_resident_usable; a file of older firmware has no metadata
Passed(c) == c.exp /\ ram.rtc /\ hist.late
Usable(c) == c.kind # "none" /\ (c.kind = "container" => c.st = "active" /\ ~Passed(c))

\* credential_resident_read_metadata: an expiration date that has passed is a status.
Metadata(c) == IF c.st = "active" /\ Passed(c) THEN [c EXCEPT !.st = "expired"] ELSE c

Free == {s \in Slots : cache.slot[s].kind = "none"}
OfRp(rp) == {s \in Slots : cache.slot[s].rp = rp /\ Usable(cache.slot[s])}
Matching(rp, user) == {s \in OfRp(rp) : cache.slot[s].user = user}
\* A handle opens under the device key it was made with.
Handles(rp) == {h \in hist.handles : h.rp = rp /\ h.key = cache.key}

\* Mutant: the first free slot is taken at once.
Target_FirstFree(rp, user) == IF Free # {} THEN {Min(Free)} ELSE Matching(rp, user)

\* credential_store: the slot of this user at this relying party, or the first free one
Target(rp, user) ==
    IF Matching(rp, user) # {} THEN {Min(Matching(rp, user))}
    ELSE IF Free # {} THEN {Min(Free)} ELSE {}

\* ... in the format the slot has
StoreWrites(rp, user, id, prot) ==
    LET s == CHOOSE x \in Target(rp, user) : TRUE
        kind == IF cache.slot[s].kind = "file" THEN "file" ELSE "container" IN
    IF Target(rp, user) = {} THEN <<>>
    ELSE <<SlotIs(s, Cred(kind, id, rp, user, prot))>>

\* Mutant: the relying party's count goes first.
DeleteWrites_CountFirst(s) ==
    LET c == cache.slot[s] IN
    (IF c.kind = "file" /\ cache.rp[c.rp] > 0 THEN <<Put("rp", c.rp, cache.rp[c.rp] - 1)>> ELSE <<>>)
        \o <<SlotIs(s, NoCred)>>

\* credential_resident_delete, then credential_rp_legacy_decrement
DeleteWrites(s) ==
    LET c == cache.slot[s] IN
    <<SlotIs(s, NoCred)>>
        \o (IF c.kind = "file" /\ cache.rp[c.rp] > 0 THEN <<Put("rp", c.rp, cache.rp[c.rp] - 1)>> ELSE <<>>)

\* Mutant: the counter is read, not moved on.
Bump_Nothing == <<Put("ctr", None, cache.ctr)>>

\* bump_sign_counter
Bump == <<Put("ctr", None, cache.ctr + 1)>>

Run(writes, then) == [Idle EXCEPT !.pc = IF writes = <<>> THEN then ELSE "write", !.todo = writes, !.then = then]

\* Mutant: the copies outlive the command.
Parsed_Keeps == ram

\* cbor_parse: any CTAPHID_CBOR command but getNextAssertion
Parsed == [ram EXCEPT !.next = NoNext]

Adds(r) == [r EXCEPT !.rps.added = TRUE, !.walk.added = TRUE]

-----------------------------------------------------------------------------
(* makeCredential *)

\* A credential of the exclude list that loads, and that credProtect lets the host see
Excluded(rp, uv, id) ==
    \/ \E s \in OfRp(rp) : cache.slot[s].id = id /\ (cache.slot[s].prot = 3 => uv)
    \/ \E h \in Handles(rp) : h.id = id /\ (h.prot = 3 => uv)

\* Another credential of this user is past its date; it is neither seen nor replaced.
Hidden(rp, user) ==
    \E s \in Slots : LET c == cache.slot[s] IN c.rp = rp /\ c.user = user /\ c.st = "active" /\ Passed(c)

\* The counter moves before the credential is stored; without a slot the command ends in an error.
MakeCredential(rp, user, prot, uv, excl) ==
    /\ op = Idle /\ hist.ids < MaxIds /\ ~Excluded(rp, uv, excl)
    /\ LET id == hist.ids + 1 IN
          /\ op' = Run(Bump \o StoreWrites(rp, user, id, prot), "idle")
          /\ hist' = [hist EXCEPT !.ids = id, !.prot[id] = prot, !.twice = @ \/ Hidden(rp, user)]
    /\ ram' = Adds(Parsed)
    /\ UNCHANGED <<cache, flash>>

\* ... without rk, and U2F REGISTER, which has no protection and leaves the copies alone
MakeHandle(rp, prot, u2f) ==
    /\ op = Idle /\ Signing /\ hist.ids < MaxIds /\ (u2f => prot = 1)
    /\ LET id == hist.ids + 1 IN
          hist' = [hist EXCEPT !.ids = id, !.prot[id] = prot, !.handles = @ \cup {[Cred("handle", id, rp, None, prot) EXCEPT !.key = cache.key]}]
    /\ op' = IF u2f THEN Idle ELSE Run(Bump, "idle")
    /\ ram' = IF u2f THEN ram ELSE Parsed
    /\ UNCHANGED <<cache, flash>>

\* credential_import, a command of the vault: the first free slot, whoever else has one
Import(rp, user) ==
    /\ op = Idle /\ hist.ids < MaxIds /\ Free # {} /\ hist.cmds < MaxCommands
    /\ LET id == hist.ids + 1 IN
          /\ op' = Run(<<SlotIs(Min(Free), [Cred("container", id, rp, user, 1) EXCEPT !.imported = TRUE])>>, "idle")
          /\ hist' = [hist EXCEPT !.ids = id, !.prot[id] = 1, !.cmds = @ + 1, !.twice = TRUE]
    /\ ram' = Adds(ram)
    /\ UNCHANGED <<cache, flash>>

-----------------------------------------------------------------------------
(* getAssertion, getNextAssertion, U2F AUTHENTICATE *)

\* Mutant: only the strictest level is looked at.
Shown_NoList(c, uv, list) == c.prot = 3 => uv

Shown(c, uv, list) == (c.prot = 3 => uv) /\ (c.prot = 2 /\ ~list => uv)

Loaded(rp, list) ==
    IF list = {} THEN {cache.slot[s] : s \in OfRp(rp)}
    ELSE {cache.slot[s] : s \in {x \in OfRp(rp) : cache.slot[x].id \in list}}
            \cup {h \in Handles(rp) : h.id \in list}

\* An imported credential has no counter.
CounterOf(c) == IF c.imported THEN <<>> ELSE Bump

Signs(c, uv, list) == [Run(CounterOf(c), "sign") EXCEPT !.cred = c, !.uv = uv, !.list = list]

\* The newest by a clock that starts at every power-up is first: any of them. The others are left
\* for getNextAssertion, except when a resident credential was found through a longer list.
GetAssertion(rp, uv, list) ==
    /\ op = Idle /\ Signing /\ hist.signs < MaxSigns
    /\ LET found == {c \in Loaded(rp, list) : Shown(c, uv, list # {})}
           resident == \E c \in Loaded(rp, list) : c.kind # "handle" IN
       \E c \in found :
          /\ op' = Signs(c, uv, list # {})
          /\ ram' = [ram EXCEPT !.next =
                IF Cardinality(found) > 1 /\ (resident => Cardinality(list) <= 1)
                THEN [left |-> found \ {c}, uv |-> uv, list |-> list # {}] ELSE NoNext]
    /\ hist' = [hist EXCEPT !.signs = @ + 1]
    /\ UNCHANGED <<cache, flash>>

\* Silent, with a locked key device: the handles verify, the signature is a constant.
Probe(rp, id) ==
    /\ op = Idle /\ hist.host = "counts" /\ hist.signs < MaxSigns
    /\ Loaded(rp, {id}) # {}
    /\ op' = Run(Bump, "idle")
    /\ ram' = Parsed
    /\ hist' = [hist EXCEPT !.signs = @ + 1]
    /\ UNCHANGED <<cache, flash>>

\* The copy signs; what became of the credential is not looked at.
GetNextAssertion ==
    /\ op = Idle /\ hist.signs < MaxSigns
    /\ \E c \in ram.next.left : op' = [Signs(c, ram.next.uv, ram.next.list) EXCEPT !.next = TRUE]
    /\ hist' = [hist EXCEPT !.signs = @ + 1]
    /\ UNCHANGED <<cache, flash, ram>>

\* ... on a channel other than that of the getAssertion
GetNextRefused ==
    /\ op = Idle /\ ram.next # NoNext
    /\ ram' = Parsed
    /\ UNCHANGED <<cache, flash, op, hist>>

U2fAuthenticate(h) ==
    /\ op = Idle /\ hist.signs < MaxSigns /\ h.prot # 3
    /\ op' = Signs(h, FALSE, TRUE)
    /\ hist' = [hist EXCEPT !.signs = @ + 1]
    /\ UNCHANGED <<cache, flash, ram>>

\* The response goes out; after the last copy the list is forgotten.
Sign ==
    /\ op.pc = "sign"
    /\ op' = Idle
    /\ LET given == IF op.cred.imported THEN hist.issued ELSE hist.issued \cup {<<cache.key, cache.ctr>>}
           left == ram.next.left \ {op.cred} IN
          /\ hist' = [hist EXCEPT !.issued = given, !.settled = IF flash = cache THEN given ELSE @]
          /\ ram' = IF ~op.next THEN ram
                    ELSE [ram EXCEPT !.next = IF left = {} THEN NoNext ELSE [@ EXCEPT !.left = left]]
    /\ UNCHANGED <<cache, flash>>

-----------------------------------------------------------------------------
(* authenticatorCredentialManagement; a channel other than the walk's is refused, without effect *)

Changes(writes) ==
    /\ op = Idle /\ hist.cmds < MaxCommands
    /\ op' = Run(writes, "idle")
    /\ UNCHANGED <<cache, flash>>

\* credential_rp_count: the relying parties of older files, then of containers in use
RpIndex ==
    LET old == SetToSeq({<<r, None>> : r \in {x \in Rps : cache.rp[x] > 0}})
        Live(s) == cache.slot[s].kind = "container" /\ Metadata(cache.slot[s]).st = "active"
        First(s) == Live(s) /\ cache.rp[cache.slot[s].rp] = 0
                    /\ \A t \in Slots : t < s /\ Live(t) => cache.slot[t].rp # cache.slot[s].rp
    IN old \o SetToSortSeq({<<cache.slot[s].rp, s>> : s \in {x \in Slots : First(x)}}, LAMBDA a, b : a[2] < b[2])

\* credential_rp_load: from the file or the slot the index names
RpLoads(e) == IF e[2] = None THEN cache.rp[e[1]] > 0
              ELSE cache.slot[e[2]].rp = e[1] /\ cache.slot[e[2]].kind = "container" /\ Usable(cache.slot[e[2]])

RpTold(w) == [w EXCEPT !.at = @ + 1, !.told = @ \cup {w.index[w.at][1]}]

BeginRps ==
    /\ op = Idle /\ hist.host = "walks" /\ hist.cmds < MaxCommands /\ RpIndex # <<>>
    /\ LET w == [NoRpWalk EXCEPT !.on = TRUE, !.index = RpIndex] IN
          ram' = [Parsed EXCEPT !.rps = IF RpLoads(w.index[1]) THEN RpTold(w) ELSE w]
    /\ hist' = [hist EXCEPT !.cmds = @ + 1]
    /\ UNCHANGED <<cache, flash, op>>

\* An entry that no longer loads ends in an error and stays the next one.
NextRp ==
    /\ op = Idle /\ ram.rps.on /\ ram.rps.at <= Len(ram.rps.index)
    /\ RpLoads(ram.rps.index[ram.rps.at])
    /\ ram' = [Parsed EXCEPT !.rps = RpTold(@)]
    /\ UNCHANGED <<cache, flash, op, hist>>

\* Mutant: the cursor stays on the slot.
CredTold_Stays(w, s) == [w EXCEPT !.scan = s, !.counter = @ + 1, !.told = @ \cup {cache.slot[s].id}]

CredTold(w, s) == [w EXCEPT !.scan = s + 1, !.counter = @ + 1, !.told = @ \cup {cache.slot[s].id}]

BeginCreds(rp) ==
    /\ op = Idle /\ hist.host = "walks" /\ hist.cmds < MaxCommands /\ OfRp(rp) # {}
    /\ LET w == [NoWalk EXCEPT !.on = TRUE, !.rp = rp, !.total = Cardinality(OfRp(rp))] IN
          ram' = [Parsed EXCEPT !.walk = CredTold(w, Min(OfRp(rp)))]
    /\ hist' = [hist EXCEPT !.cmds = @ + 1]
    /\ UNCHANGED <<cache, flash, op>>

\* When no credential is left the answer is an error, and the memory that holds the relying party's
\* hash is freed: a further call finds the same there, or nothing.
NextCred ==
    /\ op = Idle /\ ram.walk.on /\ ram.walk.counter <= ram.walk.total
    /\ LET ahead == {s \in OfRp(ram.walk.rp) : s >= ram.walk.scan} IN
          \E w \in IF ahead = {} THEN {ram.walk, NoWalk} ELSE {CredTold(ram.walk, Min(ahead))} :
             ram' = [Parsed EXCEPT !.walk = w]
    /\ UNCHANGED <<cache, flash, op, hist>>

DeleteCredential(s) ==
    /\ cache.slot[s].kind # "none" /\ Changes(DeleteWrites(s))
    /\ hist' = [hist EXCEPT !.cmds = @ + 1]
    /\ ram' = Parsed

\* Mutant: the new blob has no extensions.
Renamed_Bare(c) == [c EXCEPT !.prot = 1]

\* updateUserInformation: a new blob of the same user, options and extensions under the same id
Renamed(c) == c

UpdateUser(s) ==
    /\ Usable(cache.slot[s])
    /\ Changes(<<SlotIs(s, Renamed(cache.slot[s]))>>)
    /\ hist' = [hist EXCEPT !.cmds = @ + 1]
    /\ ram' = Parsed

-----------------------------------------------------------------------------
(* authenticatorConfig: revocation, expiration, touch *)

Kept(c) == cache.slot[c].kind = "container"

\* A status other than active stays.
Revoke(s) ==
    /\ Kept(s) /\ Metadata(cache.slot[s]).st \in {"active", "revoked"}
    /\ Changes(<<SlotIs(s, [Metadata(cache.slot[s]) EXCEPT !.st = "revoked"])>>)
    /\ hist' = [hist EXCEPT !.cmds = @ + 1]
    /\ ram' = Parsed

Expire(s, on) ==
    /\ Kept(s) /\ ram.rtc /\ Metadata(cache.slot[s]).st = "active"
    /\ LET c == [cache.slot[s] EXCEPT !.exp = on] IN Changes(<<SlotIs(s, Metadata(c))>>)
    /\ hist' = [hist EXCEPT !.cmds = @ + 1]
    /\ ram' = Parsed

RequireButton(s, on) ==
    /\ Kept(s) /\ hist.host = "dates" /\ Changes(<<SlotIs(s, [Metadata(cache.slot[s]) EXCEPT !.btn = on])>>)
    /\ hist' = [hist EXCEPT !.cmds = @ + 1]
    /\ ram' = Parsed

-----------------------------------------------------------------------------
(* Clock, idle time, reset *)

\* The rescue applet sets the clock, to any time.
SetClock(late) ==
    /\ op = Idle /\ hist.host = "dates" /\ hist.cmds < MaxCommands
    /\ hist' = [hist EXCEPT !.cmds = @ + 1, !.late = late]
    /\ ram' = [Adds(ram) EXCEPT !.rtc = TRUE]
    /\ UNCHANGED <<cache, flash, op>>

Expires ==
    /\ op = Idle /\ ram.rtc /\ ~hist.late
    /\ hist' = [hist EXCEPT !.late = TRUE]
    /\ UNCHANGED <<cache, flash, ram, op>>

\* 30 seconds without a command of the walk
Tick ==
    /\ op = Idle /\ <<ram.next, ram.rps, ram.walk>> # <<NoNext, Booted.rps, Booted.walk>>
    /\ ram' = [ram EXCEPT !.next = NoNext, !.rps = NoRpWalk, !.walk = NoWalk]
    /\ UNCHANGED <<cache, flash, op, hist>>

\* authenticatorReset, which cbor_parse precedes with Parsed, and RESET of the management applet,
\* which calls the same cbor_reset without it. The credentials go first, then the static files in
\* their order: the device key before the counter. (PIN and token: ClientPin.)
SlotsGone ==
    [n \in 1..Cardinality(Slots) |-> SlotIs(n - 1, NoCred)] \o <<Put("rp", None, [r \in Rps |-> 0])>>

\* Mutant: the counter before the key.
ResetWrites_CounterFirst ==
    SlotsGone \o <<Put("ctr", None, 0), Put("key", None, cache.key + 1)>>

ResetWrites ==
    SlotsGone \o <<Put("key", None, cache.key + 1), Put("ctr", None, 0)>>

Reset(management) ==
    /\ Changes(ResetWrites)
    /\ hist' = [hist EXCEPT !.cmds = @ + 1, !.erased = @ \/ (management /\ ram.next # NoNext)]
    /\ ram' = IF management THEN ram ELSE Parsed

Ids == 1..hist.ids
Lists == {{}} \cup {{i, j} : i, j \in Ids}

Next ==
    \/ Write \/ Fault \/ Drain \/ PowerLoss \/ Sign \/ Expires \/ Tick
    \/ \E rp \in Sites, user \in Persons :
          \/ hist.host = "dates" /\ Import(rp, user)
          \/ \E prot \in Asked, uv \in BOOLEAN, excl \in {0} \cup Ids : MakeCredential(rp, user, prot, uv, excl)
    \/ \E rp \in Sites :
          \/ \E prot \in Asked, u2f \in BOOLEAN : MakeHandle(rp, prot, u2f)
          \/ \E id \in Ids : Probe(rp, id)
    \/ GetNextAssertion \/ GetNextRefused \/ BeginRps \/ NextRp \/ NextCred
    \/ \E rp \in Sites : BeginCreds(rp) \/ \E uv \in BOOLEAN, list \in Lists : GetAssertion(rp, uv, list)
    \/ \E rp \in Sites : \E h \in Handles(rp) : U2fAuthenticate(h)
    \/ \E s \in Slots : DeleteCredential(s) \/ UpdateUser(s) \/ Revoke(s)
    \/ \E s \in Slots, on \in BOOLEAN : Expire(s, on) \/ RequireButton(s, on)
    \/ \E b \in BOOLEAN : SetClock(b) \/ (Signing /\ Reset(b))

Spec == Init /\ [][Next]_vars

-----------------------------------------------------------------------------
(* Properties *)

\* At most one usable resident credential per relying party and user, over stores, renames,
\* revocations, failed writes and power losses. Open: after an import, which looks for no other,
\* and after a credential was stored beside one past its expiration date, which comes back when a
\* power loss or a setting of the clock undoes the date.
OneCredPerUser ==
    ~hist.twice => \A s \in Slots : LET c == cache.slot[s] IN Usable(c) => Matching(c.rp, c.user) = {s}

\* No assertion against the credProtect level the credential was made with: level 3 needs user
\* verification, level 2 does without a list; also as a copy, after a rename, through U2F.
ProtectKept ==
    op.pc = "sign" => /\ hist.prot[op.cred.id] = 3 => op.uv
                      /\ hist.prot[op.cred.id] = 2 => op.uv \/ op.list

\* A resident credential that signs is still stored and not revoked: the copies an earlier
\* getAssertion left are gone when a command deletes, revokes, replaces or resets one of them away.
NotAfterReset ==
    op.pc = "sign" /\ op.cred.kind # "handle" =>
        \E s \in Slots : cache.slot[s].id = op.cred.id /\ cache.slot[s].st # "revoked"

\* The same, open for RESET of the management applet, which runs between two getNextAssertion
\* without forgetting the copies (NotAfterReset is violated).
NotAfterRemoval == ~hist.erased => NotAfterReset

\* No two signatures under one device key carry the same counter, whatever command moves it on and
\* wherever power is lost, also inside a reset, unless the power loss undid the earlier one's counter.
SignCountFresh == op.pc = "sign" /\ ~op.cred.imported => <<cache.key, cache.ctr>> \notin hist.issued

\* A credential of older firmware is found through the count of its relying party: a cut delete
\* leaves the count too high, never too low.
RpListed ==
    \A r \in Rps : Cardinality({s \in Slots : cache.slot[s].kind = "file" /\ cache.slot[s].rp = r}) <= cache.rp[r]

\* A walk that came to its end has reported every usable credential (relying party), although
\* others were deleted or revoked on the way. Open: a credential stored while it ran, a clock setting.
WalksComplete ==
    /\ ram.walk.on /\ ram.walk.counter > ram.walk.total /\ ~ram.walk.added =>
          {cache.slot[s].id : s \in OfRp(ram.walk.rp)} \subseteq ram.walk.told
    /\ ram.rps.on /\ ram.rps.at > Len(ram.rps.index) /\ ~ram.rps.added =>
          {r \in Rps : OfRp(r) # {}} \subseteq ram.rps.told
===============================================================================
