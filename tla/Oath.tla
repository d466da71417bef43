-------------------------------- MODULE Oath --------------------------------
(***************************************************************************)
(* The OATH applet: credentials in slots (container objects, or files that *)
(* older firmware left), the access code with its challenge, the OTP PIN   *)
(* with its tries, LIST and CALCULATE ALL whose answers are fetched piece  *)
(* by piece with SEND REMAINING, HOTP counters, and RESET.                 *)
(*                                                                         *)
(* A handler leaves its writes in op.todo; Write takes them one by one.    *)
(* Only the spending of a PIN try is committed before the handler goes on  *)
(* (sync); everything else is on flash after a later Drain.                *)
(***************************************************************************)
EXTENDS Integers, Sequences, FiniteSets, SequencesExt

CONSTANTS
    Slots,         \* 0 .. n-1, the places EF_OATH_CRED + i
    Names,         \* credential names
    MaxTries,      \* MAX_OTP_COUNTER
    MaxCreds,      \* how many credentials are put
    MaxPins,       \* how many OTP PINs are set
    MaxCommands,   \* how many commands that write files are followed
    MaxMishaps,    \* how many failed writes and power losses are followed
    None

VARIABLES
    cache,      \* the files as the firmware sees them
    flash,      \* the files as a power loss would leave them
    ram,        \* validated, otp_pin_verified, oath_chain_state, oath_migration_done
    op,         \* the handler in progress
    hist        \* history and bounds

vars == <<cache, flash, ram, op, hist>>

-----------------------------------------------------------------------------
(* State *)

\* old: a file of older firmware; plain: its key not yet encrypted
Cred(id, name, hotp, touch) ==
    [id |-> id, name |-> name, hotp |-> hotp, touch |-> touch, ctr |-> 0, old |-> FALSE, plain |-> FALSE]

Creds == [id : Nat, name : Names, hotp : BOOLEAN, touch : BOOLEAN, ctr : Nat, old : BOOLEAN, plain : BOOLEAN]
Pins == [n : 1 .. MaxPins, tries : 0 .. MaxTries]

ConstantTypes ==
    /\ IsFiniteSet(Slots) /\ Slots \subseteq Nat /\ Names # {}
    /\ MaxTries \in Nat /\ MaxPins \in Nat
    /\ None \notin Slots /\ None \notin Pins /\ None \notin Creds

NoChain == [type |-> "none", next |-> 0, got |-> {}]
Booted == [sel |-> FALSE, validated |-> FALSE, pin |-> FALSE, chain |-> NoChain, migrated |-> FALSE]
Idle == [pc |-> "idle", cmd |-> None, todo |-> <<>>, then |-> "idle", slot |-> 0, got |-> {}, code |-> <<0, 0>>]

\* A card without anything, or one with an unencrypted HOTP credential; code: whether an access
\* code is set; guarded (history): whether the user wants the credentials behind one
Init ==
    /\ \E h \in {"codes", "lists", "pins"}, old \in BOOLEAN, n \in Names :
          /\ old => h = "codes"
          /\ n = CHOOSE m \in Names : TRUE
          /\ cache = [cred |-> [s \in Slots |-> IF old /\ s = 0
                                   THEN [Cred(1, n, TRUE, FALSE) EXCEPT !.old = TRUE, !.plain = TRUE] ELSE None],
                      code |-> FALSE, guarded |-> FALSE, pin |-> None]
          /\ hist = [host |-> h, creds |-> IF old THEN 1 ELSE 0, pins |-> 0, cmds |-> 0, mishaps |-> 0,
                     issued |-> {}, settled |-> {}, wrong |-> [p \in 1 .. MaxPins |-> 0], torn |-> FALSE]
    /\ flash = cache /\ ram = Booted /\ op = Idle

-----------------------------------------------------------------------------
(* Files *)

Put(f, v) == [f |-> f, at |-> None, v |-> v, sync |-> FALSE]
PutCred(s, c) == [f |-> "cred", at |-> s, v |-> c, sync |-> FALSE]
SpendTry(p) == [f |-> "pin", at |-> None, v |-> p, sync |-> TRUE]

Applied(c, w) == IF w.f = "cred" THEN [c EXCEPT !.cred[w.at] = w.v] ELSE [c EXCEPT ![w.f] = w.v]

Rest == IF Len(op.todo) > 1 THEN [op EXCEPT !.todo = Tail(@)]
        ELSE IF op.then = "idle" THEN Idle ELSE [op EXCEPT !.todo = <<>>, !.pc = op.then]

Write ==
    /\ op.pc = "write"
    /\ cache' = Applied(cache, Head(op.todo))
    /\ flash' = IF Head(op.todo).sync THEN cache' ELSE flash
    /\ op' = Rest
    /\ UNCHANGED <<ram, hist>>

\* A write fails. A container update is rolled back; a PIN record may be changed in the cache when
\* flash_commit_sync times out. RESET passes over everything but a container it cannot purge.
Fault ==
    /\ op.pc = "write" /\ hist.mishaps < MaxMishaps
    /\ LET w == Head(op.todo)
           passes == op.cmd = "reset" /\ (w.f = "cred" => cache.cred[w.at].old) IN
          /\ cache' \in {cache} \cup (IF w.f = "pin" /\ w.sync THEN {Applied(cache, w)} ELSE {})
          /\ op' = IF passes THEN Rest ELSE Idle
          /\ hist' = [hist EXCEPT !.mishaps = @ + 1, !.torn = @ \/ passes]
    /\ UNCHANGED <<flash, ram>>

Drain ==
    /\ flash # cache /\ hist.mishaps < MaxMishaps
    /\ flash' = cache
    /\ hist' = [hist EXCEPT !.settled = hist.issued]
    /\ UNCHANGED <<cache, ram, op>>

\* The codes given since the last write-out are open again.
PowerLoss ==
    /\ hist.mishaps < MaxMishaps
    /\ cache' = flash /\ UNCHANGED flash
    /\ ram' = Booted /\ op' = Idle
    /\ hist' = [hist EXCEPT !.mishaps = @ + 1, !.issued = hist.settled]

-----------------------------------------------------------------------------
(* Commands *)

Present(c) == {s \in Slots : c.cred[s] # None}
Lowest(S) == CHOOSE s \in S : \A t \in S : s <= t
Free == Slots \ Present(cache)

\* Mutant: the piecewise answer goes on after another command.
Other_KeepsChain(r) == r

\* oath_process_apdu: every command but SEND REMAINING ends the piecewise answer.
Other(r) == [r EXCEPT !.chain = NoChain]

\* find_oath_cred: the first slot with the name
Named(n) == {s \in Present(cache) : cache.cred[s].name = n}
Found(n) == Lowest(Named(n))

Ready == op = Idle /\ ram.sel
Open == Ready /\ ram.validated
Counted == hist.cmds < MaxCommands /\ hist' = [hist EXCEPT !.cmds = @ + 1]

Run(name, writes, then) ==
    [Idle EXCEPT !.pc = IF writes = <<>> THEN then ELSE "write", !.cmd = name, !.todo = writes, !.then = then]

\* oath_select, oath_unload: the accesses are decided before the old secrets are encrypted; the
\* applet is selected when that has succeeded.
MigrateWrites ==
    LET plain == SetToSeq({s \in Present(cache) : cache.cred[s].plain}) IN
    IF ram.migrated THEN <<>>
    ELSE [i \in 1 .. Len(plain) |-> PutCred(plain[i], [cache.cred[plain[i]] EXCEPT !.plain = FALSE])]

Select ==
    /\ op = Idle
    /\ ram' = [Booted EXCEPT !.validated = ~cache.code /\ cache.pin = None, !.migrated = ram.migrated]
    /\ ram.sel => ram' # [ram EXCEPT !.sel = FALSE]
    /\ op' = Run("select", MigrateWrites, "selected")
    /\ UNCHANGED <<cache, flash, hist>>

Selected ==
    /\ op.pc = "selected"
    /\ ram' = [ram EXCEPT !.sel = TRUE, !.migrated = TRUE]
    /\ op' = Idle
    /\ UNCHANGED <<cache, flash, hist>>

Command(name, writes, then) ==
    /\ Counted
    /\ op' = Run(name, writes, then)
    /\ ram' = Other(ram)
    /\ UNCHANGED <<cache, flash>>

\* PUT: a name that is taken is overwritten in its place and format, a new one gets the first free slot.
PutCredential(n, hotp, touch) ==
    /\ Open /\ hist.host \in {"codes", "lists"} /\ hist.creds < MaxCreds /\ hist.cmds < MaxCommands
    /\ Named(n) # {} \/ Free # {}
    /\ LET s == IF Named(n) # {} THEN Found(n) ELSE Lowest(Free)
           old == Named(n) # {} /\ cache.cred[s].old IN
          op' = Run("put", <<PutCred(s, [Cred(hist.creds + 1, n, hotp, touch) EXCEPT !.old = old])>>, "idle")
    /\ hist' = [hist EXCEPT !.creds = @ + 1, !.cmds = @ + 1]
    /\ ram' = Other(ram)
    /\ UNCHANGED <<cache, flash>>

\* DELETE
DeleteCredential(n) ==
    /\ Open /\ hist.host \in {"codes", "lists"} /\ Named(n) # {}
    /\ Command("delete", <<PutCred(Found(n), None)>>, "idle")

\* RENAME looks for the old name only.
Rename(n, m) ==
    /\ Open /\ hist.host = "codes" /\ n # m /\ Named(n) # {}
    /\ Command("rename", <<PutCred(Found(n), [cache.cred[Found(n)] EXCEPT !.name = m])>>, "idle")

\* SET CODE clears the OTP PIN, then writes the code; the access is gone until VALIDATE.
SetCode ==
    /\ Open /\ hist.host = "lists"
    /\ Counted
    /\ op' = Run("setcode", (IF cache.pin = None THEN <<>> ELSE <<Put("pin", None)>>)
                            \o <<Put("code", TRUE), Put("guarded", TRUE)>>, "idle")
    /\ ram' = [Other(ram) EXCEPT !.validated = FALSE]
    /\ UNCHANGED <<cache, flash>>

\* ... with no key: the code is deleted
ClearCode ==
    /\ Open /\ hist.host = "lists" /\ cache.code
    /\ Command("clearcode", <<Put("guarded", FALSE), Put("code", FALSE)>>, "idle")

\* VALIDATE: the response to the challenge. Without a code the access is given with an error.
Validate ==
    /\ Ready /\ ~ram.validated
    /\ ram' = [Other(ram) EXCEPT !.validated = TRUE]
    /\ UNCHANGED <<cache, flash, op, hist>>

\* Mutant: the code before the credentials.
ResetWrites_CodeFirst ==
    <<Put("code", FALSE)>>
    \o [i \in 1 .. Cardinality(Present(cache)) |-> PutCred(SetToSortSeq(Present(cache), <)[i], None)]
    \o <<Put("guarded", FALSE), Put("pin", None)>>

\* The credentials in the order of their slots, the code, the OTP PIN
ResetWrites ==
    [i \in 1 .. Cardinality(Present(cache)) |-> PutCred(SetToSortSeq(Present(cache), <)[i], None)]
    \o <<Put("guarded", FALSE), Put("code", FALSE), Put("pin", None)>>

Reset ==
    /\ Ready
    /\ Command("reset", ResetWrites, "resetdone")

ResetDone ==
    /\ op.pc = "resetdone"
    /\ ram' = [ram EXCEPT !.validated = TRUE, !.pin = FALSE]
    /\ op' = Idle
    /\ UNCHANGED <<cache, flash, hist>>

-----------------------------------------------------------------------------
(* LIST and CALCULATE ALL *)

\* One piece of the answer (room for one credential): the credentials present are gathered anew,
\* next_index goes on where the piece before ended.
Piece(chain) ==
    LET all == SetToSortSeq(Present(cache), <) IN
    IF chain.next >= Len(all) THEN [chain EXCEPT !.type = "none"]
    ELSE [type |-> IF chain.next + 1 < Len(all) THEN chain.type ELSE "none", next |-> chain.next + 1,
          got |-> chain.got \cup {cache.cred[all[chain.next + 1]].id}]

\* The answer ends with OK when nothing remains.
Answer(chain) ==
    LET c == Piece(chain) IN
    /\ ram' = [ram EXCEPT !.chain = IF c.type = "none" THEN NoChain ELSE c]
    /\ op' = IF c.type = "none" THEN [Idle EXCEPT !.pc = "listed", !.got = c.got] ELSE Idle
    /\ UNCHANGED <<cache, flash, hist>>

List(type) ==
    /\ Open /\ hist.host = "lists" /\ ram.chain = NoChain
    /\ Answer([type |-> type, next |-> 0, got |-> {}])

\* Without a pending answer SEND REMAINING says OK; a lost access ends it.
SendRemaining ==
    /\ Ready /\ ram.chain # NoChain
    /\ ram.validated => Answer(ram.chain)
    /\ ~ram.validated => ram' = Other(ram) /\ UNCHANGED <<cache, flash, op, hist>>

\* GET CREDENTIAL, VERIFY CODE (which leaves the counter where it is) and everything refused
ReadOnly ==
    /\ Ready /\ ram.chain # NoChain
    /\ ram' = Other(ram)
    /\ UNCHANGED <<cache, flash, op, hist>>

Listed ==
    /\ op.pc = "listed"
    /\ op' = Idle
    /\ UNCHANGED <<cache, flash, ram, hist>>

-----------------------------------------------------------------------------
(* Codes *)

\* CALCULATE: a HOTP credential takes its counter, asks for the touch and stores the next one.
Calculate(n) ==
    /\ Open /\ hist.host = "codes" /\ Named(n) # {}
    /\ op' = [Idle EXCEPT !.pc = IF cache.cred[Found(n)].touch THEN "touch" ELSE "advance", !.slot = Found(n)]
    /\ ram' = Other(ram)
    /\ UNCHANGED <<cache, flash, hist>>

Touch(pressed) ==
    /\ op.pc = "touch"
    /\ op' = IF pressed THEN [op EXCEPT !.pc = "advance"] ELSE Idle
    /\ UNCHANGED <<cache, flash, ram, hist>>

\* Mutant: the next counter is not stored.
AdvanceWrites_Nothing(s) == <<>>

AdvanceWrites(s) == <<PutCred(s, [cache.cred[s] EXCEPT !.ctr = @ + 1])>>

Advance ==
    /\ op.pc = "advance"
    /\ LET c == cache.cred[op.slot] IN
          IF c.hotp
          THEN /\ Counted
               /\ op' = [Run("calculate", AdvanceWrites(op.slot), "code")
                            EXCEPT !.slot = op.slot, !.code = <<c.id, c.ctr>>]
          ELSE op' = Idle /\ UNCHANGED hist
    /\ UNCHANGED <<cache, flash, ram>>

\* The code for the counter as it was read
GiveCode ==
    /\ op.pc = "code"
    /\ LET given == hist.issued \cup {op.code} IN
          hist' = [hist EXCEPT !.issued = given, !.settled = IF flash = cache THEN given ELSE @]
    /\ op' = Idle
    /\ UNCHANGED <<cache, flash, ram>>

-----------------------------------------------------------------------------
(* The OTP PIN *)

PinHost == Ready /\ hist.host = "pins"

\* SET PIN, when there is none
SetPin ==
    /\ PinHost /\ ram.validated /\ cache.pin = None /\ hist.pins < MaxPins /\ hist.cmds < MaxCommands
    /\ op' = Run("setpin", <<Put("pin", [n |-> hist.pins + 1, tries |-> MaxTries])>>, "idle")
    /\ ram' = [Other(ram) EXCEPT !.pin = FALSE]
    /\ hist' = [hist EXCEPT !.pins = @ + 1, !.cmds = @ + 1]
    /\ UNCHANGED <<cache, flash>>

\* Mutant: the try is not committed before the comparison.
Spent_NotCommitted == <<Put("pin", [cache.pin EXCEPT !.tries = @ - 1])>>

\* oath_check_pin: a try is spent and committed before the PIN is compared.
Spent == <<SpendTry([cache.pin EXCEPT !.tries = @ - 1])>>

\* VERIFY PIN and CHANGE PIN: a blocked PIN and a failed commit are errors.
CheckPin(cmd) ==
    /\ PinHost /\ cache.pin # None
    /\ ram' = [Other(ram) EXCEPT !.pin = IF cmd = "verify" \/ cache.pin.tries = 0 THEN FALSE ELSE @]
    /\ op' = IF cache.pin.tries = 0 THEN Idle ELSE Run(cmd, Spent, "compare")
    /\ UNCHANGED <<cache, flash, hist>>

PinWrong ==
    /\ op.pc = "compare"
    /\ op' = Idle
    /\ ram' = [ram EXCEPT !.pin = FALSE, !.validated = IF op.cmd = "verify" THEN FALSE ELSE @]
    /\ hist' = [hist EXCEPT !.wrong[cache.pin.n] = @ + 1]
    /\ UNCHANGED <<cache, flash>>

PinRight ==
    /\ op.pc = "compare" /\ (op.cmd = "change" => hist.pins < MaxPins)
    /\ LET n == IF op.cmd = "change" THEN hist.pins + 1 ELSE cache.pin.n IN
          /\ op' = Run(op.cmd, <<Put("pin", [n |-> n, tries |-> MaxTries])>>,
                       IF op.cmd = "verify" THEN "verified" ELSE "changed")
          /\ hist' = [hist EXCEPT !.wrong[cache.pin.n] = 0, !.pins = IF op.cmd = "change" THEN n ELSE @]
    /\ UNCHANGED <<cache, flash, ram>>

PinDone ==
    /\ op.pc \in {"verified", "changed"}
    /\ ram' = IF op.pc = "verified" THEN [ram EXCEPT !.validated = TRUE, !.pin = TRUE]
              ELSE [ram EXCEPT !.pin = FALSE]
    /\ op' = Idle
    /\ UNCHANGED <<cache, flash, hist>>

Next ==
    \/ Write \/ Fault \/ Drain \/ PowerLoss \/ Select \/ Selected
    \/ \E n \in Names :
          \/ \E hotp, touch \in BOOLEAN : PutCredential(n, hotp, touch)
          \/ DeleteCredential(n) \/ Calculate(n)
          \/ \E m \in Names : Rename(n, m)
    \/ SetCode \/ ClearCode \/ Validate \/ Reset \/ ResetDone
    \/ \E type \in {"list", "all"} : List(type)
    \/ SendRemaining \/ ReadOnly \/ Listed
    \/ \E pressed \in BOOLEAN : Touch(pressed)
    \/ Advance \/ GiveCode
    \/ SetPin \/ PinWrong \/ PinRight \/ PinDone
    \/ \E cmd \in {"verify", "change"} : CheckPin(cmd)

Spec == Init /\ [][Next]_vars

-----------------------------------------------------------------------------
(* Properties *)

\* No counter of a HOTP credential gives two codes, whatever is renamed, overwritten or fails: the
\* next counter is stored before the code is computed. A power loss forgets only the counters of
\* codes given since the cache was last written out, because the store is not waited for.
NoCodeTwice == op.pc = "code" => op.code \notin hist.issued

\* An OTP PIN is compared with at most MAX_OTP_COUNTER wrong values between two right ones, power
\* losses and failed commits included.
OtpGuessesBounded == \A p \in 1 .. MaxPins : hist.wrong[p] <= MaxTries

\* A LIST or CALCULATE ALL that was fetched in pieces to its OK names the credentials that are
\* there, although every piece gathers them anew.
ListWhole == op.pc = "listed" => op.got = {cache.cred[s].id : s \in Present(cache)}

\* Credentials behind an access code are gone before the code is: no power loss or failed write
\* in RESET leaves them open. Exempt: the failed deletion of an old file, which RESET passes over.
Guarded == cache.guarded /\ Present(cache) # {} /\ ~hist.torn => cache.code

\* Two credentials never have one name (violated: RENAME does not look for the new name).
NamesUnique == \A s, t \in Present(cache) : cache.cred[s].name = cache.cred[t].name => s = t

\* An OTP PIN gates the applet (violated: VALIDATE on a card without a code gives the access).
PinGates == ram.validated /\ ram.sel /\ op = Idle /\ cache.pin # None => ram.pin
=============================================================================
