--------------------------------- MODULE Otp ---------------------------------
(***************************************************************************)
(* The OTP applet: slots that type a one-time password at a button press.  *)
(* A Yubico password carries a usage counter, kept in the slot and moved   *)
(* on at every power-up, and a session counter in memory; a HOTP slot      *)
(* carries its moving factor. A slot lives in the bank, a container that   *)
(* holds all slots and says which are active, or in a file of older        *)
(* firmware; a marker file stands for a slot of the bank.                  *)
(***************************************************************************)
EXTENDS Integers, Sequences, FiniteSets

CONSTANTS
    Slots,         \* the slots, EF_OTP_SLOT1 + i
    Codes,         \* access codes
    MaxSession,    \* the session counter is taken modulo this (256)
    MaxCounter,    \* the last usage counter (0x7fff)
    MaxConfigs,    \* how many configurations are written
    MaxPresses,    \* how many presses of the button are followed
    MaxMishaps,    \* how many failed writes and power losses are followed
    MaxCommands,   \* how many commands are followed
    None

VARIABLES
    cache,      \* the files as the firmware sees them
    flash,      \* the files as a power loss would leave them
    ram,        \* scanned, session_counter
    op,         \* the handler in progress
    hist        \* history and bounds

vars == <<cache, flash, ram, op, hist>>

-----------------------------------------------------------------------------
(* State *)

\* stale in ram (history): the counters of this power-up may have been used before

Kinds == {"otp", "hotp", "other"}       \* other: static password or challenge-response

\* file: the slot's file, a marker or a configuration of older firmware; bank: whether the slot
\* is active, and the configuration, which stays when the slot is deleted; live (history): the
\* configurations that were written and neither deleted nor overwritten
NoFile == [kind |-> "none", cfg |-> None]
Marker == [kind |-> "marker", cfg |-> None]
Booted == [scanned |-> FALSE, session |-> [s \in Slots |-> 0], stale |-> FALSE]
Idle == [pc |-> "idle", cmd |-> None, todo |-> <<>>, then |-> "idle", slot |-> None, code |-> <<0, 0, 0>>]
Config(id, kind, acc) == [id |-> id, kind |-> kind, acc |-> acc, ctr |-> 0]

Init ==
    /\ \E old \in BOOLEAN :
          LET s0 == CHOOSE s \in Slots : TRUE
              c == [Config(1, "otp", CHOOSE a \in Codes : TRUE) EXCEPT !.ctr = 1] IN
          /\ cache = [file |-> [s \in Slots |-> IF old /\ s = s0 THEN [kind |-> "file", cfg |-> c] ELSE NoFile],
                      bank |-> [s \in Slots |-> [on |-> FALSE, cfg |-> None]],
                      live |-> IF old THEN {1} ELSE {}]
          /\ hist = [configs |-> IF old THEN 1 ELSE 0, presses |-> 0, mishaps |-> 0, cmds |-> 0,
                     issued |-> {}, settled |-> {}, part |-> FALSE, torn |-> FALSE]
    /\ flash = cache /\ ram = Booted /\ op = Idle

-----------------------------------------------------------------------------
(* Files *)

\* A write: where, what, and what is live afterwards
Put(f, at, v, live) == [f |-> f, at |-> at, v |-> v, live |-> live]

Applied(c, w) ==
    [(IF w.at = None THEN [c EXCEPT ![w.f] = w.v] ELSE [c EXCEPT ![w.f][w.at] = w.v]) EXCEPT !.live = w.live]

Rest == IF Len(op.todo) > 1 THEN [op EXCEPT !.todo = Tail(@)]
        ELSE IF op.then = "idle" THEN Idle ELSE [op EXCEPT !.todo = <<>>, !.pc = op.then]

Write ==
    /\ op.pc = "write"
    /\ cache' = Applied(cache, Head(op.todo))
    /\ op' = Rest
    /\ UNCHANGED <<flash, ram, hist>>

\* SWAP of which one slot is a file of older firmware: two writes
Torn == op.cmd = "swapfiles" /\ op.pc = "write"

\* A write fails. init_otp gives up after OTP_BUMP_TRIES and the press that called it goes on; the
\* result of the HOTP store is not looked at; SWAP leaves the session counters behind.
Fault ==
    /\ op.pc = "write" /\ hist.mishaps < MaxMishaps
    /\ op' = IF op.cmd = "init" /\ op.slot # None THEN [op EXCEPT !.todo = <<>>, !.pc = "press"] ELSE Idle
    /\ ram' = [ram EXCEPT !.stale = @ \/ op.cmd \in {"init", "swap", "swapfiles"}]
    /\ hist' = [hist EXCEPT !.mishaps = @ + 1, !.torn = @ \/ Torn]
    /\ UNCHANGED <<cache, flash>>

Drain ==
    /\ flash # cache /\ hist.mishaps < MaxMishaps
    /\ flash' = cache
    /\ hist' = [hist EXCEPT !.settled = hist.issued, !.part = Torn]
    /\ UNCHANGED <<cache, ram, op>>

\* The passwords typed since the last write-out are open again.
PowerLoss ==
    /\ hist.mishaps < MaxMishaps
    /\ cache' = flash /\ UNCHANGED flash
    /\ ram' = Booted /\ op' = Idle
    /\ hist' = [hist EXCEPT !.mishaps = @ + 1, !.issued = hist.settled, !.torn = @ \/ hist.part]

Run(name, writes, then, s) ==
    [Idle EXCEPT !.pc = IF writes = <<>> THEN then ELSE "write", !.cmd = name, !.todo = writes, !.then = then, !.slot = s]

-----------------------------------------------------------------------------
(* Slots: otp_slot_has_data, otp_slot_load, otp_slot_store, otp_slot_delete *)

Old(s) == cache.file[s].kind = "file"
Has(s) == Old(s) \/ cache.bank[s].on
Load(s) == IF Old(s) THEN cache.file[s].cfg ELSE cache.bank[s].cfg

\* The bank is rewritten as a whole, then the marker.
StoreLive(s, c, live) ==
    IF Old(s) THEN <<Put("file", s, [kind |-> "file", cfg |-> c], live)>>
    ELSE <<Put("bank", s, [on |-> TRUE, cfg |-> c], live), Put("file", s, Marker, live)>>
Store(s, c) == StoreLive(s, c, cache.live)

\* A slot of the bank is deleted through its marker: without one nothing happens.
DeleteWrites(s) ==
    LET live == IF Has(s) THEN cache.live \ {Load(s).id} ELSE cache.live IN
    IF cache.bank[s].on /\ cache.file[s] = Marker
    THEN <<Put("bank", s, [cache.bank[s] EXCEPT !.on = FALSE], live), Put("file", s, NoFile, live)>>
    ELSE IF cache.file[s] # NoFile THEN <<Put("file", s, NoFile, live)>> ELSE <<>>

-----------------------------------------------------------------------------
(* Power-up: init_otp *)

\* Mutant: the usage counter stays.
BumpOf_Nothing(s) == <<>>

BumpOf(s) ==
    IF Has(s) /\ Load(s).kind = "otp" /\ Load(s).ctr + 1 <= MaxCounter
    THEN Store(s, [Load(s) EXCEPT !.ctr = @ + 1]) ELSE <<>>

\* Slot by slot; scanned is set at the end.
BumpWrites ==
    LET f[S \in SUBSET Slots] ==
            IF S = {} THEN <<>> ELSE LET s == CHOOSE x \in S : TRUE IN BumpOf(s) \o f[S \ {s}]
    IN f[Slots]

\* FIDO or management is selected, CTAPHID_INIT, or the button
InitOtp ==
    /\ op = Idle /\ ~ram.scanned
    /\ op' = Run("init", BumpWrites, "scanned", None)
    /\ UNCHANGED <<cache, flash, ram, hist>>

Scanned ==
    /\ op.pc = "scanned"
    /\ ram' = [ram EXCEPT !.scanned = TRUE]
    /\ op' = IF op.slot = None THEN Idle ELSE [op EXCEPT !.pc = "press"]
    /\ UNCHANGED <<cache, flash, hist>>

\* otp_status, from SELECT of the applet or a keyboard GET REPORT, sets scanned as well: init_otp
\* then does nothing in this power-up.
Status ==
    /\ op = Idle /\ ~ram.scanned
    /\ ram' = [ram EXCEPT !.scanned = TRUE, !.stale = TRUE]
    /\ UNCHANGED <<cache, flash, op, hist>>

-----------------------------------------------------------------------------
(* The button: otp_button_pressed *)

Press(s) ==
    /\ op = Idle /\ hist.presses < MaxPresses
    /\ hist' = [hist EXCEPT !.presses = @ + 1]
    /\ op' = IF ram.scanned THEN [Idle EXCEPT !.pc = "press", !.slot = s]
             ELSE Run("init", BumpWrites, "scanned", s)
    /\ UNCHANGED <<cache, flash, ram>>

NextSession(s) == (ram.session[s] + 1) % MaxSession

\* The usage counter that is stored: when it was never set, and when the session counter wraps
Moved(s) ==
    LET used == IF Load(s).ctr = 0 THEN 1 ELSE Load(s).ctr IN
    IF NextSession(s) = 0 /\ used + 1 <= MaxCounter THEN used + 1 ELSE used

\* The password is made of the counters as they are; it is typed once the moved counter is stored.
MakeOtp ==
    /\ op.pc = "press" /\ Has(op.slot) /\ Load(op.slot).kind = "otp"
    /\ LET s == op.slot
           c == Load(s)
           writes == IF Moved(s) # c.ctr THEN Store(s, [c EXCEPT !.ctr = Moved(s)]) ELSE <<>> IN
          op' = [Run("press", writes, "type", s)
                    EXCEPT !.code = <<c.id, IF c.ctr = 0 THEN 1 ELSE c.ctr, ram.session[s]>>]
    /\ UNCHANGED <<cache, flash, ram, hist>>

Given(code) ==
    LET g == hist.issued \cup {code} IN
    [hist EXCEPT !.issued = g, !.settled = IF flash = cache THEN g ELSE @]

AfterType(s) == [ram EXCEPT !.session[s] = NextSession(s)]

TypeOtp ==
    /\ op.pc = "type"
    /\ ram' = AfterType(op.slot)
    /\ hist' = Given(op.code)
    /\ op' = Idle
    /\ UNCHANGED <<cache, flash>>

\* HOTP: typed, then stored
TypeHotp ==
    /\ op.pc = "press" /\ Has(op.slot) /\ Load(op.slot).kind = "hotp"
    /\ LET c == Load(op.slot) IN
          /\ hist' = Given(<<c.id, c.ctr, 0>>)
          /\ op' = Run("hotp", Store(op.slot, [c EXCEPT !.ctr = @ + 1]), "idle", op.slot)
    /\ UNCHANGED <<cache, flash, ram>>

\* An empty slot, a static password, a challenge-response slot
TypeOther ==
    /\ op.pc = "press" /\ (Has(op.slot) => Load(op.slot).kind = "other")
    /\ op' = Idle
    /\ UNCHANGED <<cache, flash, ram, hist>>

-----------------------------------------------------------------------------
(* Commands: cmd_otp *)

\* A command that was accepted ends with otp_status, which sets scanned.
Command(name, writes, s) ==
    /\ hist.cmds < MaxCommands
    /\ op' = Run(name, writes, "idle", s)
    /\ ram' = [ram EXCEPT !.scanned = TRUE, !.stale = @ \/ ~ram.scanned]
    /\ UNCHANGED <<cache, flash>>

Accepts(s, acc) == Has(s) => Load(s).acc = acc

Configure(s, kind, acc, new) ==
    /\ op = Idle /\ Accepts(s, acc) /\ hist.configs < MaxConfigs
    /\ LET live == (cache.live \ (IF Has(s) THEN {Load(s).id} ELSE {})) \cup {hist.configs + 1} IN
          Command("config", StoreLive(s, Config(hist.configs + 1, kind, new), live), s)
    /\ hist' = [hist EXCEPT !.configs = @ + 1, !.cmds = @ + 1]

\* ... with nothing but zeros
DeleteSlot(s, acc) ==
    /\ op = Idle /\ Accepts(s, acc) /\ Has(s)
    /\ Command("delete", DeleteWrites(s), s)
    /\ hist' = [hist EXCEPT !.cmds = @ + 1]

\* UPDATE keeps the secrets and the counter; the access code is the new one.
Update(s, acc, new) ==
    /\ op = Idle /\ Has(s) /\ Accepts(s, acc)
    /\ Command("update", Store(s, [Load(s) EXCEPT !.acc = new]), s)
    /\ hist' = [hist EXCEPT !.cmds = @ + 1]

Mark(s, on) == Put("file", s, IF on THEN Marker ELSE NoFile, cache.live)

\* Mutant: one slot after the other.
SwapBank_OneByOne(s, t) ==
    <<Put("bank", s, [on |-> Has(t), cfg |-> Load(t)], cache.live),
      Put("bank", t, [on |-> Has(s), cfg |-> Load(s)], cache.live), Mark(s, Has(t)), Mark(t, Has(s))>>

\* otp_container_swap_slots: one update of the bank, then the markers follow.
SwapBank(s, t) ==
    LET To(x, y) == [on |-> Has(y), cfg |-> IF Has(y) THEN Load(y) ELSE cache.bank[x].cfg] IN
    <<Put("bank", None, [cache.bank EXCEPT ![s] = To(s, t), ![t] = To(t, s)], cache.live),
      Mark(s, Has(t)), Mark(t, Has(s))>>

\* With a file of older firmware each slot is stored in the format of its place, one by one.
SwapFiles(s, t) ==
    LET Leave(x) == IF cache.bank[x].on /\ cache.file[x] = Marker
                    THEN <<Put("bank", x, [cache.bank[x] EXCEPT !.on = FALSE], cache.live), Mark(x, FALSE)>>
                    ELSE <<Mark(x, FALSE)>> IN
    (IF Has(t) THEN Store(s, Load(t)) ELSE Leave(s)) \o (IF Has(s) THEN Store(t, Load(s)) ELSE Leave(t))

\* The session counters go with the slots once the files are written.
Swap(s, t, acc) ==
    /\ op = Idle /\ s # t /\ (Has(s) \/ Has(t)) /\ Accepts(s, acc) /\ Accepts(t, acc)
    /\ hist.cmds < MaxCommands
    /\ op' = IF Old(s) \/ Old(t) THEN Run("swapfiles", SwapFiles(s, t), "swapped", s)
             ELSE Run("swap", SwapBank(s, t), "swapped", s)
    /\ hist' = [hist EXCEPT !.cmds = @ + 1]
    /\ UNCHANGED <<cache, flash, ram>>

\* Mutant: the session counters stay where they are.
AfterSwap_Keeps(s) == [ram EXCEPT !.scanned = TRUE, !.stale = @ \/ ~ram.scanned]

AfterSwap(s) ==
    LET t == CHOOSE x \in Slots : x # s IN
    [ram EXCEPT !.scanned = TRUE, !.stale = @ \/ ~ram.scanned,
                !.session = [@ EXCEPT ![s] = ram.session[t], ![t] = ram.session[s]]]

Swapped ==
    /\ op.pc = "swapped"
    /\ ram' = AfterSwap(op.slot)
    /\ op' = Idle
    /\ UNCHANGED <<cache, flash, hist>>

Next ==
    \/ Write \/ Fault \/ Drain \/ PowerLoss \/ InitOtp \/ Scanned \/ Status
    \/ MakeOtp \/ TypeOtp \/ TypeHotp \/ TypeOther \/ Swapped
    \/ \E s \in Slots :
          \/ Press(s)
          \/ \E acc \in Codes :
                \/ DeleteSlot(s, acc)
                \/ \E new \in Codes : Update(s, acc, new) \/ \E kind \in Kinds : Configure(s, kind, acc, new)
                \/ \E t \in Slots : Swap(s, t, acc)

Spec == Init /\ [][Next]_vars

-----------------------------------------------------------------------------
(* Properties *)

\* No two passwords of one Yubico slot carry the same usage and session counters: not over
\* power-ups, not when the session counter wraps, not when slots are swapped. Open: a power-up
\* whose first call was otp_status or whose store failed, a power loss before the counter was
\* written out, a swap that was cut or failed after it moved a slot,
\* the last usage counter.
NoOtpTwice ==
    op.pc = "type" /\ ~ram.stale /\ ~hist.torn /\ op.code[2] < MaxCounter => op.code \notin hist.issued

\* ... without the exemption for otp_status (violated)
NoOtpTwiceEver == op.pc = "type" /\ op.code[2] < MaxCounter => op.code \notin hist.issued

\* Between commands every configuration that was written is in one slot, and in no two: swaps,
\* failed writes and power losses neither lose nor copy one. Exempt: a swap with a file of older
\* firmware that was cut or failed between its two slots, and a slot whose marker a power loss took.
Ids == {Load(s).id : s \in {x \in Slots : Has(x)}}
SlotsKept ==
    op = Idle /\ ~hist.torn =>
        /\ cache.live \subseteq Ids
        /\ \A s, t \in Slots : Has(s) /\ Has(t) /\ Load(s).id = Load(t).id => s = t
===============================================================================
