------------------------------ MODULE ClientPin ------------------------------
(***************************************************************************)
(* The FIDO2 PIN and the device key it wraps: setPIN, changePIN and        *)
(* getPinUvAuthToken of cbor_client_pin.c up to the point where the PIN is *)
(* accepted, load_keydev and its companions of fido.c, and the reset. What *)
(* an accepted PIN gives, the tokens, is in PinUvAuthToken.                *)
(*                                                                         *)
(* A handler runs on core 1 and is the only writer of the files; between   *)
(* any two of its file operations core 0 may write the cached changes out  *)
(* (Drain, all of them at once) and the power may fail (PowerLoss), so a   *)
(* handler is split at each file it writes. A verifier is the PIN it was   *)
(* made from, and a key that wraps the device key is a PIN with the        *)
(* derivation that was used. What a request contains is chosen at the step *)
(* that first looks at it. Requests that are refused before they change    *)
(* anything are not steps.                                                 *)
(***************************************************************************)
EXTENDS Integers

CONSTANTS
    Pins,
    MaxRetries,    \* MAX_PIN_RETRIES
    MaxMisses,     \* consecutive mismatches that lock the PIN until a power cycle
    Keys,          \* device keys
    Upgrades,      \* BOOLEAN: the device may come from a firmware with the old formats
    None

ASSUME ConstantTypes ==
    /\ MaxRetries \in Nat \ {0} /\ MaxMisses \in Nat \ {0}
    /\ Upgrades \in BOOLEAN

\* pin_derive_session and, in the old format, hash_multi
Derived(p) == <<p, "derived">>
Multi(p) == <<p, "multi">>
Sessions == Pins \X {"derived", "multi"}

\* EF_PIN; wrong is history: the wrong PINs this file was compared with
PinData == [pin : Pins, retries : 0 .. MaxRetries, lock : BOOLEAN, legacy : BOOLEAN,
            wrong : 0 .. MaxRetries]
PinFile(p, legacy) ==
    [pin |-> p, retries |-> MaxRetries, lock |-> FALSE, legacy |-> legacy, wrong |-> 0]
NewPin(p) == PinFile(p, FALSE)
OldPin(p) == PinFile(p, TRUE)

\* EF_KEY_DEV: format 1 is not wrapped, 2 and 3 are wrapped with session_pin
KeyDev == [fmt : 1 .. 3, by : Sessions \cup {None}, id : Keys]
Plain(k) == [fmt |-> 1, by |-> None, id |-> k]
Wrapped(k, s) == [fmt |-> 3, by |-> s, id |-> k]
OldKey(k, s) == [fmt |-> 2, by |-> s, id |-> k]

ASSUME NoneIsNew == None \notin Pins \cup Keys \cup KeyDev \cup PinData \cup Sessions

\* creds: the device key under which the credentials were made
Files == [pin : PinData \cup {None}, key : KeyDev \cup {None}, creds : Keys \cup {None}]

VARIABLES
    cache,      \* the files as the firmware sees them
    flash,      \* the files as a power loss would leave them
    ram,        \* session_pin, keydev_unlocked, needs_power_cycle, new_pin_mismatches
    op,         \* the handler in progress
    hist        \* history: whether the flash was last written in the middle of a
                \* change, and whether the power ever failed then

vars == <<cache, flash, ram, op, hist>>

Steps == {"idle", "sync", "compare", "locksync", "plain", "restore", "wrap", "newpin",
          "rewrap", "store", "creds", "key", "pin", "init"}
Idle == [cmd |-> "none", pc |-> "idle", pin |-> None]
NoRam == [session |-> None, unlocked |-> FALSE, needs |-> FALSE, misses |-> 0]

\* The files of a new device, and of one that is upgraded from the old formats
NewDevice == \E k \in Keys : cache = [pin |-> None, key |-> Plain(k), creds |-> None]
OldDevice ==
    /\ Upgrades
    /\ \E p \in Pins, k \in Keys : \E key \in {Plain(k), OldKey(k, Multi(p))} :
          cache = [pin |-> OldPin(p), key |-> key, creds |-> k]

Init ==
    /\ NewDevice \/ OldDevice
    /\ flash = cache
    /\ ram = NoRam
    /\ op = Idle
    /\ hist = [mid |-> FALSE, cut |-> FALSE]

-----------------------------------------------------------------------------
(* The device key *)

\* load_keydev succeeds: the file exists and session_pin unwraps it.
Loads(f, s) == f.key # None /\ (f.key.fmt # 1 => f.key.by = s)

\* load_keydev leaves a file of format 2 in format 3.
Loaded(f) == IF f.key.fmt = 2 THEN [f EXCEPT !.key.fmt = 3] ELSE f

\* keydev_unlocked after a successful load_keydev
UnlockedByLoad == ram.unlocked \/ cache.key.fmt # 1

\* check_keydev_encrypted, and keydev_unlocked after it
Encrypted(f, s) == IF f.key.fmt = 1 THEN [f EXCEPT !.key = Wrapped(f.key.id, s)] ELSE f

UnlockedByCheck == ram.unlocked \/ cache.key.fmt = 1

\* Mutant: the key stays wrapped with the old PIN.
EncryptF1_Skip(f) == f

\* encrypt_keydev_f1
EncryptF1(f) == [f EXCEPT !.key = Plain(f.key.id)]

-----------------------------------------------------------------------------
At(cmd, pc) == op.cmd = cmd /\ op.pc = pc
Goto(pc) == op' = [op EXCEPT !.pc = pc]
Return == op' = Idle
Put(f) == cache' = f

(* setPIN *)
SetPin(p) ==
    /\ op = Idle /\ cache.pin = None
    /\ Put([cache EXCEPT !.pin = NewPin(p)])
    /\ op' = [cmd |-> "set", pc |-> "wrap", pin |-> p]
    /\ UNCHANGED <<flash, ram, hist>>

SetPinWrap ==
    LET s == Derived(op.pin) IN
    /\ At("set", "wrap")
    /\ Put(Encrypted(cache, s))
    /\ ram' = [session |-> s, unlocked |-> UnlockedByCheck, misses |-> 0, needs |-> FALSE]
    /\ Return
    /\ UNCHANGED <<flash, hist>>

(* changePIN and getPinUvAuthToken: the retry is taken, and known to be in  *)
(* flash, before the PIN is looked at (persist_pin_retry_counter).          *)

\* Mutant: the retry is not taken before the PIN is known to be wrong.
CountRetry_Late(f) == f

CountRetry(f) == [f EXCEPT !.pin.retries = @ - 1]

\* Mutant: a blocked PIN is tried.
CanTry_Blocked == cache.pin # None

CanTry == cache.pin # None /\ cache.pin.retries > 0

Try(cmd) ==
    /\ op = Idle /\ CanTry
    /\ cmd = "change" => ~ram.needs
    /\ Put(CountRetry(cache))
    /\ op' = [cmd |-> cmd, pc |-> "sync", pin |-> None]
    /\ UNCHANGED <<flash, ram, hist>>

ChangePin == Try("change")
GetToken == Try("token")

\* Mutant: the result of flash_commit_sync is ignored.
Written_Unchecked == TRUE

\* flash_commit_sync returns once the write-out has happened ...
Written == cache = flash

Synced ==
    /\ op.pc = "sync" /\ Written
    /\ Goto("compare")
    /\ UNCHANGED <<cache, flash, ram, hist>>

\* ... or gives up.
SyncTimeout ==
    /\ op.pc \in {"sync", "locksync"}
    /\ Return
    /\ UNCHANGED <<cache, flash, ram, hist>>

Mismatch ==
    LET pin == cache.pin
        misses == IF pin.lock \/ pin.retries = 0 THEN ram.misses
                  ELSE IF ram.misses < MaxMisses THEN ram.misses + 1 ELSE MaxMisses
        locks == pin.retries > 0 /\ ~pin.lock /\ misses >= MaxMisses
        seen(f) == [f EXCEPT !.pin.wrong = @ + 1]
    IN
    /\ op.pc = "compare"
    /\ ram' = [ram EXCEPT !.misses = misses, !.needs = @ \/ (pin.retries > 0 /\ pin.lock)]
    /\ IF locks THEN Put([seen(cache) EXCEPT !.pin.lock = TRUE]) /\ Goto("locksync")
                ELSE Put(seen(cache)) /\ Return
    /\ flash' = seen(flash)
    /\ UNCHANGED hist

LockSynced ==
    /\ op.pc = "locksync" /\ Written
    /\ ram' = [ram EXCEPT !.needs = TRUE]
    /\ Return
    /\ UNCHANGED <<cache, flash, hist>>

\* The PIN cannot be decrypted, or is right while a power cycle is due: the command
\* is refused and the retry is gone.
NotCompared ==
    /\ op.pc = "compare"
    /\ Return
    /\ UNCHANGED <<cache, flash, ram, hist>>

AfterUpgrade == IF op.cmd = "token" THEN "wrap" ELSE "restore"

Match ==
    /\ op.pc = "compare" /\ ~ram.needs /\ ~cache.pin.legacy
    /\ Goto(AfterUpgrade)
    /\ UNCHANGED <<cache, flash, ram, hist>>

\* A PIN file of the old format: unwrap the key the old way first.
MatchLegacy ==
    LET s == Multi(cache.pin.pin) IN
    /\ op.pc = "compare" /\ ~ram.needs /\ cache.pin.legacy
    /\ IF Loads(cache, s)
       THEN /\ Put(Loaded(cache)) /\ Goto("plain")
            /\ ram' = [ram EXCEPT !.session = s, !.unlocked = UnlockedByLoad]
       ELSE /\ Return
            /\ ram' = [ram EXCEPT !.session = s]
            /\ UNCHANGED cache
    /\ UNCHANGED <<flash, hist>>

UpgradePlain ==
    /\ op.pc = "plain"
    /\ Put(EncryptF1(cache))
    /\ Goto(AfterUpgrade)
    /\ UNCHANGED <<flash, ram, hist>>

(* getPinUvAuthToken goes on: wrap the key, check that it loads, restore the *)
(* retries. The token follows.                                               *)
TokenWrap ==
    LET s == Derived(cache.pin.pin) IN
    /\ At("token", "wrap")
    /\ Put(Encrypted(cache, s))
    /\ ram' = [ram EXCEPT !.session = s, !.unlocked = UnlockedByCheck]
    /\ Goto("restore")
    /\ UNCHANGED <<flash, hist>>

\* Mutant: the key is taken to load.
Validated_Assumed == TRUE

Validated == Loads(cache, ram.session)

TokenRestore ==
    /\ At("token", "restore")
    /\ IF Validated
       THEN /\ Put([Loaded(cache) EXCEPT !.pin = NewPin(@.pin)])
            /\ ram' = [ram EXCEPT !.unlocked = TRUE, !.misses = 0]
       ELSE /\ ram' = [ram EXCEPT !.unlocked = FALSE]
            /\ UNCHANGED cache
    /\ Return
    /\ UNCHANGED <<flash, hist>>

(* changePIN goes on: restore the retries, wrap the key, then the new PIN. *)
ChangeRestore ==
    /\ At("change", "restore")
    /\ Put([cache EXCEPT !.pin = NewPin(@.pin)])
    /\ ram' = [ram EXCEPT !.session = Derived(cache.pin.pin)]
    /\ Goto("wrap")
    /\ UNCHANGED <<flash, hist>>

ChangeWrap ==
    /\ At("change", "wrap")
    /\ Put(Encrypted(cache, ram.session))
    /\ ram' = [ram EXCEPT !.unlocked = UnlockedByCheck, !.misses = 0]
    /\ Goto("newpin")
    /\ UNCHANGED <<flash, hist>>

\* Too short, against the policy, or the key does not load.
ChangeRefused ==
    /\ At("change", "newpin")
    /\ Return
    /\ UNCHANGED <<cache, flash, ram, hist>>

ChangeNewPin(p) ==
    /\ At("change", "newpin") /\ Loads(cache, ram.session)
    /\ Put(EncryptF1(cache))
    /\ ram' = [ram EXCEPT !.unlocked = UnlockedByLoad]
    /\ op' = [op EXCEPT !.pc = "rewrap", !.pin = p]
    /\ UNCHANGED <<flash, hist>>

ChangeRewrap ==
    LET s == Derived(op.pin) IN
    /\ At("change", "rewrap")
    /\ Put(Encrypted(cache, s))
    /\ ram' = [ram EXCEPT !.session = s, !.unlocked = UnlockedByCheck]
    /\ Goto("store")
    /\ UNCHANGED <<flash, hist>>

\* The same PIN again does not satisfy a forced change.
ChangeSamePin ==
    /\ At("change", "store") /\ op.pin = cache.pin.pin
    /\ Return
    /\ UNCHANGED <<cache, flash, ram, hist>>

ChangeStore ==
    /\ At("change", "store")
    /\ Put([cache EXCEPT !.pin = NewPin(op.pin)])
    /\ ram' = [ram EXCEPT !.needs = FALSE]
    /\ Return
    /\ UNCHANGED <<flash, hist>>

-----------------------------------------------------------------------------
\* A credential is made (authenticatorMakeCredential): the device key is loaded.
MakeCredential ==
    /\ op = Idle
    /\ Loads(cache, ram.session)
    /\ Put([Loaded(cache) EXCEPT !.creds = cache.key.id])
    /\ ram' = [ram EXCEPT !.unlocked = UnlockedByLoad]
    /\ UNCHANGED <<flash, op, hist>>

(* authenticatorReset: the credentials first, then the files in the order of *)
(* fido_file_entries, then init_fido.                                        *)

\* Mutant: the credentials go last.
Cleared_KeyFirst(f) ==
    CASE op.pc = "creds" -> [f EXCEPT !.key = None]
      [] op.pc = "key"   -> [f EXCEPT !.pin = None]
      [] op.pc = "pin"   -> [f EXCEPT !.creds = None]

Cleared(f) ==
    CASE op.pc = "creds" -> [f EXCEPT !.creds = None]
      [] op.pc = "key"   -> [f EXCEPT !.key = None]
      [] op.pc = "pin"   -> [f EXCEPT !.pin = None]

ResetOrder == [creds |-> "key", key |-> "pin", pin |-> "init"]

\* init_fido: keydev_unlocked and needs_power_cycle are cleared, a missing key is made.
InitFido(f, r) ==
    /\ IF f.key = None THEN \E k \in Keys : Put([f EXCEPT !.key = Plain(k)]) ELSE Put(f)
    /\ ram' = [r EXCEPT !.unlocked = FALSE, !.needs = FALSE]

Reset ==
    /\ op = Idle
    /\ op' = [cmd |-> "reset", pc |-> "creds", pin |-> None]
    /\ UNCHANGED <<cache, flash, ram, hist>>

ResetStep ==
    /\ op.cmd = "reset" /\ op.pc # "init"
    /\ Put(Cleared(cache))
    /\ Goto(ResetOrder[op.pc])
    /\ UNCHANGED <<flash, ram, hist>>

\* A credential or its metadata cannot be deleted: no static file is cleared.
ResetFails ==
    /\ op.cmd = "reset" /\ op.pc \in {"creds", "key"}
    /\ Return
    /\ UNCHANGED <<cache, flash, ram, hist>>

ResetInit ==
    /\ At("reset", "init")
    /\ InitFido(cache, ram)
    /\ Return
    /\ UNCHANGED <<flash, hist>>

\* CTAPHID_INIT, or another applet and FIDO again: init_fido without a power cycle.
Reselect ==
    /\ op = Idle
    /\ InitFido(cache, ram)
    /\ UNCHANGED <<flash, op, hist>>

-----------------------------------------------------------------------------
(* Core 0 and the supply *)

Drain ==
    /\ cache # flash
    /\ flash' = cache
    /\ hist' = [hist EXCEPT !.mid = op.cmd # "reset" /\ op.pc \notin {"idle", "sync", "locksync", "compare"}]
    /\ UNCHANGED <<cache, ram, op>>

PowerLoss ==
    /\ InitFido(flash, NoRam)
    /\ op' = Idle
    /\ hist' = [hist EXCEPT !.cut = @ \/ hist.mid]
    /\ UNCHANGED flash

Next ==
    \/ \E p \in Pins : SetPin(p) \/ ChangeNewPin(p)
    \/ SetPinWrap
    \/ ChangePin \/ GetToken
    \/ Synced \/ SyncTimeout \/ Mismatch \/ LockSynced \/ NotCompared
    \/ Match \/ MatchLegacy \/ UpgradePlain
    \/ TokenWrap \/ TokenRestore
    \/ ChangeRestore \/ ChangeWrap \/ ChangeRefused \/ ChangeRewrap \/ ChangeSamePin \/ ChangeStore
    \/ MakeCredential
    \/ Reset \/ ResetStep \/ ResetFails \/ ResetInit \/ Reselect
    \/ Drain \/ PowerLoss

Spec == Init /\ [][Next]_vars

-----------------------------------------------------------------------------
TypeOK ==
    /\ cache \in Files /\ flash \in Files
    /\ ram \in [session : Sessions \cup {None}, unlocked : BOOLEAN, needs : BOOLEAN,
                misses : 0 .. MaxMisses]
    /\ op \in [cmd : {"none", "set", "change", "token", "reset"}, pc : Steps, pin : Pins \cup {None}]
    /\ hist \in [mid : BOOLEAN, cut : BOOLEAN]

\* Since the last time the right PIN was given, a PIN file is compared with at
\* most MaxRetries wrong ones, whatever power losses and failed write-outs come
\* in between: neither the cache nor the flash offers more tries than are left.
GuessesBounded ==
    \A f \in {cache, flash} : f.pin # None => f.pin.retries + f.pin.wrong <= MaxRetries

\* The right PIN unwraps the device key.
Unlocks(f) ==
    f.pin # None /\ f.key # None =>
        Loads(f, IF f.pin.legacy THEN Multi(f.pin.pin) ELSE Derived(f.pin.pin))

\* Between commands the stored PIN unlocks the stored device key, unless the
\* power failed when a PIN change or an upgrade was half written out.
KeyMatchesPin == op = Idle /\ ~hist.cut => Unlocks(cache)

\* cbor_client_pin.c:898: "Validate the wrapped key before advertising an unlocked
\* session": between commands keydev_unlocked means that session_pin unwraps the
\* device key.
UnlockedLoads == op = Idle /\ ram.unlocked => Loads(cache, ram.session)

\* The PIN that is stored opens the device key, unless the power failed between the two
\* writes of changePIN, and a session that counts as unlocked holds the key
\* (cbor_client_pin, encrypt_keydev_f1, load_keydev).
PinOpensKey == KeyMatchesPin /\ UnlockedLoads

\* cbor_client_pin.c:897: "A verified PIN must unlock the same device key".
\* A power loss at any moment leaves files for which this is so.
VerifiedPinUnlocks == Unlocks(flash)

\* Credentials in flash have their device key in flash, also when a reset is cut.
KeyOutlivesCredentials ==
    flash.creds # None => flash.key # None /\ flash.key.id = flash.creds

=============================================================================
