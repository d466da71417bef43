--------------------------- MODULE ClientPinProofs ---------------------------
(***************************************************************************)
(* Proofs for ClientPin, for any number of PINs, keys and retries: the     *)
(* types, that the number of wrong PINs is bounded whatever power losses   *)
(* and failed write-outs happen, that a reset never leaves credentials     *)
(* without their device key, and that the PIN opens the device key.        *)
(***************************************************************************)
EXTENDS ClientPin, TLAPS

TryCmds == {"change", "token"}
ResetSteps == {"creds", "key", "pin", "init"}

\* Where a handler is, and what it relies on there
Control ==
    /\ op.cmd = "none" <=> op = Idle
    /\ op.cmd = "reset" <=> op.pc \in ResetSteps
    /\ op.pc \notin {"pin", "init"} => cache.key \in KeyDev
    /\ op.cmd \in {"set"} \cup TryCmds => cache.pin \in PinData
    /\ op.cmd = "set" => op.pc = "wrap" /\ op.pin \in Pins
    /\ op.pc \in {"rewrap", "store"} => op.pin \in Pins
    /\ At("change", "wrap") => ram.session \in Sessions

\* The retries left in a file and the wrong PINs it has seen
Left(f) == f.pin.retries + f.pin.wrong

\* The retry is taken in the cache when the write-out is awaited, and in the
\* flash too when the PIN is compared.
Counting ==
    /\ cache.pin \in PinData => Left(cache) <= MaxRetries
    /\ flash.pin \in PinData => Left(flash) <= MaxRetries
    /\ op.pc = "sync" => Left(cache) < MaxRetries
    /\ op.pc = "compare" => cache = flash /\ Left(cache) < MaxRetries

HasKey(f) == f.creds # None => f.key \in KeyDev /\ f.key.id = f.creds

\* Credentials have their key, and a reset that touches the key has no credentials left.
Keyed ==
    /\ HasKey(cache)
    /\ HasKey(flash)
    /\ op.pc \in ResetSteps \ {"creds"} => cache.creds = None

IInv == TypeOK /\ Control /\ Counting /\ Keyed

\* A wrapped key is wrapped with a session, and without a PIN the key is not wrapped.
Sealed(f) ==
    /\ f.key \in KeyDev /\ f.key.fmt # 1 => f.key.by \in Sessions
    /\ f.pin = None => f.key = None \/ f.key.fmt = 1

\* The session the PIN of a file gives
SessionOf(f) == IF f.pin.legacy THEN Multi(f.pin.pin) ELSE Derived(f.pin.pin)

\* The steps before a command has accepted the PIN, and after it has returned
Outside == {"idle", "sync", "compare", "locksync", "creds", "key"}

\* session_pin is the session of the stored PIN, and keydev_unlocked means that it opens the
\* key, except in the middle of a command: what holds at each step of one.
Opening ==
    /\ op.pc \in Outside =>
          /\ cache.pin # None => ram.session \in {None, SessionOf(cache)}
          /\ ram.unlocked => Loads(cache, ram.session)
    /\ op.cmd = "set" => cache.key.fmt = 1 /\ cache.pin.pin = op.pin /\ ~cache.pin.legacy
    /\ op.pc = "plain" => Loads(cache, Multi(cache.pin.pin))
    /\ At("token", "wrap") => (cache.pin.legacy => cache.key.fmt = 1)
    /\ At("token", "restore") =>
          /\ ram.session = Derived(cache.pin.pin)
          /\ cache.pin.legacy => Loads(cache, ram.session)
    /\ At("change", "restore") => (ram.unlocked => Loads(cache, Derived(cache.pin.pin)))
    /\ At("change", "wrap") \/ op.pc = "newpin" =>
          /\ ram.session = Derived(cache.pin.pin) /\ ~cache.pin.legacy
          /\ ram.unlocked => Loads(cache, ram.session)
    /\ op.pc = "rewrap" => cache.key.fmt = 1 /\ ~cache.pin.legacy
    /\ op.pc \in {"pin", "init"} => cache.key = None
    /\ op.pc = "init" => cache.pin = None
    /\ op.pc = "store" =>
          ram.session = Derived(op.pin) /\ ~cache.pin.legacy /\ Loads(cache, ram.session)

\* As long as the power has not failed over a command that was half written out, the PIN
\* opens the key, in the cache between commands and in the flash after a write-out between
\* commands.
Matching ==
    ~hist.cut =>
    /\ ~hist.mid => Unlocks(flash)
    /\ op.pc \in Outside \cup ResetSteps => Unlocks(cache)
    /\ op.cmd \in TryCmds /\ op.pc \in {"wrap", "restore", "newpin"} =>
          Loads(cache, Derived(cache.pin.pin))

KeyInv == Sealed(cache) /\ Sealed(flash) /\ Opening /\ Matching

-----------------------------------------------------------------------------
(* The operations on files *)

\* g is f with another PIN file.
WithPin(f, g, q) == g \in Files /\ g.pin = q /\ g.key = f.key /\ g.creds = f.creds

\* g is f with its device key kept in another form.
SameKey(f, g) ==
    /\ g \in Files /\ g.key \in KeyDev
    /\ g.pin = f.pin /\ g.creds = f.creds /\ g.key.id = f.key.id

\* Writing EF_PIN touches no other file.
LEMMA PutPin ==
    ASSUME NEW f \in Files, NEW q \in PinData
    PROVE  WithPin(f, [f EXCEPT !.pin = q], q)
BY DEF Files, WithPin

\* load_keydev, check_keydev_encrypted and encrypt_keydev_f1 keep the device key.
LEMMA KeepKey ==
    ASSUME NEW f \in Files, f.key \in KeyDev
    PROVE  /\ SameKey(f, Loaded(f)) /\ SameKey(f, EncryptF1(f))
           /\ \A s \in Sessions : SameKey(f, Encrypted(f, s))
<1>1. SameKey(f, f)
  BY DEF SameKey
<1>2. f.key.fmt \in 1 .. 3 /\ f.key.id \in Keys /\ f.key.by \in Sessions \cup {None}
  BY DEF KeyDev
<1>3. ASSUME NEW k \in KeyDev, k.id = f.key.id
      PROVE  SameKey(f, [f EXCEPT !.key = k])
  BY <1>3 DEF SameKey, Files
<1>4. SameKey(f, Loaded(f))
  <2>1. [f.key EXCEPT !.fmt = 3] \in KeyDev /\ [f.key EXCEPT !.fmt = 3].id = f.key.id
    BY <1>2 DEF KeyDev
  <2>2. [f EXCEPT !.key.fmt = 3] = [f EXCEPT !.key = [f.key EXCEPT !.fmt = 3]]
    BY DEF Files
  <2> QED BY <1>1, <1>3, <2>1, <2>2 DEF Loaded
<1>5. ASSUME NEW s \in Sessions PROVE SameKey(f, Encrypted(f, s))
  <2>1. Wrapped(f.key.id, s) \in KeyDev /\ Wrapped(f.key.id, s).id = f.key.id
    BY <1>2 DEF Wrapped, KeyDev
  <2> QED BY <1>1, <1>3, <2>1 DEF Encrypted
<1>6. SameKey(f, EncryptF1(f))
  <2>1. Plain(f.key.id) \in KeyDev /\ Plain(f.key.id).id = f.key.id
    BY <1>2 DEF Plain, KeyDev
  <2> QED BY <1>3, <2>1 DEF EncryptF1
<1> QED BY <1>4, <1>5, <1>6

\* A new PIN file, of either format, has all its retries.
LEMMA PinFileType ==
    ASSUME NEW p \in Pins, NEW legacy \in BOOLEAN
    PROVE  /\ PinFile(p, legacy) \in PinData
           /\ PinFile(p, legacy).retries + PinFile(p, legacy).wrong = MaxRetries
BY ConstantTypes DEF PinFile, PinData

\* The parts of a PIN file
LEMMA PinParts ==
    ASSUME NEW q \in PinData
    PROVE  /\ q.pin \in Pins /\ q.retries \in 0 .. MaxRetries /\ q.wrong \in 0 .. MaxRetries
           /\ q.lock \in BOOLEAN /\ q.legacy \in BOOLEAN
BY DEF PinData

\* A PIN file that is locked until a power cycle
LEMMA LockedPin ==
    ASSUME NEW q \in PinData
    PROVE  LET l == [q EXCEPT !.lock = TRUE]
           IN  l \in PinData /\ l.retries = q.retries /\ l.wrong = q.wrong
BY DEF PinData

\* The sessions a PIN gives
LEMMA SessionTypes ==
    ASSUME NEW p \in Pins
    PROVE  Derived(p) \in Sessions /\ Multi(p) \in Sessions
BY DEF Derived, Multi, Sessions

RamType == [session : Sessions \cup {None}, unlocked : BOOLEAN, needs : BOOLEAN,
            misses : 0 .. MaxMisses]

\* init_fido makes a device key only where none is, and then there are no credentials.
LEMMA InitFidoKeeps ==
    ASSUME NEW f \in Files, HasKey(f), NEW r \in RamType, InitFido(f, r)
    PROVE  /\ cache' \in Files /\ cache'.key \in KeyDev
           /\ cache'.pin = f.pin /\ cache'.creds = f.creds /\ HasKey(cache')
           /\ ram' \in RamType
<1>1. ram' \in RamType
  BY DEF InitFido, RamType
<1>2. CASE f.key = None
  <2>1. PICK k \in Keys : cache' = [f EXCEPT !.key = Plain(k)]
    BY <1>2 DEF InitFido, Put
  <2>2. Plain(k) \in KeyDev
    BY DEF Plain, KeyDev
  <2>3. /\ cache' \in Files /\ cache'.key = Plain(k)
        /\ cache'.pin = f.pin /\ cache'.creds = f.creds
    BY <2>1, <2>2 DEF Files
  <2>4. f.creds = None
    BY <1>2, NoneIsNew DEF HasKey
  <2> QED BY <1>1, <2>2, <2>3, <2>4 DEF HasKey
<1>3. CASE f.key # None
  BY <1>1, <1>3 DEF InitFido, Put, Files
<1> QED BY <1>2, <1>3

-----------------------------------------------------------------------------
(* The invariant *)

\* The files of a new or upgraded device satisfy the invariant.
LEMMA InitIInv == Init => IInv
<1> SUFFICES ASSUME Init PROVE IInv
  OBVIOUS
<1>1. cache \in Files /\ cache.key \in KeyDev /\ HasKey(cache)
      /\ (cache.pin \in PinData => Left(cache) <= MaxRetries)
  <2>1. CASE NewDevice
    <3>1. PICK k \in Keys : cache = [pin |-> None, key |-> Plain(k), creds |-> None]
      BY <2>1 DEF NewDevice
    <3>2. Plain(k) \in KeyDev
      BY DEF Plain, KeyDev
    <3> QED BY <3>1, <3>2, NoneIsNew DEF Files, HasKey, Left
  <2>2. CASE OldDevice
    <3>1. PICK p \in Pins, k \in Keys : \E key \in {Plain(k), OldKey(k, Multi(p))} :
             cache = [pin |-> OldPin(p), key |-> key, creds |-> k]
      BY <2>2 DEF OldDevice
    <3>2. PICK key \in {Plain(k), OldKey(k, Multi(p))} :
             cache = [pin |-> OldPin(p), key |-> key, creds |-> k]
      BY <3>1
    <3>3. key \in KeyDev /\ key.id = k
      <4>1. Plain(k) \in KeyDev /\ Plain(k).id = k
        BY DEF Plain, KeyDev
      <4>2. OldKey(k, Multi(p)) \in KeyDev /\ OldKey(k, Multi(p)).id = k
        BY SessionTypes DEF OldKey, KeyDev
      <4> QED BY <3>2, <4>1, <4>2
    <3>4. OldPin(p) \in PinData /\ OldPin(p).retries + OldPin(p).wrong = MaxRetries
      BY PinFileType DEF OldPin
    <3>5. cache.pin = OldPin(p) /\ cache.key = key /\ cache.creds = k /\ cache \in Files
      BY <3>2, <3>3, <3>4 DEF Files
    <3> QED BY <3>3, <3>4, <3>5, ConstantTypes DEF HasKey, Left
  <2> QED BY <2>1, <2>2 DEF Init
<1>2. TypeOK
  BY <1>1, ConstantTypes DEF Init, TypeOK, NoRam, Idle, Steps
<1>3. Control /\ Counting /\ Keyed
  BY <1>1 DEF Init, Control, At, Counting, Keyed, Idle, TryCmds, ResetSteps
<1> QED BY <1>2, <1>3 DEF IInv

\* Every step keeps the invariant.
LEMMA NextIInv == IInv /\ [Next]_vars => IInv'
<1> SUFFICES ASSUME IInv, [Next]_vars PROVE IInv'
  OBVIOUS
<1> USE DEF IInv
<1>t. /\ cache \in Files /\ flash \in Files
      /\ cache.pin \in PinData \cup {None} /\ flash.pin \in PinData \cup {None}
      /\ cache.key \in KeyDev \cup {None} /\ flash.key \in KeyDev \cup {None}
      /\ cache.creds \in Keys \cup {None} /\ flash.creds \in Keys \cup {None}
  BY DEF TypeOK, Files
<1>s. /\ op = [cmd |-> op.cmd, pc |-> op.pc, pin |-> op.pin]
      /\ op.cmd \in {"none", "set", "change", "token", "reset"} /\ op.pc \in Steps
      /\ op.pin \in Pins \cup {None}
  BY DEF TypeOK
<1>1. ASSUME NEW p \in Pins, SetPin(p) PROVE IInv'
  <2>1. WithPin(cache, cache', NewPin(p)) /\ NewPin(p) \in PinData
    BY <1>1, <1>t, PutPin, PinFileType DEF SetPin, Put, NewPin
  <2>2. TypeOK'
    BY <1>1, <2>1 DEF SetPin, WithPin, TypeOK, Steps
  <2>3. Control'
    BY <1>1, <2>1 DEF SetPin, WithPin, Control, At, Idle, TryCmds, ResetSteps
  <2>4. Counting'
    <3>1. NewPin(p).retries + NewPin(p).wrong = MaxRetries
      BY PinFileType DEF NewPin
    <3> QED BY <1>1, <2>1, <3>1, ConstantTypes DEF SetPin, WithPin, Counting, Left
  <2>5. Keyed'
    BY <1>1, <2>1 DEF SetPin, WithPin, Keyed, HasKey, ResetSteps
  <2> QED BY <2>2, <2>3, <2>4, <2>5
<1>2. CASE SetPinWrap
  <2>1. SameKey(cache, cache') /\ Derived(op.pin) \in Sessions /\ cache.key \in KeyDev
    BY <1>2, <1>t, KeepKey, SessionTypes DEF SetPinWrap, Put, At, Control
  <2>2. TypeOK'
    BY <1>2, <2>1, ConstantTypes DEF SetPinWrap, Return, SameKey, TypeOK, Idle, Steps, UnlockedByCheck
  <2>3. Control'
    BY <1>2, <2>1 DEF SetPinWrap, Return, SameKey, Control, At, Idle, TryCmds, ResetSteps
  <2>4. Counting'
    BY <1>2, <2>1 DEF SetPinWrap, Return, SameKey, Counting, Left, Idle
  <2>5. Keyed'
    BY <1>2, <2>1 DEF SetPinWrap, Return, SameKey, Keyed, HasKey, Idle, ResetSteps
  <2> QED BY <2>2, <2>3, <2>4, <2>5
<1>3. ASSUME NEW cmd \in TryCmds, Try(cmd) PROVE IInv'
  <2>1. cache.pin \in PinData /\ cache.pin.retries > 0
    BY <1>3, <1>t DEF Try, CanTry
  <2> DEFINE q == [cache.pin EXCEPT !.retries = cache.pin.retries - 1]
  <2>2. q \in PinData /\ q.retries = cache.pin.retries - 1 /\ q.wrong = cache.pin.wrong
    BY <2>1, ConstantTypes DEF PinData
  <2>3. CountRetry(cache) = [cache EXCEPT !.pin = q]
    BY <1>t, <2>1 DEF CountRetry, Files, PinData
  <2> HIDE DEF q
  <2>4. WithPin(cache, cache', q)
    BY <1>3, <1>t, <2>2, <2>3, PutPin DEF Try, Put
  <2>5. TypeOK'
    BY <1>3, <2>4 DEF Try, WithPin, TypeOK, Steps, TryCmds
  <2>6. Control'
    BY <1>3, <2>2, <2>4 DEF Try, WithPin, Control, At, Idle, TryCmds, ResetSteps
  <2>7. Counting'
    <3>1. cache.pin.retries \in Nat /\ cache.pin.wrong \in Nat
      BY <2>1, ConstantTypes DEF PinData
    <3> QED BY <1>3, <2>1, <2>2, <2>4, <3>1, ConstantTypes DEF Try, WithPin, Counting, Left
  <2>8. Keyed'
    BY <1>3, <2>4 DEF Try, WithPin, Keyed, HasKey, ResetSteps
  <2> QED BY <2>5, <2>6, <2>7, <2>8
<1>4. CASE Synced
  BY <1>4, <1>s DEF Synced, Goto, Return, At, Idle, Steps, AfterUpgrade, Written, TypeOK,
      Control, Counting, Keyed, TryCmds, ResetSteps
<1>5. CASE SyncTimeout
  BY <1>5, <1>s DEF SyncTimeout, Goto, Return, At, Idle, Steps, AfterUpgrade, Written, TypeOK,
      Control, Counting, Keyed, TryCmds, ResetSteps
<1>6. CASE LockSynced
  BY <1>6, <1>s DEF LockSynced, Goto, Return, At, Idle, Steps, AfterUpgrade, Written, TypeOK,
      Control, Counting, Keyed, TryCmds, ResetSteps
<1>7. CASE NotCompared
  BY <1>7, <1>s DEF NotCompared, Goto, Return, At, Idle, Steps, AfterUpgrade, Written, TypeOK,
      Control, Counting, Keyed, TryCmds, ResetSteps
<1>8. CASE Match
  BY <1>8, <1>s DEF Match, Goto, Return, At, Idle, Steps, AfterUpgrade, Written, TypeOK,
      Control, Counting, Keyed, TryCmds, ResetSteps
<1>9. CASE ChangeRefused
  BY <1>9, <1>s DEF ChangeRefused, Goto, Return, At, Idle, Steps, AfterUpgrade, Written, TypeOK,
      Control, Counting, Keyed, TryCmds, ResetSteps
<1>10. CASE ChangeSamePin
  BY <1>10, <1>s DEF ChangeSamePin, Goto, Return, At, Idle, Steps, AfterUpgrade, Written, TypeOK,
      Control, Counting, Keyed, TryCmds, ResetSteps
<1>11. CASE Reset
  BY <1>11, <1>s DEF Reset, Goto, Return, At, Idle, Steps, AfterUpgrade, Written, TypeOK,
      Control, Counting, Keyed, TryCmds, ResetSteps
<1>12. CASE UpgradePlain
  <2>1. SameKey(cache, cache') /\ cache.key \in KeyDev 
    BY <1>12, <1>t, KeepKey DEF UpgradePlain, Put, At, Control, TryCmds, ResetSteps
  <2>2. TypeOK'
    BY <1>12, <1>s, <2>1 DEF UpgradePlain, Goto, At, SameKey, TypeOK, Steps, AfterUpgrade,
       UnlockedByLoad
  <2>3. Control'
    BY <1>12, <1>s, <2>1 DEF UpgradePlain, Goto, At, SameKey, Control, Idle, TryCmds, ResetSteps,
       AfterUpgrade
  <2>4. Counting'
    BY <1>12, <1>s, <2>1 DEF UpgradePlain, Goto, At, SameKey, Counting, Left, AfterUpgrade
  <2>5. Keyed'
    BY <1>12, <1>s, <2>1 DEF UpgradePlain, Goto, At, SameKey, Keyed, HasKey, ResetSteps, AfterUpgrade
  <2> QED BY <2>2, <2>3, <2>4, <2>5
<1>13. CASE TokenWrap
  <2>1. SameKey(cache, cache') /\ cache.key \in KeyDev /\ Derived(cache.pin.pin) \in Sessions
    BY <1>13, <1>t, KeepKey, SessionTypes, PinParts DEF TokenWrap, Put, At, Control, TryCmds
  <2>2. TypeOK'
    BY <1>13, <1>s, <2>1 DEF TokenWrap, Goto, At, SameKey, TypeOK, Steps, AfterUpgrade,
       UnlockedByCheck
  <2>3. Control'
    BY <1>13, <1>s, <2>1 DEF TokenWrap, Goto, At, SameKey, Control, Idle, TryCmds, ResetSteps,
       AfterUpgrade
  <2>4. Counting'
    BY <1>13, <1>s, <2>1 DEF TokenWrap, Goto, At, SameKey, Counting, Left, AfterUpgrade
  <2>5. Keyed'
    BY <1>13, <1>s, <2>1 DEF TokenWrap, Goto, At, SameKey, Keyed, HasKey, ResetSteps, AfterUpgrade
  <2> QED BY <2>2, <2>3, <2>4, <2>5
<1>14. CASE ChangeWrap
  <2>1. SameKey(cache, cache') /\ cache.key \in KeyDev 
    BY <1>14, <1>t, KeepKey DEF ChangeWrap, Put, At, Control, TryCmds
  <2>2. TypeOK'
    <3>1. 0 \in 0 .. MaxMisses /\ UnlockedByCheck \in BOOLEAN
      BY ConstantTypes DEF UnlockedByCheck, TypeOK
    <3> QED BY <1>14, <1>s, <2>1, <3>1 DEF ChangeWrap, Goto, At, SameKey, TypeOK, Steps
  <2>3. Control'
    BY <1>14, <1>s, <2>1 DEF ChangeWrap, Goto, At, SameKey, Control, Idle, TryCmds, ResetSteps,
       AfterUpgrade
  <2>4. Counting'
    BY <1>14, <1>s, <2>1 DEF ChangeWrap, Goto, At, SameKey, Counting, Left, AfterUpgrade
  <2>5. Keyed'
    BY <1>14, <1>s, <2>1 DEF ChangeWrap, Goto, At, SameKey, Keyed, HasKey, ResetSteps, AfterUpgrade
  <2> QED BY <2>2, <2>3, <2>4, <2>5
<1>15. ASSUME NEW p \in Pins, ChangeNewPin(p) PROVE IInv'
  <2>1. SameKey(cache, cache') /\ cache.key \in KeyDev 
    BY <1>15, <1>t, KeepKey DEF ChangeNewPin, Put, At, Control, TryCmds
  <2>2. TypeOK'
    BY <1>15, <1>s, <2>1 DEF ChangeNewPin, Goto, At, SameKey, TypeOK, Steps, AfterUpgrade,
       UnlockedByLoad
  <2>3. Control'
    BY <1>15, <1>s, <2>1 DEF ChangeNewPin, Goto, At, SameKey, Control, Idle, TryCmds, ResetSteps,
       AfterUpgrade
  <2>4. Counting'
    BY <1>15, <1>s, <2>1 DEF ChangeNewPin, Goto, At, SameKey, Counting, Left, AfterUpgrade
  <2>5. Keyed'
    BY <1>15, <1>s, <2>1 DEF ChangeNewPin, Goto, At, SameKey, Keyed, HasKey, ResetSteps, AfterUpgrade
  <2> QED BY <2>2, <2>3, <2>4, <2>5
<1>16. CASE ChangeRewrap
  <2>1. SameKey(cache, cache') /\ cache.key \in KeyDev /\ Derived(op.pin) \in Sessions
    BY <1>16, <1>t, KeepKey, SessionTypes DEF ChangeRewrap, Put, At, Control, TryCmds
  <2>2. TypeOK'
    BY <1>16, <1>s, <2>1 DEF ChangeRewrap, Goto, At, SameKey, TypeOK, Steps, AfterUpgrade,
       UnlockedByCheck
  <2>3. Control'
    BY <1>16, <1>s, <2>1 DEF ChangeRewrap, Goto, At, SameKey, Control, Idle, TryCmds, ResetSteps,
       AfterUpgrade
  <2>4. Counting'
    BY <1>16, <1>s, <2>1 DEF ChangeRewrap, Goto, At, SameKey, Counting, Left, AfterUpgrade
  <2>5. Keyed'
    BY <1>16, <1>s, <2>1 DEF ChangeRewrap, Goto, At, SameKey, Keyed, HasKey, ResetSteps, AfterUpgrade
  <2> QED BY <2>2, <2>3, <2>4, <2>5
<1>17. CASE Mismatch
  <2> DEFINE w == [cache.pin EXCEPT !.wrong = cache.pin.wrong + 1]
             l == [w EXCEPT !.lock = TRUE]
  <2>1. op.pc = "compare" /\ cache = flash /\ cache.pin \in PinData /\ Left(cache) < MaxRetries
    BY <1>17, <1>s DEF Mismatch, Control, Counting, TryCmds, ResetSteps, Idle
  <2>2. /\ w \in PinData /\ w.retries = cache.pin.retries /\ w.wrong = cache.pin.wrong + 1
        /\ l \in PinData /\ l.retries = cache.pin.retries /\ l.wrong = cache.pin.wrong + 1
    <3>1. cache.pin.wrong + 1 \in 0 .. MaxRetries
      BY <2>1, ConstantTypes DEF PinData, Left
    <3>2. w \in PinData /\ w.retries = cache.pin.retries /\ w.wrong = cache.pin.wrong + 1
      BY <2>1, <3>1 DEF PinData
    <3> HIDE DEF w
    <3> QED BY <3>2, LockedPin
  <2>3. /\ [cache EXCEPT !.pin.wrong = @ + 1] = [cache EXCEPT !.pin = w]
        /\ [[cache EXCEPT !.pin.wrong = @ + 1] EXCEPT !.pin.lock = TRUE] = [cache EXCEPT !.pin = l]
    BY <1>t, <2>1 DEF Files, PinData
  <2> HIDE DEF w, l
  <2>4. WithPin(cache, flash', w)
    BY <1>17, <1>t, <2>1, <2>2, <2>3, PutPin DEF Mismatch
  <2>5. \/ WithPin(cache, cache', w) /\ op' = Idle
        \/ WithPin(cache, cache', l) /\ op' = [op EXCEPT !.pc = "locksync"]
    BY <1>17, <1>t, <2>1, <2>2, <2>3, PutPin DEF Mismatch, Put, Goto, Return
  <2>6. cache.pin.retries \in Nat /\ cache.pin.wrong \in Nat
    BY <2>1, ConstantTypes DEF PinData
  <2>7. ram' \in [session : Sessions \cup {None}, unlocked : BOOLEAN, needs : BOOLEAN,
                  misses : 0 .. MaxMisses]
    <3>1. cache.pin.lock \in BOOLEAN /\ ram.needs \in BOOLEAN
          /\ ram.misses \in 0 .. MaxMisses /\ MaxMisses \in 0 .. MaxMisses
          /\ (ram.misses < MaxMisses => ram.misses + 1 \in 0 .. MaxMisses)
      BY <2>1, ConstantTypes DEF PinData, TypeOK
    <3> QED BY <1>17, <2>6, <3>1 DEF Mismatch, TypeOK
  <2>8. TypeOK'
    BY <1>17, <1>s, <2>2, <2>4, <2>5, <2>7 DEF Mismatch, WithPin, TypeOK, Idle, Steps
  <2>9. Control'
    BY <1>s, <2>1, <2>2, <2>5 DEF WithPin, Control, At, Idle, TryCmds, ResetSteps
  <2>10. Counting'
    BY <1>s, <2>1, <2>2, <2>4, <2>5, <2>6, ConstantTypes DEF WithPin, Counting, Left, Idle
  <2>11. Keyed'
    BY <1>s, <2>1, <2>4, <2>5 DEF WithPin, Keyed, HasKey, Idle, ResetSteps
  <2> QED BY <2>8, <2>9, <2>10, <2>11
<1>18. CASE MatchLegacy
  <2>1. op.pc = "compare" /\ cache.pin \in PinData /\ cache.key \in KeyDev
        /\ op.cmd \in TryCmds
    BY <1>18, <1>s DEF MatchLegacy, Control, TryCmds, ResetSteps, Idle
  <2>2. Multi(cache.pin.pin) \in Sessions
    BY <2>1, PinParts, SessionTypes
  <2>3. /\ SameKey(cache, cache')
        /\ op' \in {Idle, [op EXCEPT !.pc = "plain"]}
    BY <1>18, <1>t, <2>1, KeepKey DEF MatchLegacy, Put, Goto, Return, SameKey
  <2>4. ram' \in [session : Sessions \cup {None}, unlocked : BOOLEAN, needs : BOOLEAN,
                  misses : 0 .. MaxMisses]
    BY <1>18, <2>2 DEF MatchLegacy, TypeOK, UnlockedByLoad
  <2>5. TypeOK'
    BY <1>18, <1>s, <2>3, <2>4 DEF MatchLegacy, SameKey, TypeOK, Idle, Steps
  <2>6. Control'
    BY <1>s, <2>1, <2>3 DEF SameKey, Control, At, Idle, TryCmds, ResetSteps
  <2>7. Counting'
    BY <1>18, <1>s, <2>3 DEF MatchLegacy, SameKey, Counting, Left, Idle
  <2>8. Keyed'
    BY <1>18, <1>s, <2>3 DEF MatchLegacy, SameKey, Keyed, HasKey, Idle, ResetSteps
  <2> QED BY <2>5, <2>6, <2>7, <2>8
<1>19. CASE TokenRestore
  <2>1. op.cmd = "token" /\ op.pc = "restore" /\ cache.pin \in PinData /\ cache.key \in KeyDev
    BY <1>19, <1>s DEF TokenRestore, At, Control, TryCmds
  <2>2. CASE ~Validated
    BY <1>19, <1>s, <2>1, <2>2 DEF TokenRestore, Return, TypeOK, Idle, Steps, Control, At, Counting,
        Keyed, TryCmds, ResetSteps
  <2>3. CASE Validated
    <3> DEFINE f == Loaded(cache)
               q == NewPin(f.pin.pin)
    <3>1. SameKey(cache, f)
      BY <1>t, <2>1, KeepKey
    <3>2. q \in PinData /\ q.retries + q.wrong = MaxRetries
      BY <2>1, <3>1, PinParts, PinFileType DEF SameKey, NewPin
    <3>3. cache' = [f EXCEPT !.pin = q]
      BY <1>19, <2>3 DEF TokenRestore, Put
    <3>4. WithPin(f, cache', q)
      BY <3>1, <3>2, <3>3, PutPin DEF SameKey
    <3> HIDE DEF f, q
    <3>5. TypeOK'
      <4>1. 0 \in 0 .. MaxMisses
        BY ConstantTypes
      <4> QED BY <1>19, <1>s, <2>3, <3>4, <4>1 DEF TokenRestore, Return, WithPin, TypeOK, Idle, Steps
    <3>6. Control'
      BY <1>19, <1>s, <3>1, <3>4 DEF TokenRestore, Return, SameKey, WithPin, Control, At, Idle,
         TryCmds, ResetSteps
    <3>7. Counting'
      BY <1>19, <1>s, <3>2, <3>4, ConstantTypes DEF TokenRestore, Return, WithPin, Counting, Left,
         Idle
    <3>8. Keyed'
      BY <1>19, <1>s, <3>1, <3>4 DEF TokenRestore, Return, SameKey, WithPin, Keyed, HasKey, Idle,
         ResetSteps
    <3> QED BY <3>5, <3>6, <3>7, <3>8
  <2> QED BY <2>2, <2>3
<1>20. CASE ChangeRestore
  <2>1. op.cmd = "change" /\ op.pc = "restore" /\ cache.pin \in PinData /\ cache.key \in KeyDev
    BY <1>20, <1>s DEF ChangeRestore, At, Control, TryCmds
  <2>2. /\ NewPin(cache.pin.pin) \in PinData /\ Derived(cache.pin.pin) \in Sessions
        /\ NewPin(cache.pin.pin).retries + NewPin(cache.pin.pin).wrong = MaxRetries
    BY <2>1, PinParts, PinFileType, SessionTypes DEF NewPin
  <2>3. WithPin(cache, cache', NewPin(cache.pin.pin))
    BY <1>20, <1>t, <2>2, PutPin DEF ChangeRestore, Put
  <2>4. TypeOK'
    BY <1>20, <1>s, <2>2, <2>3 DEF ChangeRestore, Goto, WithPin, TypeOK, Steps
  <2>5. Control'
    <3>1. ram'.session = Derived(cache.pin.pin)
      BY <1>20 DEF ChangeRestore, TypeOK
    <3> QED BY <1>20, <1>s, <2>1, <2>2, <2>3, <3>1 DEF ChangeRestore, Goto, WithPin, Control, At,
               Idle, TryCmds, ResetSteps
  <2>6. Counting'
    BY <1>20, <1>s, <2>2, <2>3, ConstantTypes DEF ChangeRestore, Goto, WithPin, Counting, Left
  <2>7. Keyed'
    BY <1>20, <1>s, <2>3 DEF ChangeRestore, Goto, WithPin, Keyed, HasKey, ResetSteps
  <2> QED BY <2>4, <2>5, <2>6, <2>7
<1>21. CASE ChangeStore
  <2>1. op.cmd = "change" /\ op.pin \in Pins /\ cache.key \in KeyDev
    BY <1>21, <1>s DEF ChangeStore, At, Control
  <2>2. NewPin(op.pin) \in PinData /\ NewPin(op.pin).retries + NewPin(op.pin).wrong = MaxRetries
    BY <2>1, PinFileType DEF NewPin
  <2>3. WithPin(cache, cache', NewPin(op.pin))
    BY <1>21, <1>t, <2>2, PutPin DEF ChangeStore, Put
  <2>4. TypeOK'
    BY <1>21, <1>s, <2>3 DEF ChangeStore, Return, WithPin, TypeOK, Idle, Steps
  <2>5. Control'
    BY <1>21, <1>s, <2>1, <2>3 DEF ChangeStore, Return, WithPin, Control, At, Idle, TryCmds,
       ResetSteps
  <2>6. Counting'
    BY <1>21, <1>s, <2>2, <2>3, ConstantTypes DEF ChangeStore, Return, WithPin, Counting, Left, Idle
  <2>7. Keyed'
    BY <1>21, <1>s, <2>3 DEF ChangeStore, Return, WithPin, Keyed, HasKey, Idle, ResetSteps
  <2> QED BY <2>4, <2>5, <2>6, <2>7
<1>22. CASE MakeCredential
  <2> DEFINE f == Loaded(cache)
  <2>1. cache.key \in KeyDev /\ cache.key.id \in Keys
    BY <1>22, <1>t DEF MakeCredential, Loads, KeyDev
  <2>2. SameKey(cache, f)
    BY <1>t, <2>1, KeepKey
  <2>3. cache' = [f EXCEPT !.creds = cache.key.id]
    BY <1>22 DEF MakeCredential, Put
  <2> HIDE DEF f
  <2>4. /\ cache' \in Files /\ cache'.pin = cache.pin /\ cache'.key \in KeyDev
        /\ cache'.key.id = cache.key.id /\ cache'.creds = cache.key.id
    BY <2>1, <2>2, <2>3 DEF SameKey, Files
  <2>5. TypeOK'
    BY <1>22, <2>4 DEF MakeCredential, TypeOK, UnlockedByLoad
  <2>6. Control'
    BY <1>22, <2>4 DEF MakeCredential, Control, At, Idle, TryCmds, ResetSteps
  <2>7. Counting'
    BY <1>22, <2>4 DEF MakeCredential, Counting, Left, Idle
  <2>8. Keyed'
    BY <1>22, <2>4 DEF MakeCredential, Keyed, HasKey, Idle, ResetSteps
  <2> QED BY <2>5, <2>6, <2>7, <2>8
<1>23. CASE ResetStep
  <2>1. op.cmd = "reset" /\ op.pc \in {"creds", "key", "pin"}
    BY <1>23, <1>s DEF ResetStep, Control, ResetSteps
  <2>2. /\ cache' \in Files /\ op' = [op EXCEPT !.pc = ResetOrder[op.pc]]
        /\ cache'.pin \in {cache.pin, None} /\ cache'.creds \in {cache.creds, None}
        /\ op.pc = "creds" => cache'.creds = None /\ cache'.key = cache.key
    BY <1>23, <1>t, <2>1 DEF ResetStep, Put, Goto, Cleared, Files
  <2>3. cache.creds = None \/ op.pc = "creds"
    BY <2>1 DEF Keyed, ResetSteps
  <2>4. cache'.creds = None
    BY <2>2, <2>3
  <2>5. /\ op'.cmd = "reset" /\ op'.pc \in {"key", "pin", "init"} /\ op'.pin = op.pin
        /\ op'.pc = "key" => op.pc = "creds"
    BY <1>s, <2>1, <2>2 DEF ResetOrder
  <2>6. op' \in [cmd : {"none", "set", "change", "token", "reset"}, pc : Steps, pin : Pins \cup {None}]
    BY <1>s, <2>1, <2>2, <2>5 DEF Steps
  <2>7. TypeOK'
    BY <1>23, <2>2, <2>6 DEF ResetStep, TypeOK
  <2>8. Control'
    BY <2>1, <2>2, <2>5, <2>6 DEF Control, At, Idle, TryCmds, ResetSteps
  <2>9. Counting'
    BY <1>23, <2>2, <2>5, NoneIsNew DEF ResetStep, Counting, Left
  <2>10. Keyed'
    BY <1>23, <2>4 DEF ResetStep, Keyed, HasKey
  <2> QED BY <2>7, <2>8, <2>9, <2>10
<1>24. ASSUME op' = Idle, UNCHANGED <<flash, hist>>, InitFido(cache, ram) PROVE IInv'
  <2>1. /\ cache' \in Files /\ cache'.key \in KeyDev
        /\ cache'.pin = cache.pin /\ cache'.creds = cache.creds /\ HasKey(cache')
        /\ ram' \in RamType
    BY <1>24, <1>t, InitFidoKeeps DEF TypeOK, RamType, Keyed
  <2> QED BY <1>24, <1>t, <2>1 DEF TypeOK, RamType, Idle, Steps, Control, At, Counting, Left,
          Keyed, HasKey, TryCmds, ResetSteps
<1>25. CASE ResetInit
  BY <1>24, <1>25 DEF ResetInit, Return
<1>26. CASE Reselect
  BY <1>24, <1>26 DEF Reselect
<1>27. CASE Drain
  <2>1. hist' \in [mid : BOOLEAN, cut : BOOLEAN]
    BY <1>27 DEF Drain, TypeOK
  <2> QED BY <1>27, <1>t, <2>1 DEF Drain, TypeOK, Control, At, Counting, Left, Keyed, HasKey
<1>28. CASE PowerLoss
  <2>1. NoRam \in RamType
    BY ConstantTypes DEF NoRam, RamType
  <2>2. /\ cache' \in Files /\ cache'.key \in KeyDev
        /\ cache'.pin = flash.pin /\ cache'.creds = flash.creds /\ HasKey(cache')
        /\ ram' \in RamType
    BY <1>28, <1>t, <2>1, InitFidoKeeps DEF PowerLoss, Keyed
  <2>3. hist' \in [mid : BOOLEAN, cut : BOOLEAN]
    BY <1>28 DEF PowerLoss, TypeOK
  <2> QED BY <1>28, <1>t, <2>2, <2>3 DEF PowerLoss, TypeOK, RamType, Idle, Steps, Control, At,
          Counting, Left, Keyed, HasKey, TryCmds, ResetSteps
<1>29. CASE UNCHANGED vars
  BY <1>29 DEF vars, TypeOK, Control, At, Counting, Left, Keyed, HasKey
<1>30. CASE ChangePin
  BY <1>3, <1>30 DEF ChangePin, TryCmds
<1>31. CASE GetToken
  BY <1>3, <1>31 DEF GetToken, TryCmds
<1>32. CASE ResetFails
  BY <1>32, <1>s DEF ResetFails, Return, Idle, Steps, TypeOK, Control, At, Counting, Keyed, TryCmds,
      ResetSteps
<1> QED
  BY <1>1, <1>2, <1>4, <1>5, <1>6, <1>7, <1>8, <1>9, <1>10, <1>11, <1>12, <1>13, <1>14, <1>15,
     <1>16, <1>17, <1>18, <1>19, <1>20, <1>21, <1>22, <1>23, <1>25, <1>26, <1>27, <1>28, <1>29,
     <1>30, <1>31, <1>32 DEF Next

-----------------------------------------------------------------------------
(* The PIN and the key it opens *)

\* The forms a key is kept in: load_keydev does not wrap it with anything else, and
\* check_keydev_encrypted wraps a key that is not wrapped yet.
LEMMA KeyForms ==
    ASSUME NEW f \in Files, f.key \in KeyDev
    PROVE  /\ Loaded(f).key.by = f.key.by /\ (Loaded(f).key.fmt = 1 <=> f.key.fmt = 1)
           /\ EncryptF1(f).key.fmt = 1
           /\ \A s : /\ Encrypted(f, s).key.fmt # 1
                     /\ Encrypted(f, s).key.by = IF f.key.fmt = 1 THEN s ELSE f.key.by
<1>1. f.key.fmt \in 1 .. 3
  BY DEF KeyDev
<1>2. Loaded(f).key.by = f.key.by /\ (Loaded(f).key.fmt = 1 <=> f.key.fmt = 1)
  <2>1. [f EXCEPT !.key.fmt = 3].key.by = f.key.by /\ [f EXCEPT !.key.fmt = 3].key.fmt = 3
    BY DEF Files, KeyDev
  <2> QED BY <2>1 DEF Loaded
<1>3. EncryptF1(f).key.fmt = 1
  BY DEF EncryptF1, Plain, Files
<1>4. ASSUME NEW s
      PROVE  /\ Encrypted(f, s).key.fmt # 1
             /\ Encrypted(f, s).key.by = IF f.key.fmt = 1 THEN s ELSE f.key.by
  BY DEF Encrypted, Wrapped, Files
<1> QED BY <1>2, <1>3, <1>4

\* g is f with a PIN file that has the same PIN in the same form.
LikePin(f, g) ==
    /\ g.key = f.key /\ f.pin \in PinData /\ g.pin \in PinData
    /\ g.pin.pin = f.pin.pin /\ g.pin.legacy = f.pin.legacy

\* Counters and locks of a PIN file say nothing about the key it opens.
LEMMA LikePinOpens ==
    ASSUME NEW f, NEW g, LikePin(f, g)
    PROVE  /\ Sealed(f) => Sealed(g)
           /\ SessionOf(g) = SessionOf(f)
           /\ \A s : Loads(f, s) => Loads(g, s)
           /\ Unlocks(f) => Unlocks(g)
BY NoneIsNew DEF LikePin, Sealed, SessionOf, Loads, Unlocks

\* The files of a new or upgraded device: no PIN and a bare key, or a PIN that opens it.
LEMMA InitKeyInv == Init => KeyInv
<1> SUFFICES ASSUME Init PROVE KeyInv
  OBVIOUS
<1>1. Sealed(cache) /\ Unlocks(cache)
  <2>1. CASE NewDevice
    BY <2>1 DEF NewDevice, Plain, Sealed, Unlocks
  <2>2. CASE OldDevice
    <3>1. PICK p \in Pins, k \in Keys : \E key \in {Plain(k), OldKey(k, Multi(p))} :
             cache = [pin |-> OldPin(p), key |-> key, creds |-> k]
      BY <2>2 DEF OldDevice
    <3>2. PICK key \in {Plain(k), OldKey(k, Multi(p))} :
             cache = [pin |-> OldPin(p), key |-> key, creds |-> k]
      BY <3>1
    <3>3. OldPin(p) # None /\ OldPin(p).legacy /\ OldPin(p).pin = p
      BY PinFileType, NoneIsNew DEF OldPin, PinFile
    <3>4. /\ Plain(k).fmt = 1
          /\ OldKey(k, Multi(p)).by = Multi(p) /\ Multi(p) \in Sessions
      BY SessionTypes DEF Plain, OldKey
    <3>5. CASE key = Plain(k)
      BY <3>2, <3>3, <3>4, <3>5 DEF Sealed, Unlocks, Loads
    <3>6. CASE key = OldKey(k, Multi(p))
      BY <3>2, <3>3, <3>4, <3>6 DEF Sealed, Unlocks, Loads
    <3> QED BY <3>5, <3>6
  <2> QED BY <2>1, <2>2 DEF Init
<1> QED BY <1>1 DEF Init, KeyInv, Opening, Matching, NoRam, Idle, At, TryCmds

\* Every step keeps PIN and key together.
LEMMA NextKeyInv == IInv /\ KeyInv /\ [Next]_vars => KeyInv'
<1> SUFFICES ASSUME IInv, KeyInv, [Next]_vars PROVE KeyInv'
  OBVIOUS
<1> USE DEF IInv, KeyInv
<1>t. /\ cache \in Files /\ flash \in Files
      /\ cache.pin \in PinData \cup {None} /\ flash.pin \in PinData \cup {None}
      /\ cache.key \in KeyDev \cup {None} /\ flash.key \in KeyDev \cup {None}
      /\ ram \in RamType
  BY DEF TypeOK, Files, RamType
<1>s. /\ op = [cmd |-> op.cmd, pc |-> op.pc, pin |-> op.pin]
      /\ op.cmd \in {"none", "set", "change", "token", "reset"} /\ op.pc \in Steps
  BY DEF TypeOK
<1>n. None \notin KeyDev /\ None \notin PinData /\ None \notin Sessions
  BY NoneIsNew
<1>d. \A p \in Pins : Derived(p) \in Sessions /\ Multi(p) \in Sessions
  BY SessionTypes
<1>1. ASSUME NEW p \in Pins, SetPin(p) PROVE KeyInv'
  <2>1. WithPin(cache, cache', NewPin(p)) /\ NewPin(p) \in PinData /\ NewPin(p).pin = p /\ ~NewPin(p).legacy
    BY <1>1, <1>t, PutPin, PinFileType DEF SetPin, Put, NewPin, PinFile
  <2>2. cache.key \in KeyDev /\ cache.key.fmt = 1
    BY <1>1, <1>n DEF SetPin, Control, Idle, Sealed
  <2>3. op' = [cmd |-> "set", pc |-> "wrap", pin |-> p] /\ UNCHANGED <<flash, ram, hist>>
    BY <1>1 DEF SetPin
  <2>4. Sealed(cache') /\ Sealed(flash)'
    BY <2>1, <2>2, <2>3, <1>n DEF Sealed, WithPin
  <2>5. Opening'
    BY <2>1, <2>2, <2>3 DEF Opening, WithPin, At, Outside
  <2>6. Matching'
    BY <2>3 DEF Matching, Outside, ResetSteps, TryCmds
  <2> QED BY <2>4, <2>5, <2>6
<1>2. CASE Synced
  BY <1>2, <1>s, <1>t, <1>d DEF Synced, Goto, Return, Idle, AfterUpgrade, Control, Opening, Matching,
      Outside, TryCmds, ResetSteps, At, Sealed, RamType
<1>3. CASE SyncTimeout
  BY <1>3, <1>s, <1>t, <1>d DEF SyncTimeout, Goto, Return, Idle, AfterUpgrade, Control, Opening,
     Matching,
      Outside, TryCmds, ResetSteps, At, Sealed, RamType
<1>4. CASE LockSynced
  BY <1>4, <1>s, <1>t, <1>d DEF LockSynced, Goto, Return, Idle, AfterUpgrade, Control, Opening,
     Matching,
      Outside, TryCmds, ResetSteps, At, Sealed, RamType
<1>5. CASE NotCompared
  BY <1>5, <1>s, <1>t, <1>d DEF NotCompared, Goto, Return, Idle, AfterUpgrade, Control, Opening,
     Matching,
      Outside, TryCmds, ResetSteps, At, Sealed, RamType
<1>7. CASE ChangeRefused
  <2>1. /\ op.pc = "newpin" /\ op.cmd = "change" /\ op' = Idle
        /\ cache.pin \in PinData /\ cache.key \in KeyDev
        /\ UNCHANGED <<cache, flash, ram, hist>>
    BY <1>7, <1>s DEF ChangeRefused, Return, At, Control, TryCmds, ResetSteps
  <2>2. /\ ram.session = SessionOf(cache) /\ (ram.unlocked => Loads(cache, ram.session))
        /\ ram.session = Derived(cache.pin.pin)
    BY <2>1 DEF Opening, SessionOf
  <2>3. Opening'
    BY <2>1, <2>2 DEF Opening, Idle, At
  <2>4. Matching'
    BY <2>1, <2>2 DEF Matching, Idle, TryCmds, Unlocks, SessionOf
  <2> QED BY <2>1, <2>3, <2>4 DEF Sealed
<1>9. CASE Reset
  BY <1>9, <1>s, <1>t, <1>d DEF Reset, Goto, Return, Idle, AfterUpgrade, Control, Opening, Matching,
      Outside, TryCmds, ResetSteps, At, Sealed, RamType
<1>10. CASE ResetFails
  BY <1>10, <1>s, <1>t, <1>d DEF ResetFails, Goto, Return, Idle, AfterUpgrade, Control, Opening,
     Matching,
      Outside, TryCmds, ResetSteps, At, Sealed, RamType
<1>6. CASE Match
  <2>1. /\ op.cmd \in TryCmds /\ cache.pin \in PinData /\ cache.key \in KeyDev /\ ~cache.pin.legacy
        /\ op.pc = "compare" /\ UNCHANGED <<cache, flash, ram, hist>>
        /\ op'.cmd = op.cmd /\ op'.pc = (IF op.cmd = "token" THEN "wrap" ELSE "restore")
    BY <1>6, <1>s DEF Match, Goto, AfterUpgrade, Control, Idle, TryCmds, ResetSteps
  <2>2. Derived(cache.pin.pin) \in Sessions
    BY <2>1, <1>d, PinParts
  <2>3. Opening'
    <3>1. ram.unlocked => Loads(cache, Derived(cache.pin.pin))
      BY <2>1, <2>2, <1>n DEF Opening, Outside, Loads, SessionOf, Sealed
    <3> QED BY <2>1, <3>1 DEF Opening, Outside, At, TryCmds
  <2>4. Matching'
    <3>1. ~hist.cut => Loads(cache, Derived(cache.pin.pin))
      BY <2>1, <1>n DEF Matching, Outside, Unlocks
    <3> QED BY <2>1, <3>1 DEF Matching, Outside, ResetSteps, TryCmds
  <2> QED BY <2>1, <2>3, <2>4 DEF Sealed
<1>8. CASE ChangeSamePin
  <2>1. /\ op.pc = "store" /\ op.pin = cache.pin.pin /\ op' = Idle
        /\ cache.pin \in PinData /\ cache.key \in KeyDev
        /\ UNCHANGED <<cache, flash, ram, hist>>
    BY <1>8, <1>s DEF ChangeSamePin, Return, At, Control, TryCmds, ResetSteps
  <2>2. ram.session = SessionOf(cache) /\ Loads(cache, ram.session)
    BY <2>1 DEF Opening, SessionOf
  <2>3. Unlocks(cache)
    BY <2>1, <2>2 DEF Unlocks, SessionOf
  <2>4. Opening'
    BY <2>1, <2>2 DEF Opening, Idle, At
  <2>5. Matching'
    BY <2>1, <2>3 DEF Matching, Idle, TryCmds
  <2> QED BY <2>1, <2>4, <2>5 DEF Sealed
<1>11. ASSUME NEW cmd \in TryCmds, Try(cmd) PROVE KeyInv'
  <2>1. cache.pin \in PinData /\ cache.pin.retries > 0 /\ op.pc = "idle"
    BY <1>11, <1>t DEF Try, CanTry, Idle
  <2> DEFINE q == [cache.pin EXCEPT !.retries = cache.pin.retries - 1]
  <2>2. q \in PinData /\ q.pin = cache.pin.pin /\ q.legacy = cache.pin.legacy
    BY <2>1, ConstantTypes DEF PinData
  <2>3. CountRetry(cache) = [cache EXCEPT !.pin = q]
    BY <1>t, <2>1 DEF CountRetry, Files, PinData
  <2> HIDE DEF q
  <2>4. LikePin(cache, cache')
    BY <1>11, <1>t, <2>1, <2>2, <2>3, PutPin DEF Try, Put, WithPin, LikePin
  <2>5. op' = [cmd |-> cmd, pc |-> "sync", pin |-> None] /\ UNCHANGED <<flash, ram, hist>>
    BY <1>11 DEF Try
  <2>6. /\ ram.session \in {None, SessionOf(cache)}
        /\ ram.unlocked => Loads(cache, ram.session)
        /\ ~hist.cut => Unlocks(cache)
    BY <2>1, <1>n DEF Opening, Matching, Outside
  <2>7. Opening'
    BY <2>4, <2>5, <2>6, LikePinOpens DEF Opening, At, TryCmds
  <2>8. Matching'
    BY <2>4, <2>5, <2>6, LikePinOpens DEF Matching, Outside
  <2>9. Sealed(cache)' /\ Sealed(flash)'
    BY <2>4, <2>5, LikePinOpens DEF Sealed
  <2> QED BY <2>7, <2>8, <2>9
<1>12. CASE Mismatch
  <2>1. op.pc = "compare" /\ cache = flash /\ cache.pin \in PinData /\ Left(cache) < MaxRetries
        /\ op.cmd \in TryCmds
    BY <1>12, <1>s DEF Mismatch, Control, Counting, TryCmds, ResetSteps, Idle
  <2> DEFINE w == [cache.pin EXCEPT !.wrong = cache.pin.wrong + 1]
             l == [w EXCEPT !.lock = TRUE]
  <2>2. /\ w \in PinData /\ w.pin = cache.pin.pin /\ w.legacy = cache.pin.legacy
        /\ l \in PinData /\ l.pin = cache.pin.pin /\ l.legacy = cache.pin.legacy
    <3>1. cache.pin.wrong + 1 \in 0 .. MaxRetries
      BY <2>1, ConstantTypes DEF PinData, Left
    <3>2. w \in PinData /\ w.pin = cache.pin.pin /\ w.legacy = cache.pin.legacy
      BY <2>1, <3>1 DEF PinData
    <3> HIDE DEF w
    <3> QED BY <3>2 DEF PinData
  <2>3. /\ [cache EXCEPT !.pin.wrong = @ + 1] = [cache EXCEPT !.pin = w]
        /\ [[cache EXCEPT !.pin.wrong = @ + 1] EXCEPT !.pin.lock = TRUE] = [cache EXCEPT !.pin = l]
    BY <1>t, <2>1 DEF Files, PinData
  <2> HIDE DEF w, l
  <2>4. LikePin(flash, flash')
    <3>1. WithPin(cache, flash', w)
      BY <1>12, <1>t, <2>1, <2>2, <2>3, PutPin DEF Mismatch
    <3> QED BY <2>1, <2>2, <3>1 DEF WithPin, LikePin
  <2>5. /\ LikePin(cache, cache')
        /\ op' = Idle \/ op' = [op EXCEPT !.pc = "locksync"]
    <3>1. \/ WithPin(cache, cache', w) /\ op' = Idle
          \/ WithPin(cache, cache', l) /\ op' = [op EXCEPT !.pc = "locksync"]
      BY <1>12, <1>t, <2>1, <2>2, <2>3, PutPin DEF Mismatch, Put, Goto, Return
    <3> QED BY <2>1, <2>2, <3>1 DEF WithPin, LikePin
  <2>6. /\ op'.pc \in {"idle", "locksync"} /\ op'.cmd # "set"
        /\ op'.cmd \in {"none"} \cup TryCmds
    BY <1>s, <2>1, <2>5 DEF Idle, TryCmds
  <2>7. ram'.session = ram.session /\ ram'.unlocked = ram.unlocked /\ hist' = hist
    BY <1>12, <1>t DEF Mismatch, RamType
  <2>8. /\ ram.session \in {None, SessionOf(cache)}
        /\ ram.unlocked => Loads(cache, ram.session)
        /\ ~hist.cut => Unlocks(cache)
    BY <2>1, <1>n DEF Opening, Matching, Outside
  <2>9. /\ SessionOf(cache') = SessionOf(cache)
        /\ Loads(cache, ram.session) => Loads(cache', ram.session)
        /\ Unlocks(cache) => Unlocks(cache') /\ Unlocks(flash')
        /\ Sealed(cache') /\ Sealed(flash')
    BY <2>1, <2>4, <2>5, LikePinOpens
  <2>10. Opening'
    BY <2>6, <2>7, <2>8, <2>9 DEF Opening, At
  <2>11. Matching'
    BY <2>6, <2>7, <2>8, <2>9 DEF Matching
  <2> QED BY <2>9, <2>10, <2>11
<1>13. CASE SetPinWrap
  <2>1. /\ op.cmd = "set" /\ op.pin \in Pins /\ op.pc = "wrap" /\ cache.key \in KeyDev
        /\ cache.pin \in PinData /\ ~cache.pin.legacy /\ cache.key.fmt = 1 /\ cache.pin.pin = op.pin
    BY <1>13 DEF SetPinWrap, At, Control, Opening, ResetSteps
  <2>2. /\ SameKey(cache, cache') /\ cache'.key.fmt # 1 /\ cache'.key.by = Derived(op.pin)
        /\ Derived(op.pin) \in Sessions
    BY <1>13, <1>t, <1>d, <2>1, KeepKey, KeyForms DEF SetPinWrap, Put
  <2>3. op' = Idle /\ ram'.session = Derived(op.pin) /\ UNCHANGED <<flash, hist>>
    BY <1>13 DEF SetPinWrap, Return
  <2>4. Sealed(cache') /\ Sealed(flash')
    BY <1>n, <2>1, <2>2, <2>3 DEF Sealed, SameKey
  <2>5. SessionOf(cache') = Derived(op.pin) /\ Loads(cache', Derived(op.pin)) /\ Unlocks(cache')
    BY <1>n, <2>1, <2>2 DEF SessionOf, Loads, Unlocks, SameKey
  <2>6. Opening'
    BY <2>3, <2>5 DEF Opening, At, Idle
  <2>7. Matching'
    BY <2>3, <2>5 DEF Matching, Idle, TryCmds
  <2> QED BY <2>4, <2>6, <2>7
<1>14. CASE MatchLegacy
  <2>1. /\ op.pc = "compare" /\ cache.pin \in PinData /\ cache.key \in KeyDev
        /\ op.cmd \in TryCmds /\ cache.pin.legacy /\ UNCHANGED <<flash, hist>>
        /\ SessionOf(cache) = Multi(cache.pin.pin)
    BY <1>14, <1>s DEF MatchLegacy, Control, TryCmds, ResetSteps, Idle, SessionOf
  <2>2. CASE Loads(cache, Multi(cache.pin.pin))
    <3>1. /\ SameKey(cache, cache') /\ cache'.key.by = cache.key.by
          /\ cache'.key.fmt = 1 <=> cache.key.fmt = 1
          /\ op'.pc = "plain" /\ op'.cmd = op.cmd
      BY <1>14, <1>s, <1>t, <2>1, <2>2, KeepKey, KeyForms DEF MatchLegacy, Put, Goto
    <3>2. Loads(cache', Multi(cache'.pin.pin)) /\ Sealed(cache') /\ Sealed(flash')
      BY <1>n, <2>1, <2>2, <3>1 DEF Loads, Sealed, SameKey
    <3>3. Opening'
      BY <2>1, <3>1, <3>2 DEF Opening, At, Outside, TryCmds
    <3>4. Matching'
      BY <2>1, <3>1 DEF Matching, Outside, ResetSteps
    <3> QED BY <3>2, <3>3, <3>4
  <2>3. CASE ~Loads(cache, Multi(cache.pin.pin))
    <3>1. cache' = cache /\ op' = Idle
      BY <1>14, <2>3 DEF MatchLegacy, Return
    <3>2. ram'.session = Multi(cache.pin.pin) /\ ram'.unlocked = ram.unlocked
      BY <1>14, <1>t, <2>3 DEF MatchLegacy, RamType
    <3>3. ~ram.unlocked
      BY <1>n, <2>1, <2>3 DEF Opening, Outside, Loads, Sealed
    <3>4. Opening'
      BY <2>1, <3>1, <3>2, <3>3 DEF Opening, At, Idle
    <3>5. Matching'
      BY <2>1, <3>1 DEF Matching, Idle, Outside, TryCmds
    <3> QED BY <2>1, <3>1, <3>4, <3>5
  <2> QED BY <2>2, <2>3
<1>15. CASE UpgradePlain
  <2>1. /\ op.pc = "plain" /\ cache.pin \in PinData /\ cache.key \in KeyDev
        /\ op.cmd \in TryCmds /\ UNCHANGED <<flash, ram, hist>>
    BY <1>15, <1>s DEF UpgradePlain, Control, TryCmds, ResetSteps, Idle
  <2>2. /\ SameKey(cache, cache') /\ cache'.key.fmt = 1
        /\ op'.pc = (IF op.cmd = "token" THEN "wrap" ELSE "restore") /\ op'.cmd = op.cmd
    BY <1>15, <1>s, <1>t, <2>1, KeepKey, KeyForms DEF UpgradePlain, Put, Goto, AfterUpgrade
  <2>3. (\A s : Loads(cache', s)) /\ Sealed(cache') /\ Sealed(flash')
    BY <1>n, <2>1, <2>2 DEF Loads, Sealed, SameKey
  <2>4. Opening'
    BY <2>1, <2>2, <2>3 DEF Opening, At, Outside, TryCmds
  <2>5. Matching'
    BY <2>1, <2>2, <2>3 DEF Matching, Outside, ResetSteps
  <2> QED BY <2>3, <2>4, <2>5
<1>16. CASE TokenWrap
  <2>1. /\ op.cmd = "token" /\ op.pc = "wrap" /\ cache.pin \in PinData /\ cache.key \in KeyDev
        /\ Derived(cache.pin.pin) \in Sessions /\ UNCHANGED <<flash, hist>>
    BY <1>16, <1>d, PinParts DEF TokenWrap, At, Control, TryCmds, ResetSteps
  <2>2. /\ SameKey(cache, cache') /\ cache'.key.fmt # 1
        /\ cache'.key.by = IF cache.key.fmt = 1 THEN Derived(cache.pin.pin) ELSE cache.key.by
        /\ op'.pc = "restore" /\ op'.cmd = "token"
    BY <1>16, <1>s, <1>t, <2>1, KeepKey, KeyForms DEF TokenWrap, Put, Goto
  <2>3. ram'.session = Derived(cache'.pin.pin)
    BY <1>16, <1>t, <2>2 DEF TokenWrap, RamType, SameKey
  <2>4. Sealed(cache') /\ Sealed(flash')
    BY <1>n, <2>1, <2>2 DEF Sealed, SameKey
  <2>5. Opening'
    <3>1. cache.pin.legacy => Loads(cache', ram'.session)
      BY <1>n, <2>1, <2>2, <2>3 DEF Opening, At, Loads, SameKey
    <3> QED BY <2>2, <2>3, <3>1 DEF Opening, At, Outside, SameKey
  <2>6. Matching'
    <3>1. Loads(cache, Derived(cache.pin.pin)) => Loads(cache', Derived(cache'.pin.pin))
      BY <1>n, <2>2 DEF Loads, SameKey
    <3> QED BY <2>1, <2>2, <3>1 DEF Matching, Outside, ResetSteps, TryCmds
  <2> QED BY <2>4, <2>5, <2>6
<1>17. CASE TokenRestore
  <2>1. /\ op.cmd = "token" /\ op.pc = "restore" /\ cache.pin \in PinData /\ cache.key \in KeyDev
        /\ op' = Idle /\ UNCHANGED <<flash, hist>>
        /\ ram.session = Derived(cache.pin.pin)
    BY <1>17, <1>s DEF TokenRestore, Return, At, Control, Opening, TryCmds, ResetSteps
  <2>2. CASE ~Loads(cache, ram.session)
    <3>1. cache' = cache /\ ~ram'.unlocked /\ ram'.session = ram.session
      BY <1>17, <1>t, <2>2 DEF TokenRestore, Validated, RamType
    <3>2. hist.cut
      BY <2>1, <2>2 DEF Matching, TryCmds
    <3>3. ram.session = SessionOf(cache)
      BY <2>1, <2>2 DEF Opening, At, SessionOf
    <3>4. Opening'
      BY <2>1, <3>1, <3>3 DEF Opening, At, Idle
    <3>5. Matching'
      BY <2>1, <3>2 DEF Matching
    <3> QED BY <2>1, <3>1, <3>4, <3>5
  <2>3. CASE Loads(cache, ram.session)
    <3> DEFINE f == Loaded(cache)
               q == NewPin(f.pin.pin)
    <3>1. /\ SameKey(cache, f) /\ f.key.by = cache.key.by
          /\ f.key.fmt = 1 <=> cache.key.fmt = 1
      BY <1>t, <2>1, KeepKey, KeyForms
    <3>2. q \in PinData /\ q.pin = cache.pin.pin /\ ~q.legacy
      BY <2>1, <3>1, PinParts, PinFileType DEF SameKey, NewPin, PinFile
    <3>3. cache' = [f EXCEPT !.pin = q]
      BY <1>17, <2>3 DEF TokenRestore, Validated, Put
    <3>4. WithPin(f, cache', q)
      BY <3>1, <3>2, <3>3, PutPin DEF SameKey
    <3> HIDE DEF f, q
    <3>5. /\ Loads(cache', ram.session) /\ SessionOf(cache') = ram.session
          /\ Unlocks(cache') /\ Sealed(cache') /\ Sealed(flash')
      <4>1. Loads(cache', ram.session) /\ SessionOf(cache') = ram.session
        BY <1>n, <2>1, <2>3, <3>1, <3>2, <3>4 DEF WithPin, SameKey, Loads, SessionOf
      <4>2. Sealed(cache') /\ Sealed(flash')
        BY <1>n, <2>1, <3>1, <3>2, <3>4 DEF WithPin, SameKey, Sealed
      <4> QED BY <4>1, <4>2 DEF Unlocks, SessionOf
    <3>6. ram'.session = ram.session
      BY <1>17, <1>t, <2>3 DEF TokenRestore, Validated, RamType
    <3>7. Opening'
      BY <2>1, <3>5, <3>6 DEF Opening, At, Idle
    <3>8. Matching'
      BY <2>1, <3>5 DEF Matching, Idle, TryCmds
    <3> QED BY <3>5, <3>7, <3>8
  <2> QED BY <2>2, <2>3
<1>18. CASE ChangeRestore
  <2>1. /\ op.cmd = "change" /\ op.pc = "restore" /\ cache.pin \in PinData /\ cache.key \in KeyDev
        /\ op'.cmd = "change" /\ op'.pc = "wrap" /\ UNCHANGED <<flash, hist>>
        /\ ram.unlocked => Loads(cache, Derived(cache.pin.pin))
    BY <1>18, <1>s DEF ChangeRestore, Goto, At, Control, Opening, TryCmds, ResetSteps
  <2> DEFINE q == NewPin(cache.pin.pin)
  <2>2. q \in PinData /\ q.pin = cache.pin.pin /\ ~q.legacy
    BY <2>1, PinParts, PinFileType DEF NewPin, PinFile
  <2>3. WithPin(cache, cache', q)
    BY <1>18, <1>t, <2>2, PutPin DEF ChangeRestore, Put
  <2> HIDE DEF q
  <2>4. ram'.session = Derived(cache.pin.pin) /\ ram'.unlocked = ram.unlocked
    BY <1>18, <1>t DEF ChangeRestore, RamType
  <2>5. /\ cache'.pin.pin = cache.pin.pin /\ ~cache'.pin.legacy
        /\ \A s : Loads(cache, s) => Loads(cache', s)
        /\ Sealed(cache') /\ Sealed(flash')
    BY <1>n, <2>1, <2>2, <2>3 DEF WithPin, Loads, Sealed
  <2>6. Opening'
    BY <2>1, <2>4, <2>5 DEF Opening, At, Outside
  <2>7. Matching'
    BY <2>1, <2>5 DEF Matching, Outside, ResetSteps, TryCmds
  <2> QED BY <2>5, <2>6, <2>7
<1>19. CASE ChangeWrap
  <2>1. /\ op.cmd = "change" /\ op.pc = "wrap" /\ cache.pin \in PinData /\ cache.key \in KeyDev
        /\ op'.cmd = "change" /\ op'.pc = "newpin" /\ UNCHANGED <<flash, hist>>
        /\ ram.session = Derived(cache.pin.pin) /\ ~cache.pin.legacy /\ ram.session \in Sessions
        /\ ram.unlocked => Loads(cache, ram.session)
    BY <1>19, <1>s DEF ChangeWrap, Goto, At, Control, Opening, TryCmds, ResetSteps
  <2>2. /\ SameKey(cache, cache') /\ cache'.key.fmt # 1
        /\ cache'.key.by = IF cache.key.fmt = 1 THEN ram.session ELSE cache.key.by
    BY <1>19, <1>t, <2>1, KeepKey, KeyForms DEF ChangeWrap, Put
  <2>3. ram'.session = ram.session /\ ram'.unlocked = (ram.unlocked \/ cache.key.fmt = 1)
    BY <1>19, <1>t DEF ChangeWrap, UnlockedByCheck, RamType
  <2>4. /\ cache'.pin = cache.pin /\ (Loads(cache, ram.session) => Loads(cache', ram.session))
        /\ cache.key.fmt = 1 => Loads(cache', ram.session)
        /\ Sealed(cache') /\ Sealed(flash')
    BY <1>n, <2>1, <2>2 DEF SameKey, Loads, Sealed
  <2>5. Opening'
    BY <2>1, <2>3, <2>4 DEF Opening, At, Outside
  <2>6. Matching'
    BY <2>1, <2>4 DEF Matching, Outside, ResetSteps, TryCmds
  <2> QED BY <2>4, <2>5, <2>6
<1>20. ASSUME NEW p \in Pins, ChangeNewPin(p) PROVE KeyInv'
  <2>1. /\ op.cmd = "change" /\ op.pc = "newpin" /\ cache.pin \in PinData /\ cache.key \in KeyDev
        /\ op'.cmd = "change" /\ op'.pc = "rewrap" /\ UNCHANGED <<flash, hist>>
        /\ ~cache.pin.legacy
    BY <1>20, <1>s DEF ChangeNewPin, At, Control, Opening, TryCmds, ResetSteps
  <2>2. SameKey(cache, cache') /\ cache'.key.fmt = 1
    BY <1>20, <1>t, <2>1, KeepKey, KeyForms DEF ChangeNewPin, Put
  <2>3. Sealed(cache') /\ Sealed(flash')
    BY <1>n, <2>1, <2>2 DEF SameKey, Sealed
  <2>4. Opening'
    BY <2>1, <2>2 DEF Opening, At, Outside, SameKey
  <2>5. Matching'
    BY <2>1 DEF Matching, Outside, ResetSteps
  <2> QED BY <2>3, <2>4, <2>5
<1>21. CASE ChangeRewrap
  <2>1. /\ op.cmd = "change" /\ op.pc = "rewrap" /\ cache.pin \in PinData /\ cache.key \in KeyDev
        /\ op'.cmd = "change" /\ op'.pc = "store" /\ op'.pin = op.pin /\ UNCHANGED <<flash, hist>>
        /\ ~cache.pin.legacy /\ cache.key.fmt = 1 /\ op.pin \in Pins /\ Derived(op.pin) \in Sessions
    BY <1>21, <1>s, <1>d DEF ChangeRewrap, Goto, At, Control, Opening, TryCmds, ResetSteps
  <2>2. SameKey(cache, cache') /\ cache'.key.by = Derived(op.pin)
    BY <1>21, <1>t, <2>1, KeepKey, KeyForms DEF ChangeRewrap, Put
  <2>3. ram'.session = Derived(op.pin)
    BY <1>21, <1>t DEF ChangeRewrap, RamType
  <2>4. Sealed(cache') /\ Sealed(flash') /\ Loads(cache', Derived(op.pin))
    BY <1>n, <2>1, <2>2 DEF SameKey, Sealed, Loads
  <2>5. Opening'
    BY <2>1, <2>2, <2>3, <2>4 DEF Opening, At, Outside, SameKey
  <2>6. Matching'
    BY <2>1 DEF Matching, Outside, ResetSteps
  <2> QED BY <2>4, <2>5, <2>6
<1>22. CASE ChangeStore
  <2>1. /\ op.pc = "store" /\ op.pin \in Pins /\ cache.key \in KeyDev
        /\ op' = Idle /\ UNCHANGED <<flash, hist>>
        /\ ram.session = Derived(op.pin) /\ Loads(cache, ram.session)
    BY <1>22, <1>s DEF ChangeStore, Return, At, Control, Opening, ResetSteps
  <2> DEFINE q == NewPin(op.pin)
  <2>2. q \in PinData /\ q.pin = op.pin /\ ~q.legacy
    BY <2>1, PinFileType DEF NewPin, PinFile
  <2>3. WithPin(cache, cache', q)
    BY <1>22, <1>t, <2>2, PutPin DEF ChangeStore, Put
  <2> HIDE DEF q
  <2>4. ram'.session = ram.session
    BY <1>22, <1>t DEF ChangeStore, RamType
  <2>5. SessionOf(cache') = ram.session /\ Loads(cache', ram.session) /\ Sealed(cache') /\ Sealed(flash')
    BY <1>n, <2>1, <2>2, <2>3 DEF WithPin, SessionOf, Loads, Sealed
  <2>6. Unlocks(cache')
    BY <2>5 DEF Unlocks, SessionOf
  <2>7. Opening'
    BY <2>1, <2>4, <2>5 DEF Opening, At, Idle
  <2>8. Matching'
    BY <2>1, <2>6 DEF Matching, Idle, TryCmds
  <2> QED BY <2>5, <2>7, <2>8
<1>23. CASE MakeCredential
  <2> DEFINE f == Loaded(cache)
  <2>1. /\ cache.key \in KeyDev /\ cache.key.id \in Keys /\ Loads(cache, ram.session)
        /\ op = Idle /\ UNCHANGED <<flash, op, hist>>
    BY <1>23, <1>t DEF MakeCredential, Loads, KeyDev
  <2>2. /\ SameKey(cache, f) /\ f.key.by = cache.key.by
        /\ f.key.fmt = 1 <=> cache.key.fmt = 1
    BY <1>t, <2>1, KeepKey, KeyForms
  <2>3. cache' = [f EXCEPT !.creds = cache.key.id]
    BY <1>23 DEF MakeCredential, Put
  <2> HIDE DEF f
  <2>4. cache'.pin = cache.pin /\ cache'.key \in KeyDev /\ cache'.key = f.key
    BY <2>1, <2>2, <2>3 DEF SameKey, Files
  <2>5. ram'.session = ram.session
    BY <1>23, <1>t DEF MakeCredential, RamType
  <2>6. /\ \A s : Loads(cache, s) => Loads(cache', s)
        /\ SessionOf(cache') = SessionOf(cache) /\ (Unlocks(cache) => Unlocks(cache'))
        /\ Sealed(cache') /\ Sealed(flash')
    BY <1>n, <2>1, <2>2, <2>4 DEF Loads, SessionOf, Unlocks, Sealed
  <2>7. Opening'
    BY <2>1, <2>4, <2>5, <2>6 DEF Opening, At, Idle, Outside
  <2>8. Matching'
    BY <2>1, <2>6 DEF Matching, Idle, Outside, TryCmds
  <2> QED BY <2>6, <2>7, <2>8
<1>24. CASE ResetStep
  <2>1. op.cmd = "reset" /\ op.pc \in {"creds", "key", "pin"} /\ UNCHANGED <<flash, ram, hist>>
    BY <1>24, <1>s DEF ResetStep, Control, ResetSteps
  <2>2. op'.cmd = "reset" /\ op'.pc = ResetOrder[op.pc]
    BY <1>24, <1>s DEF ResetStep, Goto
  <2>3. CASE op.pc = "creds"
    <3>1. cache'.pin = cache.pin /\ cache'.key = cache.key
      BY <1>24, <1>t, <2>3 DEF ResetStep, Put, Cleared, Files
    <3>2. op'.pc = "key"
      BY <2>2, <2>3 DEF ResetOrder
    <3>3. /\ SessionOf(cache') = SessionOf(cache) /\ (Unlocks(cache) => Unlocks(cache'))
          /\ Loads(cache, ram.session) => Loads(cache', ram.session)
          /\ Sealed(cache') /\ Sealed(flash')
      BY <2>1, <3>1 DEF SessionOf, Unlocks, Loads, Sealed
    <3>4. Opening'
      BY <2>1, <2>2, <2>3, <3>1, <3>2, <3>3 DEF Opening, Outside, At
    <3>5. Matching'
      BY <2>1, <2>2, <2>3, <3>2, <3>3 DEF Matching, Outside, TryCmds
    <3> QED BY <3>3, <3>4, <3>5
  <2>4. CASE op.pc = "key"
    <3>1. cache'.key = None
      BY <1>24, <1>t, <2>4 DEF ResetStep, Put, Cleared, Files
    <3>2. op'.pc = "pin"
      BY <2>2, <2>4 DEF ResetOrder
    <3> QED BY <1>n, <2>1, <2>2, <3>1, <3>2
            DEF Sealed, Opening, Matching, Outside, At, Unlocks, TryCmds
  <2>5. CASE op.pc = "pin"
    <3>1. cache'.pin = None /\ cache'.key = cache.key
      BY <1>24, <1>t, <2>5 DEF ResetStep, Put, Cleared, Files
    <3>2. op'.pc = "init"
      BY <2>2, <2>5 DEF ResetOrder
    <3>3. cache'.key = None
      BY <2>5, <3>1 DEF Opening
    <3> QED BY <1>n, <2>1, <2>2, <3>1, <3>2, <3>3
            DEF Sealed, Opening, Matching, Outside, At, Unlocks, TryCmds
  <2> QED BY <2>1, <2>3, <2>4, <2>5
<1>25. ASSUME NEW f \in Files, f.pin \in PinData \cup {None}, f.key \in KeyDev \cup {None}, Sealed(f),
              NEW r \in RamType, InitFido(f, r)
       PROVE  /\ cache'.pin = f.pin /\ cache'.key # None /\ Sealed(cache')
              /\ Unlocks(f) => Unlocks(cache')
              /\ ram'.session = r.session /\ ~ram'.unlocked
  <2>1. ram'.session = r.session /\ ~ram'.unlocked
    BY <1>25 DEF InitFido, RamType
  <2>2. CASE f.key = None
    <3>1. PICK k \in Keys : cache' = [f EXCEPT !.key = Plain(k)]
      BY <1>25, <2>2 DEF InitFido, Put
    <3>2. cache'.pin = f.pin /\ cache'.key = Plain(k)
      BY <3>1 DEF Files
    <3>3. Plain(k) \in KeyDev /\ Plain(k).fmt = 1
      BY DEF Plain, KeyDev
    <3> QED BY <1>n, <2>1, <3>2, <3>3 DEF Sealed, Unlocks, Loads
  <2>3. CASE f.key # None
    BY <1>25, <2>1, <2>3 DEF InitFido, Put, Sealed, Unlocks
  <2> QED BY <2>2, <2>3
<1>26. CASE ResetInit
  <2>1. op.cmd = "reset" /\ op.pc = "init" /\ op' = Idle /\ UNCHANGED <<flash, hist>>
    BY <1>26 DEF ResetInit, Return, At
  <2>2. /\ cache'.pin = cache.pin /\ Sealed(cache') /\ (Unlocks(cache) => Unlocks(cache'))
        /\ ~ram'.unlocked /\ cache'.pin = None
    BY <1>25, <1>26, <1>t, <2>1 DEF ResetInit, Opening
  <2>3. Opening'
    BY <2>1, <2>2 DEF Opening, At, Idle
  <2>4. Matching'
    BY <2>1, <2>2 DEF Matching, Idle, Outside, ResetSteps, TryCmds
  <2> QED BY <2>1, <2>2, <2>3, <2>4
<1>27. CASE Reselect
  <2>1. op = Idle /\ UNCHANGED <<flash, op, hist>>
    BY <1>27 DEF Reselect
  <2>2. /\ cache'.pin = cache.pin /\ Sealed(cache') /\ (Unlocks(cache) => Unlocks(cache'))
        /\ ram'.session = ram.session /\ ~ram'.unlocked
    BY <1>25, <1>27, <1>t DEF Reselect
  <2>3. Opening'
    BY <2>1, <2>2 DEF Opening, At, Idle, Outside, SessionOf
  <2>4. Matching'
    BY <2>1, <2>2 DEF Matching, Idle, Outside, TryCmds
  <2> QED BY <2>1, <2>2, <2>3, <2>4
<1>28. CASE PowerLoss
  <2>1. op' = Idle /\ flash' = flash /\ hist'.cut = (hist.cut \/ hist.mid) /\ hist'.mid = hist.mid
    BY <1>28 DEF PowerLoss, TypeOK
  <2>2. NoRam \in RamType /\ NoRam.session = None
    BY ConstantTypes DEF NoRam, RamType
  <2>3. /\ cache'.pin = flash.pin /\ Sealed(cache') /\ (Unlocks(flash) => Unlocks(cache'))
        /\ ram'.session = None /\ ~ram'.unlocked
    BY <1>25, <1>28, <1>t, <2>2 DEF PowerLoss
  <2>4. Opening'
    BY <2>1, <2>3 DEF Opening, At, Idle
  <2>5. Matching'
    BY <2>1, <2>3 DEF Matching, Idle, TryCmds
  <2> QED BY <2>1, <2>3, <2>4, <2>5
<1>29. CASE Drain
  <2>1. /\ flash' = cache /\ UNCHANGED <<cache, ram, op>> /\ hist'.cut = hist.cut
        /\ ~hist'.mid => op.pc \in Outside \cup ResetSteps
    BY <1>29, <1>s DEF Drain, TypeOK, Outside, Control, ResetSteps
  <2>2. Opening'
    BY <2>1 DEF Opening, At
  <2>3. Matching'
    BY <2>1 DEF Matching
  <2> QED BY <2>1, <2>2, <2>3
<1>30. CASE UNCHANGED vars
  BY <1>30 DEF vars, Sealed, Opening, Matching, At
<1>31. CASE ChangePin
  BY <1>11, <1>31 DEF ChangePin, TryCmds
<1>32. CASE GetToken
  BY <1>11, <1>32 DEF GetToken, TryCmds
<1> QED
  BY <1>1, <1>2, <1>3, <1>4, <1>5, <1>6, <1>7, <1>8, <1>9, <1>10, <1>12, <1>13, <1>14, <1>15, <1>16,
     <1>17, <1>18, <1>19, <1>20, <1>21, <1>22, <1>23, <1>24, <1>26, <1>27, <1>28, <1>29, <1>30,
     <1>31, <1>32 DEF Next

\* The invariant gives the properties.
LEMMA IInvProperties == IInv => GuessesBounded /\ KeyOutlivesCredentials
<1> SUFFICES ASSUME IInv PROVE GuessesBounded /\ KeyOutlivesCredentials
  OBVIOUS
<1>1. GuessesBounded
  BY DEF IInv, TypeOK, Files, Counting, Left, GuessesBounded
<1>2. KeyOutlivesCredentials
  BY NoneIsNew DEF IInv, Keyed, HasKey, KeyOutlivesCredentials
<1> QED BY <1>1, <1>2

\* The invariant holds in every state of every behaviour.
THEOREM Invariant == Spec => []IInv
BY InitIInv, NextIInv, PTL DEF Spec

\* The variables have their types: no retry is taken from a blocked PIN, no command
\* reads a PIN or a device key that is not there.
THEOREM TypeCorrect == Spec => []TypeOK
<1>1. IInv => TypeOK
  BY DEF IInv
<1> QED BY <1>1, Invariant, PTL

\* However many power losses and failed write-outs there are, no PIN file is
\* compared with more than MaxRetries wrong PINs in a row.
THEOREM BoundedGuesses == Spec => []GuessesBounded
BY IInvProperties, Invariant, PTL

\* At no moment would a power loss leave credentials without their device key.
THEOREM CredentialsKeepKey == Spec => []KeyOutlivesCredentials
BY IInvProperties, Invariant, PTL

\* Every reachable state keeps PIN and device key together.
THEOREM KeyInvariant == Spec => []KeyInv
<1>1. Init => IInv /\ KeyInv
  BY InitIInv, InitKeyInv
<1>2. (IInv /\ KeyInv) /\ [Next]_vars => (IInv /\ KeyInv)'
  BY NextIInv, NextKeyInv
<1> QED BY <1>1, <1>2, PTL DEF Spec

\* Between commands the stored PIN opens the device key, unless the power failed in the middle of
\* a change, and a session that counts as unlocked holds the key.
THEOREM PinAndKey == Spec => []PinOpensKey
<1>1. KeyInv => PinOpensKey
  BY DEF KeyInv, Opening, Matching, Outside, PinOpensKey, KeyMatchesPin, UnlockedLoads, Idle
<1> QED BY <1>1, KeyInvariant, PTL

=============================================================================
