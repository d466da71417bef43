----------------------------- MODULE HsmSession -----------------------------
(***************************************************************************)
(* The SmartCard-HSM applet's access control: user PIN and SO-PIN, the two *)
(* copies of the master key encryption key (MKEK) wrapped with what is     *)
(* derived from them, public key authentication with its quorum, the key   *)
(* domain whose key (DKEK) is the XOR of imported shares, INITIALIZE and   *)
(* SECURE LOCK.                                                            *)
(*                                                                         *)
(* A handler leaves the files it writes in op.todo and Write takes them    *)
(* one by one; where the code ignores the result of a write a failure is   *)
(* passed over, where it looks at it the command ends there.               *)
(***************************************************************************)
EXTENDS Integers, Sequences, FiniteSets

CONSTANTS
    Pins,          \* values of user PIN and SO-PIN
    Shares,        \* DKEK shares
    Puks,          \* slots for public keys (EF_PUK + i)
    Quorum,        \* how many of them must have answered (puk_data[2])
    Dkeks,         \* how many shares a domain takes
    Lock,          \* whether SECURE LOCK is used
    MaxTries,      \* retry limit of both references
    MaxMishaps,    \* how many power losses and failed writes are followed
    MaxNonces,     \* how many challenges are drawn
    MaxKeys,       \* how many MKEKs INITIALIZE draws
    MaxCommands,   \* how many commands that write files are followed (see Bound)
    None

Refs == {"user", "so"}
Sessions == [pin : Pins, kdf : {"old", "new"}]

\* What the constants have to be; MCHsm assumes it of its instance.
ConstantTypes ==
    /\ None \notin Refs \cup Puks \cup Pins \cup Sessions \cup {"import", "initialize", "pending"}
    /\ Quorum \in Nat /\ MaxTries \in Nat /\ Dkeks \in 1 .. 254
    /\ Pins # {}
Unset == 255                        \* 0xff in EF_KEY_DOMAIN

VARIABLES
    cache,      \* the files as the firmware sees them
    flash,      \* the files as a power loss would leave them
    ram,        \* sessions, isUserAuthenticated, pka challenge and status, pending_save_dkek
    op,         \* the handler in progress
    hist        \* history and bounds

vars == <<cache, flash, ram, op, hist>>

-----------------------------------------------------------------------------
(* State *)

\* A wrapped MKEK: the PIN and derivation that open it, its format, whether SECURE LOCK masked it
Wrapped(pin, kdf, key) == [pin |-> pin, kdf |-> kdf, legacy |-> FALSE, key |-> key, masked |-> FALSE]
NoDkek == [kind |-> "none", xor |-> {}, ok |-> TRUE]
NoCopy == Wrapped(None, "new", 0)

\* A card in use; old: as the firmware before this format left it
CardOf(v, w, old) ==
    LET kdf == IF old THEN "old" ELSE "new" IN
    [pin |-> [r \in Refs |-> [v |-> IF r = "user" THEN v ELSE w, old |-> old]],
     mkek |-> [r \in Refs |-> [Wrapped(IF r = "user" THEN v ELSE w, kdf, 1) EXCEPT !.legacy = old]],
     tries |-> [r \in Refs |-> MaxTries],
     need |-> Dkeks, have |-> 0, dkek |-> NoDkek,
     pka |-> FALSE, combined |-> FALSE, puks |-> [p \in Puks |-> 1], locked |-> FALSE,
     key |-> 1, given |-> {}]   \* history: the MKEK in use, the shares accepted for the domain

NoSession == [user |-> FALSE, ses |-> [r \in Refs |-> None], mask |-> FALSE,
              chal |-> 0, status |-> {}, aut |-> None]
Booted == [user |-> FALSE, ses |-> [r \in Refs |-> None], mask |-> FALSE,
           chal |-> 0, status |-> {}, aut |-> None, pending |-> FALSE]

Idle == [pc |-> "idle", cmd |-> None, todo |-> <<>>, then |-> "idle", ref |-> "user",
         new |-> None, next |-> "idle", share |-> {}, key |-> 1]

\* A quorum host without COMBINED_AUTH has one key still to be added.
LastPuk == CHOOSE p \in Puks : TRUE

Init ==
    /\ \E h \in {"pins", "quorum", "domain"}, old \in BOOLEAN, c \in BOOLEAN :
          /\ old => h = "pins"
          /\ c => h = "quorum"
          /\ LET p == CHOOSE p \in Pins : TRUE IN
                cache = [CardOf(p, p, old) EXCEPT !.pka = (h = "quorum"), !.combined = c,
                    !.puks = [q \in Puks |-> IF h = "quorum" /\ ~c /\ q = LastPuk THEN 0 ELSE 1]]
          /\ hist = [host |-> h, keys |-> 1, nonces |-> 0, mishaps |-> 0, cmds |-> 0,
                     answered |-> {}, part |-> {}, torn |-> {}]
    /\ flash = cache /\ ram = Booted /\ op = Idle

-----------------------------------------------------------------------------
(* Files *)

\* A write: the file, its part, the value; must: whether the code looks at the result
Put(f, at, v, must) == [f |-> f, at |-> at, v |-> v, must |-> must]

Applied(c, w) == IF w.at = None THEN [c EXCEPT ![w.f] = w.v] ELSE [c EXCEPT ![w.f][w.at] = w.v]

Rest == IF Len(op.todo) > 1 THEN [op EXCEPT !.todo = Tail(@)]
        ELSE IF op.then = "idle" THEN Idle ELSE [op EXCEPT !.todo = <<>>, !.pc = op.then]

Write ==
    /\ op.pc = "write"
    /\ cache' = Applied(cache, Head(op.todo))
    /\ op' = Rest
    /\ UNCHANGED <<flash, ram, hist>>

\* What is half done while a command writes
Torn == IF op.pc = "idle" THEN {} ELSE {op.cmd}

Run(name, writes, then) ==
    [Idle EXCEPT !.pc = IF writes = <<>> THEN then ELSE "write", !.cmd = name, !.todo = writes, !.then = then]

Xor(a, b) == (a \ b) \cup (b \ a)

\* import_dkek_share: onto the raw file; a file of any other kind counts as zero
Imported(d, s) ==
    [kind |-> "raw", xor |-> IF d.kind = "raw" THEN Xor(d.xor, {s}) ELSE {s}, ok |-> d.kind = "raw" => d.ok]

\* The last share is in the domain's file and the wrapped key does not get there: the share is taken
\* back, and not counted.
LastShare == op.cmd = "import" /\ op.share # {} /\ Head(op.todo).f = "dkek" /\ Head(op.todo).v.kind = "wrapped"
TakenBack == Put("dkek", None, Imported(cache.dkek, CHOOSE s \in op.share : TRUE), FALSE)

Fault ==
    /\ op.pc = "write" /\ hist.mishaps < MaxMishaps
    /\ op' = IF Head(op.todo).must THEN Idle
             ELSE IF LastShare THEN Run("import", <<TakenBack>>, "idle") ELSE Rest
    /\ hist' = [hist EXCEPT !.mishaps = @ + 1, !.torn = @ \cup Torn]
    /\ UNCHANGED <<cache, flash, ram>>

Drain ==
    /\ flash # cache /\ hist.mishaps < MaxMishaps
    /\ flash' = cache
    /\ hist' = [hist EXCEPT !.part = Torn]
    /\ UNCHANGED <<cache, ram, op>>

\* That a domain's key waits to be saved is forgotten with the memory.
PowerLoss ==
    /\ hist.mishaps < MaxMishaps
    /\ cache' = flash /\ UNCHANGED flash
    /\ ram' = Booted /\ op' = Idle
    /\ hist' = [hist EXCEPT !.mishaps = @ + 1, !.answered = {},
                            !.torn = @ \cup hist.part \cup
                                (IF flash.dkek.kind = "raw" /\ flash.have = flash.need THEN {"pending"} ELSE {})]

\* sc_hsm_unload and init_sc_hsm: everything but pending_save_dkek
Select ==
    /\ op = Idle /\ \E f \in DOMAIN NoSession : ram[f] # NoSession[f]
    /\ ram' = [Booted EXCEPT !.pending = ram.pending]
    /\ hist' = [hist EXCEPT !.answered = {}]
    /\ UNCHANGED <<cache, flash, op>>

\* A domain takes one command more: its shares, and what disturbs them.
Bound == IF hist.host = "domain" THEN MaxCommands + 1 ELSE MaxCommands
Counted == hist.cmds < Bound /\ hist' = [hist EXCEPT !.cmds = @ + 1]

-----------------------------------------------------------------------------
(* The master key encryption key: load_mkek and store_mkek *)

\* The copy load_mkek turns to: the user's when the user has a session
Loaded(c, m) == IF m.ses["user"] # None /\ c.mkek["user"] # NoCopy THEN "user" ELSE "so"

\* The mask of SECURE LOCK is taken off copies of the legacy format only.
CopyOpens(c, m, r) ==
    LET w == c.mkek[r] IN
    /\ m.ses[r] # None /\ w # NoCopy
    /\ w.pin = m.ses[r].pin /\ w.kdf = m.ses[r].kdf
    /\ w.masked = (w.legacy /\ m.mask)

Loads(c, m) == CopyOpens(c, m, Loaded(c, m))
LoadedKey(c, m) == c.mkek[Loaded(c, m)].key

\* store_mkek: a copy for every session; the results of the writes are not looked at
StoreMkek(ses, key) ==
    (IF ses["user"] = None THEN <<>>
     ELSE <<Put("mkek", "user", Wrapped(ses["user"].pin, ses["user"].kdf, key), FALSE)>>)
    \o (IF ses["so"] = None THEN <<>>
        ELSE <<Put("mkek", "so", Wrapped(ses["so"].pin, ses["so"].kdf, key), FALSE)>>)

-----------------------------------------------------------------------------
(* PINs: hsm_check_pin *)

Pinned == hist.host \in {"pins", "quorum", "domain"}
QuorumMet(m) == Cardinality(m.status) >= Quorum

\* hsm_update_user_auth
Updated(m) ==
    IF ~cache.pka THEN m
    ELSE [m EXCEPT !.user = QuorumMet(m) /\ (cache.combined => m.ses["user"] # None)]

\* hsm_check_pin closes both sessions first.
Closed(m) == [m EXCEPT !.ses = [r \in Refs |-> None], !.user = cache.pka /\ @]

\* A wrong value: compared first, then a try is spent. Access by public keys is not looked at again.
CheckWrong(r) ==
    /\ op = Idle /\ Pinned /\ Counted
    /\ cache.tries[r] > 0
    /\ ram' = Closed(ram)
    /\ op' = Run("check", <<Put("tries", r, cache.tries[r] - 1, TRUE)>>, "idle")
    /\ UNCHANGED <<cache, flash>>

\* The right value for a command: VERIFY, CHANGE PIN, RESET RETRY. A blocked PIN stays blocked.
CheckRight(r, next, new) ==
    /\ ram' = Closed(ram)
    /\ op' = IF cache.tries[r] = 0 THEN Idle
             ELSE [Run("check", <<Put("tries", r, MaxTries, TRUE)>>, "checked")
                      EXCEPT !.ref = r, !.next = next, !.new = new]
    /\ UNCHANGED <<cache, flash>>

\* A verifier of the old format: the MKEK is loaded with the old derivation (which stores a
\* legacy copy in the new format at once), wrapped with the new one, then the verifier changes.
Checked ==
    /\ op.pc = "checked"
    /\ LET r == op.ref
           v == cache.pin[r].v
           oldSes == [ram EXCEPT !.ses[r] = [pin |-> v, kdf |-> "old"]]
           newSes == [ram EXCEPT !.ses[r] = [pin |-> v, kdf |-> "new"]]
       IN IF ~cache.pin[r].old
          THEN ram' = newSes /\ op' = [op EXCEPT !.pc = "granted"]
          ELSE IF ~Loads(cache, oldSes)
          THEN ram' = oldSes /\ op' = Idle
          ELSE LET key == LoadedKey(cache, oldSes) IN
               /\ ram' = newSes
               /\ op' = [op EXCEPT !.pc = "write", !.cmd = "upgrade", !.then = "granted",
                            !.todo = (IF cache.mkek[r].legacy THEN StoreMkek(oldSes.ses, key) ELSE <<>>)
                                     \o StoreMkek(newSes.ses, key)
                                     \o <<Put("pin", r, [v |-> v, old |-> FALSE], TRUE)>>]
    /\ UNCHANGED <<cache, flash, hist>>

\* save_dkek_key: the raw file, wrapped with the MKEK (what it holds is not looked at)
SavedDkek(d) == [d EXCEPT !.kind = "wrapped"]

\* Access is granted, and a domain key left waiting for a login is saved.
Granted ==
    /\ op.pc = "granted"
    /\ ram' = [Updated([ram EXCEPT !.user = @ \/ ~cache.pka]) EXCEPT !.pending = FALSE]
    /\ op' = IF ram.pending /\ Loads(cache, ram) /\ cache.dkek.kind # "none"
             THEN [op EXCEPT !.pc = "write", !.cmd = "pending", !.then = op.next,
                             !.todo = <<Put("dkek", None, SavedDkek(cache.dkek), FALSE)>>]
             ELSE IF op.next = "idle" THEN Idle ELSE [op EXCEPT !.pc = op.next]
    /\ UNCHANGED <<cache, flash, hist>>

Verify(r) ==
    /\ op = Idle /\ ram.ses[r] = None
    /\ CheckRight(r, "idle", None)
    /\ UNCHANGED hist

PinHost == op = Idle /\ hist.host = "pins"

ChangePin(r, new) ==
    /\ PinHost /\ Counted
    /\ CheckRight(r, "change", new)

\* Mutant: the verifier first, then the MKEK of every reference.
Rewrap_BothCopies(ses, r, new, key) ==
    StoreMkek([x \in Refs |-> [pin |-> new, kdf |-> "new"]], key)
        \o <<Put("pin", r, [v |-> new, old |-> FALSE], FALSE)>>

\* The MKEK wrapped for the new value, then the verifier; neither result is looked at.
Rewrap(ses, r, new, key) ==
    StoreMkek(ses, key) \o <<Put("pin", r, [v |-> new, old |-> FALSE], FALSE)>>

Change ==
    /\ op.pc = "change"
    /\ LET ses == [ram.ses EXCEPT ![op.ref] = [pin |-> op.new, kdf |-> "new"]] IN
       IF ~Loads(cache, ram)
       THEN op' = Idle /\ UNCHANGED ram
       ELSE /\ ram' = [ram EXCEPT !.ses = ses]
            /\ op' = Run("change", Rewrap(ses, op.ref, op.new, LoadedKey(cache, ram)), "idle")
    /\ UNCHANGED <<cache, flash, hist>>

\* RESET RETRY COUNTER with the SO-PIN in the command, or with a session of it (P1 = 2, 3)
ResetRetry(new) ==
    /\ PinHost /\ Counted
    /\ CheckRight("so", "unblock", new)

ResetRetrySession(new) ==
    /\ PinHost /\ Counted /\ ram.ses["so"] # None
    /\ op' = [Idle EXCEPT !.pc = "unblock", !.cmd = "unblock", !.new = new]
    /\ UNCHANGED <<cache, flash, ram>>

\* The counter first; with a new PIN the MKEK and the verifier follow.
Unblock ==
    /\ op.pc = "unblock"
    /\ LET full == <<Put("tries", "user", MaxTries, TRUE)>>
           ses == [ram.ses EXCEPT !["user"] = [pin |-> op.new, kdf |-> "new"]]
       IN IF op.new = None \/ ~Loads(cache, ram)
          THEN op' = Run("unblock", full, "idle") /\ UNCHANGED ram
          ELSE /\ ram' = [ram EXCEPT !.ses = ses]
               /\ op' = Run("unblock", full \o Rewrap(ses, "user", op.new, LoadedKey(cache, ram)), "idle")
    /\ UNCHANGED <<cache, flash, hist>>

-----------------------------------------------------------------------------
(* INITIALIZE *)

\* Needs no login. The MKEK of the session it finds is kept, otherwise a new one is drawn; files,
\* PINs, copies of the MKEK, then the domain. pending_save_dkek is left as it is.
InitializeWrites(v, w, key) ==
    LET ses == [user |-> [pin |-> v, kdf |-> "new"], so |-> [pin |-> w, kdf |-> "new"]] IN
    <<Put("mkek", None, [r \in Refs |-> NoCopy], FALSE), Put("dkek", None, NoDkek, FALSE),
      Put("locked", None, FALSE, FALSE),
      Put("tries", None, [r \in Refs |-> MaxTries], FALSE),
      Put("pin", "user", [v |-> v, old |-> FALSE], FALSE),
      Put("pin", "so", [v |-> w, old |-> FALSE], FALSE)>>
    \o StoreMkek(ses, key)
    \o <<Put("need", None, Dkeks, TRUE), Put("have", None, 0, TRUE)>>

Initialize(v, w) ==
    /\ op = Idle /\ hist.host \in {"pins", "domain"}
    /\ cache.locked => ram.mask
    /\ LET ok == Loads(cache, ram)
           key == IF ok THEN LoadedKey(cache, ram) ELSE hist.keys + 1
       IN /\ hist.cmds < Bound /\ (~ok => hist.keys < MaxKeys)
          /\ hist' = [hist EXCEPT !.cmds = @ + 1, !.keys = IF ok THEN @ ELSE @ + 1, !.answered = {},
                                  !.torn = IF ram.pending THEN @ \cup {"pending"} ELSE @]
          /\ op' = [Run("initialize", InitializeWrites(v, w, key), "initialized") EXCEPT !.key = key]
    /\ ram' = [ram EXCEPT !.ses = [user |-> [pin |-> v, kdf |-> "new"], so |-> [pin |-> w, kdf |-> "new"]],
                          !.mask = FALSE]
    /\ cache' = [cache EXCEPT !.given = {}]
    /\ UNCHANGED flash

Initialized ==
    /\ op.pc = "initialized"
    /\ ram' = [ram EXCEPT !.user = TRUE, !.status = {}]
    /\ cache' = [cache EXCEPT !.key = op.key]
    /\ op' = Idle
    /\ UNCHANGED <<flash, hist>>

-----------------------------------------------------------------------------
(* Public key authentication *)

QuorumHost == op = Idle /\ hist.host = "quorum"

\* MSE SET: the slot whose certificate is named
MseSet(p) ==
    /\ QuorumHost /\ cache.puks[p] # 0 /\ ram.aut # p
    /\ ram' = [ram EXCEPT !.aut = p]
    /\ UNCHANGED <<cache, flash, op, hist>>

\* Mutant: what was answered before the new challenge still counts.
Challenged_Keeps(n) == [ram EXCEPT !.chal = n]

\* GET CHALLENGE: a new one, and nobody has answered it.
Challenged(n) == [ram EXCEPT !.chal = n, !.status = {}]

GetChallenge ==
    /\ QuorumHost /\ hist.nonces < MaxNonces
    /\ ram' = Challenged(hist.nonces + 1)
    /\ hist' = [hist EXCEPT !.nonces = @ + 1, !.answered = {}]
    /\ UNCHANGED <<cache, flash, op>>

\* EXTERNAL AUTHENTICATE: the challenge stays until the quorum is met.
ExternalAuthenticate(right) ==
    /\ QuorumHost /\ ram.aut # None /\ ram.chal # 0
    /\ LET answered == [ram EXCEPT !.status = @ \cup {ram.aut}]
           left == IF QuorumMet(answered) THEN [answered EXCEPT !.chal = 0] ELSE answered
       IN ram' = IF right THEN Updated(left) ELSE [ram EXCEPT !.status = @ \ {ram.aut}]
    /\ hist' = [hist EXCEPT !.answered = IF right THEN @ \cup {ram.aut} ELSE @ \ {ram.aut}]
    /\ UNCHANGED <<cache, flash, op>>

\* PUKAUTH: add a key to an empty slot (the count of missing keys, not modelled, goes first) or
\* replace one. puk_status is left alone: the approval of the key replaced goes on counting.
PukAuth(p) ==
    /\ QuorumHost /\ Counted
    /\ \E r \in Refs : ram.ses[r] # None
    /\ op' = Run("puk", <<Put("puks", p, 1 + (cache.puks[p] % 2), FALSE)>>, "idle")
    /\ UNCHANGED <<cache, flash, ram>>

-----------------------------------------------------------------------------
(* Key domain *)

DomainHost == op = Idle /\ hist.host = "domain"

\* Mutant: off by one.
IsLast_Beyond(c) == c.have + 1 > c.need

IsLast(c) == c.have + 1 >= c.need

\* dkek_kcv at the end of KEY DOMAIN: load_dkek takes a raw file for one encrypted the old way,
\* and stores what comes out when the domain is complete.
KcvGarbles(c) ==
    /\ c.dkek.kind = "raw" /\ Loads(c, ram)
    /\ c.need \notin {0, Unset} /\ c.have >= c.need
Kcv == IF KcvGarbles(cache)
       THEN Run("import", <<Put("dkek", None, [kind |-> "wrapped", xor |-> {}, ok |-> FALSE], FALSE)>>, "idle")
       ELSE Idle

DomainKcv ==
    /\ op.pc = "kcv"
    /\ op' = Kcv
    /\ cache' = [cache EXCEPT !.given = Xor(@, op.share)]
    /\ UNCHANGED <<flash, ram, hist>>

\* P1 = 0 without data
DomainQuery ==
    /\ DomainHost /\ KcvGarbles(cache)
    /\ op' = Kcv
    /\ UNCHANGED <<cache, flash, ram, hist>>

\* P1 = 0: the share (needs no login); with the last one the key is wrapped, or left pending until
\* a login; when the MKEK does not load the share is taken back, as when the wrapped key cannot be
\* stored (Fault). Then the count. The result of the share's own write is not looked at: when it
\* failed, what is stored after it is here still that of the share, in a domain that DkekIsTheShares
\* no longer speaks of.
ImportShare(s) ==
    /\ DomainHost /\ Counted
    /\ cache.have # cache.need
    /\ LET d == Imported(cache.dkek, s)
           last == IsLast(cache)
           login == \E r \in Refs : ram.ses[r] # None
           share == Put("dkek", None, d, FALSE)
           count == Put("have", None, cache.have + 1, TRUE)
       IN IF last /\ login /\ ~Loads(cache, ram)
          THEN /\ op' = Run("import", <<share, Put("dkek", None, Imported(d, s), FALSE)>>, "idle")
               /\ UNCHANGED ram
          ELSE /\ op' = [Run("import", <<share>> \o
                                (IF last /\ login THEN <<Put("dkek", None, SavedDkek(d), FALSE)>> ELSE <<>>)
                                \o <<count>>, "kcv") EXCEPT !.share = {s}]
               /\ ram' = [ram EXCEPT !.pending = @ \/ (last /\ ~login)]
    /\ UNCHANGED <<cache, flash>>

\* P1 = 1 sets a domain up, 3 deletes it, 4 starts its shares again: the counts, then the key.
DomainChange(name, need, have) ==
    /\ DomainHost /\ ram.user /\ ram.ses["user"] # None
    /\ Counted
    /\ cache' = [cache EXCEPT !.given = {}]
    /\ op' = Run(name, <<Put("need", None, need, TRUE), Put("have", None, have, TRUE),
                         Put("dkek", None, NoDkek, TRUE)>>, "idle")
    /\ UNCHANGED <<flash, ram>>

DomainSetup == cache.need = Unset /\ DomainChange("import", Dkeks, 0)
DomainDelete == cache.need # Unset /\ DomainChange("import", Unset, Unset)
DomainReset == DomainChange("import", cache.need, 0)

-----------------------------------------------------------------------------
(* SECURE LOCK *)

\* ENABLE and DISABLE put the mask on or off the bytes of both copies, then the option changes.
SecureLock(on) ==
    /\ PinHost /\ Lock /\ ram.user /\ Counted
    /\ op' = Run("lock",
                 (IF cache.locked = on THEN <<>>
                  ELSE <<Put("mkek", "user", [cache.mkek["user"] EXCEPT !.masked = ~@], FALSE),
                         Put("mkek", "so", [cache.mkek["so"] EXCEPT !.masked = ~@], FALSE)>>)
                 \o <<Put("locked", None, on, FALSE)>>, "idle")
    /\ UNCHANGED <<cache, flash, ram>>

GiveMask ==
    /\ PinHost /\ Lock /\ ram.user /\ cache.locked /\ ~ram.mask
    /\ ram' = [ram EXCEPT !.mask = TRUE]
    /\ UNCHANGED <<cache, flash, op, hist>>

Next ==
    \/ Write \/ Fault \/ Drain \/ PowerLoss \/ Select
    \/ \E r \in Refs : CheckWrong(r) \/ Verify(r)
    \/ Checked \/ Granted \/ Change \/ Unblock \/ Initialized
    \/ \E new \in Pins : (\E r \in Refs : ChangePin(r, new)) \/ (\E w \in Pins : Initialize(new, w))
    \/ \E new \in Pins \cup {None} : ResetRetry(new) \/ ResetRetrySession(new)
    \/ \E p \in Puks : MseSet(p) \/ PukAuth(p)
    \/ GetChallenge \/ \E right \in BOOLEAN : ExternalAuthenticate(right)
    \/ \E s \in Shares : ImportShare(s)
    \/ DomainKcv \/ DomainQuery \/ DomainSetup \/ DomainDelete \/ DomainReset
    \/ (\E on \in BOOLEAN : SecureLock(on)) \/ GiveMask

Spec == Init /\ [][Next]_vars

-----------------------------------------------------------------------------
(* Properties *)

\* Whatever PIN changes, unblockings, format upgrades and initialisations were made, and although
\* every one of them writes a copy of the MKEK and the verifier one after the other, after one
\* power loss or failed write some reference still opens the MKEK that the keys are wrapped with.
\* Exempt: a mishap inside INITIALIZE, which has erased the keys.
SomeoneOpens ==
    op = Idle /\ "initialize" \notin hist.torn =>
        \E r \in Refs :
            LET w == cache.mkek[r] IN
            /\ w.key = cache.key /\ ~w.masked
            /\ w.pin = cache.pin[r].v
            /\ w.kdf = "old" <=> cache.pin[r].old

\* isUserAuthenticated is gained by the right PIN, by INITIALIZE, or, under public key
\* authentication, by a quorum of keys that answered the latest challenge (with the user PIN
\* when both are asked for): answers to earlier challenges do not add up.
GainsAccess ==
    ram'.user /\ ~ram.user =>
        IF ~cache.pka THEN op.pc \in {"granted", "initialized"}
        ELSE /\ Cardinality(hist'.answered) >= Quorum
             /\ cache.combined => ram.ses["user"] # None
AccessIsEarned == [][GainsAccess]_vars

\* "makes a verified user PIN necessary in addition to the quorum" (violated: a wrong PIN closes
\* the session and leaves isUserAuthenticated).
CombinedNeedsPin ==
    op = Idle /\ cache.combined /\ ram.user => ram.ses["user"] # None

\* A complete domain's key is the XOR of exactly the shares that were accepted since the domain
\* was set up, in whatever order shares, logins, failed logins and resets come. Exempt: a mishap
\* inside a domain command or while a key waits for a login, and an INITIALIZE at that time.
DkekIsTheShares ==
    op = Idle /\ ~ram.pending /\ {"import", "initialize", "pending"} \cap hist.torn = {}
        /\ cache.need # Unset /\ cache.have = cache.need
    => cache.dkek.kind = "wrapped" /\ cache.dkek.ok /\ cache.dkek.xor = cache.given
===============================================================================
