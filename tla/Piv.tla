--------------------------------- MODULE Piv ---------------------------------
(***************************************************************************)
(* The PIV applet: PIN and PUK, authentication of the management key by a  *)
(* challenge, generation, import, move, use and attestation of the keys    *)
(* with the PIN and touch policy that the metadata file holds for each of  *)
(* them, SET RETRIES, SET MANAGEMENT KEY, RESET, and the scan that         *)
(* provisions the applet at every SELECT.                                  *)
(*                                                                         *)
(* A handler checks its conditions in one step and leaves the list of the  *)
(* files it writes in op.todo; Write takes them one at a time, Fault lets  *)
(* one fail, and between two of them the cache may be written out (Drain)  *)
(* and the power may fail.                                                 *)
(***************************************************************************)
EXTENDS Integers, Sequences

CONSTANTS
    Slots,         \* references of the asymmetric keys
    Slot18,        \* reference 93, whose file is 96 because 93 is EF_SIG_COUNT
    MoveMgm,       \* whether MOVE KEY is sent for the management key (9B is a key to IS_KEY)
    MaxKeys,       \* how many keys are generated or imported
    MaxNonces,     \* how many challenges are drawn
    MaxTries,      \* the limit PIV_RESET and SET RETRIES set
    MaxMishaps,    \* how many failed writes and power losses are followed
    MaxCommands,   \* how many of the commands that write files are followed
    None

Policies == {[pin |-> "never", touch |-> FALSE], [pin |-> "always", touch |-> TRUE]}
Fid18 == "fid18"                    \* the tag EF_META would have for file 96
Tags == Slots \cup {Fid18}
References == {"pin", "puk"}
MgmAlgos == {"aes192", "aes256"}       \* of the management key

VARIABLES
    cache,      \* the files as the firmware sees them
    flash,      \* the files as a power loss would leave them
    ram,        \* has_pwpiv, has_mgm, mgm_challenge
    op,         \* the handler in progress and the files it has still to write
    hist        \* history and bounds

vars == <<cache, flash, ram, op, hist>>

\* ref: the PIN and PUK files, with the factory value or the user's own; mgm, mgmMeta: algorithm of the
\* stored management key, and algorithm and touch of its metadata; key: the policy and origin
\* each key was made with; meta: what EF_META says of it; cert: slots with a certificate
NewFiles ==
    [ref |-> [r \in References |-> None], tries |-> [r \in References |-> MaxTries],
     limit |-> [r \in References |-> MaxTries], dek |-> FALSE,
     mgm |-> None, mgmMeta |-> None, att |-> FALSE,
     key |-> [s \in Slots |-> None], meta |-> [t \in Tags |-> None], cert |-> {}]

NoChallenge == [kind |-> None, algo |-> None, n |-> 0]
NoSession == [pwpiv |-> FALSE, mgm |-> FALSE, chal |-> NoChallenge]

\* A handler that writes files, and one that does not: idle, switched off, ...
Running(name, s, writes, then) ==
    [pc |-> "write", cmd |-> name, todo |-> writes, then |-> then, slot |-> s, pressed |-> FALSE]
At(pc) == [pc |-> pc, cmd |-> None, todo |-> <<>>, then |-> pc, slot |-> None, pressed |-> FALSE]
Idle == At("idle")
Off == At("off")

Init ==
    /\ cache = NewFiles /\ flash = NewFiles
    /\ ram = NoSession /\ op = Off
    /\ \E h \in {"pins", "keys", "challenges"} :
          hist = [host |-> h, keys |-> 0, nonces |-> 0, faults |-> 0, cuts |-> 0, cmds |-> 0,
                  spent |-> {}, touched |-> {}, used |-> FALSE, part |-> {}, torn |-> {}]

-----------------------------------------------------------------------------
(* Files *)

Put(f, v) == [f |-> f, at |-> None, v |-> v]
PutAt(f, i, v) == [f |-> f, at |-> i, v |-> v]

\* pin_reset_retries gives the tries back that EF_PW_RETRIES then allows.
Value(c, w) == IF w.f = "tries" /\ w.v = None THEN c.limit[w.at] ELSE w.v

Applied(c, w) == IF w.at = None THEN [c EXCEPT ![w.f] = w.v] ELSE [c EXCEPT ![w.f][w.at] = Value(c, w)]

\* The handler after the first of its writes
Further == IF Len(op.todo) > 1 THEN [op EXCEPT !.todo = Tail(@)] ELSE At(op.then)

Write ==
    /\ op.pc = "write"
    /\ cache' = Applied(cache, Head(op.todo))
    /\ op' = Further
    /\ UNCHANGED <<flash, ram, hist>>

\* What a handler leaves half done: the slot whose key is in place and whose metadata is not
Torn ==
    IF op.pc = "write" /\ op.cmd \in {"keygen", "move", "mgm", "scan"} THEN {op.slot} ELSE {}

MishapLeft == hist.faults + hist.cuts < MaxMishaps

\* SET RETRIES looks at none of its results, RESET RETRY COUNTER not at that of the new PIN.
PassedOver == op.cmd = "retries" \/ (op.cmd = "unblock" /\ Head(op.todo).f = "ref")

\* A write fails: the handler returns an error, or goes on without the write.
Fault ==
    /\ op.pc = "write" /\ op.cmd # "scan" /\ MishapLeft
    /\ op' = IF PassedOver THEN Further ELSE Idle
    /\ hist' = [hist EXCEPT !.faults = @ + 1, !.torn = @ \cup Torn]
    /\ UNCHANGED <<cache, flash, ram>>

Drain ==
    /\ flash # cache /\ MishapLeft
    /\ flash' = cache
    /\ hist' = [hist EXCEPT !.part = Torn]
    /\ UNCHANGED <<cache, ram, op>>

PowerLoss ==
    /\ MishapLeft /\ op.pc # "off"
    /\ cache' = flash
    /\ UNCHANGED flash
    /\ ram' = NoSession /\ op' = Off
    /\ hist' = [hist EXCEPT !.cuts = @ + 1, !.torn = @ \cup hist.part]

\* process_apdu forgets a pending challenge at every command but AUTHENTICATE, SELECT and
\* GET METADATA of the management key.
Forget(r) == [r EXCEPT !.chal = NoChallenge]

Counted == hist.cmds < MaxCommands /\ hist' = [hist EXCEPT !.cmds = @ + 1]

\* A command that writes files: its name, the slot it is about, its writes, what follows
Starts(name, s, writes, then) ==
    /\ op' = Running(name, s, writes, then)
    /\ ram' = Forget(ram)
    /\ UNCHANGED <<cache, flash>>

Command(name, s, writes, then) == Counted /\ Starts(name, s, writes, then)

-----------------------------------------------------------------------------
(* SELECT: scan_files_piv *)

\* The data encryption key comes first; the management key and the PIN are set with it only.
ScanWrites ==
    (IF cache.dek THEN <<>>
     ELSE <<Put("dek", TRUE), Put("mgm", "aes192"),
            Put("mgmMeta", [algo |-> "aes192", touch |-> FALSE])>>)
    \o (IF cache.dek /\ cache.ref["pin"] # None THEN <<>> ELSE <<PutAt("ref", "pin", "factory")>>)
    \o (IF cache.ref["puk"] # None THEN <<>> ELSE <<PutAt("ref", "puk", "factory")>>)
    \o (IF cache.att THEN <<>> ELSE <<Put("att", TRUE)>>)

\* piv_unload, select, init_piv
Select ==
    /\ op.pc \in {"off", "scan"} \/ (op = Idle /\ ram # NoSession)
    /\ op' = IF ScanWrites = <<>> THEN Idle ELSE Running("scan", "mgm", ScanWrites, "idle")
    /\ ram' = NoSession
    /\ UNCHANGED <<cache, flash, hist>>

-----------------------------------------------------------------------------
(* PIN and PUK *)

Pins == op = Idle /\ hist.host = "pins"

\* The stored management key is of the algorithm that its metadata name.
MgmWorks(c) == c.mgm # None /\ c.mgmMeta # None /\ c.mgmMeta.algo = c.mgm
Blocked(c) == \A r \in References : c.tries[r] = 0

\* pin_check_verifier: a try is spent, committed and given back when the value is right.
Wrong(r) == PutAt("tries", r, cache.tries[r] - 1)
Restored(r) == PutAt("tries", r, None)
Check(r) == <<Wrong(r), Restored(r)>>
CanCheck(r) == cache.tries[r] > 0

VerifyWrong ==
    /\ Pins /\ CanCheck("pin")
    /\ ram' = [Forget(ram) EXCEPT !.pwpiv = FALSE]
    /\ Counted
    /\ op' = Running("verify", None, <<Wrong("pin")>>, "idle")
    /\ UNCHANGED <<cache, flash>>

\* has_pwpiv is set once the try is restored
Verify ==
    /\ op = Idle /\ CanCheck("pin")
    /\ ram' = [Forget(ram) EXCEPT !.pwpiv = FALSE]
    /\ op' = Running("verify", None, Check("pin"), "verified")
    /\ UNCHANGED <<cache, flash, hist>>

Verified ==
    /\ op.pc = "verified"
    /\ ram' = [ram EXCEPT !.pwpiv = TRUE]
    /\ op' = Idle
    /\ hist' = [hist EXCEPT !.used = FALSE]
    /\ UNCHANGED <<cache, flash>>

\* P1 = FF, or a PIN of the wrong length
Logout ==
    /\ op = Idle /\ ram.pwpiv
    /\ ram' = [Forget(ram) EXCEPT !.pwpiv = FALSE]
    /\ UNCHANGED <<cache, flash, op, hist>>

\* CHANGE REFERENCE DATA
ChangePin(r) ==
    /\ Pins /\ CanCheck(r)
    /\ \/ Command("change", r, <<Wrong(r)>>, "idle")
       \/ Command("change", r, Check(r) \o <<PutAt("ref", r, "own")>>, "idle")

\* RESET RETRY COUNTER: the PUK, a new PIN
ResetRetry ==
    /\ Pins /\ CanCheck("puk")
    /\ \/ Command("unblock", "puk", <<Wrong("puk")>>, "idle")
       \/ Command("unblock", "puk",
                  Check("puk") \o <<PutAt("ref", "pin", "own"), Restored("pin")>>, "idle")

\* SET RETRIES puts the factory values back and keeps both accesses. They are also kept by a RESET that
\* failed: with its management key gone such a session takes the blocks back (hist.torn).
SetRetries(n) ==
    /\ Pins /\ ram.mgm /\ ram.pwpiv
    /\ hist.cmds < MaxCommands
    /\ hist' = [hist EXCEPT !.cmds = @ + 1, !.torn = IF MgmWorks(cache) THEN @ ELSE @ \cup {"retries"}]
    /\ Starts("retries", None,
              <<Put("limit", [r \in References |-> n]),
                PutAt("ref", "pin", "factory"), Restored("pin"),
                PutAt("ref", "puk", "factory"), Restored("puk")>>, "idle")

\* Mutant: the counters come first.
ResetWrites_CountersFirst ==
    LET full == [r \in References |-> MaxTries]
    IN <<Put("limit", full), Put("tries", full), Put("key", [s \in Slots |-> None]),
         Put("mgm", None), Put("mgmMeta", None),
         PutAt("ref", "pin", None), PutAt("ref", "puk", None), Put("dek", FALSE)>>

\* The objects with their metadata, then PIN, PUK and the data encryption key, then the counters
ResetWrites ==
    LET full == [r \in References |-> MaxTries]
    IN <<Put("key", [s \in Slots |-> None]),
         Put("meta", [t \in Tags |-> IF t = Slot18 THEN cache.meta[t] ELSE None]),
         Put("mgm", None), Put("mgmMeta", None), Put("att", FALSE), Put("cert", {}),
         PutAt("ref", "pin", None), PutAt("ref", "puk", None), Put("dek", FALSE),
         Put("limit", full), Put("tries", full)>>

\* When a deletion fails the accesses stay; otherwise init_piv follows (Select).
ResetCard ==
    /\ op = Idle /\ Blocked(cache)
    /\ Command("reset", None, ResetWrites, "scan")

-----------------------------------------------------------------------------
(* The management key *)

MgmLoads(a) == cache.mgm = a

\* AUTHENTICATE with an empty witness (mutual) or challenge (single): touch, algorithm, nonce
Challenge(kind, a) ==
    /\ op = Idle /\ hist.nonces < MaxNonces
    /\ MgmLoads(a) /\ cache.mgmMeta # None
    /\ cache.mgmMeta.algo = a
    /\ ram' = [ram EXCEPT !.chal = [kind |-> kind, algo |-> a, n |-> hist.nonces + 1], !.mgm = FALSE]
    /\ hist' = [hist EXCEPT !.nonces = @ + 1,
                            !.touched = IF cache.mgmMeta.touch THEN @ \cup {hist.nonces + 1} ELSE @]
    /\ UNCHANGED <<cache, flash, op>>

\* Mutant: the challenge stays after a response.
AfterResponse_Keeps(ok) == [ram EXCEPT !.mgm = @ \/ ok]

\* The challenge is gone whether or not the response is right.
AfterResponse(ok) == [Forget(ram) EXCEPT !.mgm = @ \/ ok]

\* The response to challenge n, of one kind, made with the management key or not. While a
\* challenge is pending neither the touch nor the algorithm of the metadata is asked for; without
\* one a response changes nothing.
Respond(kind, a, n, knows) ==
    /\ op = Idle /\ MgmLoads(a) /\ cache.mgmMeta # None
    /\ ram.chal # NoChallenge
    /\ LET ok == knows /\ ram.chal = [kind |-> kind, algo |-> a, n |-> n] IN
          /\ ram' = AfterResponse(ok)
          /\ hist' = [hist EXCEPT !.spent = @ \cup {ram.chal.n}]
    /\ UNCHANGED <<cache, flash, op>>

\* SET MANAGEMENT KEY: the key is committed, then its metadata, unless there are none to change.
SetMgmKey(a, touch) ==
    /\ op = Idle /\ hist.host \in {"keys", "challenges"} /\ ram.mgm
    /\ Command("mgm", "mgm",
               IF cache.mgmMeta = None THEN <<Put("mgm", a)>>
               ELSE <<Put("mgm", a), Put("mgmMeta", [algo |-> a, touch |-> touch])>>, "idle")

-----------------------------------------------------------------------------
(* Asymmetric keys *)

Keys == op = Idle /\ hist.host = "keys" /\ ram.mgm
NewKey(p, gen) == [pin |-> p.pin, touch |-> p.touch, gen |-> gen, n |-> hist.keys + 1]
MetaOf(k) == [pin |-> k.pin, touch |-> k.touch, gen |-> k.gen]
Make(name, s, writes) ==
    /\ hist.keys < MaxKeys /\ hist.cmds < MaxCommands
    /\ hist' = [hist EXCEPT !.keys = @ + 1, !.cmds = @ + 1]
    /\ Starts(name, s, writes, "idle")

\* The certificate, the key (committed), the metadata
AsymKeygen(s, p) ==
    /\ Keys
    /\ LET k == NewKey(p, TRUE) IN
          Make("keygen", s, <<Put("cert", cache.cert \cup {s}), PutAt("key", s, k), PutAt("meta", s, MetaOf(k))>>)

\* Mutant: the metadata of the key before it is left in place.
ImportWrites_KeepsMeta(s, k) == <<PutAt("key", s, k), PutAt("meta", s, MetaOf(k))>>

\* The old metadata goes first.
ImportWrites(s, k) == <<PutAt("meta", s, None), PutAt("key", s, k), PutAt("meta", s, MetaOf(k))>>

ImportAsym(s, p) ==
    /\ Keys
    /\ LET k == NewKey(p, FALSE) IN Make("import", s, ImportWrites(s, k))

\* MOVE KEY names files: the metadata of slot 18 is looked for under the number of its file.
MoveTag(s) == IF s = Slot18 THEN Fid18 ELSE s

\* Key, certificate and metadata are copied, then deleted in the opposite order: metadata that do not
\* fit a key stay with it.
MoveKey(to, from) ==
    /\ Keys /\ to # from /\ cache.key[from] # None
    /\ hist.cmds < MaxCommands
    /\ hist' = [hist EXCEPT !.cmds = @ + 1, !.torn = IF from \in @ THEN @ \cup {to} ELSE @]
    /\ Starts("move", to,
              <<PutAt("key", to, cache.key[from]),
                Put("cert", IF from \in cache.cert THEN cache.cert \cup {to} ELSE cache.cert \ {to}),
                PutAt("meta", MoveTag(to), cache.meta[MoveTag(from)]),
                PutAt("meta", MoveTag(from), None),
                Put("cert", IF from \in cache.cert THEN (cache.cert \cup {to}) \ {from}
                                                   ELSE cache.cert \ {to, from}),
                PutAt("key", from, None)>>, "idle")

\* ... to FF: the key is deleted
DeleteKey(from) ==
    /\ Keys
    /\ Command("delete", from,
               <<PutAt("meta", MoveTag(from), None), Put("cert", cache.cert \ {from}),
                 PutAt("key", from, None)>>, "idle")

DeleteMgm ==
    /\ Keys /\ MoveMgm
    /\ Command("delete", "mgm", <<Put("mgmMeta", None), Put("mgm", None)>>, "idle")

\* PUT DATA of a certificate, or of nothing
PutData(s) ==
    /\ Keys
    /\ \E c \in {cache.cert \cup {s}, cache.cert \ {s}} :
          c # cache.cert /\ Command("put", None, <<Put("cert", c)>>, "idle")

\* GET DATA, and GET METADATA of anything but the management key: a pending challenge is forgotten.
GetData ==
    /\ op = Idle /\ ram.chal # NoChallenge
    /\ ram' = Forget(ram)
    /\ UNCHANGED <<cache, flash, op, hist>>

GetMetadata(s) ==
    /\ op = Idle /\ cache.key[s] # None /\ cache.meta[s] # None /\ ram.chal # NoChallenge
    /\ ram' = Forget(ram)
    /\ UNCHANGED <<cache, flash, op, hist>>

\* AUTHENTICATE with a key: the policy that counts is the one of the metadata.
Authenticate(s) ==
    /\ op = Idle /\ hist.host = "keys" /\ cache.meta[s] # None /\ cache.key[s] # None
    /\ cache.meta[s].pin # "never" => ram.pwpiv
    /\ op' = [Idle EXCEPT !.pc = IF cache.meta[s].touch THEN "button" ELSE "use",
                          !.cmd = "use", !.slot = s]
    /\ UNCHANGED <<cache, flash, ram, hist>>

\* piv_button_wait
Button(pressed) ==
    /\ op.pc = "button"
    /\ op' = IF pressed THEN [op EXCEPT !.pc = "use", !.pressed = TRUE] ELSE Idle
    /\ UNCHANGED <<cache, flash, ram, hist>>

\* Mutant: the access of a key with policy "always" stays.
AfterUse_Keeps(s) == ram

AfterUse(s) == IF cache.meta[s].pin = "always" THEN [ram EXCEPT !.pwpiv = FALSE] ELSE ram

UseKey ==
    /\ op.pc = "use"
    /\ ram' = AfterUse(op.slot)
    /\ hist' = [hist EXCEPT !.used = @ \/ (cache.key[op.slot].pin = "always" /\ op.slot \notin hist.torn)]
    /\ op' = Idle
    /\ UNCHANGED <<cache, flash>>

\* ATTEST: a certificate that says the key was generated here
Attested(s) == cache.key[s] # None /\ cache.meta[s] # None /\ cache.meta[s].gen

\* Only the host that tries the challenges gives wrong responses.
Kinds == IF hist.host = "challenges" THEN {"mutual", "single"} ELSE {"single"}
Answers == IF hist.host = "challenges" THEN BOOLEAN ELSE {TRUE}

Next ==
    \/ Write \/ Fault \/ Drain \/ PowerLoss \/ Select
    \/ VerifyWrong \/ Verify \/ Verified \/ Logout \/ ResetRetry \/ ResetCard
    \/ \E r \in References : ChangePin(r)
    \/ \E n \in {0, MaxTries} : SetRetries(n)
    \/ \E kind \in Kinds, a \in MgmAlgos :
          \/ Challenge(kind, a)
          \/ \E n \in 1 .. hist.nonces, knows \in Answers : Respond(kind, a, n, knows)
    \/ \E a \in MgmAlgos, touch \in BOOLEAN : SetMgmKey(a, touch)
    \/ \E s \in Slots :
          \/ \E p \in Policies : AsymKeygen(s, p) \/ ImportAsym(s, p)
          \/ \E t \in Slots : MoveKey(t, s)
          \/ DeleteKey(s) \/ PutData(s) \/ GetMetadata(s) \/ Authenticate(s)
    \/ DeleteMgm \/ GetData
    \/ \E pressed \in BOOLEAN : Button(pressed)
    \/ UseKey

Spec == Init /\ [][Next]_vars

-----------------------------------------------------------------------------
(* Properties *)

\* Whatever was generated, imported, moved or deleted, in whatever order and with writes that
\* failed, AUTHENTICATE uses a key under the policy it was made with, and ATTEST vouches only
\* for keys that were generated. Exempt: the slots where GENERATE or MOVE was cut or failed
\* between the key and its metadata, and where such a key was moved to.
PolicyOfKey ==
    op = Idle => \A s \in Slots \ hist.torn :
        cache.key[s] # None /\ cache.meta[s] # None => cache.meta[s] = MetaOf(cache.key[s])

\* ... without the exemption (violated by a cut between the two)
PolicyOfKeyTorn ==
    op = Idle => \A s \in Slots :
        cache.key[s] # None /\ cache.meta[s] # None => cache.meta[s] = MetaOf(cache.key[s])

\* A key that has its place keeps its metadata, so that it can be used (violated for slot 18,
\* whose metadata MOVE KEY looks for under another number).
KeysUsable ==
    op = Idle /\ hist.faults = 0 /\ hist.cuts = 0 => \A s \in Slots : cache.key[s] # None => cache.meta[s] # None

\* With policy "always" one verification of the PIN gives one use of such a key: cmd_authenticate
\* clears has_pwpiv, and nothing but a new VERIFY sets it again.
OneUsePerPin ==
    op.pc = "use" /\ op.slot \notin hist.torn /\ cache.key[op.slot].pin = "always" => ram.pwpiv /\ ~hist.used

\* has_mgm is gained only by the first response to a challenge, and with a touch when the key
\* asks for one, although the touch is asked before the challenge and not at the response.
GainsMgm ==
    ram'.mgm /\ ~ram.mgm =>
        /\ ram.chal.n > 0 /\ ram.chal.n \notin hist.spent
        /\ cache.mgmMeta.touch => ram.chal.n \in hist.touched
ManagementIsFresh == [][GainsMgm]_vars

\* The applet can be administered, or PIN and PUK are both blocked so that RESET is open: also
\* after a RESET that was cut or failed at any of its writes. Exempt: a cut or failure inside SET
\* MANAGEMENT KEY or inside the first scan, and SET RETRIES by the session whose RESET failed.
Manageable == op = Idle /\ hist.torn \cap {"mgm", "retries"} = {} => MgmWorks(cache) \/ Blocked(cache)

\* ... without the last exemption (violated: cmd_reset keeps both accesses when a deletion fails)
ManageableAfterReset == op = Idle /\ "mgm" \notin hist.torn => MgmWorks(cache) \/ Blocked(cache)
=============================================================================
