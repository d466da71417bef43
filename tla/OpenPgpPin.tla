------------------------------ MODULE OpenPgpPin ------------------------------
(***************************************************************************)
(* The three references of the OpenPGP applet (PW1, the resetting code RC  *)
(* and PW3), the data encryption key (DEK) each of them wraps, and the     *)
(* commands that change them: VERIFY, CHANGE REFERENCE DATA, RESET RETRY   *)
(* COUNTER, PUT DATA of the resetting code and of the KDF object, TERMINATE*)
(* DF, and the provisioning scan that runs at power on, at every SELECT    *)
(* and after TERMINATE.                                                    *)
(*                                                                         *)
(* Every change of a reference writes four files: the staged transaction,  *)
(* the verifier, the wrapped DEK, and the transaction again (deleted). A   *)
(* handler is split at each file it writes; between two of them core 0 may *)
(* write the cached changes out (Drain) and the power may fail. A verifier *)
(* is the PIN it was made from, a session key is the PIN it was derived    *)
(* from, and a private key is the DEK its record is sealed with. The       *)
(* transaction object itself is atomic (ObjectTxn).                        *)
(*                                                                         *)
(* A write may fail wherever a reference is replaced, cleared, migrated or *)
(* put back and in TERMINATE: a file then keeps its content (see           *)
(* FlashRecords), a transaction may have been staged or deleted all the    *)
(* same. Failed writes of the defaults in the scan and of the counters and *)
(* the recovery in check_pin are not followed.                             *)
(***************************************************************************)
EXTENDS Integers, FiniteSets

CONSTANTS
    RawPins,       \* PINs as a person types them
    KdfPins,       \* PINs as a host sends them once the KDF object is on
    Default,       \* the factory value of every reference
    KdfInit,       \* the initial values a KDF object brings
    MaxTries,      \* tries of a reference (PW_RETRIES)
    MaxDeks,       \* how many data encryption keys are drawn
    MaxMishaps,    \* how many failed writes and power losses are followed
    MaxCommands,   \* how many commands are followed, VERIFY with the right PIN and
                   \* the import of a key not counted
    OldCodes,      \* the resetting codes of cards that come from a firmware with the old
                   \* formats, None for no code; {} if there are no such cards
    None

Pins == RawPins \cup KdfPins
Refs == {"pw1", "rc", "pw3"}
Accesses == {"pw1", "pw2", "rc", "pw3"}      \* has_pw1, has_pw2, has_rc, has_pw3
RefOf(a) == IF a = "pw2" THEN "pw1" ELSE a

\* The key hash_multi makes of a PIN, and what the unauthenticated decryption of the old
\* EF_DEK gives under a key it was not made with
Multi(p) == <<"multi", p>>
Noise(s) == <<"noise", s>>
Dek(n) == <<"dek", n>>
DekValues == {Dek(n) : n \in 1 .. MaxDeks} \cup {Noise(p) : p \in Pins} \cup {Noise(Multi(p)) : p \in Pins}

Wrap(p, d) == [by |-> p, dek |-> d]
Wraps == [by : Pins, dek : DekValues] \cup {None}

\* pin, wrap, slot, txn: EF_PW1.., EF_DEK_PW1.., the slots of the old EF_DEK, the staged
\* transactions; old: the verifiers in the old format; tries: EF_PW_PRIV; key: the private
\* keys; drawn: how many DEKs were drawn
Files == [pin : [Refs -> Pins \cup {None}], old : SUBSET Refs, wrap : [Refs -> Wraps],
          slot : [Refs -> Wraps], txn : [Refs -> Wraps], kdf : {"none", "off", "on"},
          tries : [Refs -> 0 .. MaxTries \cup {None}], key : DekValues \cup {None}]

ConstantTypes ==
    /\ Default \in RawPins /\ KdfInit \in KdfPins
    /\ MaxDeks \in Nat \ {0} /\ MaxTries \in Nat
    /\ None \notin Pins \cup DekValues \cup [by : Pins, dek : DekValues]

VARIABLES
    cache,      \* the files as the firmware sees them
    flash,      \* the files as a power loss would leave them
    ram,        \* has_pw1.. and session_pw1.., and how many DEKs were drawn
    op,         \* the handler in progress
    hist        \* history: where the flash was last written, whether the power failed inside
                \* a sequence of writes the code does not protect (torn) or inside a KDF
                \* update (half), and the cuts, faults and commands so far

vars == <<cache, flash, ram, op, hist>>

Nothing == [r \in Refs |-> None]
Limits == [pw1 |-> MaxTries, rc |-> 0, pw3 |-> MaxTries]
Blank == [pin |-> Nothing, old |-> {}, wrap |-> Nothing, slot |-> Nothing, txn |-> Nothing,
          kdf |-> "none", tries |-> Nothing, key |-> None]
Idle == [cmd |-> "none", pc |-> "idle", ref |-> "pw1", pin |-> None, dek |-> None,
         fresh |-> FALSE, live |-> FALSE, snap |-> Blank]

\* The accesses and their session keys. A key no granted access refers to is never read
\* before it is set again, and is not kept.
Session(has, sess) ==
    [has |-> has, sess |-> [r \in Refs |-> IF \E a \in has : RefOf(a) = r THEN sess[r] ELSE None],
     drawn |-> ram.drawn]
NoSession == Session({}, Nothing)

At(pc) == op.pc = pc
Goto(pc) == op' = [op EXCEPT !.pc = pc]
Return == op' = Idle
Put(f) == cache' = f
Counted == hist' = [hist EXCEPT !.commands = @ + 1]
MishapLeft == hist.faults + hist.cuts < MaxMishaps

-----------------------------------------------------------------------------
(* scan_files_openpgp *)

Provisioning(f) == f.pin["pw1"] = None /\ f.pin["pw3"] = None

NeedsDek(f) ==
    /\ Provisioning(f)
    /\ f.wrap["pw1"] = None \/ f.wrap["pw3"] = None
    /\ f.wrap["rc"] = None /\ f.slot = Nothing

\* Whether openpgp_reset_code_deactivate has something to clear
RcTraces(f) == f.pin["rc"] # None \/ f.wrap["rc"] # None \/ f.txn["rc"] # None \/ f.tries["rc"] # 0

ScanPc(f, fresh) ==
    IF f.pin["pw1"] = None THEN "scanpin1" ELSE IF f.pin["pw3"] = None THEN "scanpin3"
    ELSE IF f.kdf = "none" \/ f.tries = Nothing THEN "limits"
    ELSE IF (f.pin["rc"] \in {None, Default} \/ fresh) /\ RcTraces(f) THEN "rctxn" ELSE "idle"

\* What the scan does next on files f: it fills in what is missing, and takes the resetting
\* code out when there is none, when the DEK is new, or when it is the public default.
ScanOn(o, f) ==
    LET pc == ScanPc(f, o.fresh) IN IF pc = "idle" THEN Idle ELSE [o EXCEPT !.pc = pc]

\* The scan starts on files f with the session r.
Scan(f, r) ==
    LET d == ram.drawn + 1
        o == [Idle EXCEPT !.cmd = "scan"]
    IN IF NeedsDek(f)
       THEN /\ d <= MaxDeks
            /\ op' = [o EXCEPT !.pc = "scandek1", !.dek = Dek(d), !.fresh = TRUE]
            /\ ram' = [r EXCEPT !.drawn = d]
       ELSE /\ op' = ScanOn(o, f)
            /\ ram' = r

ScanDek(pc, r, next) ==
    /\ At(pc)
    /\ Put([cache EXCEPT !.wrap[r] = Wrap(Default, op.dek)])
    /\ Goto(next)
    /\ UNCHANGED <<flash, ram, hist>>

ScanPin1 ==
    /\ At("scanpin1")
    /\ Put([cache EXCEPT !.pin["pw1"] = Default, !.old = @ \ {"pw1"}])
    /\ op' = IF op.fresh THEN [op EXCEPT !.pc = "scanpin3"] ELSE ScanOn(op, cache')
    /\ UNCHANGED <<flash, ram, hist>>

ScanPin3 ==
    /\ At("scanpin3")
    /\ Put([cache EXCEPT !.pin["pw3"] = Default, !.old = @ \ {"pw3"}])
    /\ op' = ScanOn(op, cache')
    /\ UNCHANGED <<flash, ram, hist>>

\* EF_PW_PRIV and EF_KDF get their defaults.
ScanLimits ==
    /\ At("limits")
    /\ Put([cache EXCEPT !.tries = IF @ = Nothing THEN Limits ELSE @,
                         !.kdf = IF @ = "none" THEN "off" ELSE @])
    /\ op' = ScanOn(op, cache')
    /\ UNCHANGED <<flash, ram, hist>>

(* pin_txn_recover and pin_txn_delete *)

\* A staged transaction of this verifier is carried out, another dropped.
Recovered(f, r) ==
    IF f.txn[r] = None THEN f
    ELSE IF f.txn[r].by # f.pin[r] THEN [f EXCEPT !.txn[r] = None]
    ELSE [f EXCEPT !.wrap[r] = f.txn[r], !.txn[r] = None]

\* A transaction that a fault or a cut left behind and that is still to be recovered
Live(f, r) == Recovered(f, r).wrap # f.wrap

Unstaged(f, R) == [f EXCEPT !.txn = [r \in Refs |-> IF r \in R THEN None ELSE f.txn[r]]]

-----------------------------------------------------------------------------
(* openpgp_reset_code_deactivate: the transaction, the verifier, the wrap   *)
(* and the tries are taken out one after the other.                         *)

NoRc(f) == [f EXCEPT !.pin["rc"] = None, !.old = @ \ {"rc"}]
NoRcWrap(f) == [f EXCEPT !.wrap["rc"] = None]

\* live: the transaction that is deleted, and leaves f, was live
RcTxnGone(f) == op' = [op EXCEPT !.pc = "rcpin", !.live = Live(cache, "rc") /\ f.txn["rc"] = None]

RcTxn ==
    /\ At("rctxn")
    /\ Put(Unstaged(cache, {"rc"}))
    /\ RcTxnGone(cache')
    /\ UNCHANGED <<flash, ram, hist>>

RcPin ==
    /\ At("rcpin")
    /\ Put(NoRc(cache))
    /\ Goto("rcwrap")
    /\ UNCHANGED <<flash, ram, hist>>

\* The end of openpgp_kdf_update: the sessions are those of the new PINs.
RcWrap ==
    LET kdf == op.cmd = "kdf" IN
    /\ At("rcwrap")
    /\ Put([NoRcWrap(cache) EXCEPT !.tries["rc"] = 0])
    /\ ram' = Session(ram.has \ {"rc"}, IF kdf THEN [r \in Refs |-> op.pin] ELSE ram.sess)
    /\ Return
    /\ UNCHANGED <<flash, hist>>

-----------------------------------------------------------------------------
(* The DEK *)

\* aes_decrypt_cfb_256 of a slot of the old EF_DEK, which authenticates nothing; a file
\* without data is read as well
OldDek(f, r, s) == IF f.slot[r] # None /\ s = Multi(f.slot[r].by) THEN f.slot[r].dek ELSE Noise(s)

\* The access load_dek uses: PW1 (by either access) before RC before PW3.
Opener(has) == IF has \cap {"pw1", "pw2"} # {} THEN "pw1" ELSE IF "rc" \in has THEN "rc" ELSE "pw3"

\* load_dek; None is an error
LoadDek(f, has, sess) ==
    LET r == Opener(has) IN
    IF has = {} THEN None
    ELSE IF f.wrap[r] = None THEN OldDek(f, r, sess[r])
    ELSE IF f.wrap[r].by = sess[r] THEN f.wrap[r].dek ELSE None

-----------------------------------------------------------------------------
(* check_pin: access a (0x81, 0x82, 0x83 or the resetting code) is tried    *)
(* with PIN p by command cmd.                                               *)

Mismatch(f, r, p) == f.pin[r] # p

\* pin_spend_retry
Spent(f, r) == [f EXCEPT !.tries[r] = @ - 1]

\* pin_reset_retries
Restored(f, r) == [f EXCEPT !.tries[r] = MaxTries]

CanCheck(r) == cache.pin[r] # None /\ cache.tries[r] \notin {0, None}

CheckWrong(a, p) ==
    LET r == RefOf(a) IN
    /\ op = Idle /\ CanCheck(r) /\ Mismatch(cache, r, p)
    /\ Put(Spent(cache, r))
    /\ ram' = Session(ram.has \ (IF a = "rc" THEN {"pw1"} ELSE {a}), ram.sess)
    /\ Counted
    /\ UNCHANGED <<flash, op>>

\* The sessions after check_pin accepted p for access a (RC gets its session in the command)
Accepted(a, p) ==
    IF a = "rc" THEN Session(ram.has \ {"pw1"}, ram.sess)
    ELSE Session(ram.has \cup {a}, [ram.sess EXCEPT ![RefOf(a)] = p])

\* A right PIN on a verifier of the current format
CheckRight(cmd, a, p) ==
    LET r == RefOf(a) IN
    /\ op = Idle /\ CanCheck(r) /\ ~Mismatch(cache, r, p) /\ r \notin cache.old
    /\ Put(Recovered(Restored(cache, r), r))
    /\ ram' = Accepted(a, p)
    /\ op' = IF cmd = "verify" THEN Idle ELSE [Idle EXCEPT !.cmd = cmd, !.pc = "load", !.ref = r]
    /\ hist' = [hist EXCEPT !.commands = IF cmd = "verify" THEN @ ELSE @ + 1]
    /\ UNCHANGED flash

\* A right PIN on a verifier of the old format: the verifier is rewritten first, then the
\* DEK is loaded, wrapped and taken out of EF_DEK. RC only gets the new verifier. That the
\* verifier was not written is not noticed.
CheckOld(cmd, a, p, written) ==
    LET r == RefOf(a)
        f == Restored([cache EXCEPT !.old = IF written THEN @ \ {r} ELSE @], r)
        acc == Accepted(a, p)
        d == LoadDek(f, acc.has, [acc.sess EXCEPT ![r] = Multi(p)])
    IN /\ op = Idle /\ CanCheck(r) /\ ~Mismatch(cache, r, p) /\ r \in cache.old
       /\ Put(f)
       /\ ram' = acc
       /\ op' = IF a = "rc" THEN [Idle EXCEPT !.cmd = cmd, !.pc = "load", !.ref = r]
                ELSE IF d = None THEN Idle
                ELSE [Idle EXCEPT !.cmd = cmd, !.pc = "migrate", !.ref = r, !.dek = d]
       /\ written \/ MishapLeft
       /\ hist' = [hist EXCEPT !.commands = IF cmd = "verify" THEN @ ELSE @ + 1,
                              !.faults = IF written THEN @ ELSE @ + 1,
                              !.torn = @ \/ ~written \/ (a # "rc" /\ d = None)]
       /\ UNCHANGED flash

Migrate ==
    /\ At("migrate")
    /\ Put([cache EXCEPT !.wrap[op.ref] = Wrap(cache.pin[op.ref], op.dek)])
    /\ Goto("unslot")
    /\ UNCHANGED <<flash, ram, hist>>

Unslot ==
    /\ At("unslot")
    /\ Put(Recovered([cache EXCEPT !.slot[op.ref] = None], op.ref))
    /\ IF op.cmd = "verify" THEN Return ELSE Goto("load")
    /\ UNCHANGED <<flash, ram, hist>>

\* VERIFY with P1 = FF
Logout(a) ==
    /\ op = Idle /\ a \in ram.has \ {"rc"}
    /\ ram' = Session(ram.has \ {a}, ram.sess)
    /\ Counted
    /\ UNCHANGED <<cache, flash, op>>

-----------------------------------------------------------------------------
(* The commands that replace reference op.ref by op.pin: after the DEK is   *)
(* loaded they all stage, write the verifier, write the wrap and unstage.   *)

\* The PINs a host sends
Sent == IF cache.kdf = "on" THEN KdfPins ELSE RawPins

\* CHANGE REFERENCE DATA, RESET RETRY COUNTER with RC: the old value was checked.
Load(p) ==
    LET rc == op.ref = "rc"
        has == IF rc THEN (ram.has \ {"pw1", "pw3"}) \cup {"rc"} ELSE ram.has
        sess == IF rc THEN [ram.sess EXCEPT !["rc"] = cache.pin["rc"]] ELSE ram.sess
        new == IF rc THEN "pw1" ELSE op.ref
        d == LoadDek(cache, has, sess)
    IN /\ At("load")
       /\ op' = IF d = None THEN Idle
                ELSE [op EXCEPT !.pc = "stage", !.ref = new, !.pin = p, !.dek = d]
       /\ ram' = Session(has, IF d = None THEN sess ELSE [sess EXCEPT ![new] = p])
       /\ UNCHANGED <<cache, flash, hist>>

\* Mutant: the session key of the replaced reference is left as it was.
NewSession_Stale(sess, r, p) == sess

NewSession(sess, r, p) == [sess EXCEPT ![r] = p]

\* The command starts with the DEK loaded under the accesses has and replaces r by p.
Replace(cmd, r, p, has, f) ==
    LET d == LoadDek(f, has, ram.sess) IN
    /\ op' = IF d = None THEN Idle
             ELSE [Idle EXCEPT !.cmd = cmd, !.pc = "stage", !.ref = r, !.pin = p, !.dek = d,
                               !.snap = IF cmd = "kdf" THEN cache ELSE Blank]
    /\ ram' = Session(has, IF d = None \/ cmd = "kdf" THEN ram.sess ELSE NewSession(ram.sess, r, p))
    /\ Put(IF d = None THEN cache ELSE f)
    /\ Counted
    /\ UNCHANGED flash

\* RESET RETRY COUNTER by PW3
UnblockByPw3(p) ==
    /\ op = Idle /\ "pw3" \in ram.has
    /\ Replace("unblock", "pw1", p, ram.has \ {"pw1"}, cache)

\* PUT DATA of the resetting code
PutRc(p) ==
    /\ op = Idle /\ "pw3" \in ram.has
    /\ Replace("putrc", "rc", p, ram.has \ {"rc"}, cache)

\* PUT DATA of an empty resetting code
ClearRc ==
    /\ op = Idle /\ "pw3" \in ram.has /\ RcTraces(cache)
    /\ op' = [Idle EXCEPT !.cmd = "clearrc", !.pc = "rctxn"]
    /\ Counted
    /\ UNCHANGED <<cache, flash, ram>>

\* openpgp_kdf_can_disable
CanDisable(f) ==
    LET initial == IF f.kdf = "on" THEN KdfInit ELSE Default IN
    f.pin["pw1"] = initial /\ f.pin["pw3"] = initial

\* PUT DATA of the KDF object: openpgp_kdf_update writes it and reseeds PW3, then PW1.
PutKdf(k) ==
    /\ op = Idle /\ "pw3" \in ram.has
    /\ k = "off" => CanDisable(cache)
    /\ Replace("kdf", "pw3", IF k = "on" THEN KdfInit ELSE Default, ram.has, [cache EXCEPT !.kdf = k])

\* Mutant: nothing is staged.
Staged_Nothing(f, r, p, d) == f

\* pin_txn_stage
Staged(f, r, p, d) == [f EXCEPT !.txn[r] = Wrap(p, d)]

NewVerifier(f, r, p) == [f EXCEPT !.pin[r] = p, !.old = @ \ {r}]

\* live: the transaction that is overwritten was live
Stage ==
    /\ At("stage")
    /\ Put(Staged(cache, op.ref, op.pin, op.dek))
    /\ op' = [op EXCEPT !.pc = "pin", !.live = Live(cache, op.ref)]
    /\ UNCHANGED <<flash, ram, hist>>

PutPin ==
    /\ At("pin")
    /\ Put(NewVerifier(cache, op.ref, op.pin))
    /\ Goto("wrap")
    /\ UNCHANGED <<flash, ram, hist>>

PutWrap ==
    /\ At("wrap")
    /\ Put([cache EXCEPT !.wrap[op.ref] = Wrap(op.pin, op.dek)])
    /\ Goto("unstage")
    /\ UNCHANGED <<flash, ram, hist>>

Unstage ==
    /\ At("unstage")
    /\ Put(Unstaged(cache, {op.ref}))
    /\ IF op.cmd = "change" THEN Return ELSE Goto("tries")
    /\ UNCHANGED <<flash, ram, hist>>

\* Mutant: the KDF update reseeds PW3 only.
AfterTries_Pw3Only(o) == IF o.cmd # "kdf" THEN Idle ELSE [o EXCEPT !.pc = "rctxn"]

AfterTries(o) ==
    IF o.cmd # "kdf" THEN Idle
    ELSE IF o.ref = "pw3" THEN [o EXCEPT !.pc = "stage", !.ref = "pw1"]
    ELSE [o EXCEPT !.pc = "rctxn"]

\* pin_reset_retries, and the second reference of openpgp_kdf_update
ResetTries ==
    /\ At("tries")
    /\ Put(Restored(cache, op.ref))
    /\ op' = AfterTries(op)
    /\ UNCHANGED <<flash, ram, hist>>

\* The failure label of openpgp_kdf_update: the staged transactions are deleted, then the
\* snapshot is put back file by file, then the scan runs.
UndoPcs == <<"undo1", "undo2", "undo3", "undo4", "undo5", "undo6", "undo7", "undo8", "undo9">>
Undoing == op.pc \in {"undo1", "undo2", "undo3", "undo4", "undo5", "undo6", "undo7", "undo8", "undo9"}

\* The verifier of r, and the DEK that r wraps, as the snapshot has them
PinBack(f, r) == [f EXCEPT !.pin[r] = op.snap.pin[r], !.old = (@ \ {r}) \cup (op.snap.old \cap {r})]
WrapBack(f, r) == [f EXCEPT !.wrap[r] = op.snap.wrap[r]]

Undo(n) ==
    /\ At(UndoPcs[n])
    /\ Put(CASE n = 1 -> Unstaged(cache, {"pw1", "pw3"})
             [] n = 2 -> [cache EXCEPT !.kdf = op.snap.kdf]
             [] n = 3 -> PinBack(cache, "pw1")
             [] n = 4 -> PinBack(cache, "pw3")
             [] n = 5 -> WrapBack(cache, "pw1")
             [] n = 6 -> WrapBack(cache, "pw3")
             [] n = 7 -> PinBack(cache, "rc")
             [] n = 8 -> WrapBack(cache, "rc")
             [] n = 9 -> [cache EXCEPT !.tries = op.snap.tries])
    /\ IF n < 9 THEN Goto(UndoPcs[n + 1]) /\ UNCHANGED ram ELSE Scan(cache', ram)
    /\ UNCHANGED <<flash, hist>>

-----------------------------------------------------------------------------
(* TERMINATE DF: openpgp_terminate_clear_storage clears the keys, the wraps *)
(* and the dynamic files first and the references last, restores the        *)
(* counters, scans and forgets the sessions.                                *)

Cleared(f, n) ==
    CASE n = 1 -> [f EXCEPT !.key = None]
      [] n = 2 -> [f EXCEPT !.slot = Nothing, !.wrap["pw1"] = None]
      [] n = 3 -> [f EXCEPT !.wrap["rc"] = None, !.wrap["pw3"] = None]
      [] n = 4 -> [f EXCEPT !.txn = Nothing]
      [] n = 5 -> [f EXCEPT !.pin["pw1"] = None, !.old = @ \ {"pw1"}]
      [] n = 6 -> [f EXCEPT !.pin = Nothing, !.old = {}, !.kdf = "none"]
      [] n = 7 -> [f EXCEPT !.tries = Limits]

TerminateDf ==
    /\ op = Idle
    /\ "pw3" \in ram.has \/ cache.pin["pw3"] = None \/ cache.tries["pw3"] = 0
    /\ op' = [Idle EXCEPT !.cmd = "terminate", !.pc = "clear1"]
    /\ Counted
    /\ UNCHANGED <<cache, flash, ram>>

ClearPcs == <<"clear1", "clear2", "clear3", "clear4", "clear5", "clear6", "clear7">>

Clear(n) ==
    /\ At(ClearPcs[n])
    /\ Put(Cleared(cache, n))
    /\ IF n < 7 THEN Goto(ClearPcs[n + 1]) /\ UNCHANGED ram ELSE Scan(cache', NoSession)
    /\ UNCHANGED <<flash, hist>>

-----------------------------------------------------------------------------
(* A write fails. What fails while an update is undone does not count       *)
(* against the bound.                                                       *)

\* Half of the undoing, or of TERMINATE, stays undone.
Abandoned == (Undoing /\ ~At("undo1")) \/ op.pc \in {"clear2", "clear3", "clear4", "clear5", "clear6"}

\* A live transaction is gone, and the reference that needs it stays.
Orphans(f) ==
    \/ op.live /\ op.pc \in {"pin", "rcpin"}
    \/ At("stage") /\ f # cache /\ Live(cache, op.ref)
    \/ op.cmd = "kdf" /\ ~Undoing /\ \E r \in Refs : Live(op.snap, r)

\* The files are f after the write that failed.
Fails(f) ==
    /\ MishapLeft \/ Undoing
    /\ Put(f)
    /\ hist' = [hist EXCEPT !.faults = @ + 1,
                            !.torn = @ \/ Orphans(f) \/ Abandoned \/ At("migrate"),
                            !.half = @ \/ Abandoned]
    /\ UNCHANGED flash

\* The command ends with an error where it stands, the KDF update undoes what it did.
Ends(r) ==
    IF op.cmd = "kdf" THEN Goto("undo1") /\ ram' = NoSession
    ELSE Return /\ ram' = r

ReplaceFails ==
    /\ op.pc \in {"stage", "pin", "wrap", "unstage", "tries", "migrate", "unslot"}
    /\ \/ Fails(cache)
       \/ At("stage") /\ Fails(Staged(cache, op.ref, op.pin, op.dek))
       \/ At("unstage") /\ Fails(Unstaged(cache, {op.ref}))
    /\ Ends(ram)

\* A verifier that is there is cleared even if the transaction cannot be deleted.
RcFails ==
    /\ op.pc \in {"rctxn", "rcpin", "rcwrap"}
    /\ \/ Fails(cache)
       \/ At("rctxn") /\ Fails(Unstaged(cache, {"rc"}))
       \/ At("rcpin") /\ Fails(NoRc(cache))
       \/ At("rcwrap") /\ Fails(NoRcWrap(cache))
    /\ IF At("rctxn") /\ cache.pin["rc"] # None THEN RcTxnGone(cache') /\ UNCHANGED ram
       ELSE Ends(Session(ram.has \ {"rc"}, ram.sess))

\* The transactions are not looked after, the first file that cannot be put back is the last.
UndoFails ==
    /\ Undoing
    /\ Fails(cache) \/ (At("undo1") /\ \E r \in {"pw1", "pw3"} : Fails(Unstaged(cache, {r})))
    /\ IF At("undo1") THEN Goto("undo2") ELSE Return
    /\ UNCHANGED ram

\* TERMINATE scans what is left.
ClearFails ==
    /\ op.cmd = "terminate"
    /\ Fails(cache) \/ (At("clear1") /\ Fails(Cleared(cache, 1)))
    /\ Scan(cache', NoSession)

Fault == ReplaceFails \/ RcFails \/ UndoFails \/ ClearFails

-----------------------------------------------------------------------------
(* The keys, the applet and the power *)

\* PUT DATA of a private key or its generation: it is sealed with the DEK that is loaded.
Import ==
    LET d == LoadDek(cache, ram.has, ram.sess) IN
    /\ op = Idle /\ "pw3" \in ram.has /\ d # None
    /\ Put([cache EXCEPT !.key = d])
    /\ UNCHANGED <<flash, ram, op, hist>>

\* SELECT: init_openpgp; has_rc and its session are not touched
Select ==
    /\ op = Idle /\ ram.has \cap {"pw1", "pw2", "pw3"} # {}
    /\ Scan(cache, Session(ram.has \cap {"rc"}, ram.sess))
    /\ Counted
    /\ UNCHANGED <<cache, flash>>

\* Where the files, as they stand, are not protected by a staged transaction: inside the
\* migration of an old verifier, TERMINATE and the undoing of a KDF update, and where a
\* live transaction was overwritten or, by the clearing of the resetting code, deleted
\* before its verifier
Unprotected ==
    \/ At("migrate") \/ op.cmd = "terminate" \/ Undoing
    \/ op.live /\ op.pc \in {"pin", "rcpin"}

\* The cached pages are written out, in one journalled batch.
Drain ==
    /\ flash # cache /\ MishapLeft
    /\ flash' = cache
    /\ hist' = [hist EXCEPT !.mid = IF Unprotected THEN "torn" ELSE IF op.cmd = "kdf" THEN "half" ELSE "no"]
    /\ UNCHANGED <<cache, ram, op>>

\* The power fails and comes back; the files are the ones in flash.
PowerLoss ==
    /\ MishapLeft
    /\ cache' = flash
    /\ Scan(flash, NoSession)
    /\ hist' = [hist EXCEPT !.cuts = @ + 1, !.mid = "no",
                            !.torn = @ \/ hist.mid = "torn", !.half = @ \/ hist.mid # "no"]
    /\ UNCHANGED flash

Scanning ==
    \/ ScanDek("scandek1", "pw1", "scandek3")
    \/ ScanDek("scandek3", "pw3", "scanpin1")
    \/ ScanPin1 \/ ScanPin3 \/ ScanLimits

Check(cmd, a, p) == CheckRight(cmd, a, p) \/ \E written \in BOOLEAN : CheckOld(cmd, a, p, written)

Commands ==
    /\ hist.commands < MaxCommands
    /\ \/ \E a \in {"pw1", "pw3"}, p \in Sent : Check("change", a, p)
       \/ \E p \in Sent : Check("unblock", "rc", p)
       \/ \E p \in Sent : UnblockByPw3(p) \/ PutRc(p)
       \/ ClearRc \/ Select
       \/ \E a \in Accesses : Logout(a) \/ \E p \in Sent : CheckWrong(a, p)
       \/ \E k \in {"off", "on"} : PutKdf(k)
       \/ TerminateDf

Handler ==
    \/ Scanning \/ RcTxn \/ RcPin \/ RcWrap
    \/ Migrate \/ Unslot
    \/ \E p \in Sent : Load(p)
    \/ Stage \/ PutPin \/ PutWrap \/ Unstage \/ ResetTries \/ Fault
    \/ \E n \in 1 .. 9 : Undo(n)
    \/ \E n \in 1 .. 7 : Clear(n)

Next ==
    \/ \E a \in {"pw1", "pw2", "pw3"}, p \in Sent : Check("verify", a, p)
    \/ Commands
    \/ Handler
    \/ Import
    \/ Drain
    \/ PowerLoss

\* A card that was never powered, and one with the files of an old firmware
NewCard == cache = Blank
OldCard ==
    \E p \in RawPins \ {Default}, c \in OldCodes :
        LET pins == [pw1 |-> p, rc |-> c, pw3 |-> Default]
            used == {r \in Refs : pins[r] # None}
        IN cache = [Blank EXCEPT !.pin = pins, !.old = used, !.key = Dek(1), !.kdf = "off",
                        !.slot = [r \in Refs |-> IF r \in used THEN Wrap(pins[r], Dek(1)) ELSE None],
                        !.tries = [r \in Refs |-> IF r \in used THEN MaxTries ELSE 0]]

Init ==
    /\ NewCard \/ OldCard
    /\ flash = cache
    /\ ram = [has |-> {}, sess |-> Nothing, drawn |-> 1]
    /\ op = IF cache = Blank THEN [Idle EXCEPT !.cmd = "scan", !.pc = "scandek1", !.dek = Dek(1), !.fresh = TRUE]
            ELSE ScanOn(Idle, cache)
    /\ hist = [cuts |-> 0, torn |-> FALSE, half |-> FALSE, mid |-> "no", commands |-> 0,
               faults |-> 0]

Spec == Init /\ [][Next]_vars

-----------------------------------------------------------------------------
(* Properties *)

\* The state has the types of the files, the sessions and the handler.
TypeOK ==
    /\ cache \in Files /\ flash \in Files
    /\ ram.has \subseteq Accesses /\ ram.sess \in [Refs -> Pins \cup {None}]
    /\ ram.drawn \in 1 .. MaxDeks
    /\ op.ref \in Refs /\ op.pin \in Pins \cup {None} /\ op.dek \in DekValues \cup {None}

\* The DEK that reference r of files f gives to someone who knows its PIN: what check_pin
\* followed by load_dek ends with
Opens(f, r) ==
    LET g == Recovered(f, r) IN
    IF r \in f.old THEN OldDek(f, r, Multi(f.pin[r]))
    ELSE IF g.wrap[r] # None /\ g.wrap[r].by = f.pin[r] THEN g.wrap[r].dek ELSE None

\* At every step of every command, and so whatever the pages are that a power loss finds in flash,
\* the private keys can be opened with each of the references: the verifier, the wrapped DEK and
\* the staged transaction never get so far apart that a PIN is accepted and the keys are lost.
\* The windows the code leaves open are named in Unprotected.
KeysOpen ==
    cache.key # None /\ ~hist.torn /\ ~Unprotected =>
        \A r \in Refs : IF cache.pin[r] = None THEN r = "rc" ELSE Opens(cache, r) = cache.key

\* Every access that is granted can load the DEK of the keys: no command leaves a session
\* key behind that no longer fits the files (load_dek prefers PW1 to RC to PW3).
SessionsCurrent ==
    op = Idle /\ cache.key # None /\ ~hist.torn /\ hist.faults = 0 =>
        \A a \in ram.has : LoadDek(cache, {a}, ram.sess) = cache.key

\* The references are in the form the KDF object announces to the host, unless the power
\* failed in the middle of a KDF update.
KdfAgrees ==
    op = Idle /\ ~hist.half =>
        \A r \in Refs : cache.pin[r] \in Sent \cup {None}
===============================================================================
