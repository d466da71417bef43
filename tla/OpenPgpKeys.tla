----------------------------- MODULE OpenPgpKeys -----------------------------
(***************************************************************************)
(* What the OpenPGP applet does with its keys and data objects once the    *)
(* PINs are checked: PSO (signature, decipher, encipher), INTERNAL         *)
(* AUTHENTICATE, MSE, GENERATE and import of keys, GET and PUT DATA, the   *)
(* signature counter, the user interaction flags (UIF) and the accesses    *)
(* they depend on. How a PIN is checked is in OpenPgpPin: here a VERIFY    *)
(* succeeds or fails. A command that waits for the button is split there.  *)
(* The files are those the firmware sees; what a power loss leaves of them *)
(* is in OpenPgpPin.                                                       *)
(***************************************************************************)
EXTENDS Integers

CONSTANTS
    MaxKeys,        \* how many keys are made
    MaxSigns,       \* how many signatures are followed
    Algos,          \* algorithm attributes
    None

KeySlots == {"sig", "dec", "aut"}
Certs == 1 .. 3                                 \* EF_CH_1 .. EF_CH_3
ObjectNames == {"name", "do1", "do3", "do4"}        \* EF_CH_NAME and private objects
Accesses == {"pw1", "pw2", "pw3"}

VARIABLES
    files,      \* the algorithms of the keys, EF_ALGO_PRIV1.., EF_UIF_SIG.., EF_SIG_COUNT, the
                \* first byte of EF_PW_PRIV, EF_AES_KEY, the certificates that are there
    ram,        \* has_pw1.., isUserAuthenticated, pk_aut, pk_dec, the certificate
                \* that is currentEF (0: another file)
    op,         \* the handler in progress
    hist        \* history: which commands the host sends in this behaviour,
                \* signatures made with the signature key, whether the verification of PW1
                \* was used up, keys made

vars == <<files, ram, op, hist>>

Idle == [pc |-> "idle", slot |-> "sig", uif |-> "sig", aes |-> FALSE,
         pressed |-> FALSE]
NoSession == [has |-> {}, auth |-> FALSE, aut |-> "aut", dec |-> "dec", ef |-> 0]

NewFiles ==
    [key |-> [s \in KeySlots |-> None], algo |-> [s \in KeySlots |-> CHOOSE a \in Algos : TRUE],
     uif |-> [s \in KeySlots |-> 0], count |-> 0, several |-> TRUE, aes |-> FALSE,
     certs |-> {}]

Init ==
    /\ files = NewFiles
    /\ ram = NoSession /\ op = Idle
    /\ \E h \in {"signs", "touches", "objects"} : hist = [host |-> h, signs |-> 0, used |-> FALSE, keys |-> 0]

Put(f) == files' = f
Return == op' = Idle

-----------------------------------------------------------------------------
(* Accesses *)

\* VERIFY (and the check of CHANGE REFERENCE DATA) with the right PIN
Verify(a) ==
    /\ op = Idle
    /\ ram' = [ram EXCEPT !.has = @ \cup {a}, !.auth = TRUE]
    /\ hist' = [hist EXCEPT !.used = @ /\ a # "pw1"]
    /\ UNCHANGED <<files, op>>

\* ... with a wrong one: clear_pin_access_status, and isUserAuthenticated is gone for all
VerifyWrong(a) ==
    /\ op = Idle /\ ram.auth
    /\ ram' = [ram EXCEPT !.has = @ \ {a}, !.auth = FALSE]
    /\ UNCHANGED <<files, op, hist>>

\* VERIFY with P1 = FF
Logout(a) ==
    /\ op = Idle /\ a \in ram.has
    /\ ram' = [ram EXCEPT !.has = @ \ {a}]
    /\ UNCHANGED <<files, op, hist>>

\* SELECT of the applet: openpgp_unload and init_openpgp
Select ==
    /\ op = Idle /\ ram # NoSession
    /\ ram' = NoSession
    /\ UNCHANGED <<files, op, hist>>

\* MSE: the key of INTERNAL AUTHENTICATE or of PSO decipher is exchanged.
Mse(aut, s) ==
    /\ op = Idle
    /\ ram' = IF aut THEN [ram EXCEPT !.aut = s] ELSE [ram EXCEPT !.dec = s]
    /\ UNCHANGED <<files, op, hist>>

-----------------------------------------------------------------------------
(* Use of the private keys *)

\* Mutant: PW3 opens the signature key whatever the PW status byte says.
MaySign_Admin == ram.has \cap {"pw1", "pw3"} # {}

MaySign == "pw1" \in ram.has \/ ("pw3" \in ram.has /\ files.several)

MayUse == ram.has \cap {"pw2", "pw3"} # {}

\* Mutant: the flag is that of the command, not that of the key MSE selected.
UifOf_Command(cmd) == cmd

\* The flag that guards a command: the one of the key MSE selected
UifOf(cmd) == CASE cmd = "sig" -> "sig" [] cmd = "dec" -> ram.dec [] cmd = "aut" -> ram.aut

\* A command has passed its access check and its parameters; wait_button_pressed_fid follows.
Begin(cmd, slot, aes) ==
    /\ op' = [pc |-> IF files.uif[UifOf(cmd)] > 0 THEN "button" ELSE "use",
              slot |-> slot, uif |-> UifOf(cmd), aes |-> aes, pressed |-> FALSE]
    /\ UNCHANGED <<files, ram, hist>>

PsoSign ==
    /\ op = Idle /\ MaySign /\ hist.signs < MaxSigns
    /\ Begin("sig", "sig", FALSE)

PsoDecipher ==
    /\ op = Idle /\ MayUse
    /\ Begin("dec", ram.dec, FALSE)

\* PSO encipher, and decipher of a cryptogram that starts with 02: the AES key
PsoAes ==
    /\ op = Idle /\ MayUse
    /\ Begin("dec", ram.dec, TRUE)

InternalAut ==
    /\ op = Idle /\ MayUse
    /\ Begin("aut", ram.aut, FALSE)

\* EV_BUTTON_PRESSED, EV_BUTTON_TIMEOUT
Pressed ==
    /\ op.pc = "button"
    /\ op' = [op EXCEPT !.pc = "use", !.pressed = TRUE]
    /\ UNCHANGED <<files, ram, hist>>

NotPressed ==
    /\ op.pc = "button"
    /\ Return
    /\ UNCHANGED <<files, ram, hist>>

\* The key is loaded, which fails when there is none or when it is not of the algorithm the
\* attributes name.
KeyLoads(s) == files.key[s] = files.algo[s]

UseKey ==
    /\ op.pc = "use" /\ (op.aes \/ op.slot # "sig" \/ ~KeyLoads("sig"))
    /\ Return
    /\ UNCHANGED <<files, ram, hist>>

\* Mutant: the access stays when the PW status byte asks for one signature per PIN.
AfterSignature_Keeps == ram

\* inc_sig_count, first half
AfterSignature == [ram EXCEPT !.has = IF files.several THEN @ ELSE @ \ {"pw1"}]

SignKey ==
    /\ op.pc = "use" /\ ~op.aes /\ op.slot = "sig" /\ KeyLoads("sig")
    /\ ram' = AfterSignature
    /\ Put([files EXCEPT !.count = @ + 1])
    /\ hist' = [hist EXCEPT !.signs = @ + 1, !.used = @ \/ ~files.several]
    /\ Return

-----------------------------------------------------------------------------
(* Keys and data objects *)

\* GENERATE ASYMMETRIC KEY PAIR and the import of a key: store_keypair goes through the key
\* container, which is atomic and in flash when it returns.
StoreKey(s, gen) ==
    /\ op = Idle /\ "pw3" \in ram.has /\ hist.keys < MaxKeys
    /\ Put([files EXCEPT !.key[s] = files.algo[s]])
    /\ op' = [Idle EXCEPT !.pc = "count", !.slot = s, !.aes = gen]
    /\ hist' = [hist EXCEPT !.keys = @ + 1, !.signs = IF s = "sig" THEN 0 ELSE @]
    /\ UNCHANGED ram

\* Mutant: the signature counter keeps counting over a new key.
AfterStore_Counts(f) == f

\* reset_sig_count for a new signature key, the AES key with a generated decryption key
AfterStore(f) ==
    IF op.slot = "sig" THEN [f EXCEPT !.count = 0]
    ELSE IF op.slot = "dec" /\ op.aes THEN [f EXCEPT !.aes = TRUE] ELSE f

StoreCount ==
    /\ op.pc = "count"
    /\ Put(AfterStore(files))
    /\ Return
    /\ UNCHANGED <<ram, hist>>

\* cmd_put_data: put_data_authorized and the ACL of the file, which asks isUserAuthenticated
MayPut(obj) == (IF obj \in {"do1", "do3"} THEN "pw2" ELSE "pw3") \in ram.has /\ ram.auth

PutFile(f) ==
    /\ op = Idle
    /\ Put(f)
    /\ UNCHANGED <<ram, op, hist>>

PutAlgo(s, a) == MayPut("algo") /\ PutFile([files EXCEPT !.algo[s] = a])

UifSettable(s, v) == files.uif[s] = 2 => v = 2

PutUif(s, v) == MayPut("uif") /\ UifSettable(s, v) /\ PutFile([files EXCEPT !.uif[s] = v])

PutPwStatus(b) == MayPut("status") /\ PutFile([files EXCEPT !.several = b])

\* The certificate that SELECT DATA chose, or the first
Cert == IF ram.ef \in Certs THEN ram.ef ELSE 1

PutCert == MayPut("cert") /\ PutFile([files EXCEPT !.certs = @ \cup {Cert}])

SelectData(c) ==
    /\ op = Idle
    /\ ram' = [ram EXCEPT !.ef = c]
    /\ UNCHANGED <<files, op, hist>>

\* GET DATA selects what it reads; the private objects ask for PW2 or PW3.
GetData(obj) ==
    /\ op = Idle
    /\ obj = "do3" => "pw2" \in ram.has
    /\ obj = "do4" => "pw3" \in ram.has
    /\ ram' = [ram EXCEPT !.ef = IF obj = "cert" THEN Cert ELSE 0]
    /\ UNCHANGED <<files, op, hist>>

GetNextData ==
    /\ op = Idle /\ ram.ef \in Certs \ {3}
    /\ ram' = [ram EXCEPT !.ef = @ + 1]
    /\ UNCHANGED <<files, op, hist>>

\* TERMINATE DF, as far as it concerns the keys and the flags
TerminateDf ==
    /\ op = Idle /\ "pw3" \in ram.has
    /\ Put(NewFiles)
    /\ ram' = [ram EXCEPT !.has = {}]
    /\ hist' = [hist EXCEPT !.signs = 0]
    /\ UNCHANGED op

Signing ==
    /\ hist.host = "signs"
    /\ \/ PsoSign
       \/ \E s \in KeySlots, gen \in BOOLEAN : StoreKey(s, gen)
       \/ \E s \in KeySlots, a \in Algos : PutAlgo(s, a)
       \/ \E b \in BOOLEAN : PutPwStatus(b)

Touching ==
    /\ hist.host = "touches"
    /\ \/ PsoSign \/ PsoDecipher \/ PsoAes \/ InternalAut
       \/ \E b \in BOOLEAN, s \in {"dec", "aut"} : Mse(b, s)
       \/ \E s \in KeySlots, v \in 0 .. 2 : PutUif(s, v)

DataObjects ==
    /\ hist.host = "objects"
    /\ \/ PutCert \/ GetNextData
       \/ \E c \in Certs : SelectData(c)
       \/ \E obj \in ObjectNames \cup {"cert"} : GetData(obj)

Next ==
    \/ \E a \in Accesses : Verify(a) \/ VerifyWrong(a) \/ Logout(a)
    \/ Select
    \/ Signing \/ Touching
    \/ Pressed \/ NotPressed \/ UseKey \/ SignKey \/ StoreCount
    \/ DataObjects
    \/ TerminateDf

Spec == Init /\ [][Next]_vars

-----------------------------------------------------------------------------
(* Properties *)

\* A signature is made only by someone who is allowed to at that moment: with PW1, or with
\* PW3 when the PW status byte lets PW1 stand for several signatures; when it does not, one
\* verification of PW1 gives one signature, however the byte, the accesses and the keys
\* change in between.
SignedWith ==
    hist'.signs > hist.signs =>
        IF files.several THEN ram.has \cap {"pw1", "pw3"} # {}
        ELSE "pw1" \in ram.has /\ ~hist.used

OneSignaturePerPin == [][SignedWith]_vars

\* A key is used only after a touch if its own flag asks for one, also when MSE has given
\* the command the key of another one. (The AES key has no flag of its own and is left out.)
TouchOfTheKey == op.pc = "use" /\ ~op.aes /\ files.uif[op.slot] > 0 => op.pressed

\* The signature counter is the number of signatures made with the signature key.
CountExact == op = Idle => files.count = hist.signs
===============================================================================
