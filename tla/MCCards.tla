------------------------------ MODULE MCCards ------------------------------
(***************************************************************************)
(* The OpenPGP and PIV applets, and the object containers below all        *)
(* applets, in one run: a behaviour is one of OpenPgpPin (PINs, data       *)
(* encryption key, KDF), OpenPgpKeys (keys, signatures, touch), Piv or     *)
(* ObjectContainer, so the state spaces add up.                            *)
(***************************************************************************)
EXTENDS Naturals

CONSTANTS RawPins, KdfPins, Default, KdfInit, MaxTries, MaxDeks, MaxMishaps,
          MaxCommands, OldCodes, MaxKeys, MaxSigns, Algos, Slots, Slot18, MoveMgm, MaxNonces,
          Objects, MaxOps, StoreMishaps, Layouts, None

\* None is no reference, tag, algorithm, key or metadata; there is an algorithm of OpenPGP.
ASSUME CardConstants ==
    /\ None \notin Slots \cup {"pin", "puk", "fid18", "aes192", "aes256"}
    /\ None \notin [algo : {"aes192", "aes256"}, touch : BOOLEAN]
    /\ Algos # {}

VARIABLES part, layout, cache, flash, files, ram, op, hist

P == INSTANCE OpenPgpPin
K == INSTANCE OpenPgpKeys
V == INSTANCE Piv
C == INSTANCE ObjectContainer WITH MaxMishaps <- StoreMishaps

ASSUME PinConstants == P!ConstantTypes

vars == <<part, layout, cache, flash, files, ram, op, hist>>

Init ==
    \/ part = "pin" /\ P!Init /\ files = None /\ layout = None
    \/ part = "keys" /\ K!Init /\ cache = None /\ flash = None /\ layout = None
    \/ part = "piv" /\ V!Init /\ files = None /\ layout = None
    \/ part = "container" /\ C!Init /\ files = None /\ ram = None

Next ==
    \/ part = "pin" /\ P!Next /\ UNCHANGED <<part, layout, files>>
    \/ part = "keys" /\ K!Next /\ UNCHANGED <<part, layout, cache, flash>>
    \/ part = "piv" /\ V!Next /\ UNCHANGED <<part, layout, files>>
    \/ part = "container" /\ C!Next /\ UNCHANGED <<part, files, ram>>

Spec == Init /\ [][Next]_vars

\* Once no mishap is left to follow, what a power loss would leave is not read any more.
View ==
    IF part \in {"pin", "piv"} /\ hist.faults + hist.cuts >= MaxMishaps
    THEN <<part, layout, cache, None, files, ram, op, hist>> ELSE vars

-----------------------------------------------------------------------------
(* Properties *)

\* Whatever the moment the power or a write fails at, outside the windows that Unprotected names, each
\* reference that is accepted opens the private keys (verifier, wrapped DEK and staged transaction,
\* see OpenPgpPin).
KeysOpen == part = "pin" => P!KeysOpen

\* Every access that is granted loads the DEK of the keys, and the references are in the form that
\* the KDF object announces (session_pw1.. and EF_KDF, see OpenPgpPin).
SessionsCurrent == part = "pin" => P!SessionsCurrent /\ P!KdfAgrees

\* One verification of PW1 gives one signature when EF_PW_PRIV asks for that, however the accesses
\* and keys change in between (cmd_pso, see OpenPgpKeys).
OneSignaturePerPin == [][part = "keys" => K!SignedWith]_vars

\* A key is used only as its own policy says. OpenPGP: after a touch if its own flag asks for one,
\* although MSE gives commands the key of another, and the signature counter counts the signatures
\* of the current key (see OpenPgpKeys). PIV: under the policy it was made with, and with the policy
\* "always" once per verification of the PIN (EF_META, cmd_authenticate, see Piv).
PolicyOfKey ==
    /\ part = "keys" => K!TouchOfTheKey /\ K!CountExact
    /\ part = "piv" => V!PolicyOfKey /\ V!OneUsePerPin

\* PIV can be administered or reset, also after a RESET that was cut or failed (see Piv).
Manageable == part = "piv" => V!Manageable

\* A power loss leaves a container with the content of one update, whole, and no marker of a
\* container that cannot be read (file_object_container_update); and no two records of the HSM are
\* sealed with the same key and nonce (file_object_record_id_allocate, see ObjectContainer).
ContainersKept == part = "container" => C!Whole /\ C!Marked /\ C!NonceOnce
=============================================================================
