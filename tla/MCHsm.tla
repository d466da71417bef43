-------------------------------- MODULE MCHsm --------------------------------
(***************************************************************************)
(* The HSM applet in one run: a behaviour is one of HsmSession (PINs,      *)
(* master key, key domains, public key authentication) or one of HsmKeys   *)
(* (keys, their counters and purposes), so the state spaces add up.        *)
(***************************************************************************)
EXTENDS Naturals

CONSTANTS Pins, Shares, Puks, Quorum, Dkeks, Lock, MaxTries, MaxMishaps, MaxNonces, MaxKeys,
          MaxCommands, Containers, Legacies, MaxUses, None

VARIABLES part, cache, flash, ram, op, hist

S == INSTANCE HsmSession
K == INSTANCE HsmKeys

ASSUME SessionConstants == S!ConstantTypes
ASSUME KeyConstants == K!ConstantTypes

vars == <<part, cache, flash, ram, op, hist>>

Init ==
    \/ part = "session" /\ S!Init
    \/ part = "keys" /\ K!Init

Next ==
    \/ part = "session" /\ S!Next /\ UNCHANGED part
    \/ part = "keys" /\ K!Next /\ UNCHANGED part

Spec == Init /\ [][Next]_vars

\* Once no mishap is left to follow, what a power loss would leave is not read any more.
View ==
    IF part \in {"session", "keys"} /\ hist.mishaps >= MaxMishaps
    THEN <<part, cache, None, ram, op, [hist EXCEPT !.part = {}]>> ELSE vars

-----------------------------------------------------------------------------
(* Properties *)

\* Whatever PIN changes, unblockings, format upgrades and initialisations were made, after one
\* power loss or failed write some reference still opens the MKEK (see HsmSession).
SomeoneOpens == part = "session" => S!SomeoneOpens

\* The key of a complete domain is the XOR of exactly the shares that were accepted (cmd_key_domain,
\* see HsmSession).
DkekIsTheShares == part = "session" => S!DkekIsTheShares

\* isUserAuthenticated is gained by the right PIN, by INITIALIZE or by a quorum that answered the
\* latest challenge (hsm_update_user_auth, see HsmSession).
AccessIsEarned == [][part = "session" => S!GainsAccess]_vars

\* A key is used at most as often as its counter says, and only with the algorithms it was generated
\* for, wherever wrapping, unwrapping and failed commands take it (decrement_key_counter and the
\* purposes in the metadata, see HsmKeys). What DERIVE stores, without metadata, is to this property a
\* key of its own that may be used for everything, also where it is a copy of another one.
KeyRulesKept == part = "keys" => K!CountedUses /\ K!PurposeKept
=============================================================================
