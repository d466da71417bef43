-------------------------- MODULE MCFidoCredentials --------------------------
(***************************************************************************)
(* FidoCredentials for TLC.                                                *)
(***************************************************************************)
EXTENDS FidoCredentials

\* Once no mishap is left to follow, what a power loss would leave is not read any more.
View ==
    IF hist.mishaps < MaxMishaps THEN <<cache, flash, ram, op, hist>>
    ELSE <<cache, None, ram, op, [hist EXCEPT !.settled = {}]>>

-----------------------------------------------------------------------------
(* Properties *)

\* No assertion against the credProtect level a credential was made with, and none by a credential
\* that was deleted, revoked or replaced (cbor_get_assertion and getNextAssertion; see ProtectKept
\* and NotAfterRemoval).
AssertionsAllowed == ProtectKept /\ NotAfterRemoval

\* Credential management finds every credential: walks that came to their end are complete, and no
\* cut delete hides a credential of older firmware (cbor_cred_mgmt; see WalksComplete and RpListed).
AllFound == WalksComplete /\ RpListed
===============================================================================
