----------------------------- MODULE MCFidoApps -----------------------------
(***************************************************************************)
(* Four parts of the FIDO firmware that share no state, in one run: a      *)
(* behaviour is one of Oath, Otp, PinUvAuthToken or FidoServices, so the   *)
(* state spaces add up.                                                    *)
(***************************************************************************)
EXTENDS Naturals

CONSTANTS Slots, Names, MaxTries, MaxCreds, MaxPins, MaxCommands, MaxMishaps,
          OtpCommands, Codes, MaxSession, MaxCounter, MaxConfigs, MaxPresses,
          Lengths, Rps, Grants,
          AuditSlots, MaxEvents, Blobs, Fragments, None

VARIABLES part, cache, flash, ram, op, hist, paut, ppaut, hkey, booted, lba

O == INSTANCE Oath
P == INSTANCE Otp WITH MaxCommands <- OtpCommands
T == INSTANCE PinUvAuthToken
S == INSTANCE FidoServices

ASSUME OathConstants == O!ConstantTypes
ASSUME TokenConstants == T!ConstantTypes
ASSUME ServicesConstants == S!ConstantTypes

applet == <<ram>>
token == <<paut, ppaut, hkey>>
services == <<booted, lba>>
vars == <<part, cache, flash, op, hist, applet, token, services>>

NoApplet == ram = None
NoToken == paut = None /\ ppaut = None /\ hkey = None
NoServices == booted = None /\ lba = None

Init ==
    \/ part = "oath" /\ O!Init /\ NoToken /\ NoServices
    \/ part = "otp" /\ P!Init /\ NoToken /\ NoServices
    \/ part = "token" /\ T!Init /\ NoApplet /\ NoServices
    \/ part = "services" /\ S!Init /\ NoApplet /\ NoToken

Next ==
    \/ part = "oath" /\ O!Next /\ UNCHANGED <<part, token, services>>
    \/ part = "otp" /\ P!Next /\ UNCHANGED <<part, token, services>>
    \/ part = "token" /\ T!Next /\ UNCHANGED <<part, applet, services>>
    \/ part = "services" /\ S!Next /\ UNCHANGED <<part, applet, token>>

Spec == Init /\ [][Next]_vars

\* Once no mishap is left to follow, what a power loss would leave is not read any more.
View ==
    IF part \in {"oath", "otp"} /\ hist.mishaps >= MaxMishaps
    THEN <<part, cache, None, op, [hist EXCEPT !.settled = {}], applet, token, services>> ELSE vars

-----------------------------------------------------------------------------
(* Properties *)

\* No one-time password is given twice: no counter of a HOTP credential (cmd_calculate, see Oath), no
\* usage and session counter of a Yubico slot (otp_button_pressed, see Otp).
NoCodeTwice ==
    /\ part = "oath" => O!NoCodeTwice
    /\ part = "otp" => P!NoOtpTwice

\* An OTP PIN is compared with at most MAX_OTP_COUNTER wrong values between two right ones, power
\* losses and failed commits included (cmd_verify_otp, see Oath).
OtpGuessesBounded == part = "oath" => O!OtpGuessesBounded

\* Credentials behind an access code are gone before the code is (cmd_reset), and a list fetched in
\* pieces to its end is whole (cmd_send_remaining, see Oath).
Guarded == part = "oath" => O!Guarded /\ O!ListWhole

\* Between commands every OTP configuration that was written is in one slot, and in no two (swap
\* and bank, see Otp).
SlotsKept == part = "otp" => P!SlotsKept

\* A token given out before the PIN was changed, before a wrong PIN, a forced change, a reset or the
\* next token is of no use, and a token serves one relying party (see PinUvAuthToken).
RevokedTokensDead ==
    part = "token" => T!RevokedTokensDead /\ T!ForcedMeansNoToken /\ T!OneRelyingParty

\* A signed head of the audit journal is a prefix of the chain, whatever the ring dropped, a reset
\* scrubbed or a power loss cut short, and a gap in the journal is marked (audit.c); the large-blob
\* file is never made of two arrays (cbor_large_blobs, see FidoServices).
ServicesKept == part = "services" => S!CheckpointsHold /\ S!GapsMarked /\ S!BlobWhole
===============================================================================
