--------------------------- MODULE PinUvAuthToken ---------------------------
(***************************************************************************)
(* The tokens a platform gets for the PIN: pinUvAuthToken and its          *)
(* persistent variant (cbor_client_pin.c), what setMinPINLength does to    *)
(* them (cbor_config.c), the commands that accept them, and the reset. How *)
(* a PIN is verified is in ClientPin; here a request has the right PIN or  *)
(* a wrong one.                                                            *)
(*                                                                         *)
(* The value of a token is a file, what it permits is in memory. As in     *)
(* ClientPin a handler is split at each file it writes, and core 0 may     *)
(* write out, or the power fail, between any two steps. One token value of *)
(* a behaviour, any, is marked when it is made; the properties say when    *)
(* the platform that was given this token may still use it.                *)
(***************************************************************************)
EXTENDS Integers

CONSTANTS
    Lengths,       \* PIN lengths, and minimum PIN lengths
    Rps,           \* relying parties
    Grants,        \* permissions a platform asks for, without pcmr
    None

Least(S) == CHOOSE x \in S : \A y \in S : x <= y

\* Assumed of the constants by the modules that instantiate this one
ConstantTypes ==
    /\ Lengths \subseteq Nat \ {0} /\ Lengths # {}
    /\ Grants \subseteq SUBSET {"mc", "acfg", "lbw"}
    /\ None \notin Rps \cup {"marked", "other"}

DefaultMin == Least(Lengths)

\* What is told apart of token values
Values == {"marked", "other"}

\* pin: the length of the PIN, 0 if none is set; min, force: the record EF_MINPINLEN
Files == [pin : Lengths \cup {0}, min : Lengths, force : BOOLEAN,
          tok : Values \cup {None}, ptok : Values \cup {None},
          revoked : BOOLEAN]     \* history: the marked token should not work any more

NoPaut == [perms |-> {}, in_use |-> FALSE, uv |-> FALSE, rp |-> None]

VARIABLES
    cache,      \* the files as the firmware sees them
    flash,      \* the files as a power loss would leave them
    paut,       \* pinUvAuthToken without its value, which is cache.tok
    ppaut,      \* permissions of the persistent token, whose value is cache.ptok
    hkey,       \* hkey_init: a ClientPIN command was received since power on
    op,         \* the handler in progress
    hist        \* history: whether there is a marked token and whether it was given to
                \* a platform; the relying parties the current token served; whether the flash was last written in the middle of a
                \* command, and whether the power ever failed then

vars == <<cache, flash, paut, ppaut, hkey, op, hist>>

Idle == [pc |-> "idle", min |-> DefaultMin, force |-> FALSE]

Init ==
    /\ cache \in [pin : {0}, min : {DefaultMin}, force : {FALSE}, tok : {"other"},
                  ptok : Values, revoked : {FALSE}]
    /\ flash = cache
    /\ paut = NoPaut /\ ppaut = {}
    /\ hkey = FALSE
    /\ op = Idle
    /\ hist = [born |-> cache.ptok = "marked", given |-> FALSE, served |-> {}, mid |-> FALSE, cut |-> FALSE]

-----------------------------------------------------------------------------
Put(f) == cache' = f
Goto(pc) == op' = [op EXCEPT !.pc = pc]
Return == op' = Idle

\* A new random value of a token that can be given: pinUvAuthToken gets another value
\* before it is, so that the values it has in between are never marked.
Fresh == IF hist.born THEN {"other"} ELSE Values
Born(v) == [hist EXCEPT !.born = @ \/ v = "marked"]

\* A token that was given and whose value is replaced should not work any more.
Revoked(f, t) == [f EXCEPT !.revoked = @ \/ (hist.given /\ t = "marked")]

\* resetPinUvAuthToken: a new value, no permissions; in_use and the flags stay.
NewToken(f, v) == [Revoked(f, f.tok) EXCEPT !.tok = v]

ResetPaut == [paut EXCEPT !.perms = {}]

\* Mutant: the persistent token loses its permissions but keeps its value.
NewPersistent_Kept(f, v) == Revoked(f, f.ptok)

\* resetPersistentPinUvAuthToken
NewPersistent(f, v) == [Revoked(f, f.ptok) EXCEPT !.ptok = v]

\* beginUsingPinUvAuthToken(false), with the permissions of the request
Begun(g, rp) == [perms |-> g, in_use |-> TRUE, uv |-> TRUE, rp |-> rp]

\* clearUserVerifiedFlag, clearPinUvAuthTokenPermissionsExceptLbw
Consumed(t) == IF t.in_use THEN [t EXCEPT !.uv = FALSE, !.perms = {"lbw"}] ELSE t

-----------------------------------------------------------------------------
(* ClientPIN *)

\* The first command after power on makes a key pair and a new token.
Initialize ==
    /\ op = Idle /\ ~hkey
    /\ hkey' = TRUE
    /\ Put(NewToken(cache, "other"))
    /\ paut' = ResetPaut
    /\ UNCHANGED <<flash, ppaut, op, hist>>

SetPin(n) ==
    /\ op = Idle /\ hkey
    /\ cache.pin = 0 /\ n >= cache.min
    /\ Put([cache EXCEPT !.pin = n])
    /\ UNCHANGED <<flash, paut, ppaut, hkey, op, hist>>

WrongPin ==
    /\ op = Idle /\ hkey /\ cache.pin # 0
    /\ Put(NewToken(cache, "other"))
    /\ paut' = ResetPaut
    /\ UNCHANGED <<flash, ppaut, hkey, op, hist>>

\* Mutant: a pending change of the PIN is ignored.
Forced_Ignored == FALSE

\* minpin_force_change_pending
Forced == cache.force

GetToken(g, rp, v) ==
    /\ op = Idle /\ hkey /\ cache.pin # 0 /\ ~Forced
    /\ Put(NewToken(cache, v))
    /\ paut' = Begun(g, rp)
    /\ hist' = [Born(v) EXCEPT !.given = @ \/ v = "marked", !.served = {}]
    /\ UNCHANGED <<flash, ppaut, hkey, op>>

GetPersistentToken ==
    /\ op = Idle /\ hkey /\ cache.pin # 0 /\ ~Forced
    /\ ppaut' = {"pcmr"}
    /\ hist' = [hist EXCEPT !.given = @ \/ cache.ptok = "marked"]
    /\ UNCHANGED <<cache, flash, paut, hkey, op>>

\* changePIN from the point where the new PIN is stored
ChangePin(n) ==
    /\ op = Idle /\ hkey /\ cache.pin # 0 /\ n >= cache.min
    /\ Put([cache EXCEPT !.pin = n, !.revoked = @ \/ hist.given])
    /\ Goto(IF cache.force THEN "force" ELSE "tok")
    /\ UNCHANGED <<flash, paut, ppaut, hkey, hist>>

ChangeForce ==
    /\ op.pc = "force"
    /\ Put([cache EXCEPT !.force = FALSE])
    /\ Goto("tok")
    /\ UNCHANGED <<flash, paut, ppaut, hkey, hist>>

ChangeToken ==
    /\ op.pc = "tok"
    /\ Put(NewToken(cache, "other"))
    /\ paut' = ResetPaut
    /\ Goto("ptok")
    /\ UNCHANGED <<flash, ppaut, hkey, hist>>

ChangePersistent(v) ==
    /\ op.pc = "ptok"
    /\ Put(NewPersistent(cache, v)) /\ hist' = Born(v)
    /\ ppaut' = {}
    /\ Return
    /\ UNCHANGED <<flash, paut, hkey>>

-----------------------------------------------------------------------------
(* setMinPINLength; change is the parameter forceChangePin: absent, false   *)
(* or true. Both values of it take the tokens.                              *)
Config(n, change, v) ==
    LET short == cache.pin # 0 /\ cache.pin < n IN
    /\ op = Idle
    /\ "acfg" \in paut.perms
    /\ n >= cache.min
    /\ change = "true" => cache.pin # 0
    /\ IF short \/ change # "absent"
       THEN /\ Put(NewPersistent(cache, v)) /\ hist' = Born(v)
            /\ ppaut' = {}
            /\ op' = [pc |-> "ctok", min |-> n, force |-> short \/ change = "true"]
       ELSE /\ Put([cache EXCEPT !.min = n, !.force = FALSE])
            /\ UNCHANGED <<ppaut, op, hist>>
    /\ UNCHANGED <<flash, paut, hkey>>

ConfigToken ==
    /\ op.pc = "ctok"
    /\ Put(NewToken(cache, "other"))
    /\ paut' = ResetPaut
    /\ Goto("cmin")
    /\ UNCHANGED <<flash, ppaut, hkey, hist>>

ConfigMin ==
    /\ op.pc = "cmin"
    /\ Put([cache EXCEPT !.min = op.min, !.force = op.force])
    /\ Return
    /\ UNCHANGED <<flash, paut, ppaut, hkey, hist>>

-----------------------------------------------------------------------------
(* authenticatorMakeCredential and authenticatorGetAssertion make the same  *)
(* checks. up is the option that asks for the user's presence.              *)

\* Mutant: the token is not bound to the relying party it first served.
Bound_Not(rp) == paut

Bound(rp) == [paut EXCEPT !.rp = rp]

UseToken(rp, up) ==
    /\ op = Idle
    /\ "mc" \in paut.perms /\ paut.in_use /\ paut.uv
    /\ paut.rp \in {None, rp}
    /\ paut' = IF up THEN Consumed(Bound(rp)) ELSE Bound(rp)
    /\ hist' = [hist EXCEPT !.served = @ \cup {rp}]
    /\ UNCHANGED <<cache, flash, ppaut, hkey, op>>

\* The same commands without a token, where the options allow it
UseWithoutToken ==
    /\ op = Idle
    /\ paut' = Consumed(paut)
    /\ UNCHANGED <<cache, flash, ppaut, hkey, op, hist>>

\* pin_uv_auth_token_tick finds the token's time over: stopUsingPinUvAuthToken.
Expire ==
    /\ op = Idle /\ paut.in_use
    /\ paut' = NoPaut
    /\ UNCHANGED <<cache, flash, ppaut, hkey, op, hist>>

-----------------------------------------------------------------------------
(* authenticatorReset clears the files in the order of fido_file_entries;   *)
(* init_fido makes the missing ones.                                        *)
ResetOrder == [rpin |-> "rtok", rtok |-> "rptok", rptok |-> "rmin", rmin |-> "rinit"]

Cleared(f) ==
    CASE op.pc = "rpin"  -> [f EXCEPT !.pin = 0]
      [] op.pc = "rtok"  -> [Revoked(f, f.tok) EXCEPT !.tok = None]
      [] op.pc = "rptok" -> [Revoked(f, f.ptok) EXCEPT !.ptok = None]
      [] op.pc = "rmin"  -> [f EXCEPT !.min = DefaultMin, !.force = FALSE]

\* Mutant: no persistent token is made.
Scanned_None(f, v) == [f EXCEPT !.tok = IF @ = None THEN "other" ELSE @]

\* scan_files_fido makes the tokens that are missing.
Scanned(f, v) ==
    [f EXCEPT !.tok = IF @ = None THEN "other" ELSE @, !.ptok = IF @ = None THEN v ELSE @]

Reset ==
    /\ op = Idle
    /\ Goto("rpin")
    /\ UNCHANGED <<cache, flash, paut, ppaut, hkey, hist>>

ResetStep ==
    /\ op.pc \in DOMAIN ResetOrder
    /\ Put(Cleared(cache))
    /\ Goto(ResetOrder[op.pc])
    /\ UNCHANGED <<flash, paut, ppaut, hkey, hist>>

ResetInit(v) ==
    /\ op.pc = "rinit"
    /\ Put(Scanned(cache, v)) /\ hist' = Born(cache'.ptok)
    /\ Return
    /\ UNCHANGED <<flash, paut, ppaut, hkey>>

-----------------------------------------------------------------------------
(* Core 0 and the supply *)

Drain ==
    /\ cache # flash
    /\ flash' = cache
    /\ hist' = [hist EXCEPT !.mid = op # Idle]
    /\ UNCHANGED <<cache, paut, ppaut, hkey, op>>

PowerLoss(v) ==
    /\ Put(Scanned(flash, v))
    /\ paut' = NoPaut /\ ppaut' = {}
    /\ hkey' = FALSE
    /\ op' = Idle
    /\ hist' = [Born(cache'.ptok) EXCEPT !.cut = @ \/ hist.mid, !.served = {}]
    /\ UNCHANGED flash

Next ==
    \/ Initialize \/ WrongPin \/ GetPersistentToken
    \/ \E n \in Lengths : SetPin(n) \/ ChangePin(n)
    \/ \E g \in Grants, rp \in Rps \cup {None}, v \in Fresh : GetToken(g, rp, v)
    \/ ChangeForce \/ ChangeToken
    \/ \E n \in Lengths, change \in {"absent", "false", "true"}, v \in Fresh : Config(n, change, v)
    \/ ConfigToken \/ ConfigMin
    \/ \E rp \in Rps, up \in BOOLEAN : UseToken(rp, up)
    \/ UseWithoutToken \/ Expire
    \/ Reset \/ ResetStep
    \/ \E v \in Fresh : ChangePersistent(v) \/ ResetInit(v) \/ PowerLoss(v)
    \/ Drain

Spec == Init /\ [][Next]_vars

-----------------------------------------------------------------------------
TypeOK ==
    /\ cache \in Files /\ flash \in Files
    /\ op = Idle => cache.tok # None /\ cache.ptok # None
    /\ paut \in [perms : SUBSET {"mc", "acfg", "lbw"}, in_use : BOOLEAN, uv : BOOLEAN,
                 rp : Rps \cup {None}]
    /\ ppaut \subseteq {"pcmr"}
    /\ op.pc \in DOMAIN ResetOrder \cup {"idle", "force", "tok", "ptok", "ctok", "cmin", "rinit"}
    /\ hist.served \subseteq Rps

\* The marked token was given to a platform and opens something.
GivenWorks ==
    /\ hist.given
    /\ \/ cache.tok = "marked" /\ paut.perms # {}
       \/ cache.ptok = "marked" /\ ppaut # {}

\* A token given out before the PIN was changed, before a wrong PIN, before a
\* forced change, before a reset or before the next token is of no use to the
\* platform that still has it, unless the power failed when a command that
\* replaces it was half written out.
RevokedTokensDead == op = Idle /\ ~hist.cut /\ cache.revoked => ~GivenWorks

\* The same across such power losses.
RevokedForGood == op = Idle /\ cache.revoked => ~GivenWorks

\* While the PIN has to be changed no platform has a token of any use.
ForcedMeansNoToken == op = Idle /\ cache.force => ~GivenWorks

\* A token serves one relying party.
OneRelyingParty == \A r, s \in hist.served : r = s

\* A token has no permission that no platform asked for.
PermissionsWereAsked == paut.perms \subseteq UNION Grants

=============================================================================
