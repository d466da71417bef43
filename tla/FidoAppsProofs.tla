--------------------------- MODULE FidoAppsProofs ---------------------------
(***************************************************************************)
(* Proofs for the parts of MCFidoApps, for every value of their constants: *)
(* a revoked pinUvAuthToken is dead (PinUvAuthToken), and signed heads of  *)
(* the audit journal stay true, its gaps are marked and the large-blob     *)
(* file is one array (FidoServices); the tries of an OTP PIN bound its     *)
(* wrong values, and no HOTP counter gives two codes (Oath).               *)
(***************************************************************************)
EXTENDS MCFidoApps, Integers, Sequences, SequenceTheorems, FiniteSetTheorems, FunctionTheorems, WellFoundedInduction, TLAPS

-----------------------------------------------------------------------------
(* PinUvAuthToken *)

Flags == {"mc", "acfg", "lbw"}
Steps == {"idle", "force", "tok", "ptok", "ctok", "cmin", "rpin", "rtok", "rptok", "rmin", "rinit"}

TokenTypes ==
    /\ cache \in T!Files /\ flash \in T!Files
    /\ paut \in [perms : SUBSET Flags, in_use : BOOLEAN, uv : BOOLEAN, rp : Rps \cup {None}]
    /\ ppaut \subseteq {"pcmr"}
    /\ op \in [pc : Steps, min : Lengths, force : BOOLEAN]
    /\ op.pc = "idle" => op = T!Idle
    /\ hist \in [born : BOOLEAN, given : BOOLEAN, served : SUBSET Rps, mid : BOOLEAN, cut : BOOLEAN]

\* There is at most one marked token in a file set; it was made, and revoked only if it was given.
OneMarked(f) ==
    /\ ~(f.tok = "marked" /\ f.ptok = "marked")
    /\ f.tok = "marked" \/ f.ptok = "marked" => hist.born
    /\ f.revoked => hist.given

\* The marked token is revoked and its value is gone.
Gone(f) == f.revoked => f.tok # "marked" /\ f.ptok # "marked"

\* changePIN revokes before it replaces the values, the persistent one last.
Revoking ==
    /\ hist.given => hist.born
    /\ OneMarked(cache) /\ OneMarked(flash)
    /\ ~hist.cut => /\ op.pc \notin {"force", "tok", "ptok"} => Gone(cache)
                    /\ op.pc = "ptok" /\ cache.revoked => cache.tok # "marked"
                    /\ ~hist.mid => Gone(flash)

\* setMinPINLength takes both tokens before it stores the forced change. A token whose permissions
\* are gone may get lbw back while it is in use, but then its value is another.
Forcing ==
    /\ cache.force \/ op.pc \in {"ctok", "cmin"} => ppaut = {}
    /\ op.pc = "cmin" => cache.tok # "marked"
    /\ cache.force => cache.tok # "marked" \/ (paut.perms = {} /\ ~paut.in_use)

\* A token in use served the relying party it is bound to, and no other.
Serving ==
    /\ paut.in_use => hist.served \subseteq {paut.rp}
    /\ \A r, s \in hist.served : r = s

TokenInv == TokenTypes /\ Revoking /\ Forcing /\ Serving

\* The default minimum length is one of the lengths.
LEMMA DefaultLength == T!DefaultMin \in Lengths
<1> DEFINE R == OpToRel(<, Nat)
<1>1. \E x \in Lengths : \A y \in Lengths : ~(<<y, x>> \in R)
  <2>1. Lengths \subseteq Nat /\ Lengths # {}
    BY TokenConstants DEF T!ConstantTypes
  <2>2. IsWellFoundedOn(R, Nat)
    BY NatLessThanWellFounded
  <2> HIDE DEF R
  <2> QED BY <2>1, <2>2, WFMin, Zenon
<1>2. PICK x \in Lengths : \A y \in Lengths : ~(<<y, x>> \in R)
  BY <1>1
<1>3. ASSUME NEW y \in Lengths PROVE x <= y
  <2>1. x \in Nat /\ y \in Nat
    BY TokenConstants DEF T!ConstantTypes
  <2>2. y < x => <<y, x>> \in R
    BY <2>1 DEF OpToRel
  <2> HIDE DEF R
  <2> QED BY <1>2, <2>1, <2>2
<1> QED BY <1>3 DEF T!DefaultMin, T!Least
\* The invariant holds of a new card.
LEMMA TokenInit == T!Init => TokenInv
<1> SUFFICES ASSUME T!Init PROVE TokenInv
  OBVIOUS
<1> USE TokenConstants, DefaultLength DEF T!ConstantTypes, T!Init, T!Values
<1>1. TokenTypes
  BY DEF TokenTypes, T!Files, T!NoPaut, T!Idle, Steps, Flags
<1>2. Revoking
  BY DEF Revoking, OneMarked, Gone, T!Idle
<1>3. Forcing
  BY DEF Forcing, T!Idle
<1>4. Serving
  BY DEF Serving, T!NoPaut
<1> QED BY <1>1, <1>2, <1>3, <1>4 DEF TokenInv

\* What replacing the value of a token does to the files
LEMMA Replaced ==
    ASSUME NEW f \in T!Files, NEW v \in T!Values, hist.given \in BOOLEAN
    PROVE  /\ T!NewToken(f, v) \in T!Files /\ T!NewToken(f, v).tok = v
           /\ T!NewToken(f, v).ptok = f.ptok /\ T!NewToken(f, v).force = f.force
           /\ T!NewToken(f, v).revoked = (f.revoked \/ (hist.given /\ f.tok = "marked"))
           /\ T!NewPersistent(f, v) \in T!Files /\ T!NewPersistent(f, v).ptok = v
           /\ T!NewPersistent(f, v).tok = f.tok /\ T!NewPersistent(f, v).force = f.force
           /\ T!NewPersistent(f, v).revoked = (f.revoked \/ (hist.given /\ f.ptok = "marked"))
BY DEF T!NewToken, T!NewPersistent, T!Revoked, T!Files, T!Values

\* What a step of the reset does to the files
LEMMA ClearedParts ==
    ASSUME NEW f \in T!Files, hist.given \in BOOLEAN, op.pc \in {"rpin", "rtok", "rptok", "rmin"}
    PROVE  LET g == T!Cleared(f) IN
           /\ g \in T!Files
           /\ g.tok \in {f.tok, None} /\ g.ptok \in {f.ptok, None} /\ (g.force => f.force)
           /\ f.revoked => g.revoked
           /\ g.revoked => f.revoked \/ hist.given
           /\ g.revoked /\ ~f.revoked => \/ f.tok = "marked" /\ g.tok = None
                                         \/ f.ptok = "marked" /\ g.ptok = None
<1> USE DEF T!Cleared, T!Revoked, T!Files, T!Values
<1>1. CASE op.pc = "rpin"
  BY <1>1
<1>2. CASE op.pc = "rtok"
  BY <1>2
<1>3. CASE op.pc = "rptok"
  BY <1>3
<1>4. CASE op.pc = "rmin"
  BY <1>4, DefaultLength
<1> QED BY <1>1, <1>2, <1>3, <1>4

\* What a step of changePIN, setMinPINLength or a reset does to the files, and every command in
\* between, keeps the invariant.
LEMMA TokenNext == TokenInv /\ T!Next => TokenInv'
<1> SUFFICES ASSUME TokenInv, T!Next PROVE TokenInv'
  OBVIOUS
<1> USE DEF TokenInv
<1>0. /\ T!Fresh \subseteq T!Values /\ (hist.born => T!Fresh = {"other"})
      /\ "other" \in T!Values /\ None \notin T!Values /\ None \notin Rps /\ hist.given \in BOOLEAN
      /\ None # "marked"
  BY TokenConstants DEF T!Fresh, T!Values, T!ConstantTypes, TokenTypes
<1>1. ASSUME T!Initialize PROVE TokenInv'
  <2>1. TokenTypes'
    BY <1>0, <1>1, Replaced DEF T!Initialize, T!ResetPaut, T!Put, TokenTypes
  <2>2. /\ cache'.tok = "other" /\ cache'.ptok = cache.ptok /\ cache'.force = cache.force
        /\ cache'.revoked = (cache.revoked \/ (hist.given /\ cache.tok = "marked"))
        /\ UNCHANGED <<flash, ppaut, op, hist>>
        /\ paut'.perms = {} /\ paut'.in_use = paut.in_use /\ paut'.rp = paut.rp
    BY <1>0, <1>1, Replaced DEF T!Initialize, T!ResetPaut, T!Put, TokenTypes
  <2>3. Revoking'
    BY <1>0, <2>2 DEF Revoking, OneMarked, Gone
  <2>4. Forcing'
    BY <1>0, <2>2 DEF Forcing
  <2>5. Serving'
    BY <1>0, <2>2 DEF Serving
  <2> QED BY <2>1, <2>3, <2>4, <2>5
<1>2. ASSUME T!WrongPin PROVE TokenInv'
  <2>1. TokenTypes'
    BY <1>0, <1>2, Replaced DEF T!WrongPin, T!ResetPaut, T!Put, TokenTypes
  <2>2. /\ cache'.tok = "other" /\ cache'.ptok = cache.ptok /\ cache'.force = cache.force
        /\ cache'.revoked = (cache.revoked \/ (hist.given /\ cache.tok = "marked"))
        /\ UNCHANGED <<flash, ppaut, op, hist>>
        /\ paut'.perms = {} /\ paut'.in_use = paut.in_use /\ paut'.rp = paut.rp
    BY <1>0, <1>2, Replaced DEF T!WrongPin, T!ResetPaut, T!Put, TokenTypes
  <2>3. Revoking'
    BY <1>0, <2>2 DEF Revoking, OneMarked, Gone
  <2>4. Forcing'
    BY <1>0, <2>2 DEF Forcing
  <2>5. Serving'
    BY <1>0, <2>2 DEF Serving
  <2> QED BY <2>1, <2>3, <2>4, <2>5
<1>3. ASSUME T!GetPersistentToken PROVE TokenInv'
  <2>1. TokenTypes'
    BY <1>0, <1>3 DEF T!GetPersistentToken, T!Forced, TokenTypes, T!Idle
  <2>2. /\ UNCHANGED <<cache, flash, paut, op>>
        /\ ~cache.force /\ op.pc = "idle"
        /\ hist'.given = (hist.given \/ cache.ptok = "marked")
        /\ hist'.born = hist.born /\ hist'.served = hist.served /\ hist'.mid = hist.mid /\ hist'.cut = hist.cut
    BY <1>0, <1>3 DEF T!GetPersistentToken, T!Forced, TokenTypes, T!Idle
  <2>3. Revoking'
    BY <1>0, <2>2 DEF Revoking, OneMarked, Gone
  <2>4. Forcing'
    BY <1>0, <2>2 DEF Forcing
  <2>5. Serving'
    BY <1>0, <2>2 DEF Serving
  <2> QED BY <2>1, <2>3, <2>4, <2>5
<1>4. ASSUME NEW n \in Lengths, T!SetPin(n) PROVE TokenInv'
  <2>1. TokenTypes'
    BY <1>0, <1>4 DEF T!SetPin, T!Put, TokenTypes, T!Files
  <2>2. /\ cache'.tok = cache.tok /\ cache'.ptok = cache.ptok /\ cache'.force = cache.force /\ cache'.revoked = cache.revoked
        /\ UNCHANGED <<flash, paut, ppaut, op, hist>>
    BY <1>0, <1>4 DEF T!SetPin, T!Put, TokenTypes, T!Files
  <2>3. Revoking'
    BY <1>0, <2>2 DEF Revoking, OneMarked, Gone
  <2>4. Forcing'
    BY <1>0, <2>2 DEF Forcing
  <2>5. Serving'
    BY <1>0, <2>2 DEF Serving
  <2> QED BY <2>1, <2>3, <2>4, <2>5
<1>5. ASSUME NEW n \in Lengths, T!ChangePin(n) PROVE TokenInv'
  <2>1. TokenTypes'
    <3>1. cache' \in T!Files
      BY <1>0, <1>5 DEF T!ChangePin, T!Put, T!Goto, TokenTypes, T!Files, Steps
    <3>2. op' \in [pc : Steps, min : Lengths, force : BOOLEAN] /\ (op'.pc = "idle" => op' = T!Idle)
      BY <1>0, <1>5 DEF T!ChangePin, T!Put, T!Goto, TokenTypes, T!Files, Steps
    <3>3. hist' \in [born : BOOLEAN, given : BOOLEAN, served : SUBSET Rps, mid : BOOLEAN, cut : BOOLEAN]
      BY <1>0, <1>5 DEF T!ChangePin, T!Put, T!Goto, TokenTypes, T!Files, Steps
    <3> QED BY <1>5, <3>1, <3>2, <3>3 DEF T!ChangePin, T!Put, T!Goto, TokenTypes
  <2>2. /\ cache'.tok = cache.tok /\ cache'.ptok = cache.ptok /\ cache'.force = cache.force
        /\ cache'.revoked = (cache.revoked \/ hist.given)
        /\ op'.pc \in {"force", "tok"}
        /\ UNCHANGED <<flash, paut, ppaut, hist>>
    BY <1>0, <1>5 DEF T!ChangePin, T!Put, T!Goto, TokenTypes, T!Files, Steps
  <2>3. Revoking'
    BY <1>0, <2>2 DEF Revoking, OneMarked, Gone
  <2>4. Forcing'
    BY <1>0, <2>2 DEF Forcing
  <2>5. Serving'
    BY <1>0, <2>2 DEF Serving
  <2> QED BY <2>1, <2>3, <2>4, <2>5
<1>6. ASSUME NEW g \in Grants, NEW rp \in Rps \cup {None}, NEW v \in T!Fresh, T!GetToken(g, rp, v) PROVE TokenInv'
  <2>1. TokenTypes'
    BY <1>0, <1>6, Replaced, TokenConstants DEF T!GetToken, T!Put, T!Begun, T!Forced, T!Born,
       TokenTypes, T!Idle, T!ConstantTypes, Flags
  <2>2. /\ cache'.tok = v /\ cache'.ptok = cache.ptok /\ cache'.force = cache.force
        /\ cache'.revoked = (cache.revoked \/ (hist.given /\ cache.tok = "marked"))
    <3>1. cache' = T!NewToken(cache, v) /\ cache \in T!Files /\ v \in T!Values
      BY <1>0, <1>6 DEF T!GetToken, T!Put, TokenTypes
    <3> QED BY <1>0, <3>1, Replaced
  <2>6. /\ hist'.served = {} /\ hist'.mid = hist.mid /\ hist'.cut = hist.cut
        /\ hist'.born = (hist.born \/ v = "marked")
        /\ hist'.given = (hist.given \/ v = "marked")
    BY <1>6 DEF T!GetToken, T!Born, TokenTypes
  <2>7. ~cache.force /\ op.pc = "idle" /\ paut'.rp = rp /\ UNCHANGED <<flash, ppaut, op>>
    BY <1>6 DEF T!GetToken, T!Begun, T!Forced, T!Idle
  <2>3. Revoking'
    BY <1>0, <2>2, <2>6, <2>7 DEF Revoking, OneMarked, Gone
  <2>4. Forcing'
    BY <1>0, <2>2, <2>6, <2>7 DEF Forcing
  <2>5. Serving'
    BY <1>0, <2>2, <2>6, <2>7 DEF Serving
  <2> QED BY <2>1, <2>3, <2>4, <2>5
<1>7. ASSUME T!ChangeForce PROVE TokenInv'
  <2>1. TokenTypes'
    <3>1. cache' \in T!Files
      BY <1>0, <1>7 DEF T!ChangeForce, T!Put, T!Goto, TokenTypes, T!Files, Steps
    <3>2. op' \in [pc : Steps, min : Lengths, force : BOOLEAN] /\ (op'.pc = "idle" => op' = T!Idle)
      BY <1>0, <1>7 DEF T!ChangeForce, T!Put, T!Goto, TokenTypes, T!Files, Steps
    <3>3. hist' \in [born : BOOLEAN, given : BOOLEAN, served : SUBSET Rps, mid : BOOLEAN, cut : BOOLEAN]
      BY <1>0, <1>7 DEF T!ChangeForce, T!Put, T!Goto, TokenTypes, T!Files, Steps
    <3> QED BY <1>7, <3>1, <3>2, <3>3 DEF T!ChangeForce, T!Put, T!Goto, TokenTypes
  <2>2. /\ cache'.tok = cache.tok /\ cache'.ptok = cache.ptok /\ cache'.revoked = cache.revoked /\ ~cache'.force
        /\ op.pc = "force" /\ op'.pc = "tok"
        /\ UNCHANGED <<flash, paut, ppaut, hist>>
    BY <1>0, <1>7 DEF T!ChangeForce, T!Put, T!Goto, TokenTypes, T!Files, Steps
  <2>3. Revoking'
    BY <1>0, <2>2 DEF Revoking, OneMarked, Gone
  <2>4. Forcing'
    BY <1>0, <2>2 DEF Forcing
  <2>5. Serving'
    BY <1>0, <2>2 DEF Serving
  <2> QED BY <2>1, <2>3, <2>4, <2>5
<1>8. ASSUME T!ChangeToken PROVE TokenInv'
  <2>1. TokenTypes'
    BY <1>0, <1>8, Replaced DEF T!ChangeToken, T!Put, T!Goto, T!ResetPaut, TokenTypes, Steps
  <2>2. /\ cache'.tok = "other" /\ cache'.ptok = cache.ptok /\ cache'.force = cache.force
        /\ cache'.revoked = (cache.revoked \/ (hist.given /\ cache.tok = "marked"))
        /\ op.pc = "tok" /\ op'.pc = "ptok"
        /\ UNCHANGED <<flash, ppaut, hist>>
        /\ paut'.perms = {} /\ paut'.in_use = paut.in_use /\ paut'.rp = paut.rp
    BY <1>0, <1>8, Replaced DEF T!ChangeToken, T!Put, T!Goto, T!ResetPaut, TokenTypes, Steps
  <2>3. Revoking'
    BY <1>0, <2>2 DEF Revoking, OneMarked, Gone
  <2>4. Forcing'
    BY <1>0, <2>2 DEF Forcing
  <2>5. Serving'
    BY <1>0, <2>2 DEF Serving
  <2> QED BY <2>1, <2>3, <2>4, <2>5
<1>9. ASSUME NEW n \in Lengths, NEW change \in {"absent", "false", "true"}, NEW v \in T!Fresh,
             T!Config(n, change, v)
      PROVE  TokenInv'
  <2> DEFINE short == cache.pin # 0 /\ cache.pin < n
  <2>0. op.pc = "idle" /\ UNCHANGED <<flash, paut>>
    BY <1>9 DEF T!Config, T!Idle
  <2>1. CASE short \/ change # "absent"
    <3>1. /\ cache' = T!NewPersistent(cache, v) /\ hist' = T!Born(v) /\ ppaut' = {}
          /\ op' = [pc |-> "ctok", min |-> n, force |-> short \/ change = "true"]
      BY <1>9, <2>1 DEF T!Config, T!Put
    <3>2. /\ cache'.ptok = v /\ cache'.tok = cache.tok /\ cache'.force = cache.force
          /\ cache'.revoked = (cache.revoked \/ (hist.given /\ cache.ptok = "marked"))
      BY <1>0, <3>1, Replaced DEF TokenTypes
    <3>3. /\ hist'.born = (hist.born \/ v = "marked") /\ hist'.given = hist.given
          /\ hist'.served = hist.served /\ hist'.mid = hist.mid /\ hist'.cut = hist.cut
      BY <3>1 DEF T!Born, TokenTypes
    <3>4. TokenTypes'
      BY <1>0, <2>0, <3>1, Replaced DEF T!Born, TokenTypes, Steps
    <3>5. Revoking'
      BY <1>0, <2>0, <3>1, <3>2, <3>3 DEF Revoking, OneMarked, Gone
    <3>6. Forcing'
      BY <2>0, <3>1, <3>2 DEF Forcing
    <3>7. Serving'
      BY <2>0, <3>3 DEF Serving
    <3> QED BY <3>4, <3>5, <3>6, <3>7
  <2>2. CASE ~(short \/ change # "absent")
    <3>1. cache' = [cache EXCEPT !.min = n, !.force = FALSE] /\ UNCHANGED <<ppaut, op, hist>>
      BY <1>9, <2>2 DEF T!Config, T!Put
    <3>2. /\ cache' \in T!Files /\ ~cache'.force
          /\ cache'.tok = cache.tok /\ cache'.ptok = cache.ptok /\ cache'.revoked = cache.revoked
      BY <3>1 DEF T!Files, TokenTypes
    <3>3. TokenTypes'
      BY <2>0, <3>1, <3>2 DEF TokenTypes
    <3>4. Revoking' /\ Forcing' /\ Serving'
      BY <2>0, <3>1, <3>2 DEF Revoking, OneMarked, Gone, Forcing, Serving
    <3> QED BY <3>3, <3>4
  <2> QED BY <2>1, <2>2
<1>10. ASSUME T!ConfigToken PROVE TokenInv'
  <2>1. TokenTypes'
    BY <1>0, <1>10, Replaced DEF T!ConfigToken, T!Put, T!Goto, T!ResetPaut, TokenTypes, Steps
  <2>2. /\ cache'.tok = "other" /\ cache'.ptok = cache.ptok /\ cache'.force = cache.force
        /\ cache'.revoked = (cache.revoked \/ (hist.given /\ cache.tok = "marked"))
        /\ op.pc = "ctok" /\ op'.pc = "cmin"
        /\ UNCHANGED <<flash, ppaut, hist>>
        /\ paut'.perms = {} /\ paut'.in_use = paut.in_use /\ paut'.rp = paut.rp
    BY <1>0, <1>10, Replaced DEF T!ConfigToken, T!Put, T!Goto, T!ResetPaut, TokenTypes, Steps
  <2>3. Revoking'
    BY <1>0, <2>2 DEF Revoking, OneMarked, Gone
  <2>4. Forcing'
    BY <1>0, <2>2 DEF Forcing
  <2>5. Serving'
    BY <1>0, <2>2 DEF Serving
  <2> QED BY <2>1, <2>3, <2>4, <2>5
<1>11. ASSUME T!ConfigMin PROVE TokenInv'
  <2>1. TokenTypes'
    <3>1. cache' \in T!Files
      BY <1>0, <1>11, DefaultLength DEF T!ConfigMin, T!Put, T!Return, TokenTypes, T!Files, T!Idle,
         Steps
    <3>2. op' \in [pc : Steps, min : Lengths, force : BOOLEAN] /\ (op'.pc = "idle" => op' = T!Idle)
      BY <1>0, <1>11, DefaultLength DEF T!ConfigMin, T!Put, T!Return, TokenTypes, T!Files, T!Idle,
         Steps
    <3>3. hist' \in [born : BOOLEAN, given : BOOLEAN, served : SUBSET Rps, mid : BOOLEAN, cut : BOOLEAN]
      BY <1>0, <1>11, DefaultLength DEF T!ConfigMin, T!Put, T!Return, TokenTypes, T!Files, T!Idle,
         Steps
    <3> QED BY <1>11, <3>1, <3>2, <3>3 DEF T!ConfigMin, T!Put, T!Return, TokenTypes
  <2>2. /\ cache'.tok = cache.tok /\ cache'.ptok = cache.ptok /\ cache'.revoked = cache.revoked
        /\ op.pc = "cmin" /\ op'.pc = "idle"
        /\ UNCHANGED <<flash, paut, ppaut, hist>>
    BY <1>0, <1>11, DefaultLength DEF T!ConfigMin, T!Put, T!Return, TokenTypes, T!Files, T!Idle, Steps
  <2>3. Revoking'
    BY <1>0, <2>2 DEF Revoking, OneMarked, Gone
  <2>4. Forcing'
    BY <1>0, <2>2 DEF Forcing
  <2>5. Serving'
    BY <1>0, <2>2 DEF Serving
  <2> QED BY <2>1, <2>3, <2>4, <2>5
<1>12. ASSUME NEW rp \in Rps, NEW up \in BOOLEAN, T!UseToken(rp, up) PROVE TokenInv'
  <2>1. TokenTypes'
    BY <1>0, <1>12 DEF T!UseToken, T!Consumed, T!Bound, TokenTypes, T!Idle, Flags
  <2>2. /\ UNCHANGED <<cache, flash, ppaut, op>>
        /\ paut.in_use /\ paut.perms # {} /\ paut.rp \in {None, rp} /\ paut'.rp = rp
        /\ hist'.served = hist.served \cup {rp} /\ hist.served \subseteq Rps
        /\ hist'.born = hist.born /\ hist'.given = hist.given /\ hist'.mid = hist.mid /\ hist'.cut = hist.cut
    BY <1>0, <1>12 DEF T!UseToken, T!Consumed, T!Bound, TokenTypes, T!Idle, Flags
  <2>3. Revoking'
    BY <1>0, <2>2 DEF Revoking, OneMarked, Gone
  <2>4. Forcing'
    BY <1>0, <2>2 DEF Forcing
  <2>5. Serving'
    BY <1>0, <2>2 DEF Serving
  <2> QED BY <2>1, <2>3, <2>4, <2>5
<1>13. ASSUME T!UseWithoutToken PROVE TokenInv'
  <2>1. TokenTypes'
    BY <1>0, <1>13 DEF T!UseWithoutToken, T!Consumed, TokenTypes, Flags
  <2>2. /\ UNCHANGED <<cache, flash, ppaut, op, hist>>
        /\ paut'.in_use = paut.in_use /\ paut'.rp = paut.rp
        /\ ~paut.in_use => paut'.perms = paut.perms
    BY <1>0, <1>13 DEF T!UseWithoutToken, T!Consumed, TokenTypes, Flags
  <2>3. Revoking'
    BY <1>0, <2>2 DEF Revoking, OneMarked, Gone
  <2>4. Forcing'
    BY <1>0, <2>2 DEF Forcing
  <2>5. Serving'
    BY <1>0, <2>2 DEF Serving
  <2> QED BY <2>1, <2>3, <2>4, <2>5
<1>14. ASSUME T!Expire PROVE TokenInv'
  <2>1. TokenTypes'
    BY <1>0, <1>14 DEF T!Expire, TokenTypes, T!NoPaut, Flags
  <2>2. /\ UNCHANGED <<cache, flash, ppaut, op, hist>>
        /\ ~paut'.in_use /\ paut'.perms = {}
    BY <1>0, <1>14 DEF T!Expire, TokenTypes, T!NoPaut, Flags
  <2>3. Revoking'
    BY <1>0, <2>2 DEF Revoking, OneMarked, Gone
  <2>4. Forcing'
    BY <1>0, <2>2 DEF Forcing
  <2>5. Serving'
    BY <1>0, <2>2 DEF Serving
  <2> QED BY <2>1, <2>3, <2>4, <2>5
<1>15. ASSUME T!Reset PROVE TokenInv'
  <2>1. TokenTypes'
    BY <1>0, <1>15 DEF T!Reset, T!Goto, TokenTypes, T!Idle, Steps
  <2>2. /\ UNCHANGED <<cache, flash, paut, ppaut, hist>>
        /\ op.pc = "idle" /\ op'.pc = "rpin"
    BY <1>0, <1>15 DEF T!Reset, T!Goto, TokenTypes, T!Idle, Steps
  <2>3. Revoking'
    BY <1>0, <2>2 DEF Revoking, OneMarked, Gone
  <2>4. Forcing'
    BY <1>0, <2>2 DEF Forcing
  <2>5. Serving'
    BY <1>0, <2>2 DEF Serving
  <2> QED BY <2>1, <2>3, <2>4, <2>5
<1>16. ASSUME T!ResetStep PROVE TokenInv'
  <2>1. TokenTypes'
    <3>1. cache' \in T!Files
      BY <1>0, <1>16, ClearedParts, DefaultLength DEF T!ResetStep, T!Put, T!Goto, T!ResetOrder,
         TokenTypes, Steps, T!Idle
    <3>2. op' \in [pc : Steps, min : Lengths, force : BOOLEAN] /\ (op'.pc = "idle" => op' = T!Idle)
      BY <1>0, <1>16, ClearedParts, DefaultLength DEF T!ResetStep, T!Put, T!Goto, T!ResetOrder,
         TokenTypes, Steps, T!Idle
    <3>3. hist' \in [born : BOOLEAN, given : BOOLEAN, served : SUBSET Rps, mid : BOOLEAN, cut : BOOLEAN]
      BY <1>0, <1>16, ClearedParts, DefaultLength DEF T!ResetStep, T!Put, T!Goto, T!ResetOrder,
         TokenTypes, Steps, T!Idle
    <3> QED BY <1>16, <3>1, <3>2, <3>3 DEF T!ResetStep, T!Put, T!Goto, T!ResetOrder, TokenTypes
  <2>2. /\ cache'.tok \in {cache.tok, None} /\ cache'.ptok \in {cache.ptok, None}
        /\ cache'.force => cache.force
        /\ cache'.revoked => cache.revoked \/ hist.given
        /\ cache.revoked => cache'.revoked
        /\ cache'.revoked /\ ~cache.revoked => \/ cache.tok = "marked" /\ cache'.tok = None
                                               \/ cache.ptok = "marked" /\ cache'.ptok = None
        /\ op.pc \in {"rpin", "rtok", "rptok", "rmin"} /\ op'.pc \in {"rtok", "rptok", "rmin", "rinit"}
        /\ UNCHANGED <<flash, paut, ppaut, hist>>
    <3>1. op.pc \in {"rpin", "rtok", "rptok", "rmin"} /\ cache' = T!Cleared(cache)
      BY <1>16 DEF T!ResetStep, T!Put, T!ResetOrder
    <3>2. op'.pc \in {"rtok", "rptok", "rmin", "rinit"} /\ UNCHANGED <<flash, paut, ppaut, hist>>
      BY <1>16, <3>1 DEF T!ResetStep, T!Goto, T!ResetOrder, TokenTypes
    <3>3. cache \in T!Files
      BY DEF TokenTypes
    <3> QED BY <1>0, <3>1, <3>2, <3>3, ClearedParts
  <2>3. Revoking'
    BY <1>0, <2>2 DEF Revoking, OneMarked, Gone
  <2>4. Forcing'
    BY <1>0, <2>2 DEF Forcing
  <2>5. Serving'
    BY <1>0, <2>2 DEF Serving
  <2> QED BY <2>1, <2>3, <2>4, <2>5
<1>17. ASSUME NEW v \in T!Fresh, T!ChangePersistent(v) PROVE TokenInv'
  <2>1. TokenTypes'
    BY <1>0, <1>17, Replaced, DefaultLength DEF T!ChangePersistent, T!Put, T!Return, T!Born,
       TokenTypes, T!Idle, Steps
  <2>2. /\ cache'.ptok = v /\ cache'.tok = cache.tok /\ cache'.force = cache.force
        /\ cache'.revoked = (cache.revoked \/ (hist.given /\ cache.ptok = "marked"))
        /\ hist'.born = (hist.born \/ v = "marked")
        /\ hist'.given = hist.given /\ hist'.served = hist.served /\ hist'.mid = hist.mid /\ hist'.cut = hist.cut
        /\ ppaut' = {} /\ op.pc = "ptok" /\ op'.pc = "idle"
        /\ UNCHANGED <<flash, paut>>
    BY <1>0, <1>17, Replaced, DefaultLength DEF T!ChangePersistent, T!Put, T!Return, T!Born,
       TokenTypes, T!Idle, Steps
  <2>3. Revoking'
    BY <1>0, <2>2 DEF Revoking, OneMarked, Gone
  <2>4. Forcing'
    BY <1>0, <2>2 DEF Forcing
  <2>5. Serving'
    BY <1>0, <2>2 DEF Serving
  <2> QED BY <2>1, <2>3, <2>4, <2>5
<1>18. ASSUME NEW v \in T!Fresh, T!ResetInit(v) PROVE TokenInv'
  <2>1. TokenTypes'
    <3>1. cache' \in T!Files
      BY <1>0, <1>18, DefaultLength DEF T!ResetInit, T!Put, T!Return, T!Born, T!Scanned, TokenTypes,
         T!Files, T!Idle, Steps
    <3>2. op' \in [pc : Steps, min : Lengths, force : BOOLEAN] /\ (op'.pc = "idle" => op' = T!Idle)
      BY <1>0, <1>18, DefaultLength DEF T!ResetInit, T!Put, T!Return, T!Born, T!Scanned, TokenTypes,
         T!Files, T!Idle, Steps
    <3>3. hist' \in [born : BOOLEAN, given : BOOLEAN, served : SUBSET Rps, mid : BOOLEAN, cut : BOOLEAN]
      BY <1>0, <1>18, DefaultLength DEF T!ResetInit, T!Put, T!Return, T!Born, T!Scanned, TokenTypes,
         T!Files, T!Idle, Steps
    <3> QED BY <1>18, <3>1, <3>2, <3>3 DEF T!ResetInit, T!Put, T!Return, T!Born, T!Scanned, TokenTypes
  <2>2. /\ cache'.tok = (IF cache.tok = None THEN "other" ELSE cache.tok)
        /\ cache'.ptok = (IF cache.ptok = None THEN v ELSE cache.ptok)
        /\ cache'.force = cache.force /\ cache'.revoked = cache.revoked
        /\ hist'.born = (hist.born \/ cache'.ptok = "marked")
        /\ hist'.given = hist.given /\ hist'.served = hist.served /\ hist'.mid = hist.mid /\ hist'.cut = hist.cut
        /\ op.pc = "rinit" /\ op'.pc = "idle"
        /\ UNCHANGED <<flash, paut, ppaut>>
    BY <1>0, <1>18, DefaultLength DEF T!ResetInit, T!Put, T!Return, T!Born, T!Scanned, TokenTypes,
       T!Files, T!Idle, Steps
  <2>3. Revoking'
    BY <1>0, <2>2 DEF Revoking, OneMarked, Gone
  <2>4. Forcing'
    BY <1>0, <2>2 DEF Forcing
  <2>5. Serving'
    BY <1>0, <2>2 DEF Serving
  <2> QED BY <2>1, <2>3, <2>4, <2>5
<1>19. ASSUME NEW v \in T!Fresh, T!PowerLoss(v) PROVE TokenInv'
  <2>1. TokenTypes'
    <3>1. cache' \in T!Files /\ flash' \in T!Files
      BY <1>0, <1>19 DEF T!PowerLoss, T!Put, T!Scanned, TokenTypes, T!Files
    <3>2. /\ paut' \in [perms : SUBSET Flags, in_use : BOOLEAN, uv : BOOLEAN, rp : Rps \cup {None}]
          /\ ppaut' \subseteq {"pcmr"}
      BY <1>19 DEF T!PowerLoss, T!NoPaut
    <3>3. op' \in [pc : Steps, min : Lengths, force : BOOLEAN] /\ (op'.pc = "idle" => op' = T!Idle)
      BY <1>19, DefaultLength DEF T!PowerLoss, T!Idle, Steps
    <3>4. hist' \in [born : BOOLEAN, given : BOOLEAN, served : SUBSET Rps, mid : BOOLEAN, cut : BOOLEAN]
      BY <1>19 DEF T!PowerLoss, T!Born, TokenTypes
    <3> QED BY <3>1, <3>2, <3>3, <3>4 DEF TokenTypes
  <2>2. /\ cache'.tok = (IF flash.tok = None THEN "other" ELSE flash.tok)
        /\ cache'.ptok = (IF flash.ptok = None THEN v ELSE flash.ptok)
        /\ cache'.force = flash.force /\ cache'.revoked = flash.revoked
        /\ hist'.born = (hist.born \/ cache'.ptok = "marked")
        /\ hist'.given = hist.given /\ hist'.served = {} /\ hist'.mid = hist.mid /\ hist'.cut = (hist.cut \/ hist.mid)
        /\ op'.pc = "idle" /\ ppaut' = {} /\ paut'.perms = {} /\ ~paut'.in_use
        /\ UNCHANGED <<flash>>
    BY <1>0, <1>19, DefaultLength DEF T!PowerLoss, T!Put, T!Born, T!Scanned, T!NoPaut, TokenTypes,
       T!Files, T!Idle, Steps
  <2>3. Revoking'
    BY <1>0, <2>2 DEF Revoking, OneMarked, Gone
  <2>4. Forcing'
    BY <1>0, <2>2 DEF Forcing
  <2>5. Serving'
    BY <1>0, <2>2 DEF Serving
  <2> QED BY <2>1, <2>3, <2>4, <2>5
<1>20. ASSUME T!Drain PROVE TokenInv'
  <2>1. TokenTypes'
    BY <1>0, <1>20 DEF T!Drain, TokenTypes, T!Idle
  <2>2. /\ flash' = cache
        /\ hist'.mid = (op # T!Idle)
        /\ hist'.born = hist.born /\ hist'.given = hist.given /\ hist'.served = hist.served /\ hist'.cut = hist.cut
        /\ op = T!Idle => op.pc = "idle"
        /\ UNCHANGED <<cache, paut, ppaut, op>>
    BY <1>0, <1>20 DEF T!Drain, TokenTypes, T!Idle
  <2>3. Revoking'
    BY <1>0, <2>2 DEF Revoking, OneMarked, Gone
  <2>4. Forcing'
    BY <1>0, <2>2 DEF Forcing
  <2>5. Serving'
    BY <1>0, <2>2 DEF Serving
  <2> QED BY <2>1, <2>3, <2>4, <2>5
<1> QED
  BY <1>1, <1>2, <1>3, <1>4, <1>5, <1>6, <1>7, <1>8, <1>9, <1>10, <1>11, <1>12, <1>13, <1>14, <1>15,
     <1>16, <1>17, <1>18, <1>19, <1>20 DEF T!Next

\* A step that leaves the token's variables alone
LEMMA TokenStutter == TokenInv /\ UNCHANGED T!vars => TokenInv'
BY DEF T!vars, TokenInv, TokenTypes, Revoking, OneMarked, Gone, Forcing, Serving

\* The invariant implies the properties: a revoked value is gone, and so is the value of a token
\* that was taken before a forced change.
LEMMA TokenProperties ==
    TokenInv => T!RevokedTokensDead /\ T!ForcedMeansNoToken /\ T!OneRelyingParty
<1> SUFFICES ASSUME TokenInv PROVE T!RevokedTokensDead /\ T!ForcedMeansNoToken /\ T!OneRelyingParty
  OBVIOUS
<1>1. T!RevokedTokensDead
  BY DEF TokenInv, Revoking, Gone, T!RevokedTokensDead, T!GivenWorks, T!Idle
<1>2. T!ForcedMeansNoToken
  BY DEF TokenInv, Revoking, Forcing, OneMarked, T!ForcedMeansNoToken, T!GivenWorks, T!Idle
<1>3. T!OneRelyingParty
  BY DEF TokenInv, Serving, T!OneRelyingParty
<1> QED BY <1>1, <1>2, <1>3

\* The token part of a behaviour keeps its invariant (PinUvAuthToken: cbor_client_pin.c, cbor_config.c
\* and the commands that take a token).
THEOREM TokenInvariant == Spec => [](part = "token" => TokenInv)
<1>1. Init => (part = "token" => TokenInv)
  BY TokenInit DEF Init
<1>2. (part = "token" => TokenInv) /\ [Next]_vars => (part = "token" => TokenInv)'
  BY TokenNext, TokenStutter DEF Next, vars, token, T!vars
<1> QED BY <1>1, <1>2, PTL DEF Spec

\* A token given out before the PIN was changed, a wrong PIN, a forced change, a reset or the next
\* token is of no use to the platform that has it, and a token serves one relying party
\* (resetPinUvAuthToken and resetPersistentPinUvAuthToken at every place that calls them).
THEOREM TokensDie == Spec => []RevokedTokensDead
<1>1. (part = "token" => TokenInv) => RevokedTokensDead
  BY TokenProperties DEF RevokedTokensDead
<1> QED BY <1>1, TokenInvariant, PTL

-----------------------------------------------------------------------------
(* FidoServices: types *)

Happenings == {"boot", "assert", "silent", "config", "on", "off", "checkpoint", "reset"}
Entries == [ev : Happenings, n : Nat]
Journals == [epoch : Seq(Entries), ring : Seq(Entries)]
Images == [jour : Journals, on : BOOLEAN, blob : Seq(Blobs)]

\* What a command may still have to do to the journal
Lists ==
    {<<>>, <<S!Switch(TRUE), S!Event("on")>>, <<S!Event("off"), S!Switch(FALSE)>>, <<S!Switch(FALSE)>>,
     <<S!Scrub, S!Erase, S!Event("reset")>>, <<S!Erase, S!Event("reset")>>}
    \cup {<<S!Event(e)>> : e \in Happenings}

ServiceTypes ==
    /\ cache \in Images /\ flash \in Images /\ op \in Lists
    /\ lba \in [len : {0, Fragments}, buf : Seq(Blobs)] /\ Len(lba.buf) <= lba.len
    /\ hist \in [events : Nat, mishaps : Nat, signed : SUBSET Seq(Entries), kept : Nat,
                 lost : BOOLEAN, failed : BOOLEAN]

-----------------------------------------------------------------------------
(* FidoServices: the chain of the journal *)

\* The chain t starts with the events of s.
Grows(s, t) == Len(s) <= Len(t) /\ \A i \in 1 .. Len(s) : s[i].ev = t[i].ev

LEMMA GrowsIsPrefix ==
    ASSUME NEW s \in Seq(Entries), NEW t \in Seq(Entries), Grows(s, t)
    PROVE  S!IsPrefix(S!Events(s), S!Events(t))
<1> DEFINE es == S!Events(s)
           et == S!Events(t)
<1>1. /\ DOMAIN s = 1 .. Len(s) /\ DOMAIN t = 1 .. Len(t) /\ Len(s) \in Nat /\ Len(t) \in Nat
      /\ \A i \in 1 .. Len(s) : s[i] \in Entries
      /\ \A i \in 1 .. Len(t) : t[i] \in Entries
  BY LenProperties
<1>2. /\ es = [i \in 1 .. Len(s) |-> s[i].ev] /\ et = [i \in 1 .. Len(t) |-> t[i].ev]
  BY <1>1 DEF S!Events
<1>3. es \in Seq(Happenings) /\ et \in Seq(Happenings) /\ Len(es) = Len(s) /\ Len(et) = Len(t)
  BY <1>1, <1>2 DEF Entries
<1>4. /\ \A i \in 1 .. Len(es) : es[i] = s[i].ev
      /\ \A i \in 1 .. Len(et) : et[i] = t[i].ev
  BY <1>2, <1>3
<1> HIDE DEF es, et
<1>5. \A i \in 1 .. Len(s) : et[i] \in Happenings /\ et[i] = es[i]
  BY <1>1, <1>3, <1>4 DEF Grows, Entries
<1>6. /\ SubSeq(es, 1, Len(es)) = es /\ Len(SubSeq(et, 1, Len(es))) = Len(es)
      /\ SubSeq(et, 1, Len(es)) \in Seq(Happenings)
      /\ \A i \in 1 .. Len(es) : SubSeq(et, 1, Len(es))[i] = et[i]
  <2>1. Len(es) \in Nat /\ 1 \in Int
    BY <1>1, <1>3
  <2>2. \A i \in 1 .. Len(es) : et[i] \in Happenings
    BY <1>3, <1>5
  <2>3. SubSeq(es, 1, Len(es)) = es
    BY <1>3, SubSeqFull
  <2> QED BY <2>1, <2>2, <2>3, SubSeqProperties
<1>7. SubSeq(et, 1, Len(es)) = es
  BY <1>3, <1>5, <1>6, SeqEqual
<1> QED BY <1>1, <1>3, <1>6, <1>7 DEF S!IsPrefix, Grows, es, et

LEMMA GrowsTrans ==
    ASSUME NEW s \in Seq(Entries), NEW t \in Seq(Entries), NEW u \in Seq(Entries), Grows(s, t), Grows(t, u)
    PROVE  Grows(s, u)
BY LenProperties DEF Grows

LEMMA GrowsSelf == ASSUME NEW s \in Seq(Entries) PROVE Grows(s, s)
BY LenProperties DEF Grows

LEMMA ChainTypes == ASSUME NEW j \in Journals PROVE S!Chain(j) \in Seq(Entries)
BY ConcatProperties DEF S!Chain, Journals

LEMMA ConcatAppend ==
    ASSUME NEW p \in Seq(Entries), NEW u \in Seq(Entries), NEW x \in Entries
    PROVE  p \o Append(u, x) = Append(p \o u, x)
<1> DEFINE X == <<x>>
           c == p \o u
<1>1. X \in Seq(Entries) /\ Append(u, x) = u \o X
  BY AppendIsConcat
<1>2. c \in Seq(Entries)
  BY ConcatProperties
<1>3. Append(c, x) = c \o X
  BY <1>2, AppendIsConcat
<1>4. (p \o u) \o X = p \o (u \o X)
  BY <1>1, ConcatAssociative
<1> QED BY <1>1, <1>3, <1>4

\* The oldest entry of the ring becomes the youngest of the epoch.
LEMMA HeadMoves ==
    ASSUME NEW p \in Seq(Entries), NEW r \in Seq(Entries), r # <<>>
    PROVE  /\ Append(p, Head(r)) \in Seq(Entries) /\ Tail(r) \in Seq(Entries)
           /\ Append(p, Head(r)) \o Tail(r) = p \o r
<1> DEFINE H == <<Head(r)>>
           u == Tail(r)
<1>1. Head(r) \in Entries /\ u \in Seq(Entries) /\ r = H \o u
  BY HeadTailProperties
<1>2. H \in Seq(Entries) /\ Append(p, Head(r)) = p \o H /\ Append(p, Head(r)) \in Seq(Entries)
  BY <1>1, AppendIsConcat, AppendProperties
<1>4. Tail(r) = u
  OBVIOUS
<1> HIDE DEF H, u
<1>3. (p \o H) \o u = p \o (H \o u)
  BY <1>1, <1>2, ConcatAssociative
<1>5. Append(p, Head(r)) \o u = p \o r
  BY <1>1, <1>2, <1>3, Zenon
<1> QED BY <1>1, <1>2, <1>4, <1>5

\* The ring and the epoch together get the entry at the end.
LEMMA AppendOneChain ==
    ASSUME NEW j \in Journals, NEW e \in Happenings
    PROVE  S!AppendOne(j, e) \in Journals /\ S!Chain(S!AppendOne(j, e)) = Append(S!Chain(j), S!Entry(e))
<1>1. PICK p \in Seq(Entries), r \in Seq(Entries) : j = [epoch |-> p, ring |-> r]
  BY DEF Journals
<1> DEFINE x == S!Entry(e)
<1>2. x \in Entries /\ S!Chain(j) = p \o r
  BY <1>1 DEF S!Entry, Entries, S!Chain
<1>3. AuditSlots \in Nat \ {0}
  BY ServicesConstants DEF S!ConstantTypes
<1>4. CASE Len(r) = AuditSlots
  <2>1. S!AppendOne(j, e) = [epoch |-> Append(p, Head(r)), ring |-> Append(Tail(r), x)]
    BY <1>1, <1>4 DEF S!AppendOne
  <2>2. r # <<>>
    BY <1>3, <1>4
  <2> HIDE DEF x
  <2> DEFINE q == Append(p, Head(r))
             u == Tail(r)
  <2>3. q \in Seq(Entries) /\ u \in Seq(Entries) /\ q \o u = p \o r
    BY <2>2, HeadMoves
  <2> HIDE DEF q, u
  <2>4. q \o Append(u, x) = Append(q \o u, x) /\ Append(u, x) \in Seq(Entries)
    BY <1>2, <2>3, ConcatAppend, AppendProperties
  <2>5. S!AppendOne(j, e) = [epoch |-> q, ring |-> Append(u, x)]
    BY <2>1 DEF q, u
  <2>6. S!Chain(S!AppendOne(j, e)) = q \o Append(u, x)
    <3> DEFINE w == Append(u, x)
               k == S!AppendOne(j, e)
    <3>1. k.epoch = q /\ k.ring = w
      BY <2>5
    <3>2. S!Chain(k) = k.epoch \o k.ring
      BY DEF S!Chain
    <3> HIDE DEF w, k
    <3> QED BY <3>1, <3>2 DEF w, k
  <2>7. S!AppendOne(j, e) \in Journals
    BY <2>3, <2>4, <2>5 DEF Journals
  <2>8. q \o Append(u, x) = Append(S!Chain(j), x)
    BY <1>2, <2>3, <2>4
  <2> QED BY <2>6, <2>7, <2>8 DEF x
<1>5. CASE Len(r) # AuditSlots
  <2>1. S!AppendOne(j, e) = [epoch |-> p, ring |-> Append(r, x)]
    BY <1>1, <1>5 DEF S!AppendOne
  <2> HIDE DEF x
  <2>2. Append(r, x) \in Seq(Entries) /\ p \o Append(r, x) = Append(p \o r, x)
    BY <1>2, ConcatAppend, AppendProperties
  <2> QED BY <1>2, <2>1, <2>2 DEF S!Chain, Journals, x
<1> QED BY <1>4, <1>5

LEMMA AppendGrows ==
    ASSUME NEW s \in Seq(Entries), NEW x \in Entries
    PROVE  Append(s, x) \in Seq(Entries) /\ Grows(s, Append(s, x)) /\ Append(s, x) # <<>> /\ S!Last(Append(s, x)) = x
BY AppendProperties, LenProperties DEF Grows, S!Last

\* An event leaves the chain as it is, but for the count of a repeated entry, and adds itself.
LEMMA AppendedChain ==
    ASSUME NEW j \in Journals, NEW e \in Happenings
    PROVE  /\ S!Appended(j, e) \in Journals
           /\ Grows(S!Chain(j), S!Chain(S!Appended(j, e)))
           /\ e = "off" => S!Chain(S!Appended(j, e)) # <<>> /\ S!Last(S!Chain(S!Appended(j, e))).ev = "off"
<1> DEFINE c == S!Chain(j)
           x == S!Entry(e)
<1>1. c \in Seq(Entries) /\ x \in Entries /\ x.ev = e
  BY ChainTypes DEF S!Entry, Entries
<1>2. CASE ~booted
  <2> DEFINE j1 == S!AppendOne(j, "boot")
             b == S!Entry("boot")
  <2>1. j1 \in Journals /\ S!Chain(j1) = Append(c, b) /\ b \in Entries
    BY AppendOneChain DEF Happenings, S!Entry, Entries
  <2>2. S!AppendOne(j1, e) \in Journals /\ S!Chain(S!AppendOne(j1, e)) = Append(Append(c, b), x)
    BY <2>1, AppendOneChain
  <2>3. S!Appended(j, e) = S!AppendOne(j1, e)
    BY <1>2 DEF S!Appended
  <2> HIDE DEF c, x, j1, b
  <2>4. Append(c, b) \in Seq(Entries) /\ Grows(c, Append(c, b))
    BY <1>1, <2>1, AppendGrows
  <2>5. /\ Append(Append(c, b), x) \in Seq(Entries) /\ Grows(Append(c, b), Append(Append(c, b), x))
        /\ Append(Append(c, b), x) # <<>> /\ S!Last(Append(Append(c, b), x)) = x
    BY <1>1, <2>4, AppendGrows
  <2>6. Grows(c, Append(Append(c, b), x))
    BY <1>1, <2>4, <2>5, GrowsTrans
  <2> QED BY <1>1, <2>2, <2>3, <2>5, <2>6 DEF c
<1>3. CASE booted /\ S!Repeats(j, e) # {}
  <2> DEFINE m == S!Max(S!Repeats(j, e))
  <2>1. S!Appended(j, e) = [j EXCEPT !.ring[m].n = @ + 1]
    BY <1>3 DEF S!Appended
  <2>2. PICK p \in Seq(Entries), r \in Seq(Entries) : j = [epoch |-> p, ring |-> r]
    BY DEF Journals
  <2> HIDE DEF m
  <2> DEFINE s == [r EXCEPT ![m].n = @ + 1]
  <2>3. [j EXCEPT !.ring[m].n = @ + 1] = [epoch |-> p, ring |-> s]
    <3>1. j.ring = r /\ j.epoch = p /\ DOMAIN j = {"epoch", "ring"}
      BY <2>2
    <3>2. [j EXCEPT !.ring[m].n = @ + 1] = [j EXCEPT !.ring = [j.ring EXCEPT ![m].n = @ + 1]]
      OBVIOUS
    <3>3. [j EXCEPT !.ring[m].n = @ + 1] = [j EXCEPT !.ring = s]
      BY <3>1, <3>2
    <3> HIDE DEF s
    <3> QED BY <2>2, <3>3
  <2>4. s \in Seq(Entries) /\ Len(s) = Len(r) /\ \A i \in 1 .. Len(r) : s[i].ev = r[i].ev
    <3>1. r \in [1 .. Len(r) -> Entries] /\ Len(r) \in Nat
      BY <2>2, LenProperties
    <3>2. \A i \in 1 .. Len(r) : s[i] = IF i = m THEN [r[i] EXCEPT !.n = @ + 1] ELSE r[i]
      BY <3>1
    <3>3. \A i \in 1 .. Len(r) : [r[i] EXCEPT !.n = @ + 1] \in Entries /\ [r[i] EXCEPT !.n = @ + 1].ev = r[i].ev
      BY <3>1 DEF Entries
    <3>4. s \in [1 .. Len(r) -> Entries]
      <4>1. DOMAIN s = 1 .. Len(r) /\ s = [i \in 1 .. Len(r) |-> s[i]]
        BY <3>1
      <4> QED BY <3>1, <3>2, <3>3, <4>1
    <3> QED BY <3>1, <3>2, <3>3, <3>4
  <2> HIDE DEF s
  <2>5. c = p \o r /\ S!Chain(S!Appended(j, e)) = p \o s
    BY <2>1, <2>2, <2>3 DEF S!Chain
  <2>6. /\ Len(p \o r) = Len(p) + Len(r) /\ Len(p \o s) = Len(p) + Len(r) /\ Len(p) \in Nat /\ Len(r) \in Nat
        /\ \A i \in 1 .. Len(p) + Len(r) : (p \o r)[i] = IF i <= Len(p) THEN p[i] ELSE r[i - Len(p)]
        /\ \A i \in 1 .. Len(p) + Len(r) : (p \o s)[i] = IF i <= Len(p) THEN p[i] ELSE s[i - Len(p)]
    <3>1. /\ Len(p \o r) = Len(p) + Len(r)
          /\ \A i \in 1 .. Len(p) + Len(r) : (p \o r)[i] = IF i <= Len(p) THEN p[i] ELSE r[i - Len(p)]
      BY ConcatProperties
    <3>2. /\ Len(p \o s) = Len(p) + Len(s)
          /\ \A i \in 1 .. Len(p) + Len(s) : (p \o s)[i] = IF i <= Len(p) THEN p[i] ELSE s[i - Len(p)]
      <4>1. s \in Seq(Entries)
        BY <2>4
      <4> QED BY <4>1, ConcatProperties
    <3>3. Len(p) \in Nat /\ Len(r) \in Nat
      BY LenProperties
    <3> QED BY <2>4, <3>1, <3>2, <3>3
  <2>7. Grows(p \o r, p \o s)
    <3> SUFFICES ASSUME NEW i \in 1 .. Len(p) + Len(r) PROVE (p \o r)[i].ev = (p \o s)[i].ev
      BY <2>6 DEF Grows
    <3>1. CASE i <= Len(p)
      BY <2>6, <3>1
    <3>2. CASE ~(i <= Len(p))
      <4>1. i - Len(p) \in 1 .. Len(r)
        BY <2>6, <3>2
      <4> QED BY <2>4, <2>6, <3>2, <4>1
    <3> QED BY <3>1, <3>2
  <2>8. S!Appended(j, e) \in Journals
    BY <2>1, <2>2, <2>3, <2>4 DEF Journals
  <2>9. e # "off"
    BY <1>3 DEF S!Repeats
  <2> QED BY <2>5, <2>7, <2>8, <2>9
<1>4. CASE booted /\ S!Repeats(j, e) = {}
  <2>1. S!Appended(j, e) = S!AppendOne(j, e)
    BY <1>4 DEF S!Appended
  <2>2. S!AppendOne(j, e) \in Journals /\ S!Chain(S!AppendOne(j, e)) = Append(c, x)
    BY AppendOneChain
  <2> HIDE DEF c, x
  <2>3. Grows(c, Append(c, x)) /\ Append(c, x) # <<>> /\ S!Last(Append(c, x)) = x
    BY <1>1, AppendGrows
  <2> QED BY <1>1, <2>1, <2>2, <2>3 DEF c
<1> QED BY <1>2, <1>3, <1>4

LEMMA ScrubbedChain == ASSUME NEW j \in Journals PROVE S!Scrubbed(j) \in Journals /\ S!Chain(S!Scrubbed(j)) = S!Chain(j)
<1>1. S!Chain(j) \in Seq(Entries)
  BY ChainTypes
<1>2. S!Chain(j) \o <<>> = S!Chain(j) /\ <<>> \in Seq(Entries)
  BY <1>1, ConcatEmptySeq, EmptySeq
<1> QED
  <2>1. S!Scrubbed(j) = [epoch |-> S!Chain(j), ring |-> <<>>]
    BY DEF S!Scrubbed
  <2>2. S!Chain([epoch |-> S!Chain(j), ring |-> <<>>]) = S!Chain(j) \o <<>>
    BY DEF S!Chain
  <2> QED BY <1>1, <1>2, <2>1, <2>2 DEF Journals

-----------------------------------------------------------------------------
(* FidoServices: the invariant *)

\* A signed head and the chain on flash are prefixes of the chain.
Chained ==
    /\ Grows(S!Chain(flash.jour), S!Chain(cache.jour)) /\ hist.kept <= Len(S!Chain(flash.jour))
    /\ ~hist.lost => \A s \in hist.signed : Grows(s, S!Chain(cache.jour))

\* A journal that is off ends with the entry that says so, and one about to go off has it.
SaysOff(c) == S!Chain(c.jour) # <<>> /\ S!Last(S!Chain(c.jour)).ev = "off"
Gapless(c) == c.on \/ S!Chain(c.jour) = <<>> \/ SaysOff(c)
GoesOff(c, q) == q = <<S!Switch(FALSE)>> /\ c.on => SaysOff(c)
Said == ~hist.failed => Gapless(cache) /\ Gapless(flash) /\ GoesOff(cache, op)

\* The file is empty or one array.
OneArray(f) == f = S!NoBlob \/ \E b \in Blobs : f = [i \in 1 .. Fragments |-> b]
Stored == OneArray(cache.blob) /\ OneArray(flash.blob)

ServiceInv == ServiceTypes /\ Chained /\ Said /\ Stored

LEMMA Rests ==
    ASSUME NEW x, NEW y, NEW z
    PROVE  /\ Head(<<x>>) = x /\ Tail(<<x>>) = <<>> /\ Head(<<x, y>>) = x /\ Tail(<<x, y>>) = <<y>>
           /\ Head(<<x, y, z>>) = x /\ Tail(<<x, y, z>>) = <<y, z>>
           /\ <<x>> = <<y>> => x = y
           /\ <<x, y>> # <<z>> /\ <<>> # <<z>>
OBVIOUS

\* What one step of a command makes of the files
LEMMA TargetKeeps ==
    ASSUME ServiceTypes, op # <<>>, NEW t, t = S!Target(Head(op))
    PROVE  /\ Tail(op) \in Lists /\ t \in Images
           /\ Grows(S!Chain(cache.jour), S!Chain(t.jour))
           /\ t.blob \in {cache.blob, S!NoBlob}
           /\ Gapless(cache) /\ GoesOff(cache, op) => Gapless(t) /\ GoesOff(t, Tail(op))
           /\ Head(op).do = "erase" => t.jour = cache.jour /\ t.on = cache.on /\ Tail(op) = <<S!Event("reset")>>
           /\ S!Chain(cache.jour) \in Seq(Entries)
<1> DEFINE c == S!Chain(cache.jour)
<1>1. cache \in Images /\ op \in Lists /\ cache.jour \in Journals /\ cache.on \in BOOLEAN /\ cache.blob \in Seq(Blobs)
  BY DEF ServiceTypes, Images
<1>2. c \in Seq(Entries) /\ Grows(c, c) /\ <<>> \in Seq(Blobs)
  BY <1>1, ChainTypes, GrowsSelf
<1> HIDE DEF c
<1>3. ASSUME NEW e \in Happenings, Head(op) = S!Event(e), Tail(op) \in Lists, Tail(op) = <<S!Switch(FALSE)>> => e = "off"
      PROVE  /\ t \in Images /\ t.blob = cache.blob /\ Grows(c, S!Chain(t.jour))
             /\ Gapless(cache) => Gapless(t) /\ GoesOff(t, Tail(op))
  <2>1. Head(op).do = "event" /\ Head(op).ev = e
    BY <1>3 DEF S!Event
  <2>2. CASE cache.on
    <3> DEFINE j == S!Appended(cache.jour, e)
    <3>1. t = [cache EXCEPT !.jour = j]
      BY <2>1, <2>2 DEF S!Target
    <3>2. j \in Journals /\ Grows(c, S!Chain(j)) /\ (e = "off" => S!Chain(j) # <<>> /\ S!Last(S!Chain(j)).ev = "off")
      BY <1>1, AppendedChain DEF c
    <3> HIDE DEF j
    <3>3. t.jour = j /\ t.on /\ t.blob = cache.blob /\ t \in Images
      BY <1>1, <2>2, <3>1, <3>2 DEF Images
    <3> QED BY <1>3, <3>2, <3>3 DEF Gapless, GoesOff, SaysOff
  <2>3. CASE ~cache.on
    <3>1. t = cache
      BY <2>1, <2>3 DEF S!Target
    <3>2. GoesOff(t, Tail(op))
      BY <2>3, <3>1 DEF GoesOff
    <3> QED BY <1>1, <1>2, <3>1, <3>2 DEF c
  <2> QED BY <2>2, <2>3
<1>4. CASE \E e \in Happenings : op = <<S!Event(e)>>
  <2>1. PICK e \in Happenings : op = <<S!Event(e)>>
    BY <1>4
  <2>2. Head(op) = S!Event(e) /\ Tail(op) = <<>> /\ Tail(op) \in Lists /\ Head(op).do # "erase"
    BY <2>1 DEF Lists, S!Event
  <2>3. t \in Images /\ t.blob = cache.blob /\ Grows(c, S!Chain(t.jour)) /\ (Gapless(cache) => Gapless(t) /\ GoesOff(t, Tail(op)))
    <3>1. Tail(op) # <<S!Switch(FALSE)>>
      BY <2>2, Rests
    <3> QED BY <1>3, <2>2, <3>1
  <2> QED BY <1>2, <2>2, <2>3 DEF c
<1>5. CASE op = <<S!Event("off"), S!Switch(FALSE)>>
  <2>1. Head(op) = S!Event("off") /\ Tail(op) = <<S!Switch(FALSE)>>
    <3> DEFINE a == S!Event("off")
               b == S!Switch(FALSE)
    <3>1. op = <<a, b>>
      BY <1>5
    <3> HIDE DEF a, b
    <3>2. Head(op) = a /\ Tail(op) = <<b>>
      BY <3>1
    <3> QED BY <3>2 DEF a, b
  <2>2. Tail(op) \in Lists /\ "off" \in Happenings
    BY <2>1 DEF Lists, Happenings
  <2>3. Head(op).do # "erase"
    BY <2>1 DEF S!Event
  <2>4. t \in Images /\ t.blob = cache.blob /\ Grows(c, S!Chain(t.jour)) /\ (Gapless(cache) => Gapless(t) /\ GoesOff(t, Tail(op)))
    BY <1>3, <2>1, <2>2
  <2> QED BY <1>2, <2>2, <2>3, <2>4 DEF c
<1>6. CASE op = <<S!Switch(TRUE), S!Event("on")>>
  <2>1. /\ Head(op) = S!Switch(TRUE) /\ Tail(op) = <<S!Event("on")>> /\ Tail(op) \in Lists /\ Head(op).do = "switch"
        /\ Head(op).ev = "on" /\ S!Event("on") # S!Switch(FALSE)
    BY <1>6 DEF Lists, S!Switch, Happenings, S!Event
  <2>2. t = [cache EXCEPT !.on = TRUE]
    BY <2>1 DEF S!Target
  <2>3. t \in Images /\ t.jour = cache.jour /\ t.on /\ t.blob = cache.blob
    BY <1>1, <2>2 DEF Images
  <2>4. Gapless(t) /\ GoesOff(t, Tail(op))
    <3>1. Tail(op) # <<S!Switch(FALSE)>>
      BY <2>1, Rests
    <3> QED BY <2>3, <3>1 DEF Gapless, GoesOff
  <2> QED BY <1>2, <2>1, <2>3, <2>4 DEF c
<1>7. CASE op = <<S!Switch(FALSE)>>
  <2>1. /\ Head(op) = S!Switch(FALSE) /\ Tail(op) = <<>> /\ Tail(op) \in Lists /\ Head(op).do = "switch" /\ Head(op).ev = "off"
    BY <1>7 DEF Lists, S!Switch
  <2>2. t = [cache EXCEPT !.on = FALSE]
    BY <2>1 DEF S!Target
  <2>3. t \in Images /\ t.jour = cache.jour /\ ~t.on /\ t.blob = cache.blob
    BY <1>1, <2>2 DEF Images
  <2>4. Gapless(cache) /\ GoesOff(cache, op) => Gapless(t) /\ GoesOff(t, Tail(op))
    BY <1>7, <2>1, <2>3 DEF Gapless, GoesOff, SaysOff
  <2> QED BY <1>2, <2>1, <2>3, <2>4 DEF c
<1>8. CASE op = <<S!Scrub, S!Erase, S!Event("reset")>>
  <2>1. /\ Head(op) = S!Scrub /\ Tail(op) = <<S!Erase, S!Event("reset")>> /\ Tail(op) \in Lists /\ Head(op).do = "scrub"
        /\ Tail(op) # <<S!Switch(FALSE)>>
    BY <1>8 DEF Lists, S!Scrub
  <2> DEFINE j == S!Scrubbed(cache.jour)
  <2>2. t = [cache EXCEPT !.jour = j]
    BY <2>1 DEF S!Target
  <2>3. j \in Journals /\ S!Chain(j) = c
    BY <1>1, ScrubbedChain DEF c
  <2> HIDE DEF j
  <2>4. t \in Images /\ t.jour = j /\ t.on = cache.on /\ t.blob = cache.blob
    BY <1>1, <2>2, <2>3 DEF Images
  <2>5. Gapless(cache) => Gapless(t) /\ GoesOff(t, Tail(op))
    BY <2>1, <2>3, <2>4 DEF Gapless, GoesOff, SaysOff, c
  <2> QED BY <1>2, <2>1, <2>3, <2>4, <2>5 DEF c
<1>9. CASE op = <<S!Erase, S!Event("reset")>>
  <2>1. /\ Head(op) = S!Erase /\ Tail(op) = <<S!Event("reset")>> /\ Tail(op) \in Lists /\ Head(op).do = "erase"
        /\ S!Event("reset") # S!Switch(FALSE)
    BY <1>9 DEF Lists, S!Erase, Happenings, S!Event, S!Switch
  <2>2. t = [cache EXCEPT !.blob = S!NoBlob]
    BY <2>1 DEF S!Target
  <2>3. t \in Images /\ t.jour = cache.jour /\ t.on = cache.on /\ t.blob = S!NoBlob
    BY <1>1, <1>2, <2>2 DEF Images, S!NoBlob
  <2>4. Gapless(cache) => Gapless(t) /\ GoesOff(t, Tail(op))
    <3>1. Tail(op) # <<S!Switch(FALSE)>>
      BY <2>1, Rests
    <3> QED BY <2>3, <3>1 DEF Gapless, GoesOff, SaysOff
  <2> QED BY <1>2, <2>1, <2>3, <2>4 DEF c
<1> QED BY <1>1, <1>4, <1>5, <1>6, <1>7, <1>8, <1>9 DEF Lists

Histories ==
    [events : Nat, mishaps : Nat, signed : SUBSET Seq(Entries), kept : Nat, lost : BOOLEAN, failed : BOOLEAN]

\* The files new are written, and waited for if ok.
LEMMA PutKeeps ==
    ASSUME ServiceInv, NEW new \in Images, NEW ok \in BOOLEAN, S!Put(new, ok), op # <<>>,
           Grows(S!Chain(cache.jour), S!Chain(new.jour)), new.blob \in {cache.blob, S!NoBlob},
           op' \in Lists, lba' = lba,
           ~hist'.failed /\ Gapless(cache) /\ GoesOff(cache, op) => Gapless(new) /\ GoesOff(new, op')
    PROVE  ServiceInv'
<1> DEFINE c == S!Chain(cache.jour)
           f == S!Chain(flash.jour)
           n == S!Chain(new.jour)
<1>1. /\ cache' = new /\ flash' = IF ok THEN new ELSE flash
      /\ hist' = [hist EXCEPT !.kept = IF ok THEN Len(n) ELSE @, !.mishaps = IF ok THEN @ ELSE @ + 1,
                              !.failed = @ \/ (~ok /\ Head(op).do # "erase")]
  BY DEF S!Put
<1>2. /\ cache \in Images /\ flash \in Images /\ hist \in Histories /\ cache.jour \in Journals /\ flash.jour \in Journals
      /\ new.jour \in Journals
  BY DEF ServiceInv, ServiceTypes, Images, Histories
<1>3. c \in Seq(Entries) /\ f \in Seq(Entries) /\ n \in Seq(Entries) /\ Len(n) \in Nat
  BY <1>2, ChainTypes, LenProperties
<1> HIDE DEF n
<1>4. /\ hist' \in Histories /\ hist'.kept = (IF ok THEN Len(n) ELSE hist.kept) /\ hist'.lost = hist.lost
      /\ hist'.signed = hist.signed /\ (hist.failed => hist'.failed)
  <2> DEFINE d == Head(op).do # "erase"
  <2>1. hist' = [hist EXCEPT !.kept = IF ok THEN Len(n) ELSE hist.kept, !.mishaps = IF ok THEN hist.mishaps ELSE hist.mishaps + 1,
                              !.failed = hist.failed \/ (~ok /\ d)]
    BY <1>1
  <2>2. d \in BOOLEAN
    OBVIOUS
  <2> DEFINE k == IF ok THEN Len(n) ELSE hist.kept
             m == IF ok THEN hist.mishaps ELSE hist.mishaps + 1
             u == hist.failed \/ (~ok /\ d)
  <2>3. k \in Nat /\ m \in Nat /\ u \in BOOLEAN /\ (hist.failed => u)
    BY <1>2, <1>3, <2>2 DEF Histories
  <2>4. hist' = [hist EXCEPT !.kept = k, !.mishaps = m, !.failed = u]
    BY <2>1
  <2> HIDE DEF d, k, m, u
  <2>5. hist' \in Histories /\ hist'.kept = k /\ hist'.lost = hist.lost /\ hist'.signed = hist.signed /\ hist'.failed = u
    BY <1>2, <2>3, <2>4 DEF Histories
  <2> QED BY <2>3, <2>5 DEF k
<1>5. ServiceTypes'
  BY <1>1, <1>2, <1>4 DEF ServiceInv, ServiceTypes, Histories
<1>6. Chained'
  <2>1. Grows(c, n) /\ Grows(f, c) /\ Grows(f, n) /\ Grows(n, n)
    BY <1>3, GrowsTrans, GrowsSelf DEF ServiceInv, Chained, n
  <2>2. ~hist.lost => \A s \in hist.signed : Grows(s, n)
    BY <1>2, <1>3, <2>1, GrowsTrans DEF ServiceInv, Chained, Histories
  <2>3. S!Chain(cache'.jour) = n /\ S!Chain(flash'.jour) = IF ok THEN n ELSE f
    BY <1>1 DEF n
  <2>4. hist'.kept <= Len(S!Chain(flash'.jour))
    BY <1>3, <1>4, <2>3 DEF ServiceInv, Chained
  <2> QED BY <1>4, <2>1, <2>2, <2>3, <2>4 DEF Chained
<1>7. Said'
  BY <1>1, <1>4 DEF ServiceInv, Said
<1>8. Stored'
  BY <1>1 DEF ServiceInv, Stored, OneArray
<1> QED BY <1>5, <1>6, <1>7, <1>8 DEF ServiceInv

LEMMA JournalSteps == ASSUME ServiceInv, S!JournalStep PROVE ServiceInv'
<1> DEFINE t == S!Target(Head(op))
<1>1. /\ op # <<>> /\ op' = Tail(op) /\ lba' = lba
      /\ \/ t = cache /\ UNCHANGED <<cache, flash, hist>>
         \/ t # cache /\ Head(op).do = "erase" /\ cache' = t /\ UNCHANGED <<flash, hist>>
         \/ t # cache /\ S!Put(t, TRUE)
  BY DEF S!JournalStep
<1>2. /\ Tail(op) \in Lists /\ t \in Images
      /\ Grows(S!Chain(cache.jour), S!Chain(t.jour))
      /\ t.blob \in {cache.blob, S!NoBlob}
      /\ Gapless(cache) /\ GoesOff(cache, op) => Gapless(t) /\ GoesOff(t, Tail(op))
      /\ Head(op).do = "erase" => t.jour = cache.jour /\ t.on = cache.on /\ Tail(op) = <<S!Event("reset")>>
  BY <1>1, TargetKeeps DEF ServiceInv
<1> HIDE DEF t
<1>3. CASE t = cache /\ UNCHANGED <<cache, flash, hist>>
  BY <1>1, <1>2, <1>3 DEF ServiceInv, ServiceTypes, Chained, Said, Stored
<1>4. CASE Head(op).do = "erase" /\ cache' = t /\ UNCHANGED <<flash, hist>>
  <2>1. ServiceTypes'
    BY <1>1, <1>2, <1>4 DEF ServiceInv, ServiceTypes
  <2>2. Chained'
    BY <1>2, <1>4 DEF ServiceInv, Chained
  <2>3. Said'
    BY <1>1, <1>2, <1>4 DEF ServiceInv, Said
  <2>4. Stored'
    BY <1>2, <1>4 DEF ServiceInv, Stored, OneArray
  <2> QED BY <2>1, <2>2, <2>3, <2>4 DEF ServiceInv
<1>5. CASE S!Put(t, TRUE)
  BY <1>1, <1>2, <1>5, PutKeeps
<1> QED BY <1>1, <1>3, <1>4, <1>5

LEMMA JournalFaults == ASSUME ServiceInv, S!JournalFault PROVE ServiceInv'
<1> DEFINE t == S!Target(Head(op))
<1>1. /\ op # <<>> /\ op' = (IF Head(op).do = "event" THEN Tail(op) ELSE <<>>) /\ lba' = lba
      /\ \E new \in {cache, t} : S!Put(new, FALSE)
  BY DEF S!JournalFault
<1>2. /\ Tail(op) \in Lists /\ t \in Images
      /\ Grows(S!Chain(cache.jour), S!Chain(t.jour))
      /\ t.blob \in {cache.blob, S!NoBlob}
      /\ Head(op).do = "erase" => t.jour = cache.jour /\ t.on = cache.on /\ Tail(op) = <<S!Event("reset")>>
      /\ S!Chain(cache.jour) \in Seq(Entries)
  BY <1>1, TargetKeeps DEF ServiceInv
<1> HIDE DEF t
<1>3. Grows(S!Chain(cache.jour), S!Chain(cache.jour)) /\ cache \in Images /\ hist \in Histories
  BY <1>2, GrowsSelf DEF ServiceInv, ServiceTypes, Histories
<1>4. PICK new \in {cache, t} : S!Put(new, FALSE)
  BY <1>1
<1>5. ~hist'.failed => Head(op).do = "erase"
  <2> DEFINE d == Head(op).do = "erase"
  <2>1. hist' = [hist EXCEPT !.mishaps = hist.mishaps + 1, !.kept = hist.kept, !.failed = hist.failed \/ ~d]
    BY <1>4 DEF S!Put
  <2> HIDE DEF d
  <2>2. hist'.failed = (hist.failed \/ ~d)
    BY <1>3, <2>1 DEF Histories
  <2> QED BY <2>2 DEF d
<1>6. ~hist'.failed /\ Gapless(cache) /\ GoesOff(cache, op) => Gapless(new) /\ GoesOff(new, op')
  <2> SUFFICES ASSUME Head(op).do = "erase", Gapless(cache) PROVE Gapless(new) /\ GoesOff(new, op')
    BY <1>5
  <2>1. op' = <<>> /\ new.jour = cache.jour /\ new.on = cache.on
    BY <1>1, <1>2, <1>4
  <2> QED BY <2>1 DEF Gapless, GoesOff, SaysOff
<1>7. op' \in Lists /\ new \in Images /\ new.blob \in {cache.blob, S!NoBlob} /\ Grows(S!Chain(cache.jour), S!Chain(new.jour))
  BY <1>1, <1>2, <1>3, <1>4 DEF Lists
<1> QED BY <1>1, <1>4, <1>6, <1>7, PutKeeps

\* A command starts; its list does not switch off at once.
LEMMA BeginKeeps ==
    ASSUME ServiceInv, NEW q \in Lists, q # <<S!Switch(FALSE)>>, S!Begin(q),
           hist' \in Histories, hist'.kept = hist.kept, hist'.lost = hist.lost, hist'.failed = hist.failed,
           hist'.signed \subseteq hist.signed \cup {S!Chain(cache.jour)}
    PROVE  ServiceInv'
<1> DEFINE c == S!Chain(cache.jour)
<1>1. op' = q /\ UNCHANGED <<cache, flash, booted, lba>>
  BY DEF S!Begin
<1>2. c \in Seq(Entries) /\ Grows(c, c)
  BY ChainTypes, GrowsSelf DEF ServiceInv, ServiceTypes, Images
<1>3. ServiceTypes'
  BY <1>1 DEF ServiceInv, ServiceTypes, Histories
<1>4. Chained'
  BY <1>1, <1>2 DEF ServiceInv, Chained
<1>5. Said' /\ Stored'
  BY <1>1 DEF ServiceInv, Said, GoesOff, Stored
<1> QED BY <1>3, <1>4, <1>5 DEF ServiceInv

LEMMA OneBefore == ASSUME NEW x, NEW y, NEW z PROVE <<x>> \o <<y, z>> = <<x, y, z>>
<1> DEFINE A == {x, y, z}
           s == <<x>>
           t == <<y, z>>
           u == <<x, y, z>>
<1>1. s \in Seq(A) /\ t \in Seq(A) /\ u \in Seq(A) /\ Len(s) = 1 /\ Len(t) = 2 /\ Len(u) = 3
  OBVIOUS
<1>2. s[1] = x /\ t[1] = y /\ t[2] = z /\ u[1] = x /\ u[2] = y /\ u[3] = z
  OBVIOUS
<1> HIDE DEF A, s, t, u
<1>3. s \o t \in Seq(A) /\ Len(s \o t) = 3 /\ (s \o t)[1] = x /\ (s \o t)[2] = y /\ (s \o t)[3] = z
  <2>1. /\ s \o t \in Seq(A) /\ Len(s \o t) = Len(s) + Len(t)
        /\ \A i \in 1 .. Len(s) + Len(t) : (s \o t)[i] = IF i <= Len(s) THEN s[i] ELSE t[i - Len(s)]
    BY <1>1, ConcatProperties
  <2>2. Len(s) + Len(t) = 3 /\ 1 \in 1 .. 3 /\ 2 \in 1 .. 3 /\ 3 \in 1 .. 3
    BY <1>1
  <2> QED BY <1>1, <1>2, <2>1, <2>2
<1>4. s \o t = u
  BY <1>1, <1>2, <1>3, SeqEqual
<1> QED BY <1>4 DEF s, t, u

LEMMA ServiceCommands ==
    ASSUME ServiceInv,
           \/ S!Checkpoint \/ S!ResetCommand
           \/ \E e \in {"assert", "silent", "config"} : S!Report(e)
           \/ \E on \in BOOLEAN : S!SetEnabled(on)
    PROVE  ServiceInv'
<1>1. hist \in Histories /\ S!Chain(cache.jour) \in Seq(Entries)
  BY ChainTypes DEF ServiceInv, ServiceTypes, Histories, Images
<1>2. ASSUME hist' = [hist EXCEPT !.events = @ + 1]
      PROVE  /\ hist' \in Histories /\ hist'.kept = hist.kept /\ hist'.lost = hist.lost /\ hist'.failed = hist.failed
             /\ hist'.signed = hist.signed
  BY <1>1, <1>2 DEF Histories
<1>3. CASE S!Checkpoint
  <2> DEFINE q == <<S!Event("checkpoint")>>
             g == hist.signed \cup {S!Chain(cache.jour)}
  <2>1. S!Begin(q) /\ hist' = [hist EXCEPT !.events = @ + 1, !.signed = g]
    BY <1>3 DEF S!Checkpoint
  <2>2. g \in SUBSET Seq(Entries) /\ q \in Lists /\ S!Event("checkpoint") # S!Switch(FALSE)
    BY <1>1 DEF Histories, Lists, Happenings, S!Event, S!Switch
  <2>3. q # <<S!Switch(FALSE)>>
    BY <2>2, Rests
  <2> HIDE DEF q, g
  <2>4. /\ hist' \in Histories /\ hist'.kept = hist.kept /\ hist'.lost = hist.lost /\ hist'.failed = hist.failed
        /\ hist'.signed = g
    <3>1. hist' = [hist EXCEPT !.events = hist.events + 1, !.signed = g] /\ g \in SUBSET Seq(Entries)
      BY <2>1, <2>2
    <3>2. hist.events + 1 \in Nat
      BY <1>1 DEF Histories
    <3> DEFINE n == hist.events + 1
    <3> HIDE DEF n
    <3>3. hist' = [hist EXCEPT !.events = n, !.signed = g]
      BY <3>1 DEF n
    <3>4. n \in Nat
      BY <3>2 DEF n
    <3>5. hist' \in Histories
      BY <1>1, <3>1, <3>3, <3>4 DEF Histories
    <3> QED BY <1>1, <3>3, <3>5 DEF Histories
  <2> QED BY <2>1, <2>2, <2>3, <2>4, BeginKeeps DEF g
<1>4. CASE S!ResetCommand
  <2>1. S!Begin(S!ResetSteps) /\ hist' = [hist EXCEPT !.events = @ + 1]
    BY <1>4 DEF S!ResetCommand
  <2>2. S!ResetSteps \in {<<S!Erase, S!Event("reset")>>, <<S!Scrub, S!Erase, S!Event("reset")>>}
    <3>1. <<>> \o <<S!Erase, S!Event("reset")>> = <<S!Erase, S!Event("reset")>>
      OBVIOUS
    <3>2. <<S!Scrub>> \o <<S!Erase, S!Event("reset")>> = <<S!Scrub, S!Erase, S!Event("reset")>>
      BY OneBefore
    <3>3. S!ResetSteps = <<>> \o <<S!Erase, S!Event("reset")>> \/ S!ResetSteps = <<S!Scrub>> \o <<S!Erase, S!Event("reset")>>
      BY DEF S!ResetSteps
    <3> QED BY <3>1, <3>2, <3>3
  <2>3. S!ResetSteps \in Lists
    BY <2>2 DEF Lists
  <2>4. S!ResetSteps # <<S!Switch(FALSE)>>
    <3>1. <<S!Erase, S!Event("reset")>> # <<S!Switch(FALSE)>>
      OBVIOUS
    <3>2. <<S!Scrub, S!Erase, S!Event("reset")>> # <<S!Switch(FALSE)>>
      OBVIOUS
    <3> QED BY <2>2, <3>1, <3>2
  <2> QED BY <1>2, <2>1, <2>3, <2>4, BeginKeeps
<1>5. ASSUME NEW e \in {"assert", "silent", "config"}, S!Report(e) PROVE ServiceInv'
  <2> DEFINE q == <<S!Event(e)>>
  <2>1. S!Begin(q) /\ hist' = [hist EXCEPT !.events = @ + 1]
    BY <1>5 DEF S!Report
  <2>2. q \in Lists /\ S!Event(e) # S!Switch(FALSE)
    BY DEF Lists, Happenings, S!Event, S!Switch
  <2>3. q # <<S!Switch(FALSE)>>
    BY <2>2, Rests
  <2> HIDE DEF q
  <2> QED BY <1>2, <2>1, <2>2, <2>3, BeginKeeps
<1>6. ASSUME NEW on \in BOOLEAN, S!SetEnabled(on) PROVE ServiceInv'
  <2>1. S!Begin(S!SwitchSteps(on)) /\ hist' = [hist EXCEPT !.events = @ + 1]
    BY <1>6 DEF S!SetEnabled
  <2>2. S!SwitchSteps(on) \in {<<S!Switch(TRUE), S!Event("on")>>, <<S!Event("off"), S!Switch(FALSE)>>}
    BY DEF S!SwitchSteps
  <2>3. S!SwitchSteps(on) \in Lists
    BY <2>2 DEF Lists
  <2>4. S!SwitchSteps(on) # <<S!Switch(FALSE)>>
    <3>1. <<S!Switch(TRUE), S!Event("on")>> # <<S!Switch(FALSE)>>
      OBVIOUS
    <3>2. <<S!Event("off"), S!Switch(FALSE)>> # <<S!Switch(FALSE)>>
      OBVIOUS
    <3> QED BY <2>2, <3>1, <3>2
  <2> QED BY <1>2, <2>1, <2>3, <2>4, BeginKeeps
<1> QED BY <1>3, <1>4, <1>5, <1>6

LEMMA ServiceDrain == ASSUME ServiceInv, S!Drain PROVE ServiceInv'
<1> DEFINE c == S!Chain(cache.jour)
<1>1. flash' = cache /\ hist' = [hist EXCEPT !.kept = Len(c)] /\ UNCHANGED <<cache, booted, op, lba>>
  BY DEF S!Drain
<1>2. c \in Seq(Entries) /\ Grows(c, c) /\ Len(c) \in Nat
  BY ChainTypes, GrowsSelf, LenProperties DEF ServiceInv, ServiceTypes, Images
<1> HIDE DEF c
<1>3. /\ hist' \in Histories /\ hist'.kept = Len(c) /\ hist'.lost = hist.lost /\ hist'.failed = hist.failed
      /\ hist'.signed = hist.signed
  BY <1>1, <1>2 DEF ServiceInv, ServiceTypes, Histories
<1>4. ServiceTypes'
  BY <1>1, <1>3 DEF ServiceInv, ServiceTypes, Histories
<1>5. Chained'
  BY <1>1, <1>2, <1>3 DEF ServiceInv, Chained, c
<1>6. Said' /\ Stored'
  BY <1>1, <1>3 DEF ServiceInv, Said, Stored
<1> QED BY <1>4, <1>5, <1>6 DEF ServiceInv

LEMMA ServiceLoss == ASSUME ServiceInv, S!PowerLoss PROVE ServiceInv'
<1> DEFINE f == S!Chain(flash.jour)
           b == hist.lost \/ cache.jour # flash.jour
<1>1. /\ cache' = flash /\ flash' = flash /\ op' = <<>> /\ lba' = S!NoTransfer
      /\ hist' = [hist EXCEPT !.mishaps = @ + 1, !.lost = b]
  BY DEF S!PowerLoss
<1>2. f \in Seq(Entries) /\ Grows(f, f)
  BY ChainTypes, GrowsSelf DEF ServiceInv, ServiceTypes, Images
<1>3. b \in BOOLEAN /\ (~b => ~hist.lost /\ cache.jour = flash.jour)
  BY DEF ServiceInv, ServiceTypes
<1> HIDE DEF b
<1>0. hist \in Histories
  BY DEF ServiceInv, ServiceTypes, Histories
<1>4. /\ hist' \in Histories /\ hist'.kept = hist.kept /\ hist'.lost = b /\ hist'.failed = hist.failed
      /\ hist'.signed = hist.signed
  <2>1. hist' = [hist EXCEPT !.mishaps = hist.mishaps + 1, !.lost = b]
    BY <1>1
  <2>2. hist.mishaps + 1 \in Nat /\ b \in BOOLEAN
    BY <1>0, <1>3 DEF Histories
  <2> DEFINE m == hist.mishaps + 1
  <2> HIDE DEF m
  <2>3. hist' = [hist EXCEPT !.mishaps = m, !.lost = b]
    BY <2>1 DEF m
  <2>4. m \in Nat
    BY <2>2 DEF m
  <2>5. hist' \in Histories
    BY <1>0, <2>2, <2>3, <2>4 DEF Histories
  <2> QED BY <1>0, <2>3, <2>5 DEF Histories
<1>5. <<>> \in Lists /\ <<>> # <<S!Switch(FALSE)>>
  BY DEF Lists
<1>6. lba' \in [len : {0, Fragments}, buf : Seq(Blobs)] /\ Len(lba'.buf) <= lba'.len
  BY <1>1 DEF S!NoTransfer
<1>7. ServiceTypes'
  BY <1>1, <1>4, <1>5, <1>6 DEF ServiceInv, ServiceTypes, Histories
<1>8. Chained'
  BY <1>1, <1>2, <1>3, <1>4 DEF ServiceInv, Chained
<1>9. Said' /\ Stored'
  BY <1>1, <1>4, <1>5 DEF ServiceInv, Said, GoesOff, Stored
<1> QED BY <1>7, <1>8, <1>9 DEF ServiceInv

LEMMA ServiceTick == ASSUME ServiceInv, S!Tick PROVE ServiceInv'
<1>1. lba' = S!NoTransfer /\ UNCHANGED <<cache, flash, booted, op, hist>>
  BY DEF S!Tick
<1>2. lba' \in [len : {0, Fragments}, buf : Seq(Blobs)] /\ Len(lba'.buf) <= lba'.len
  BY <1>1 DEF S!NoTransfer
<1> QED BY <1>1, <1>2 DEF ServiceInv, ServiceTypes, Chained, Said, Stored

\* An array whose fragments fit together is one that a client wrote.
LEMMA IntactIsOne ==
    ASSUME NEW buf \in Seq(Blobs), Len(buf) = Fragments, S!Intact(buf)
    PROVE  OneArray(buf)
<1>1. DOMAIN buf = 1 .. Fragments /\ buf \in [1 .. Fragments -> Blobs] /\ 1 \in 1 .. Fragments
  BY LenProperties, ServicesConstants DEF S!ConstantTypes
<1>2. \A i \in 1 .. Fragments : buf[i] = buf[1]
  BY <1>1 DEF S!Intact
<1>3. buf[1] \in Blobs /\ buf = [i \in 1 .. Fragments |-> buf[1]]
  BY <1>1, <1>2
<1> QED BY <1>3 DEF OneArray

LEMMA ServiceFragment ==
    ASSUME ServiceInv, NEW b \in Blobs, NEW i \in 1 .. Fragments, NEW a \in BOOLEAN, S!SetFragment(b, i, a)
    PROVE  ServiceInv'
<1> DEFINE t == S!Restarted(i)
           accepted == a /\ i = Len(t.buf) + 1 /\ i <= t.len
           full == [t EXCEPT !.buf = Append(@, b)]
           done == accepted /\ i = t.len /\ S!Intact(full.buf)
<1>1. /\ lba' = (IF done THEN S!NoTransfer ELSE IF accepted THEN full ELSE t)
      /\ cache' = (IF done THEN [cache EXCEPT !.blob = full.buf] ELSE cache)
      /\ UNCHANGED <<flash, booted, op, hist>>
  BY DEF S!SetFragment
<1>2. Fragments \in Nat \ {0}
  BY ServicesConstants DEF S!ConstantTypes
<1>3. t \in [len : {0, Fragments}, buf : Seq(Blobs)] /\ Len(t.buf) <= t.len
  BY <1>2 DEF ServiceInv, ServiceTypes, S!Restarted
<1>4. PICK l \in {0, Fragments}, u \in Seq(Blobs) : t = [len |-> l, buf |-> u] /\ Len(u) <= l
  BY <1>3
<1>5. accepted <=> a /\ i = Len(u) + 1 /\ i <= l
  BY <1>4
<1>6. full = [len |-> l, buf |-> Append(u, b)] /\ full.buf = Append(u, b)
  <2> HIDE DEF t
  <2>1. full = [len |-> t.len, buf |-> Append(t.buf, b)]
    <3> DEFINE v == Append(t.buf, b)
    <3>1. full = [t EXCEPT !.buf = v]
      OBVIOUS
    <3> HIDE DEF v, full
    <3>2. full = [len |-> t.len, buf |-> v]
      BY <1>3, <3>1
    <3> QED BY <3>2 DEF v
  <2> HIDE DEF full
  <2> QED BY <1>4, <2>1
<1>7. done => Append(u, b) \in Seq(Blobs) /\ OneArray(Append(u, b))
  <2> SUFFICES ASSUME accepted, i = l, S!Intact(Append(u, b)) PROVE Append(u, b) \in Seq(Blobs) /\ OneArray(Append(u, b))
    BY <1>4, <1>6
  <2>1. Append(u, b) \in Seq(Blobs) /\ Len(Append(u, b)) = Len(u) + 1
    BY AppendProperties
  <2>2. l = Fragments
    BY <1>2
  <2> QED BY <1>5, <2>1, <2>2, IntactIsOne
<1>8. accepted => full \in [len : {0, Fragments}, buf : Seq(Blobs)] /\ Len(full.buf) <= full.len
  <2>1. Append(u, b) \in Seq(Blobs) /\ Len(Append(u, b)) = Len(u) + 1
    BY AppendProperties
  <2> QED BY <1>5, <1>6, <2>1
<1> HIDE DEF t, accepted, full, done
<1>9. lba' \in [len : {0, Fragments}, buf : Seq(Blobs)] /\ Len(lba'.buf) <= lba'.len
  <2>1. S!NoTransfer \in [len : {0, Fragments}, buf : Seq(Blobs)] /\ Len(S!NoTransfer.buf) <= S!NoTransfer.len
    BY DEF S!NoTransfer
  <2> QED BY <1>1, <1>3, <1>8, <2>1
<1>10. cache' \in Images /\ cache'.jour = cache.jour /\ cache'.on = cache.on /\ OneArray(cache'.blob)
  <2>1. cache \in Images /\ OneArray(cache.blob)
    BY DEF ServiceInv, ServiceTypes, Stored
  <2>2. CASE done
    <3>1. cache' = [cache EXCEPT !.blob = Append(u, b)] /\ Append(u, b) \in Seq(Blobs) /\ OneArray(Append(u, b))
      BY <1>1, <1>6, <1>7, <2>2
    <3> QED BY <2>1, <3>1 DEF Images
  <2>3. CASE ~done
    BY <1>1, <2>1, <2>3
  <2> QED BY <2>2, <2>3
<1>11. ServiceTypes'
  BY <1>1, <1>9, <1>10 DEF ServiceInv, ServiceTypes
<1>12. Chained' /\ Said' /\ Stored'
  BY <1>1, <1>10 DEF ServiceInv, Chained, Said, Gapless, GoesOff, SaysOff, Stored
<1> QED BY <1>11, <1>12 DEF ServiceInv

LEMMA ServiceInit == S!Init => ServiceInv
<1> SUFFICES ASSUME S!Init PROVE ServiceInv
  OBVIOUS
<1>1. /\ cache = [jour |-> S!NoJournal, on |-> FALSE, blob |-> S!NoBlob] /\ flash = cache /\ op = <<>>
      /\ lba = S!NoTransfer
      /\ hist = [events |-> 0, mishaps |-> 0, signed |-> {}, kept |-> 0, lost |-> FALSE, failed |-> FALSE]
  BY DEF S!Init
<1>2. S!NoJournal \in Journals /\ S!Chain(S!NoJournal) = <<>> /\ S!NoBlob \in Seq(Blobs)
  BY EmptySeq, ConcatEmptySeq DEF S!NoJournal, Journals, S!Chain, S!NoBlob
<1>3. ServiceTypes
  BY <1>1, <1>2 DEF ServiceTypes, Images, Lists, S!NoTransfer
<1>4. Chained
  BY <1>1, <1>2 DEF Chained, Grows
<1>5. Said /\ Stored
  BY <1>1, <1>2 DEF Said, Gapless, GoesOff, Stored, OneArray
<1> QED BY <1>3, <1>4, <1>5 DEF ServiceInv

LEMMA ServiceNext == ASSUME ServiceInv, S!Next PROVE ServiceInv'
BY JournalSteps, JournalFaults, ServiceCommands, ServiceTick, ServiceDrain, ServiceLoss, ServiceFragment DEF S!Next

\* A head of the audit journal that was signed is a prefix of the chain of entries, entries that were
\* waited for survive a power loss, a journal that is off ends with the entry that says so, and the
\* large-blob file is one array (append, audit_scrub and put in audit.c, cbor_large_blobs.c).
THEOREM ServicesHold == Spec => []ServicesKept
<1> DEFINE I == part = "services" => ServiceInv
<1>1. Init => I
  BY ServiceInit DEF Init
<1>2. I /\ [Next]_vars => I'
  <2>1. CASE Next
    BY <2>1, ServiceNext DEF Next
  <2>2. ServiceInv /\ UNCHANGED <<cache, flash, op, lba, hist>> => ServiceInv'
    BY DEF ServiceInv, ServiceTypes, Chained, Said, Stored
  <2>3. CASE UNCHANGED vars
    BY <2>2, <2>3 DEF vars, services
  <2> QED BY <2>1, <2>3
<1>3. I => ServicesKept
  <2> SUFFICES ASSUME ServiceInv PROVE S!CheckpointsHold /\ S!GapsMarked /\ S!BlobWhole
    BY DEF ServicesKept
  <2>1. S!Chain(cache.jour) \in Seq(Entries) /\ S!Chain(flash.jour) \in Seq(Entries) /\ hist.signed \subseteq Seq(Entries)
        /\ hist.kept \in Nat /\ Len(S!Chain(flash.jour)) \in Nat
    BY ChainTypes, LenProperties DEF ServiceInv, ServiceTypes, Images
  <2>2. \A s \in hist.signed : ~hist.lost => S!IsPrefix(S!Events(s), S!Events(S!Chain(cache.jour)))
    BY <2>1, GrowsIsPrefix DEF ServiceInv, Chained
  <2>3. S!IsPrefix(S!Events(S!Chain(flash.jour)), S!Events(S!Chain(cache.jour)))
    BY <2>1, GrowsIsPrefix DEF ServiceInv, Chained
  <2>4. S!CheckpointsHold
    BY <2>1, <2>2, <2>3 DEF S!CheckpointsHold, ServiceInv, Chained
  <2>5. S!GapsMarked
    BY DEF S!GapsMarked, ServiceInv, Said, Gapless, SaysOff
  <2>6. S!BlobWhole
    BY DEF S!BlobWhole, ServiceInv, Stored, OneArray
  <2> QED BY <2>4, <2>5, <2>6
<1> QED BY <1>1, <1>2, <1>3, PTL DEF Spec

-----------------------------------------------------------------------------
(* Oath: sequences of the slots *)

LEMMA CardIs == ASSUME NEW X PROVE O!Cardinality(X) = Cardinality(X) /\ (O!IsFiniteSet(X) <=> IsFiniteSet(X))
<1>1. O!Cardinality(X) = Cardinality(X)
  BY Zenon DEF O!Cardinality, Cardinality, O!IsFiniteSet, IsFiniteSet
<1>2. O!IsFiniteSet(X) <=> IsFiniteSet(X)
  BY Zenon DEF O!IsFiniteSet, IsFiniteSet
<1> QED BY <1>1, <1>2

LEMMA SetToSeqIs ==
    ASSUME NEW X, IsFiniteSet(X), NEW q, q = O!SetToSeq(X)
    PROVE  q \in [1 .. Cardinality(X) -> X] /\ Cardinality(X) \in Nat /\ q \in Seq(X) /\ Len(q) = Cardinality(X)
<1>1. Cardinality(X) \in Nat /\ ExistsBijection(1 .. Cardinality(X), X)
  BY FS_CardinalityType
<1>2. PICK f \in Bijection(1 .. Cardinality(X), X) : TRUE
  BY <1>1 DEF ExistsBijection
<1>3. f \in [1 .. Cardinality(X) -> X] /\ IsInjective(f)
  BY <1>2 DEF Bijection, Injection
<1>4. q = CHOOSE g \in [1 .. Cardinality(X) -> X] : IsInjective(g)
  BY CardIs DEF O!SetToSeq, O!IsInjective, IsInjective
<1>5. q \in [1 .. Cardinality(X) -> X]
  BY <1>3, <1>4
<1>6. q \in Seq(X) /\ Len(q) = Cardinality(X)
  BY <1>1, <1>5
<1> QED BY <1>1, <1>5, <1>6

-----------------------------------------------------------------------------
(* Oath: the invariant *)

OathFiles == [cred : [Slots -> O!Creds \cup {None}], code : BOOLEAN, guarded : BOOLEAN, pin : O!Pins \cup {None}]
OathPcs == {"idle", "write", "selected", "resetdone", "listed", "touch", "advance", "code", "compare", "verified", "changed"}
Items(q) == {q[i] : i \in 1 .. Len(q)}

OathOp ==
    op = [pc |-> op.pc, cmd |-> op.cmd, todo |-> op.todo, then |-> op.then, slot |-> op.slot, got |-> op.got,
          code |-> op.code]
OathHist ==
    /\ hist = [host |-> hist.host, creds |-> hist.creds, pins |-> hist.pins, cmds |-> hist.cmds,
               mishaps |-> hist.mishaps, issued |-> hist.issued, settled |-> hist.settled, wrong |-> hist.wrong,
               torn |-> hist.torn]
    /\ hist.creds \in Nat /\ hist.pins \in 0 .. MaxPins /\ hist.wrong \in [1 .. MaxPins -> Nat]
    /\ hist.issued \subseteq (0 .. hist.creds) \X Nat /\ hist.settled \subseteq hist.issued

OathTypes ==
    /\ cache \in OathFiles /\ flash \in OathFiles /\ OathOp /\ OathHist
    /\ op.pc \in OathPcs /\ (op.pc = "idle" => op = O!Idle)
    /\ op.pc \in {"touch", "advance"} => op.slot \in Slots /\ cache.cred[op.slot] # None

\* The tries that are left and the wrong values since the last right one make up all the tries; the
\* PIN that is being compared has one more, which is spent in the flash too.
Left(f) == f.pin # None => f.pin.n <= hist.pins /\ hist.wrong[f.pin.n] + f.pin.tries <= MaxTries
Guesses ==
    /\ Left(cache) /\ Left(flash)
    /\ \A p \in 1 .. MaxPins : hist.wrong[p] <= MaxTries /\ (p > hist.pins => hist.wrong[p] = 0)
    /\ op.pc = "compare" =>
          /\ cache.pin # None /\ flash.pin = cache.pin
          /\ hist.wrong[cache.pin.n] + cache.pin.tries + 1 <= MaxTries

\* The counter of a credential is past every code that was given; no two have one id.
Past(f, codes) ==
    \A s \in Slots : f.cred[s] # None =>
        /\ f.cred[s].id <= hist.creds
        /\ \A k \in Nat : <<f.cred[s].id, k>> \in codes => k < f.cred[s].ctr
Single(f) == \A s, t \in Slots : f.cred[s] # None /\ f.cred[t] # None /\ f.cred[s].id = f.cred[t].id => s = t
Counts ==
    /\ Past(cache, hist.issued) /\ Past(flash, hist.settled) /\ Single(cache) /\ Single(flash)
    /\ op.pc = "code" =>
          \E id \in 0 .. hist.creds, k \in Nat :
              /\ op.code = <<id, k>> /\ op.code \notin hist.issued
              /\ \A s \in Slots : cache.cred[s] # None /\ cache.cred[s].id = id => k < cache.cred[s].ctr

\* What a handler has still to write: a try that is spent, a PIN that was not guessed at yet, a new
\* credential, one that keeps its counter, or one whose counter goes on
WriteTypes(w) ==
    /\ w.f \in {"cred", "code", "guarded", "pin"} /\ w.sync \in BOOLEAN
    /\ w.f = "cred" => w.v \in O!Creds \cup {None}
    /\ w.f \in {"code", "guarded"} => w.v \in BOOLEAN
    /\ w.f = "pin" => w.v \in O!Pins \cup {None}
    /\ w.sync => w.f = "pin" /\ w.v # None
PinWrite(w) ==
    /\ w.sync => Len(op.todo) = 1 /\ op.then = "compare" /\ op.cmd # "reset"
    /\ w.f = "pin" /\ w.v # None =>
          w.v.n <= hist.pins /\ hist.wrong[w.v.n] + (IF w.sync THEN w.v.tries + 1 ELSE 0) <= MaxTries
          /\ (~w.sync => hist.wrong[w.v.n] = 0)
NewCred(w) ==
    /\ op.cmd = "put" /\ Len(op.todo) = 1 /\ w.v.id = hist.creds
    /\ \A s \in Slots : cache.cred[s] # None => cache.cred[s].id # w.v.id
    /\ \A k \in Nat : <<w.v.id, k>> \notin hist.issued
SameCred(w) ==
    /\ op.cmd \in {"select", "rename"} /\ w.at \in Slots /\ cache.cred[w.at] # None
    /\ w.v.id = cache.cred[w.at].id /\ w.v.ctr = cache.cred[w.at].ctr
NextCred(w) ==
    /\ op.cmd = "calculate" /\ Len(op.todo) = 1 /\ op.then = "code" /\ w.at \in Slots /\ cache.cred[w.at] # None
    /\ w.v.id = cache.cred[w.at].id /\ w.v.ctr = cache.cred[w.at].ctr + 1
    /\ op.code = <<cache.cred[w.at].id, cache.cred[w.at].ctr>>
CredWrite(w) ==
    w.f = "cred" => IF w.v = None THEN op.cmd \in {"delete", "reset"} ELSE NewCred(w) \/ SameCred(w) \/ NextCred(w)
Todo ==
    op.pc = "write" =>
        /\ op.todo \in Seq(Items(op.todo)) /\ op.todo # <<>>
        /\ op.then \in OathPcs \ {"write", "listed", "touch", "advance"}
        /\ \A w \in Items(op.todo) : WriteTypes(w) /\ PinWrite(w) /\ CredWrite(w)
        /\ op.then = "compare" => \A w \in Items(op.todo) : w.sync
        /\ op.then = "code" => op.cmd = "calculate" /\ \A w \in Items(op.todo) : w.f = "cred"

OathInv == OathTypes /\ Guesses /\ Counts /\ Todo

-----------------------------------------------------------------------------
(* Oath: its operators *)

LEMMA ItemsIs ==
    ASSUME NEW W, NEW q \in Seq(W)
    PROVE  /\ q \in Seq(Items(q)) /\ Items(q) \subseteq W
           /\ q # <<>> => Head(q) \in Items(q)
           /\ q # <<>> => Tail(q) \in Seq(Items(Tail(q))) /\ Items(Tail(q)) \subseteq Items(q)
           /\ Len(q) > 1 => Tail(q) # <<>> /\ q # <<>>
           /\ Len(q) = 1 => \A w \in Items(q) : w = Head(q)
           /\ q # <<>> => Len(q) \in Nat \ {0}
<1>1. \A p \in Seq(W) : p \in Seq(Items(p)) /\ Items(p) \subseteq W /\ Len(p) \in Nat
  BY DEF Items
<1>2. ASSUME q # <<>> PROVE Head(q) \in Items(q) /\ Len(q) \in Nat \ {0} /\ Head(q) = q[1]
  BY <1>2 DEF Items
<1>3. ASSUME q # <<>> PROVE Tail(q) \in Seq(W) /\ Items(Tail(q)) \subseteq Items(q) /\ Len(Tail(q)) = Len(q) - 1
  <2>1. Tail(q) \in Seq(W) /\ Len(Tail(q)) = Len(q) - 1 /\ \A i \in 1 .. Len(Tail(q)) : Tail(q)[i] = q[i + 1]
    BY <1>3, HeadTailProperties
  <2>2. \A i \in 1 .. Len(Tail(q)) : i + 1 \in 1 .. Len(q)
    BY <1>1, <2>1
  <2> QED BY <2>1, <2>2 DEF Items
<1>4. Len(q) > 1 => Tail(q) # <<>> /\ q # <<>>
  <2> SUFFICES ASSUME Len(q) > 1 PROVE Tail(q) # <<>> /\ q # <<>>
    OBVIOUS
  <2>1. q # <<>>
    OBVIOUS
  <2>2. Len(Tail(q)) = Len(q) - 1
    BY <1>3, <2>1
  <2> QED BY <1>1, <2>1, <2>2
<1>5. Len(q) = 1 => \A w \in Items(q) : w = Head(q)
  <2> SUFFICES ASSUME Len(q) = 1, NEW w \in Items(q) PROVE w = Head(q)
    OBVIOUS
  <2>1. q # <<>>
    OBVIOUS
  <2>2. PICK i \in 1 .. Len(q) : w = q[i]
    BY DEF Items
  <2> QED BY <1>2, <2>1, <2>2
<1> QED BY <1>1, <1>2, <1>3, <1>4, <1>5

LEMMA OathNumbers ==
    /\ IsFiniteSet(Slots) /\ Slots \subseteq Nat /\ MaxTries \in Nat /\ MaxPins \in Nat
    /\ None \notin Slots /\ None \notin O!Pins /\ None \notin O!Creds
BY OathConstants, CardIs DEF O!ConstantTypes

\* A slot, or the first one
LEMMA LowestIs ==
    ASSUME NEW X \in SUBSET Slots, X # {}
    PROVE  O!Lowest(X) \in X
<1> DEFINE R == OpToRel(<, Nat)
<1>1. X \subseteq Nat
  BY OathNumbers
<1>2. IsWellFoundedOn(R, Nat)
  BY NatLessThanWellFounded
<1>3. \A s, t \in Nat : t < s => <<t, s>> \in R
  BY DEF OpToRel
<1> HIDE DEF R
<1>4. PICK s \in X : \A t \in X : ~(<<t, s>> \in R)
  BY <1>1, <1>2, WFMin, Zenon
<1>5. ASSUME NEW t \in X PROVE s <= t
  <2>1. s \in Nat /\ t \in Nat
    BY <1>1
  <2>2. ~(t < s)
    BY <1>3, <1>4, <2>1
  <2> QED BY <2>1, <2>2
<1> QED BY <1>5 DEF O!Lowest

LEMMA OathAppliedIs ==
    ASSUME NEW c \in OathFiles, NEW w, WriteTypes(w), NEW g, g = O!Applied(c, w)
    PROVE  /\ g \in OathFiles
           /\ w.f = "cred" => \A s \in Slots : g.cred[s] = IF s = w.at THEN w.v ELSE c.cred[s]
           /\ w.f # "cred" => g.cred = c.cred
           /\ g.pin = IF w.f = "pin" THEN w.v ELSE c.pin
<1>1. CASE w.f = "cred"
  <2> DEFINE cred == [c.cred EXCEPT ![w.at] = w.v]
  <2>1. g = [c EXCEPT !.cred = cred]
    BY <1>1 DEF O!Applied, OathFiles
  <2>2. cred \in [Slots -> O!Creds \cup {None}] /\ \A s \in Slots : cred[s] = IF s = w.at THEN w.v ELSE c.cred[s]
    BY <1>1 DEF WriteTypes, OathFiles
  <2> HIDE DEF cred
  <2> QED BY <1>1, <2>1, <2>2 DEF OathFiles
<1>2. CASE w.f = "pin"
  <2>1. g = [c EXCEPT !.pin = w.v]
    BY <1>2 DEF O!Applied, OathFiles
  <2> QED BY <1>2, <2>1 DEF OathFiles, WriteTypes
<1>3. CASE w.f = "code"
  <2>1. g = [c EXCEPT !.code = w.v]
    BY <1>3 DEF O!Applied, OathFiles
  <2> QED BY <1>3, <2>1 DEF OathFiles, WriteTypes
<1>4. CASE w.f = "guarded"
  <2>1. g = [c EXCEPT !.guarded = w.v]
    BY <1>4 DEF O!Applied, OathFiles
  <2> QED BY <1>4, <2>1 DEF OathFiles, WriteTypes
<1> QED BY <1>1, <1>2, <1>3, <1>4 DEF WriteTypes

\* What a handler that begins leaves in op
LEMMA RunIs ==
    ASSUME NEW name, NEW W, NEW q \in Seq(W), NEW then, op' = O!Run(name, q, then)
    PROVE  /\ OathOp' /\ op'.cmd = name /\ op'.todo = q /\ op'.then = then
           /\ op'.pc = IF q = <<>> THEN then ELSE "write"
BY DEF O!Run, O!Idle, OathOp

\* What is left to do after the first write
LEMMA RestIs ==
    ASSUME OathTypes, Todo, op.pc = "write", op' = O!Rest
    PROVE  /\ OathOp' /\ op'.pc \in OathPcs \ {"touch", "advance"} /\ (op'.pc = "idle" => op' = O!Idle)
           /\ op'.pc = "write" => Len(op.todo) > 1 /\ op'.todo = Tail(op.todo) /\ op'.cmd = op.cmd /\ op'.then = op.then
           /\ op'.pc \in {"code", "compare"} => Len(op.todo) = 1 /\ op.then = op'.pc /\ op'.code = op.code
<1>1. /\ op.todo \in Seq(Items(op.todo)) /\ op.todo # <<>>
      /\ op.then \in OathPcs \ {"write", "listed", "touch", "advance"} /\ OathOp
  BY DEF OathTypes, Todo
<1>2. Len(op.todo) \in Nat \ {0}
  BY <1>1, ItemsIs
<1>3. CASE Len(op.todo) > 1
  <2>1. op' = [op EXCEPT !.todo = Tail(@)]
    BY <1>3 DEF O!Rest
  <2> QED BY <1>1, <1>3, <2>1 DEF OathOp, OathPcs
<1>4. CASE Len(op.todo) = 1 /\ op.then = "idle"
  <2>1. op' = O!Idle
    BY <1>4 DEF O!Rest
  <2> QED BY <2>1 DEF O!Idle, OathOp, OathPcs
<1>5. CASE Len(op.todo) = 1 /\ op.then # "idle"
  <2>1. op' = [op EXCEPT !.todo = <<>>, !.pc = op.then]
    BY <1>5 DEF O!Rest
  <2> QED BY <1>1, <1>5, <2>1 DEF OathOp, OathPcs
<1>6. \A n \in Nat \ {0} : n > 1 \/ n = 1
  OBVIOUS
<1> QED BY <1>2, <1>3, <1>4, <1>5, <1>6

\* A step that leaves the files and what was given out alone and does not reach a comparison or a code
LEMMA Steady ==
    ASSUME OathTypes, Guesses, Counts, cache' = cache, flash' = flash, OathHist', hist'.creds >= hist.creds,
           hist'.pins >= hist.pins, hist'.wrong = hist.wrong, hist'.issued = hist.issued,
           hist'.settled = hist.settled, OathOp', op'.pc \in OathPcs \ {"compare", "code"},
           op'.pc = "idle" => op' = O!Idle,
           op'.pc \in {"touch", "advance"} => op'.slot \in Slots /\ cache.cred[op'.slot] # None,
           Todo'
    PROVE  OathInv'
<1>0. hist.creds \in Nat /\ hist'.creds \in Nat /\ hist.pins \in 0 .. MaxPins /\ hist'.pins \in 0 .. MaxPins /\ MaxPins \in Nat
  BY OathNumbers DEF OathTypes, OathHist
<1>1. OathTypes'
  BY DEF OathTypes
<1>2. \A p \in 1 .. MaxPins : p > hist'.pins => p > hist.pins
  BY <1>0
<1>3. ASSUME NEW f \in OathFiles, Left(f) PROVE f.pin # None => f.pin.n <= hist'.pins /\ hist'.wrong[f.pin.n] + f.pin.tries <= MaxTries
  BY <1>0, <1>3 DEF Left, OathFiles, O!Pins
<1>4. Guesses'
  BY <1>1, <1>2, <1>3 DEF Guesses, Left, OathTypes
<1>5. ASSUME NEW f \in OathFiles, NEW codes, Past(f, codes)
      PROVE  \A s \in Slots : f.cred[s] # None => f.cred[s].id <= hist'.creds
                 /\ \A k \in Nat : <<f.cred[s].id, k>> \in codes => k < f.cred[s].ctr
  BY <1>0, <1>5 DEF Past, OathFiles, O!Creds
<1>6. Past(cache, hist.issued)' /\ Past(flash, hist.settled)'
  <2>1. Past(cache, hist.issued) /\ Past(flash, hist.settled) /\ cache \in OathFiles /\ flash \in OathFiles
    BY DEF Counts, OathTypes
  <2> QED BY <1>5, <2>1 DEF Past
<1>7. Single(cache)' /\ Single(flash)'
  BY DEF Counts, Single
<1>8. Counts'
  BY <1>6, <1>7 DEF Counts
<1> QED BY <1>1, <1>4, <1>8 DEF OathInv

\* The steps that neither write nor compare nor give a code
LEMMA OathQuiet ==
    ASSUME OathInv,
           \/ O!Selected \/ O!Validate \/ O!ResetDone \/ O!SendRemaining \/ O!ReadOnly \/ O!Listed \/ O!PinDone
           \/ \E type \in {"list", "all"} : O!List(type)
           \/ \E n \in Names : O!Calculate(n)
           \/ \E pressed \in BOOLEAN : O!Touch(pressed)
    PROVE  OathInv'
<1> USE DEF OathInv
<1>1. cache' = cache /\ flash' = flash /\ hist' = hist
  BY DEF O!Selected, O!Validate, O!ResetDone, O!SendRemaining, O!ReadOnly, O!Listed, O!PinDone, O!List, O!Answer, O!Calculate, O!Touch
<1>2. /\ OathOp' /\ op'.pc \in OathPcs \ {"compare", "code", "write"} /\ (op'.pc = "idle" => op' = O!Idle)
      /\ op'.pc \in {"touch", "advance"} => op'.slot \in Slots /\ cache.cred[op'.slot] # None
  <2>1. CASE O!Selected \/ O!ResetDone \/ O!Listed \/ O!PinDone
    BY <2>1 DEF O!Selected, O!ResetDone, O!Listed, O!PinDone, O!Idle, OathOp, OathPcs
  <2>2. CASE O!Validate \/ O!ReadOnly
    BY <2>2 DEF O!Validate, O!ReadOnly, O!Ready, O!Idle, OathOp, OathPcs
  <2>3. ASSUME NEW chain, O!Answer(chain)
        PROVE OathOp' /\ (op'.pc = "listed" \/ op' = O!Idle)
    BY <2>3 DEF O!Answer, O!Idle, OathOp
  <2>4. CASE O!SendRemaining
    <3>1. OathOp' /\ (op'.pc = "listed" \/ op' = O!Idle)
      BY <2>3, <2>4 DEF O!SendRemaining, O!Ready, OathTypes, O!Idle, OathOp
    <3> QED BY <3>1 DEF O!Idle, OathPcs
  <2>5. ASSUME NEW type \in {"list", "all"}, O!List(type) PROVE OathOp' /\ (op'.pc = "listed" \/ op' = O!Idle)
    BY <2>3, <2>5 DEF O!List
  <2>6. ASSUME NEW n \in Names, O!Calculate(n)
        PROVE  OathOp' /\ op'.pc \in {"touch", "advance"} /\ op'.slot \in Slots /\ cache.cred[op'.slot] # None
    <3>1. O!Named(n) # {} /\ O!Named(n) \subseteq Slots /\ \A s \in O!Named(n) : cache.cred[s] # None
      BY <2>6 DEF O!Calculate, O!Named, O!Present
    <3>2. O!Found(n) \in Slots /\ cache.cred[O!Found(n)] # None
      BY <3>1, LowestIs DEF O!Found
    <3>3. op' = [O!Idle EXCEPT !.pc = IF cache.cred[O!Found(n)].touch THEN "touch" ELSE "advance", !.slot = O!Found(n)]
      BY <2>6 DEF O!Calculate
    <3> QED BY <3>2, <3>3 DEF O!Idle, OathOp
  <2>7. ASSUME NEW pressed \in BOOLEAN, O!Touch(pressed)
        PROVE  OathOp' /\ (op' = O!Idle \/ (op'.pc = "advance" /\ op'.slot \in Slots /\ cache.cred[op'.slot] # None))
    <3>1. CASE pressed
      <4>1. op' = [op EXCEPT !.pc = "advance"] /\ op.pc = "touch"
        BY <2>7, <3>1 DEF O!Touch
      <4> QED BY <4>1 DEF OathOp, OathTypes
    <3>2. CASE ~pressed
      BY <2>7, <3>2 DEF O!Touch, O!Idle, OathOp
    <3> QED BY <3>1, <3>2
  <2>8. CASE \E type \in {"list", "all"} : O!List(type)
    BY <2>5, <2>8 DEF O!Idle, OathPcs
  <2>9. CASE \E n \in Names : O!Calculate(n)
    BY <2>6, <2>9 DEF O!Idle, OathPcs
  <2>10. CASE \E pressed \in BOOLEAN : O!Touch(pressed)
    BY <2>7, <2>10 DEF O!Idle, OathPcs
  <2> QED BY <2>1, <2>2, <2>4, <2>8, <2>9, <2>10
<1>3. Todo'
  BY <1>2 DEF Todo
<1>4. OathHist'
  BY <1>1 DEF OathTypes, OathHist
<1>5. hist'.creds >= hist.creds /\ hist'.pins >= hist.pins
  BY <1>1, OathNumbers DEF OathTypes, OathHist
<1> QED BY <1>1, <1>2, <1>3, <1>4, <1>5, Steady

LEMMA OneItem == ASSUME NEW x PROVE <<x>> \in Seq({x}) /\ Items(<<x>>) = {x} /\ Len(<<x>>) = 1 /\ <<x>> # <<>>
BY DEF Items

LEMMA TwoItems == ASSUME NEW x, NEW y PROVE <<x, y>> \in Seq({x, y}) /\ Items(<<x, y>>) = {x, y} /\ <<x, y>> # <<>>
<1>1. Len(<<x, y>>) = 2 /\ <<x, y>>[1] = x /\ <<x, y>>[2] = y /\ 1 .. 2 = {1, 2}
  OBVIOUS
<1> QED BY <1>1 DEF Items

LEMMA ThreeItems ==
    ASSUME NEW x, NEW y, NEW z
    PROVE  <<x, y, z>> \in Seq({x, y, z}) /\ Items(<<x, y, z>>) = {x, y, z} /\ <<x, y, z>> # <<>>
<1>1. Len(<<x, y, z>>) = 3 /\ <<x, y, z>>[1] = x /\ <<x, y, z>>[2] = y /\ <<x, y, z>>[3] = z /\ 1 .. 3 = {1, 2, 3}
  OBVIOUS
<1> QED BY <1>1 DEF Items

LEMMA JoinedItems ==
    ASSUME NEW W, NEW p \in Seq(W), NEW q \in Seq(W), q # <<>>
    PROVE  p \o q \in Seq(W) /\ Items(p \o q) \subseteq W /\ p \o q # <<>>
<1>1. p \o q \in Seq(W) /\ Len(p \o q) = Len(p) + Len(q) /\ Len(p) \in Nat /\ Len(q) \in Nat
  OBVIOUS
<1>2. Len(q) # 0
  OBVIOUS
<1>3. Len(p \o q) # 0
  BY <1>1, <1>2
<1>4. p \o q # <<>>
  BY <1>3
<1>5. Items(p \o q) \subseteq W
  BY <1>1, ItemsIs
<1> QED BY <1>1, <1>4, <1>5

\* A handler begins to write.
LEMMA Begin ==
    ASSUME OathInv, cache' = cache, flash' = flash, OathHist', hist'.creds >= hist.creds, hist'.pins >= hist.pins,
           hist'.wrong = hist.wrong, hist'.issued = hist.issued, hist'.settled = hist.settled,
           NEW W, NEW q \in Seq(W), OathOp', op'.todo = q, op'.pc = "write", q # <<>>,
           op'.then \in OathPcs \ {"write", "listed", "touch", "advance"},
           \A w \in Items(q) : WriteTypes(w) /\ PinWrite(w)' /\ CredWrite(w)',
           op'.then = "compare" => \A w \in Items(q) : w.sync,
           op'.then = "code" => op'.cmd = "calculate" /\ \A w \in Items(q) : w.f = "cred"
    PROVE  OathInv'
<1>1. q \in Seq(Items(q))
  BY ItemsIs
<1>2. \A w \in Items(q) : WriteTypes(w)' /\ PinWrite(w)' /\ CredWrite(w)'
  BY DEF WriteTypes
<1>3. Items(op.todo)' = Items(q)
  BY DEF Items
<1>4. Todo'
  BY <1>1, <1>2, <1>3 DEF Todo
<1>5. op'.pc \in OathPcs \ {"compare", "code"}
  BY DEF OathPcs
<1> QED BY <1>4, <1>5, Steady DEF OathInv

\* ... files of the applet, not its PIN's tries
Plain(w) ==
    /\ w.f \in {"code", "guarded"} => w.v \in BOOLEAN
    /\ w.f \in {"code", "guarded", "pin", "cred"} /\ w.sync = FALSE
    /\ w.f \in {"pin", "cred"} => w.v = None

LEMMA PutPlain ==
    ASSUME NEW f \in {"code", "guarded", "pin"}, NEW v, IF f = "pin" THEN v = None ELSE v \in BOOLEAN
    PROVE  Plain(O!Put(f, v)) /\ O!Put(f, v).f # "cred"
BY DEF Plain, O!Put

LEMMA PlainIs ==
    ASSUME NEW w, Plain(w), w.f = "cred" => op'.cmd \in {"delete", "reset"}
    PROVE  WriteTypes(w) /\ PinWrite(w)' /\ CredWrite(w)'
<1>1. WriteTypes(w)
  BY DEF Plain, WriteTypes
<1>2. PinWrite(w)'
  BY DEF Plain, PinWrite
<1>3. CredWrite(w)'
  BY DEF Plain, CredWrite
<1> QED BY <1>1, <1>2, <1>3

\* What the count of commands does to the history
LEMMA CountedIs ==
    ASSUME OathHist, hist' = [hist EXCEPT !.cmds = @ + 1]
    PROVE  /\ OathHist' /\ hist'.creds >= hist.creds /\ hist'.pins >= hist.pins /\ hist'.wrong = hist.wrong
           /\ hist'.issued = hist.issued /\ hist'.settled = hist.settled /\ hist'.creds = hist.creds /\ hist'.pins = hist.pins
<1>1. /\ hist'.wrong = hist.wrong /\ hist'.issued = hist.issued /\ hist'.settled = hist.settled
      /\ hist'.creds = hist.creds /\ hist'.pins = hist.pins
  BY DEF OathHist
<1>2. OathHist'
  BY <1>1 DEF OathHist
<1>3. hist'.creds >= hist.creds /\ hist'.pins >= hist.pins
  BY <1>1, OathNumbers DEF OathHist
<1> QED BY <1>1, <1>2, <1>3

\* DELETE, SET CODE and RESET begin.
LEMMA OathClears ==
    ASSUME OathInv, (\E n \in Names : O!DeleteCredential(n)) \/ O!SetCode \/ O!ClearCode \/ O!Reset
    PROVE  OathInv'
<1>0. OathHist
  BY DEF OathInv, OathTypes
<1>1. cache' = cache /\ flash' = flash /\ hist' = [hist EXCEPT !.cmds = @ + 1]
  BY DEF O!DeleteCredential, O!SetCode, O!ClearCode, O!Reset, O!Command, O!Counted
<1>2. ASSUME NEW name, NEW W, NEW q \in Seq(W), NEW then \in {"idle", "resetdone"}, op' = O!Run(name, q, then), q # <<>>,
             \A w \in Items(q) : Plain(w) /\ (w.f = "cred" => name \in {"delete", "reset"})
      PROVE  OathInv'
  <2>1. OathOp' /\ op'.cmd = name /\ op'.todo = q /\ op'.then = then /\ op'.pc = "write"
    BY <1>2, RunIs
  <2>2. \A w \in Items(q) : WriteTypes(w) /\ PinWrite(w)' /\ CredWrite(w)'
    BY <1>2, <2>1, PlainIs
  <2>3. op'.then \in OathPcs \ {"write", "listed", "touch", "advance"} /\ op'.then # "compare" /\ op'.then # "code"
    BY <2>1 DEF OathPcs
  <2> QED BY <1>0, <1>1, <1>2, <2>1, <2>2, <2>3, CountedIs, Begin
<1>3. ASSUME NEW n \in Names, O!DeleteCredential(n) PROVE OathInv'
  <2> DEFINE w == O!PutCred(O!Found(n), None)
  <2>1. op' = O!Run("delete", <<w>>, "idle")
    BY <1>3 DEF O!DeleteCredential, O!Command
  <2>2. Plain(w)
    BY DEF Plain, O!PutCred
  <2> HIDE DEF w
  <2>3. <<w>> \in Seq({w}) /\ Items(<<w>>) = {w} /\ <<w>> # <<>>
    BY OneItem
  <2> DEFINE q == <<w>>
  <2>4. \A v \in Items(q) : Plain(v)
    BY <2>2, <2>3
  <2> HIDE DEF q
  <2>5. q \in Seq({w}) /\ q # <<>> /\ op' = O!Run("delete", q, "idle")
    BY <2>1, <2>3 DEF q
  <2> QED BY <1>2, <2>4, <2>5
<1>4. CASE O!SetCode
  <2> DEFINE a == O!Put("pin", None)
             b == O!Put("code", TRUE)
             c == O!Put("guarded", TRUE)
             first == IF cache.pin = None THEN <<>> ELSE <<a>>
             q == first \o <<b, c>>
  <2>1. op' = O!Run("setcode", q, "idle")
    BY <1>4 DEF O!SetCode
  <2>2. Plain(a) /\ Plain(b) /\ Plain(c) /\ a.f # "cred" /\ b.f # "cred" /\ c.f # "cred"
    BY PutPlain
  <2> HIDE DEF a, b, c
  <2>3. first \in Seq({a, b, c}) /\ <<b, c>> \in Seq({a, b, c}) /\ <<b, c>> # <<>>
    <3>1. <<b, c>> \in Seq({a, b, c}) /\ <<a>> \in Seq({a, b, c}) /\ <<>> \in Seq({a, b, c})
      OBVIOUS
    <3> QED BY <3>1, TwoItems
  <2> HIDE DEF first
  <2>4. q \in Seq({a, b, c}) /\ q # <<>> /\ Items(q) \subseteq {a, b, c}
    BY <2>3, JoinedItems
  <2> HIDE DEF q
  <2> QED BY <1>2, <2>1, <2>2, <2>4
<1>5. CASE O!ClearCode
  <2> DEFINE b == O!Put("guarded", FALSE)
             c == O!Put("code", FALSE)
  <2>1. op' = O!Run("clearcode", <<b, c>>, "idle")
    BY <1>5 DEF O!ClearCode, O!Command
  <2>2. Plain(b) /\ Plain(c) /\ b.f # "cred" /\ c.f # "cred"
    BY PutPlain
  <2> HIDE DEF b, c
  <2>3. <<b, c>> \in Seq({b, c}) /\ Items(<<b, c>>) = {b, c} /\ <<b, c>> # <<>>
    BY TwoItems
  <2> DEFINE q == <<b, c>>
  <2>4. \A v \in Items(q) : Plain(v) /\ v.f # "cred"
    BY <2>2, <2>3
  <2> HIDE DEF q
  <2>5. q \in Seq({b, c}) /\ q # <<>> /\ op' = O!Run("clearcode", q, "idle")
    BY <2>1, <2>3 DEF q
  <2> QED BY <1>2, <2>4, <2>5
<1>6. CASE O!Reset
  <2> DEFINE n == O!Cardinality(O!Present(cache))
             g == [i \in 1 .. n |-> O!PutCred(O!SetToSortSeq(O!Present(cache), <)[i], None)]
             a == O!Put("guarded", FALSE)
             b == O!Put("code", FALSE)
             c == O!Put("pin", None)
             W == {g[i] : i \in 1 .. n} \cup {a, b, c}
             q == g \o <<a, b, c>>
  <2>1. op' = O!Run("reset", q, "resetdone")
    BY <1>6 DEF O!Reset, O!Command, O!ResetWrites
  <2>2. Plain(a) /\ Plain(b) /\ Plain(c)
    BY PutPlain
  <2>3. \A i \in 1 .. n : Plain(g[i])
    BY DEF Plain, O!PutCred
  <2>4. n \in Nat
    <3>1. O!Present(cache) \subseteq Slots
      BY DEF O!Present
    <3> QED BY <3>1, CardIs, OathNumbers, FS_Subset, FS_CardinalityType
  <2>5. g = [i \in 1 .. n |-> g[i]]
    OBVIOUS
  <2> HIDE DEF a, b, c, n, g
  <2>6. g \in Seq(W) /\ <<a, b, c>> \in Seq(W) /\ Len(g) = n /\ <<a, b, c>> # <<>>
    <3>1. g \in Seq(W) /\ Len(g) = n
      BY <2>4, <2>5
    <3>2. <<a, b, c>> \in Seq(W)
      OBVIOUS
    <3> QED BY <3>1, <3>2, ThreeItems
  <2>7. q \in Seq(W) /\ q # <<>> /\ Items(q) \subseteq W
    BY <2>6, JoinedItems
  <2>8. \A w \in W : Plain(w)
    BY <2>2, <2>3
  <2> HIDE DEF q, W
  <2> QED BY <1>2, <2>1, <2>7, <2>8
<1> QED BY <1>3, <1>4, <1>5, <1>6

\* A handler with one write begins.
LEMMA BeginOne ==
    ASSUME OathInv, cache' = cache, flash' = flash, OathHist', hist'.creds >= hist.creds, hist'.pins >= hist.pins,
           hist'.wrong = hist.wrong, hist'.issued = hist.issued, hist'.settled = hist.settled,
           NEW w, OathOp', op'.todo = <<w>>, op'.pc = "write",
           op'.then \in OathPcs \ {"write", "listed", "touch", "advance"},
           WriteTypes(w), PinWrite(w)', CredWrite(w)',
           op'.then = "compare" => w.sync,
           op'.then = "code" => op'.cmd = "calculate" /\ w.f = "cred"
    PROVE  OathInv'
<1> DEFINE q == <<w>>
<1>1. q \in Seq({w}) /\ Items(q) = {w} /\ q # <<>> /\ op'.todo = q
  BY OneItem
<1> HIDE DEF q
<1> QED BY <1>1, Begin

LEMMA RunOne ==
    ASSUME NEW name, NEW w, NEW then, op' = O!Run(name, <<w>>, then)
    PROVE  OathOp' /\ op'.cmd = name /\ op'.todo = <<w>> /\ Len(op'.todo) = 1 /\ op'.then = then /\ op'.pc = "write"
<1>1. <<w>> \in Seq({w}) /\ <<w>> # <<>> /\ Len(<<w>>) = 1
  BY OneItem
<1> DEFINE q == <<w>>
<1> HIDE DEF q
<1>2. OathOp' /\ op'.cmd = name /\ op'.todo = q /\ op'.then = then /\ op'.pc = IF q = <<>> THEN then ELSE "write"
  BY <1>1, RunIs DEF q
<1> QED BY <1>1, <1>2 DEF q

LEMMA FoundIs ==
    ASSUME OathTypes, NEW n, O!Named(n) # {}
    PROVE  O!Found(n) \in Slots /\ cache.cred[O!Found(n)] \in O!Creds /\ cache.cred[O!Found(n)] # None
<1>1. O!Named(n) \subseteq Slots /\ \A s \in O!Named(n) : cache.cred[s] # None
  BY DEF O!Named, O!Present
<1>2. O!Found(n) \in O!Named(n)
  BY <1>1, LowestIs DEF O!Found
<1> QED BY <1>1, <1>2 DEF OathTypes, OathFiles

\* RENAME begins.
LEMMA OathRename ==
    ASSUME OathInv, NEW n \in Names, NEW m \in Names, O!Rename(n, m)
    PROVE  OathInv'
<1> DEFINE s == O!Found(n)
           c == [cache.cred[s] EXCEPT !.name = m]
<1>0. PICK w : w = O!PutCred(s, c)
  OBVIOUS
<1>1. s \in Slots /\ cache.cred[s] \in O!Creds /\ cache.cred[s] # None
  BY FoundIs DEF OathInv, O!Rename
<1>2. op' = O!Run("rename", <<w>>, "idle") /\ cache' = cache /\ flash' = flash /\ hist' = [hist EXCEPT !.cmds = @ + 1]
  BY <1>0 DEF O!Rename, O!Command, O!Counted
<1>3. c \in O!Creds /\ c.id = cache.cred[s].id /\ c.ctr = cache.cred[s].ctr
  BY <1>1 DEF O!Creds
<1> HIDE DEF s, c
<1>4. w.f = "cred" /\ w.at = s /\ w.v = c /\ w.sync = FALSE
  BY <1>0 DEF O!PutCred
<1>5. OathOp' /\ op'.cmd = "rename" /\ op'.todo = <<w>> /\ op'.then = "idle" /\ op'.pc = "write"
  BY <1>2, RunOne
<1>6. WriteTypes(w)
  BY <1>3, <1>4 DEF WriteTypes
<1>7. PinWrite(w)'
  BY <1>4 DEF PinWrite
<1>8. c # None
  BY <1>3, OathNumbers
<1>9. CredWrite(w)'
  BY <1>1, <1>2, <1>3, <1>4, <1>5, <1>8 DEF CredWrite, SameCred
<1>10. OathHist
  BY DEF OathInv, OathTypes
<1> QED BY <1>2, <1>4, <1>5, <1>6, <1>7, <1>9, <1>10, CountedIs, BeginOne DEF OathPcs

\* PUT begins: the id of the credential is new.
LEMMA OathPut ==
    ASSUME OathInv, NEW n \in Names, NEW hotp \in BOOLEAN, NEW touch \in BOOLEAN, O!PutCredential(n, hotp, touch)
    PROVE  OathInv'
<1> DEFINE s == IF O!Named(n) # {} THEN O!Found(n) ELSE O!Lowest(O!Free)
           old == O!Named(n) # {} /\ cache.cred[s].old
           c == [O!Cred(hist.creds + 1, n, hotp, touch) EXCEPT !.old = old]
<1>0. PICK w : w = O!PutCred(s, c)
  OBVIOUS
<1>1. op' = O!Run("put", <<w>>, "idle") /\ cache' = cache /\ flash' = flash /\ hist' = [hist EXCEPT !.creds = @ + 1, !.cmds = @ + 1]
  BY <1>0 DEF O!PutCredential
<1>2. old \in BOOLEAN
  <2>1. CASE O!Named(n) # {}
    <3>1. cache.cred[O!Found(n)] \in O!Creds /\ s = O!Found(n)
      BY <2>1, FoundIs DEF OathInv
    <3> QED BY <3>1 DEF O!Creds
  <2> QED BY <2>1
<1> HIDE DEF s, old
<1>3. OathHist /\ hist.creds \in Nat /\ hist.creds + 1 \in Nat /\ hist.pins \in Nat
  BY OathNumbers DEF OathInv, OathTypes, OathHist
<1>4. c \in O!Creds /\ c.id = hist.creds + 1
  BY <1>2, <1>3 DEF O!Creds, O!Cred
<1> HIDE DEF c
<1>5. w.f = "cred" /\ w.v = c /\ w.sync = FALSE
  BY <1>0 DEF O!PutCred
<1>6. OathOp' /\ op'.cmd = "put" /\ op'.todo = <<w>> /\ op'.then = "idle" /\ op'.pc = "write"
  BY <1>1, RunOne
<1>7. /\ hist'.wrong = hist.wrong /\ hist'.issued = hist.issued /\ hist'.settled = hist.settled
      /\ hist'.creds = hist.creds + 1 /\ hist'.pins = hist.pins
  BY <1>1, <1>3 DEF OathHist
<1>8. (0 .. hist.creds) \X Nat \subseteq (0 .. hist'.creds) \X Nat
  BY <1>3, <1>7
<1>9. OathHist'
  <2>1. hist' = [host |-> hist'.host, creds |-> hist'.creds, pins |-> hist'.pins, cmds |-> hist'.cmds,
               mishaps |-> hist'.mishaps, issued |-> hist'.issued, settled |-> hist'.settled, wrong |-> hist'.wrong,
               torn |-> hist'.torn]
    BY <1>1, <1>3 DEF OathHist
  <2> QED BY <1>3, <1>7, <1>8, <2>1 DEF OathHist
<1>10. WriteTypes(w)
  BY <1>4, <1>5 DEF WriteTypes
<1>11. PinWrite(w)'
  BY <1>5 DEF PinWrite
<1>12. \A t \in Slots : cache.cred[t] # None => cache.cred[t].id # hist.creds + 1
  <2> SUFFICES ASSUME NEW t \in Slots, cache.cred[t] # None PROVE cache.cred[t].id # hist.creds + 1
    OBVIOUS
  <2>1. cache.cred[t].id <= hist.creds
    BY DEF OathInv, Counts, Past
  <2>2. cache.cred[t].id \in Nat
    BY DEF OathInv, OathTypes, OathFiles, O!Creds
  <2> QED BY <1>3, <2>1, <2>2
<1>13. \A k \in Nat : <<hist.creds + 1, k>> \notin hist.issued
  BY <1>3 DEF OathHist
<1>14. NewCred(w)'
  BY <1>1, <1>4, <1>5, <1>6, <1>7, <1>12, <1>13, OneItem DEF NewCred
<1>15. c # None
  BY <1>4, OathNumbers
<1>16. CredWrite(w)'
  BY <1>5, <1>14, <1>15 DEF CredWrite
<1>17. hist'.creds >= hist.creds /\ hist'.pins >= hist.pins
  BY <1>3, <1>7
<1> QED BY <1>1, <1>5, <1>6, <1>7, <1>9, <1>10, <1>11, <1>16, <1>17, BeginOne DEF OathPcs

\* CALCULATE stores the next counter before it gives the code.
LEMMA OathAdvance ==
    ASSUME OathInv, O!Advance
    PROVE  OathInv'
<1> DEFINE s == op.slot
           old == cache.cred[s]
           c == [old EXCEPT !.ctr = @ + 1]
<1>1. s \in Slots /\ old \in O!Creds /\ old # None /\ OathHist
  BY DEF OathInv, OathTypes, OathFiles, O!Advance
<1>2. CASE ~old.hotp
  <2>1. cache' = cache /\ flash' = flash /\ hist' = hist /\ op' = O!Idle
    BY <1>2 DEF O!Advance
  <2>2. OathOp' /\ op'.pc = "idle"
    BY <2>1 DEF O!Idle, OathOp
  <2>3. Todo'
    BY <2>2 DEF Todo
  <2>4. OathHist' /\ hist'.creds >= hist.creds /\ hist'.pins >= hist.pins
    BY <1>1, <2>1, OathNumbers DEF OathHist
  <2> QED BY <2>1, <2>2, <2>3, <2>4, Steady DEF OathInv, OathPcs
<1>3. CASE old.hotp
  <2>0. PICK w : w = O!PutCred(s, c)
    OBVIOUS
  <2>1. /\ op' = [O!Run("calculate", <<w>>, "code") EXCEPT !.slot = s, !.code = <<old.id, old.ctr>>]
        /\ cache' = cache /\ flash' = flash /\ hist' = [hist EXCEPT !.cmds = @ + 1]
    BY <1>3, <2>0 DEF O!Advance, O!AdvanceWrites, O!Counted
  <2>2. old.ctr \in Nat /\ old.ctr + 1 \in Nat
    BY <1>1 DEF O!Creds
  <2>3. c = [old EXCEPT !.ctr = old.ctr + 1]
    BY <1>1 DEF O!Creds
  <2>4. c \in O!Creds /\ c.id = old.id /\ c.ctr = old.ctr + 1
    BY <1>1, <2>2, <2>3 DEF O!Creds
  <2>5. c # None
    BY <2>4, OathNumbers
  <2> HIDE DEF c
  <2>6. w.f = "cred" /\ w.at = s /\ w.v = c /\ w.sync = FALSE
    BY <2>0 DEF O!PutCred
  <2>7. O!Run("calculate", <<w>>, "code") = [O!Idle EXCEPT !.pc = "write", !.cmd = "calculate", !.todo = <<w>>, !.then = "code"]
    BY OneItem DEF O!Run
  <2>8. /\ OathOp' /\ op'.cmd = "calculate" /\ op'.todo = <<w>> /\ op'.then = "code" /\ op'.pc = "write"
        /\ op'.code = <<old.id, old.ctr>> /\ Len(op'.todo) = 1
    BY <2>1, <2>7, OneItem DEF O!Idle, OathOp
  <2>9. WriteTypes(w)
    BY <2>4, <2>6 DEF WriteTypes
  <2>10. PinWrite(w)'
    BY <2>6 DEF PinWrite
  <2>11. NextCred(w)'
    BY <1>1, <2>1, <2>4, <2>6, <2>8 DEF NextCred
  <2>12. CredWrite(w)'
    BY <2>5, <2>6, <2>11 DEF CredWrite
  <2> QED BY <1>1, <2>1, <2>6, <2>8, <2>9, <2>10, <2>12, CountedIs, BeginOne DEF OathPcs
<1> QED BY <1>2, <1>3

\* SET PIN, and the try that VERIFY PIN and CHANGE PIN spend
LEMMA OathPin ==
    ASSUME OathInv, O!SetPin \/ \E cmd \in {"verify", "change"} : O!CheckPin(cmd)
    PROVE  OathInv'
<1>1. OathHist /\ hist.pins \in 0 .. MaxPins /\ hist.wrong \in [1 .. MaxPins -> Nat] /\ MaxPins \in Nat /\ MaxTries \in Nat /\ hist.creds \in Nat
  BY OathNumbers DEF OathInv, OathTypes, OathHist
<1>2. CASE O!SetPin
  <2> DEFINE n == hist.pins + 1
             pin == [n |-> n, tries |-> MaxTries]
  <2>0. PICK w : w = O!Put("pin", pin)
    OBVIOUS
  <2>1. op' = O!Run("setpin", <<w>>, "idle") /\ cache' = cache /\ flash' = flash /\ hist' = [hist EXCEPT !.pins = @ + 1, !.cmds = @ + 1]
    BY <1>2, <2>0 DEF O!SetPin
  <2>2. n \in 1 .. MaxPins /\ MaxTries \in 0 .. MaxTries /\ n \in 0 .. MaxPins /\ n > hist.pins
    BY <1>1, <1>2 DEF O!SetPin
  <2>3. hist.wrong[n] = 0
    BY <2>2 DEF OathInv, Guesses
  <2>4. pin \in O!Pins /\ pin.n = n /\ pin # None
    BY <2>2, OathNumbers DEF O!Pins
  <2>5. /\ hist'.pins = n /\ hist'.creds = hist.creds /\ hist'.wrong = hist.wrong
        /\ hist'.issued = hist.issued /\ hist'.settled = hist.settled
    BY <1>1, <2>1 DEF OathHist
  <2>6. hist' = [host |-> hist'.host, creds |-> hist'.creds, pins |-> hist'.pins, cmds |-> hist'.cmds,
               mishaps |-> hist'.mishaps, issued |-> hist'.issued, settled |-> hist'.settled, wrong |-> hist'.wrong,
               torn |-> hist'.torn]
    BY <1>1, <2>1 DEF OathHist
  <2>7. OathHist' /\ hist'.creds >= hist.creds /\ hist'.pins >= hist.pins
    BY <1>1, <2>2, <2>5, <2>6 DEF OathHist
  <2> HIDE DEF n, pin
  <2>8. w.f = "pin" /\ w.v = pin /\ w.sync = FALSE
    BY <2>0 DEF O!Put
  <2>9. OathOp' /\ op'.cmd = "setpin" /\ op'.todo = <<w>> /\ op'.then = "idle" /\ op'.pc = "write"
    BY <2>1, RunOne
  <2>10. WriteTypes(w)
    BY <2>4, <2>8 DEF WriteTypes
  <2>11. PinWrite(w)'
    BY <1>1, <2>2, <2>3, <2>4, <2>5, <2>8 DEF PinWrite
  <2>12. CredWrite(w)'
    BY <2>8 DEF CredWrite
  <2> QED BY <2>1, <2>5, <2>7, <2>8, <2>9, <2>10, <2>11, <2>12, BeginOne DEF OathPcs
<1>3. ASSUME NEW cmd \in {"verify", "change"}, O!CheckPin(cmd) PROVE OathInv'
  <2>1. cache' = cache /\ flash' = flash /\ hist' = hist /\ cache.pin \in O!Pins
    BY <1>3 DEF O!CheckPin, OathInv, OathTypes, OathFiles
  <2>2. OathHist' /\ hist'.creds >= hist.creds /\ hist'.pins >= hist.pins
    BY <1>1, <2>1 DEF OathHist
  <2>3. CASE cache.pin.tries = 0
    <3>1. op' = O!Idle
      BY <1>3, <2>3 DEF O!CheckPin
    <3>2. OathOp' /\ op'.pc = "idle"
      BY <3>1 DEF O!Idle, OathOp
    <3>3. Todo'
      BY <3>2 DEF Todo
    <3> QED BY <2>1, <2>2, <3>1, <3>2, <3>3, Steady DEF OathInv, OathPcs
  <2>4. CASE cache.pin.tries # 0
    <3> DEFINE pin == [cache.pin EXCEPT !.tries = @ - 1]
    <3>0. PICK w : w = O!SpendTry(pin)
      OBVIOUS
    <3>1. op' = O!Run(cmd, <<w>>, "compare")
      BY <1>3, <2>4, <3>0 DEF O!CheckPin, O!Spent
    <3>2. cache.pin.tries - 1 \in 0 .. MaxTries /\ cache.pin.tries \in Nat /\ cache.pin.n \in 1 .. MaxPins
      BY <1>1, <2>1, <2>4 DEF O!Pins
    <3>3. pin = [cache.pin EXCEPT !.tries = cache.pin.tries - 1]
      BY <2>1 DEF O!Pins
    <3>4. pin \in O!Pins /\ pin.n = cache.pin.n /\ pin.tries = cache.pin.tries - 1
      BY <2>1, <3>2, <3>3 DEF O!Pins
    <3>5. pin # None
      BY <3>4, OathNumbers
    <3>6. cache.pin.n <= hist.pins /\ hist.wrong[cache.pin.n] + cache.pin.tries <= MaxTries /\ hist.wrong[cache.pin.n] \in Nat
      BY <1>1, <2>1, <3>2, OathNumbers DEF OathInv, Guesses, Left
    <3> HIDE DEF pin
    <3>7. w.f = "pin" /\ w.v = pin /\ w.sync = TRUE
      BY <3>0 DEF O!SpendTry
    <3>8. OathOp' /\ op'.cmd = cmd /\ op'.todo = <<w>> /\ Len(op'.todo) = 1 /\ op'.then = "compare" /\ op'.pc = "write"
      BY <3>1, RunOne
    <3>9. WriteTypes(w)
      BY <3>4, <3>5, <3>7 DEF WriteTypes
    <3>10. hist.wrong[w.v.n] + (w.v.tries + 1) <= MaxTries /\ w.v.n <= hist.pins
      <4>1. w.v.n = cache.pin.n /\ w.v.tries = cache.pin.tries - 1
        BY <3>4, <3>7
      <4>2. \A a, b, m \in Nat : a + b <= m => a + ((b - 1) + 1) <= m
        OBVIOUS
      <4> QED BY <1>1, <3>2, <3>6, <4>1, <4>2
    <3>11. PinWrite(w)'
      BY <2>1, <3>7, <3>8, <3>10 DEF PinWrite
    <3>12. CredWrite(w)'
      BY <3>7 DEF CredWrite
    <3> QED BY <2>1, <2>2, <3>7, <3>8, <3>9, <3>11, <3>12, BeginOne DEF OathPcs
  <2> QED BY <2>3, <2>4
<1> QED BY <1>2, <1>3

\* SELECT encrypts the keys that older firmware left.
LEMMA OathSelect ==
    ASSUME OathInv, O!Select
    PROVE  OathInv'
<1>0. cache' = cache /\ flash' = flash /\ hist' = hist
  BY DEF O!Select
<1>1. OathHist' /\ hist'.creds >= hist.creds /\ hist'.pins >= hist.pins
  BY <1>0, OathNumbers DEF OathInv, OathTypes, OathHist
<1> DEFINE plain == {s \in O!Present(cache) : cache.cred[s].plain}
           v(s) == [cache.cred[s] EXCEPT !.plain = FALSE]
<1>2. plain \subseteq Slots /\ \A s \in plain : cache.cred[s] \in O!Creds /\ cache.cred[s] # None
  BY DEF O!Present, OathInv, OathTypes, OathFiles
<1>3. \A s \in plain : v(s) \in O!Creds /\ v(s).id = cache.cred[s].id /\ v(s).ctr = cache.cred[s].ctr /\ v(s) # None
  <2> SUFFICES ASSUME NEW s \in plain
               PROVE v(s) \in O!Creds /\ v(s).id = cache.cred[s].id /\ v(s).ctr = cache.cred[s].ctr /\ v(s) # None
    OBVIOUS
  <2>1. v(s) \in O!Creds /\ v(s).id = cache.cred[s].id /\ v(s).ctr = cache.cred[s].ctr
    BY <1>2 DEF O!Creds
  <2> QED BY <2>1, OathNumbers
<1>4. PICK p : p = O!SetToSeq(plain)
  OBVIOUS
<1>5. p \in [1 .. Cardinality(plain) -> plain] /\ Cardinality(plain) \in Nat /\ Len(p) = Cardinality(plain)
  <2>1. IsFiniteSet(plain)
    BY <1>2, OathNumbers, FS_Subset
  <2> HIDE DEF plain
  <2> QED BY <1>4, <2>1, SetToSeqIs
<1> DEFINE writes == [i \in 1 .. Len(p) |-> O!PutCred(p[i], v(p[i]))]
           W == {O!PutCred(s, v(s)) : s \in plain}
<1>6. O!MigrateWrites = IF ram.migrated THEN <<>> ELSE writes
  BY <1>4 DEF O!MigrateWrites
<1>7. writes \in Seq(W)
  <2>1. Len(p) \in Nat /\ \A i \in 1 .. Len(p) : p[i] \in plain
    BY <1>5
  <2>2. \A i \in 1 .. Len(p) : writes[i] \in W
    BY <2>1
  <2>3. writes \in [1 .. Len(p) -> W]
    BY <2>2
  <2> HIDE DEF writes, W
  <2> QED BY <2>1, <2>3
<1>8. PICK q : q = O!MigrateWrites
  OBVIOUS
<1>9. q \in Seq(W)
  <2> HIDE DEF writes, W
  <2>1. <<>> \in Seq(W)
    OBVIOUS
  <2> QED BY <1>6, <1>7, <1>8, <2>1
<1>10. Items(q) \subseteq W
  <2> HIDE DEF W
  <2> QED BY <1>9, ItemsIs
<1>11. op' = O!Run("select", q, "selected")
  BY <1>8 DEF O!Select
<1>12. OathOp' /\ op'.cmd = "select" /\ op'.todo = q /\ op'.then = "selected" /\ op'.pc = IF q = <<>> THEN "selected" ELSE "write"
  <2> HIDE DEF W
  <2> QED BY <1>9, <1>11, RunIs
<1>13. CASE q = <<>>
  <2>1. op'.pc = "selected"
    BY <1>12, <1>13
  <2>2. Todo'
    BY <2>1 DEF Todo
  <2> QED BY <1>0, <1>1, <1>12, <2>1, <2>2, Steady DEF OathInv, OathPcs
<1>14. CASE q # <<>>
  <2>1. op'.pc = "write"
    BY <1>12, <1>14
  <2>2. ASSUME NEW w \in Items(q) PROVE WriteTypes(w) /\ PinWrite(w)' /\ CredWrite(w)'
    <3>1. PICK s \in plain : w = O!PutCred(s, v(s))
      BY <1>10
    <3>2. w.f = "cred" /\ w.at = s /\ w.v = v(s) /\ w.sync = FALSE
      BY <3>1 DEF O!PutCred
    <3>3. v(s) \in O!Creds /\ v(s).id = cache.cred[s].id /\ v(s).ctr = cache.cred[s].ctr /\ v(s) # None
      BY <1>3
    <3>4. s \in Slots /\ cache.cred[s] # None
      BY <1>2
    <3>5. WriteTypes(w)
      BY <3>2, <3>3 DEF WriteTypes
    <3>6. PinWrite(w)'
      BY <3>2 DEF PinWrite
    <3>7. w.v.id = cache.cred[s].id /\ w.v.ctr = cache.cred[s].ctr /\ w.v # None
      BY <3>2, <3>3
    <3>8. CredWrite(w)'
      BY <1>0, <1>12, <3>2, <3>4, <3>7 DEF CredWrite, SameCred
    <3> QED BY <3>5, <3>6, <3>8
  <2> HIDE DEF W
  <2>3. op'.then \in OathPcs \ {"write", "listed", "touch", "advance"} /\ op'.then # "compare" /\ op'.then # "code"
    BY <1>12 DEF OathPcs
  <2>4. hist'.wrong = hist.wrong /\ hist'.issued = hist.issued /\ hist'.settled = hist.settled
    BY <1>0
  <2> QED BY <1>0, <1>1, <1>9, <1>12, <1>14, <2>1, <2>2, <2>3, <2>4, Begin
<1> QED BY <1>13, <1>14

LEMMA MoreToDo ==
    ASSUME Todo, op.pc = "write", Len(op.todo) > 1
    PROVE  /\ Tail(op.todo) \in Seq(Items(Tail(op.todo))) /\ Tail(op.todo) # <<>>
           /\ Items(Tail(op.todo)) \subseteq Items(op.todo) /\ Len(op.todo) # 1
<1>1. PICK q : q = op.todo
  OBVIOUS
<1>2. q \in Seq(Items(q)) /\ Len(q) > 1
  BY <1>1 DEF Todo
<1>3. Len(q) \in Nat
  BY <1>2
<1>4. Tail(q) # <<>> /\ q # <<>>
  BY <1>2, ItemsIs
<1>5. Tail(q) \in Seq(Items(Tail(q))) /\ Items(Tail(q)) \subseteq Items(q)
  BY <1>2, <1>4, ItemsIs
<1>6. ~(1 > 1)
  OBVIOUS
<1>7. Len(q) # 1
  BY <1>2, <1>6, Zenon
<1> QED BY <1>1, <1>4, <1>5, <1>7

\* What a write does: the first of op.todo is in the files, the others are still right.
LEMMA OathWrites ==
    ASSUME OathInv, O!Write
    PROVE  OathInv'
<1> USE DEF OathInv
<1>0. PICK w : w = Head(op.todo)
  OBVIOUS
<1>1. op.pc = "write" /\ cache' = O!Applied(cache, w) /\ flash' = (IF w.sync THEN cache' ELSE flash) /\ op' = O!Rest /\ hist' = hist
  BY <1>0 DEF O!Write
<1>2. /\ op.todo \in Seq(Items(op.todo)) /\ op.todo # <<>>
      /\ \A u \in Items(op.todo) : WriteTypes(u) /\ PinWrite(u) /\ CredWrite(u)
  BY <1>1 DEF Todo
<1>3. w \in Items(op.todo) /\ WriteTypes(w) /\ PinWrite(w) /\ CredWrite(w)
  BY <1>0, <1>2, ItemsIs
<1>4. /\ cache' \in OathFiles
      /\ w.f = "cred" => \A s \in Slots : cache'.cred[s] = IF s = w.at THEN w.v ELSE cache.cred[s]
      /\ w.f # "cred" => cache'.cred = cache.cred
      /\ cache'.pin = IF w.f = "pin" THEN w.v ELSE cache.pin
  BY <1>1, <1>3, OathAppliedIs DEF OathTypes
<1>5. /\ OathOp' /\ op'.pc \in OathPcs \ {"touch", "advance"} /\ (op'.pc = "idle" => op' = O!Idle)
      /\ op'.pc = "write" => Len(op.todo) > 1 /\ op'.todo = Tail(op.todo) /\ op'.cmd = op.cmd /\ op'.then = op.then
      /\ op'.pc \in {"code", "compare"} => Len(op.todo) = 1 /\ op.then = op'.pc /\ op'.code = op.code
  BY <1>1, RestIs
<1>6. flash' \in OathFiles /\ flash \in OathFiles /\ cache \in OathFiles /\ OathHist
  BY <1>1, <1>4 DEF OathTypes
<1>7. OathTypes'
  BY <1>1, <1>4, <1>5, <1>6 DEF OathTypes, OathHist
<1>8. Guesses'
  <2>1. hist.wrong \in [1 .. MaxPins -> Nat] /\ MaxTries \in Nat /\ MaxPins \in Nat
    BY <1>6, OathNumbers DEF OathHist
  <2>2. Left(cache)'
    <3>1. CASE w.f = "pin" /\ w.v # None
      <4>1. w.v \in O!Pins /\ cache'.pin = w.v
        BY <1>3, <1>4, <3>1 DEF WriteTypes
      <4>2. w.v.n \in 1 .. MaxPins /\ w.v.tries \in 0 .. MaxTries /\ hist.wrong[w.v.n] \in Nat
        BY <2>1, <4>1 DEF O!Pins
      <4>3. CASE w.sync
        <5>1. w.v.n <= hist.pins /\ hist.wrong[w.v.n] + (w.v.tries + 1) <= MaxTries
          BY <1>3, <3>1, <4>3 DEF PinWrite
        <5>2. hist.wrong[w.v.n] + w.v.tries <= MaxTries
          BY <2>1, <4>2, <5>1
        <5> QED BY <1>1, <4>1, <5>1, <5>2 DEF Left
      <4>4. CASE ~w.sync
        <5>1. w.v.n <= hist.pins /\ hist.wrong[w.v.n] = 0
          BY <1>3, <3>1, <4>4 DEF PinWrite
        <5>2. hist.wrong[w.v.n] + w.v.tries <= MaxTries
          BY <2>1, <4>2, <5>1
        <5> QED BY <1>1, <4>1, <5>1, <5>2 DEF Left
      <4> QED BY <4>3, <4>4
    <3>2. CASE w.f = "pin" /\ w.v = None
      BY <1>4, <3>2 DEF Left
    <3>3. CASE w.f # "pin"
      BY <1>1, <1>4, <3>3 DEF Left, Guesses
    <3> QED BY <3>1, <3>2, <3>3
  <2>3. Left(flash)'
    BY <1>1, <2>2 DEF Left, Guesses
  <2>4. ASSUME op'.pc = "compare"
        PROVE cache'.pin # None /\ flash'.pin = cache'.pin /\ hist'.wrong[cache'.pin.n] + cache'.pin.tries + 1 <= MaxTries
    <3>1. op.then = "compare"
      BY <1>5, <2>4
    <3>2. w.sync
      BY <1>1, <1>3, <3>1 DEF Todo
    <3>3. w.f = "pin" /\ w.v # None /\ w.v \in O!Pins
      BY <1>3, <3>2 DEF WriteTypes
    <3>4. hist.wrong[w.v.n] + (w.v.tries + 1) <= MaxTries
      BY <1>3, <3>2, <3>3 DEF PinWrite
    <3>5. w.v.n \in 1 .. MaxPins /\ w.v.tries \in 0 .. MaxTries /\ hist.wrong[w.v.n] \in Nat
      BY <2>1, <3>3 DEF O!Pins
    <3>6. hist.wrong[w.v.n] + w.v.tries + 1 <= MaxTries
      BY <2>1, <3>4, <3>5
    <3> QED BY <1>1, <1>4, <3>2, <3>3, <3>6
  <2> QED BY <1>1, <2>2, <2>3, <2>4 DEF Guesses
<1>9. Single(cache) /\ Single(flash) /\ Past(cache, hist.issued) /\ Past(flash, hist.settled)
  BY DEF Counts
<1>10. ASSUME w.f # "cred" \/ w.v = None PROVE Counts'
  <2>1. \A s \in Slots : cache'.cred[s] = cache.cred[s] \/ cache'.cred[s] = None
    BY <1>4, <1>10
  <2>2. Past(cache, hist.issued)'
    BY <1>1, <1>9, <2>1 DEF Past
  <2>3. Single(cache)'
    BY <1>9, <2>1 DEF Single
  <2>4. ~(op'.pc = "code")
    <3> SUFFICES ASSUME op'.pc = "code" PROVE FALSE
      OBVIOUS
    <3>1. op.then = "code"
      BY <1>5
    <3>2. op.cmd = "calculate" /\ w.f = "cred"
      BY <1>1, <1>3, <3>1 DEF Todo
    <3> QED BY <1>3, <1>10, <3>2 DEF CredWrite
  <2>5. Past(flash, hist.settled)' /\ Single(flash)'
    <3>1. CASE w.sync
      <4>1. hist'.settled \subseteq hist'.issued /\ flash' = cache'
        BY <1>1, <1>6, <3>1 DEF OathHist
      <4> QED BY <2>2, <2>3, <4>1 DEF Past, Single
    <3>2. CASE ~w.sync
      BY <1>1, <1>9, <3>2 DEF Past, Single
    <3> QED BY <3>1, <3>2
  <2> QED BY <2>2, <2>3, <2>4, <2>5 DEF Counts
<1>11. ASSUME w.f = "cred", w.v # None PROVE Counts'
  <2>1. w.v \in O!Creds /\ ~w.sync /\ flash' = flash
    BY <1>1, <1>3, <1>11 DEF WriteTypes
  <2>2. w.v.id \in Nat /\ w.v.ctr \in Nat /\ hist.creds \in Nat
    BY <1>6, <2>1 DEF O!Creds, OathHist
  <2>3. \A s \in Slots : cache.cred[s] # None => cache.cred[s].id \in Nat /\ cache.cred[s].ctr \in Nat
    BY <1>6 DEF OathFiles, O!Creds
  <2>4. Past(flash, hist.settled)' /\ Single(flash)'
    BY <1>1, <1>9, <2>1 DEF Past, Single
  <2>5. NewCred(w) \/ SameCred(w) \/ NextCred(w)
    BY <1>3, <1>11 DEF CredWrite
  <2>6. w.v.id <= hist.creds /\ \A k \in Nat : <<w.v.id, k>> \in hist.issued => k < w.v.ctr
    <3>1. CASE NewCred(w)
      BY <2>2, <3>1 DEF NewCred
    <3>2. CASE SameCred(w)
      BY <1>9, <3>2 DEF SameCred, Past
    <3>3. CASE NextCred(w)
      <4>1. w.v.id <= hist.creds /\ \A k \in Nat : <<w.v.id, k>> \in hist.issued => k < cache.cred[w.at].ctr
        BY <1>9, <3>3 DEF NextCred, Past
      <4>2. w.v.ctr = cache.cred[w.at].ctr + 1 /\ cache.cred[w.at].ctr \in Nat
        BY <2>3, <3>3 DEF NextCred
      <4>3. \A k, c \in Nat : k < c => k < c + 1
        OBVIOUS
      <4> QED BY <4>1, <4>2, <4>3
    <3> QED BY <2>5, <3>1, <3>2, <3>3
  <2>7. \A s \in Slots : s # w.at /\ cache.cred[s] # None => cache.cred[s].id # w.v.id
    <3>1. CASE NewCred(w)
      BY <3>1 DEF NewCred
    <3>2. CASE SameCred(w) \/ NextCred(w)
      BY <1>9, <3>2 DEF SameCred, NextCred, Single
    <3> QED BY <2>5, <3>1, <3>2
  <2>8. Past(cache, hist.issued)'
    BY <1>1, <1>4, <1>9, <1>11, <2>6 DEF Past
  <2>9. Single(cache)'
    <3> SUFFICES ASSUME NEW s \in Slots, NEW t \in Slots, cache'.cred[s] # None, cache'.cred[t] # None,
                        cache'.cred[s].id = cache'.cred[t].id, s # t
                 PROVE FALSE
      BY DEF Single
    <3>1. cache'.cred[s] = (IF s = w.at THEN w.v ELSE cache.cred[s]) /\ cache'.cred[t] = (IF t = w.at THEN w.v ELSE cache.cred[t])
      BY <1>4, <1>11
    <3>2. CASE s = w.at
      BY <2>7, <3>1, <3>2
    <3>3. CASE t = w.at
      BY <2>7, <3>1, <3>3
    <3>4. CASE s # w.at /\ t # w.at
      BY <1>9, <3>1, <3>4 DEF Single
    <3> QED BY <3>2, <3>3, <3>4
  <2>10. ASSUME op'.pc = "code"
         PROVE \E id \in 0 .. hist'.creds, k \in Nat :
                  /\ op'.code = <<id, k>> /\ op'.code \notin hist'.issued
                  /\ \A s \in Slots : cache'.cred[s] # None /\ cache'.cred[s].id = id => k < cache'.cred[s].ctr
    <3>1. op.then = "code" /\ op'.code = op.code
      BY <1>5, <2>10
    <3>2. op.cmd = "calculate"
      BY <1>1, <3>1 DEF Todo
    <3>3. NextCred(w)
      BY <2>5, <3>2 DEF NewCred, SameCred
    <3> DEFINE id == cache.cred[w.at].id
               k == cache.cred[w.at].ctr
    <3>4. w.at \in Slots /\ cache.cred[w.at] # None /\ w.v.id = id /\ w.v.ctr = k + 1 /\ op'.code = <<id, k>> /\ id \in Nat /\ k \in Nat
      BY <2>3, <3>1, <3>3 DEF NextCred
    <3>5. id \in 0 .. hist'.creds
      BY <1>1, <2>2, <2>6, <3>4
    <3>6. op'.code \notin hist'.issued
      <4>1. <<id, k>> \in hist.issued => k < k
        BY <1>9, <3>4 DEF Past
      <4> QED BY <1>1, <3>4, <4>1
    <3>7. ASSUME NEW s \in Slots, cache'.cred[s] # None, cache'.cred[s].id = id PROVE k < cache'.cred[s].ctr
      <4>1. cache'.cred[s] = IF s = w.at THEN w.v ELSE cache.cred[s]
        BY <1>4, <1>11
      <4>2. s = w.at
        BY <2>7, <3>4, <3>7, <4>1
      <4>3. cache'.cred[s].ctr = k + 1
        BY <3>4, <4>1, <4>2
      <4> HIDE DEF k
      <4> QED BY <3>4, <4>3
    <3> HIDE DEF id, k
    <3> QED BY <3>4, <3>5, <3>6, <3>7
  <2> QED BY <2>4, <2>8, <2>9, <2>10 DEF Counts
<1>12. Todo'
  <2> SUFFICES ASSUME op'.pc = "write" PROVE Todo'
    BY DEF Todo
  <2>1. Len(op.todo) > 1 /\ op'.todo = Tail(op.todo) /\ op'.cmd = op.cmd /\ op'.then = op.then
    BY <1>5
  <2>2. op'.todo \in Seq(Items(op'.todo)) /\ op'.todo # <<>> /\ Items(op'.todo) \subseteq Items(op.todo)
    BY <1>1, <2>1, MoreToDo
  <2>3. Len(op.todo) # 1
    BY <1>1, <2>1, MoreToDo
  <2>4. ASSUME NEW u \in Items(op'.todo) PROVE WriteTypes(u)' /\ PinWrite(u)' /\ CredWrite(u)'
    <3>1. WriteTypes(u) /\ PinWrite(u) /\ CredWrite(u)
      BY <1>2, <2>2
    <3>2. WriteTypes(u)'
      BY <3>1 DEF WriteTypes
    <3>3. PinWrite(u)'
      BY <1>1, <2>3, <3>1 DEF PinWrite
    <3>4. ASSUME u.f = "cred", u.v # None PROVE SameCred(u)'
      <4>1. SameCred(u)
        BY <2>3, <3>1, <3>4 DEF CredWrite, NewCred, NextCred
      <4>2. op.cmd \in {"select", "rename"}
        BY <4>1 DEF SameCred
      <4>3. w.f = "cred" => w.v # None /\ SameCred(w)
        BY <1>3, <2>3, <4>2 DEF CredWrite, NewCred, NextCred
      <4>4. /\ u.at \in Slots /\ cache.cred[u.at] # None
            /\ u.v.id = cache.cred[u.at].id /\ u.v.ctr = cache.cred[u.at].ctr
        BY <4>1 DEF SameCred
      <4>5. /\ cache'.cred[u.at] # None /\ cache'.cred[u.at].id = cache.cred[u.at].id
            /\ cache'.cred[u.at].ctr = cache.cred[u.at].ctr
        BY <1>4, <4>3, <4>4 DEF SameCred
      <4> QED BY <2>1, <4>2, <4>4, <4>5 DEF SameCred
    <3>5. CredWrite(u)'
      BY <2>1, <3>1, <3>4 DEF CredWrite
    <3> QED BY <3>2, <3>3, <3>5
  <2>5. Items(op.todo)' = Items(op'.todo)
    BY DEF Items
  <2>6. /\ op.then \in OathPcs \ {"write", "listed", "touch", "advance"}
        /\ op.then = "compare" => \A u \in Items(op.todo) : u.sync
        /\ op.then = "code" => op.cmd = "calculate" /\ \A u \in Items(op.todo) : u.f = "cred"
    BY <1>1 DEF Todo
  <2> QED BY <2>1, <2>2, <2>4, <2>5, <2>6 DEF Todo
<1> QED BY <1>7, <1>8, <1>10, <1>11, <1>12

\* A write fails: the handler ends, or RESET goes on; a try may be spent in the cache only.
LEMMA OathFault ==
    ASSUME OathInv, O!Fault
    PROVE  OathInv'
<1> USE DEF OathInv
<1>0. PICK w : w = Head(op.todo)
  OBVIOUS
<1> DEFINE passes == op.cmd = "reset" /\ (w.f = "cred" => cache.cred[w.at].old)
<1>1. /\ op.pc = "write" /\ flash' = flash
      /\ cache' = cache \/ (w.f = "pin" /\ w.sync /\ cache' = O!Applied(cache, w))
      /\ op' = (IF passes THEN O!Rest ELSE O!Idle)
      /\ hist' = [hist EXCEPT !.mishaps = @ + 1, !.torn = @ \/ passes]
  BY <1>0 DEF O!Fault
<1>2. /\ op.todo \in Seq(Items(op.todo)) /\ op.todo # <<>>
      /\ \A u \in Items(op.todo) : WriteTypes(u) /\ PinWrite(u) /\ CredWrite(u)
  BY <1>1 DEF Todo
<1>3. w \in Items(op.todo) /\ WriteTypes(w) /\ PinWrite(w) /\ CredWrite(w)
  BY <1>0, <1>2, ItemsIs
<1>4. OathHist /\ cache \in OathFiles /\ flash \in OathFiles
  BY DEF OathTypes
<1>5. /\ hist'.wrong = hist.wrong /\ hist'.issued = hist.issued /\ hist'.settled = hist.settled
      /\ hist'.creds = hist.creds /\ hist'.pins = hist.pins /\ OathHist'
  <2>1. /\ hist'.wrong = hist.wrong /\ hist'.issued = hist.issued /\ hist'.settled = hist.settled
        /\ hist'.creds = hist.creds /\ hist'.pins = hist.pins
    BY <1>1, <1>4 DEF OathHist
  <2>2. hist' = [host |-> hist'.host, creds |-> hist'.creds, pins |-> hist'.pins, cmds |-> hist'.cmds,
                 mishaps |-> hist'.mishaps, issued |-> hist'.issued, settled |-> hist'.settled, wrong |-> hist'.wrong,
                 torn |-> hist'.torn]
    BY <1>1, <1>4 DEF OathHist
  <2> QED BY <1>4, <2>1, <2>2 DEF OathHist
<1>6. hist'.creds >= hist.creds /\ hist'.pins >= hist.pins
  BY <1>4, <1>5, OathNumbers DEF OathHist
<1>7. CASE passes
  <2>1. ~w.sync /\ cache' = cache /\ op' = O!Rest /\ op.cmd = "reset"
    BY <1>1, <1>3, <1>7 DEF PinWrite
  <2>2. /\ OathOp' /\ op'.pc \in OathPcs \ {"touch", "advance"} /\ (op'.pc = "idle" => op' = O!Idle)
        /\ op'.pc = "write" => Len(op.todo) > 1 /\ op'.todo = Tail(op.todo) /\ op'.cmd = op.cmd /\ op'.then = op.then
        /\ op'.pc \in {"code", "compare"} => op.then = op'.pc
    BY <1>1, <2>1, RestIs
  <2>3. op.then # "code" /\ op.then # "compare"
    BY <1>1, <1>3, <2>1 DEF Todo
  <2>4. Todo'
    <3> SUFFICES ASSUME op'.pc = "write" PROVE Todo'
      BY DEF Todo
    <3>1. Len(op.todo) > 1 /\ op'.todo = Tail(op.todo) /\ op'.cmd = "reset" /\ op'.then = op.then
      BY <2>1, <2>2
    <3>2. op'.todo \in Seq(Items(op'.todo)) /\ op'.todo # <<>> /\ Items(op'.todo) \subseteq Items(op.todo) /\ Len(op.todo) # 1
      BY <1>1, <3>1, MoreToDo
    <3>3. ASSUME NEW u \in Items(op'.todo) PROVE WriteTypes(u)' /\ PinWrite(u)' /\ CredWrite(u)'
      <4>1. WriteTypes(u) /\ PinWrite(u) /\ CredWrite(u)
        BY <1>2, <3>2
      <4>2. WriteTypes(u)'
        BY <4>1 DEF WriteTypes
      <4>3. PinWrite(u)'
        BY <1>5, <2>1, <3>2, <4>1 DEF PinWrite
      <4>4. u.f = "cred" => u.v = None
        BY <2>1, <4>1 DEF CredWrite, NewCred, SameCred, NextCred
      <4>5. CredWrite(u)'
        BY <3>1, <4>4 DEF CredWrite
      <4> QED BY <4>2, <4>3, <4>5
    <3>4. Items(op.todo)' = Items(op'.todo)
      BY DEF Items
    <3>5. op.then \in OathPcs \ {"write", "listed", "touch", "advance"}
      BY <1>1 DEF Todo
    <3> QED BY <2>3, <3>1, <3>2, <3>3, <3>4, <3>5 DEF Todo
  <2> QED BY <1>1, <1>5, <1>6, <2>1, <2>2, <2>3, <2>4, Steady
<1>8. CASE ~passes
  <2>1. op' = O!Idle
    BY <1>1, <1>8
  <2>2. OathOp' /\ op'.pc = "idle"
    BY <2>1 DEF O!Idle, OathOp
  <2>3. Todo'
    BY <2>2 DEF Todo
  <2>4. CASE cache' = cache
    BY <1>1, <1>5, <1>6, <2>1, <2>2, <2>3, <2>4, Steady DEF OathPcs
  <2>5. CASE w.f = "pin" /\ w.sync /\ cache' = O!Applied(cache, w)
    <3>1. cache' \in OathFiles /\ cache'.cred = cache.cred /\ cache'.pin = w.v
      BY <1>3, <1>4, <2>5, OathAppliedIs
    <3>2. OathTypes'
      BY <1>1, <1>4, <1>5, <2>1, <2>2, <3>1 DEF OathTypes, OathPcs
    <3>3. w.v \in O!Pins /\ w.v # None
      BY <1>3, <2>5 DEF WriteTypes
    <3>4. w.v.n \in 1 .. MaxPins /\ w.v.tries \in 0 .. MaxTries /\ hist.wrong[w.v.n] \in Nat /\ MaxTries \in Nat
      BY <1>4, <3>3, OathNumbers DEF O!Pins, OathHist
    <3>5. w.v.n <= hist.pins /\ hist.wrong[w.v.n] + (w.v.tries + 1) <= MaxTries
      BY <1>3, <2>5, <3>3 DEF PinWrite
    <3>6. hist.wrong[w.v.n] + w.v.tries <= MaxTries
      BY <3>4, <3>5
    <3>7. Left(cache)'
      BY <1>5, <3>1, <3>5, <3>6 DEF Left
    <3>8. Left(flash)'
      BY <1>1, <1>5 DEF Left, Guesses
    <3>9. Guesses'
      BY <1>5, <2>2, <3>7, <3>8 DEF Guesses
    <3>10. Counts'
      BY <1>1, <1>5, <2>2, <3>1 DEF Counts, Past, Single
    <3> QED BY <2>3, <3>2, <3>9, <3>10
  <2> QED BY <1>1, <2>4, <2>5
<1> QED BY <1>7, <1>8

\* The cache is written out, or the power is lost.
LEMMA OathFlash ==
    ASSUME OathInv, O!Drain \/ O!PowerLoss
    PROVE  OathInv'
<1> USE DEF OathInv
<1>1. OathHist /\ cache \in OathFiles /\ flash \in OathFiles
  BY DEF OathTypes
<1>2. CASE O!Drain
  <2>1. cache' = cache /\ flash' = cache /\ op' = op /\ hist' = [hist EXCEPT !.settled = hist.issued]
    BY <1>2 DEF O!Drain
  <2>2. /\ hist'.wrong = hist.wrong /\ hist'.issued = hist.issued /\ hist'.settled = hist.issued
        /\ hist'.creds = hist.creds /\ hist'.pins = hist.pins
    BY <1>1, <2>1 DEF OathHist
  <2>3. OathHist'
    <3>1. hist' = [host |-> hist'.host, creds |-> hist'.creds, pins |-> hist'.pins, cmds |-> hist'.cmds,
                   mishaps |-> hist'.mishaps, issued |-> hist'.issued, settled |-> hist'.settled, wrong |-> hist'.wrong,
                   torn |-> hist'.torn]
      BY <1>1, <2>1 DEF OathHist
    <3> QED BY <1>1, <2>2, <3>1 DEF OathHist
  <2>4. OathTypes'
    BY <1>1, <2>1, <2>3 DEF OathTypes, OathOp
  <2>5. Guesses'
    BY <2>1, <2>2 DEF Guesses, Left
  <2>6. Counts'
    BY <2>1, <2>2 DEF Counts, Past, Single
  <2>7. Todo'
    <3> SUFFICES ASSUME op'.pc = "write" PROVE Todo'
      BY DEF Todo
    <3>1. \A u \in Items(op.todo) : WriteTypes(u) /\ PinWrite(u) /\ CredWrite(u)
      BY <2>1 DEF Todo
    <3>2. ASSUME NEW u \in Items(op.todo) PROVE WriteTypes(u)' /\ PinWrite(u)' /\ CredWrite(u)'
      <4>1. WriteTypes(u)' /\ PinWrite(u)'
        BY <2>1, <2>2, <3>1 DEF WriteTypes, PinWrite
      <4>2. CredWrite(u)'
        BY <2>1, <2>2, <3>1 DEF CredWrite, NewCred, SameCred, NextCred
      <4> QED BY <4>1, <4>2
    <3>3. Items(op.todo)' = Items(op.todo)
      BY <2>1 DEF Items
    <3> QED BY <2>1, <3>2, <3>3 DEF Todo
  <2> QED BY <2>4, <2>5, <2>6, <2>7
<1>3. CASE O!PowerLoss
  <2>1. cache' = flash /\ flash' = flash /\ op' = O!Idle /\ hist' = [hist EXCEPT !.mishaps = @ + 1, !.issued = hist.settled]
    BY <1>3 DEF O!PowerLoss
  <2>2. /\ hist'.wrong = hist.wrong /\ hist'.issued = hist.settled /\ hist'.settled = hist.settled
        /\ hist'.creds = hist.creds /\ hist'.pins = hist.pins
    BY <1>1, <2>1 DEF OathHist
  <2>3. OathHist'
    <3>1. hist' = [host |-> hist'.host, creds |-> hist'.creds, pins |-> hist'.pins, cmds |-> hist'.cmds,
                   mishaps |-> hist'.mishaps, issued |-> hist'.issued, settled |-> hist'.settled, wrong |-> hist'.wrong,
                   torn |-> hist'.torn]
      BY <1>1, <2>1 DEF OathHist
    <3> QED BY <1>1, <2>2, <3>1 DEF OathHist
  <2>4. OathOp' /\ op'.pc = "idle"
    BY <2>1 DEF O!Idle, OathOp
  <2>5. OathTypes'
    BY <1>1, <2>1, <2>3, <2>4 DEF OathTypes, OathPcs
  <2>6. Guesses'
    BY <2>1, <2>2, <2>4 DEF Guesses, Left
  <2>7. Counts'
    BY <2>1, <2>2, <2>4 DEF Counts, Past, Single
  <2>8. Todo'
    BY <2>4 DEF Todo
  <2> QED BY <2>5, <2>6, <2>7, <2>8
<1> QED BY <1>2, <1>3

\* A code is given: the counter in the cache is past it, and the one in the flash where that is the cache.
LEMMA OathGives ==
    ASSUME OathInv, O!GiveCode
    PROVE  OathInv'
<1> USE DEF OathInv
<1>1. OathHist /\ cache \in OathFiles /\ flash \in OathFiles
  BY DEF OathTypes
<1> DEFINE given == hist.issued \cup {op.code}
<1>2. /\ op.pc = "code" /\ cache' = cache /\ flash' = flash /\ op' = O!Idle
      /\ hist' = [hist EXCEPT !.issued = given, !.settled = IF flash = cache THEN given ELSE hist.settled]
  BY <1>1 DEF O!GiveCode, OathHist
<1>3. PICK id \in 0 .. hist.creds, k \in Nat :
          /\ op.code = <<id, k>>
          /\ \A s \in Slots : cache.cred[s] # None /\ cache.cred[s].id = id => k < cache.cred[s].ctr
  BY <1>2 DEF Counts
<1>4. /\ hist'.wrong = hist.wrong /\ hist'.issued = given /\ hist'.settled = (IF flash = cache THEN given ELSE hist.settled)
      /\ hist'.creds = hist.creds /\ hist'.pins = hist.pins
  BY <1>1, <1>2 DEF OathHist
<1>5. hist' = [host |-> hist'.host, creds |-> hist'.creds, pins |-> hist'.pins, cmds |-> hist'.cmds,
               mishaps |-> hist'.mishaps, issued |-> hist'.issued, settled |-> hist'.settled, wrong |-> hist'.wrong,
               torn |-> hist'.torn]
  BY <1>1, <1>2 DEF OathHist
<1>6. given \subseteq (0 .. hist.creds) \X Nat
  BY <1>1, <1>3 DEF OathHist
<1>7. OathHist'
  BY <1>1, <1>4, <1>5, <1>6 DEF OathHist
<1>8. OathOp' /\ op'.pc = "idle"
  BY <1>2 DEF O!Idle, OathOp
<1>9. OathTypes'
  BY <1>1, <1>2, <1>7, <1>8 DEF OathTypes, OathPcs
<1>10. Guesses'
  BY <1>2, <1>4, <1>8 DEF Guesses, Left
<1>11. Past(cache, given)
  <2> SUFFICES ASSUME NEW s \in Slots, cache.cred[s] # None
               PROVE  cache.cred[s].id <= hist.creds /\ \A j \in Nat : <<cache.cred[s].id, j>> \in given => j < cache.cred[s].ctr
    BY DEF Past
  <2>1. cache.cred[s].id <= hist.creds /\ \A j \in Nat : <<cache.cred[s].id, j>> \in hist.issued => j < cache.cred[s].ctr
    BY DEF Counts, Past
  <2>2. \A j \in Nat : <<cache.cred[s].id, j>> = op.code => cache.cred[s].id = id /\ j = k
    BY <1>3
  <2> QED BY <1>3, <2>1, <2>2
<1>12. Past(cache, hist.issued)'
  BY <1>2, <1>4, <1>11 DEF Past
<1>13. Past(flash, hist.settled)'
  <2>1. CASE flash = cache
    <3>1. hist'.settled = given /\ flash' = cache
      BY <1>2, <1>4, <2>1
    <3> QED BY <1>4, <1>11, <3>1 DEF Past
  <2>2. CASE flash # cache
    <3>1. hist'.settled = hist.settled
      BY <1>4, <2>2
    <3> QED BY <1>2, <1>4, <3>1 DEF Past, Counts
  <2> QED BY <2>1, <2>2
<1>14. Counts'
  BY <1>2, <1>8, <1>12, <1>13 DEF Counts, Single
<1>15. Todo'
  BY <1>8 DEF Todo
<1> QED BY <1>9, <1>10, <1>14, <1>15

\* A wrong PIN uses up the try that was spent.
LEMMA OathWrong ==
    ASSUME OathInv, O!PinWrong
    PROVE  OathInv'
<1> USE DEF OathInv
<1>1. OathHist /\ cache \in OathFiles /\ flash \in OathFiles /\ MaxPins \in Nat /\ MaxTries \in Nat
  BY OathNumbers DEF OathTypes
<1> DEFINE n == cache.pin.n
           wrong == [hist.wrong EXCEPT ![n] = hist.wrong[n] + 1]
<1>2. op.pc = "compare" /\ cache' = cache /\ flash' = flash /\ op' = O!Idle /\ hist' = [hist EXCEPT !.wrong = wrong]
  <2>1. cache' = cache /\ flash' = flash /\ op' = O!Idle /\ op.pc = "compare" /\ hist' = [hist EXCEPT !.wrong[n] = @ + 1]
    BY DEF O!PinWrong
  <2>2. hist' = [hist EXCEPT !.wrong = wrong]
    BY <1>1, <2>1 DEF OathHist
  <2> QED BY <2>1, <2>2
<1>3. cache.pin \in O!Pins /\ flash.pin = cache.pin /\ hist.wrong[n] + cache.pin.tries + 1 <= MaxTries /\ cache.pin # None
  BY <1>1, <1>2 DEF Guesses, OathFiles
<1>4. n \in 1 .. MaxPins /\ cache.pin.tries \in Nat /\ hist.wrong[n] \in Nat /\ hist.wrong \in [1 .. MaxPins -> Nat] /\ n <= hist.pins /\ hist.pins \in Nat
  BY <1>1, <1>3 DEF O!Pins, OathHist, Guesses, Left
<1>5. /\ wrong \in [1 .. MaxPins -> Nat] /\ wrong[n] = hist.wrong[n] + 1
      /\ \A p \in 1 .. MaxPins : p # n => wrong[p] = hist.wrong[p]
  <2>1. hist.wrong[n] + 1 \in Nat
    BY <1>4
  <2> QED BY <1>4, <2>1
<1> HIDE DEF wrong
<1>6. /\ hist'.wrong = wrong /\ hist'.issued = hist.issued /\ hist'.settled = hist.settled
      /\ hist'.creds = hist.creds /\ hist'.pins = hist.pins
  BY <1>1, <1>2 DEF OathHist
<1>7. hist' = [host |-> hist'.host, creds |-> hist'.creds, pins |-> hist'.pins, cmds |-> hist'.cmds,
               mishaps |-> hist'.mishaps, issued |-> hist'.issued, settled |-> hist'.settled, wrong |-> hist'.wrong,
               torn |-> hist'.torn]
  BY <1>1, <1>2 DEF OathHist
<1>8. OathHist'
  BY <1>1, <1>5, <1>6, <1>7 DEF OathHist
<1>9. OathOp' /\ op'.pc = "idle"
  BY <1>2 DEF O!Idle, OathOp
<1>10. OathTypes'
  BY <1>1, <1>2, <1>8, <1>9 DEF OathTypes, OathPcs
<1>11. wrong[n] + cache.pin.tries <= MaxTries /\ wrong[n] <= MaxTries
  <2>1. \A a, b, c \in Nat : a + b + 1 <= c => (a + 1) + b <= c /\ a + 1 <= c
    OBVIOUS
  <2> QED BY <1>1, <1>3, <1>4, <1>5, <2>1
<1>12. Left(cache)' /\ Left(flash)'
  BY <1>2, <1>3, <1>4, <1>6, <1>11 DEF Left
<1>13. ASSUME NEW p \in 1 .. MaxPins PROVE wrong[p] <= MaxTries /\ (p > hist.pins => wrong[p] = 0)
  <2>1. CASE p = n
    BY <1>4, <1>11, <2>1
  <2>2. CASE p # n
    BY <1>5, <2>2 DEF Guesses
  <2> QED BY <2>1, <2>2
<1>14. Guesses'
  BY <1>6, <1>9, <1>12, <1>13 DEF Guesses
<1>15. Counts'
  BY <1>2, <1>6, <1>9 DEF Counts, Past, Single
<1>16. Todo'
  BY <1>9 DEF Todo
<1> QED BY <1>10, <1>14, <1>15, <1>16

\* The right PIN: its tries are written back, or those of the PIN that replaces it.
LEMMA OathRight ==
    ASSUME OathInv, O!PinRight
    PROVE  OathInv'
<1> USE DEF OathInv
<1>1. OathHist /\ cache \in OathFiles /\ flash \in OathFiles /\ MaxPins \in Nat /\ MaxTries \in Nat
  BY OathNumbers DEF OathTypes
<1> DEFINE m == cache.pin.n
           n == IF op.cmd = "change" THEN hist.pins + 1 ELSE m
           then == IF op.cmd = "verify" THEN "verified" ELSE "changed"
           pin == [n |-> n, tries |-> MaxTries]
           wrong == [hist.wrong EXCEPT ![m] = 0]
           pins == IF op.cmd = "change" THEN n ELSE hist.pins
<1>0. PICK w : w = O!Put("pin", pin)
  OBVIOUS
<1>2. /\ op.pc = "compare" /\ cache' = cache /\ flash' = flash /\ op' = O!Run(op.cmd, <<w>>, then)
      /\ hist' = [hist EXCEPT !.wrong = wrong, !.pins = pins] /\ (op.cmd = "change" => hist.pins < MaxPins)
  BY <1>0, <1>1 DEF O!PinRight, OathHist
<1>3. cache.pin \in O!Pins /\ flash.pin = cache.pin /\ cache.pin # None
  BY <1>1, <1>2 DEF Guesses, OathFiles
<1>4. /\ m \in 1 .. MaxPins /\ hist.wrong \in [1 .. MaxPins -> Nat] /\ m <= hist.pins /\ hist.pins \in Nat
      /\ cache.pin.tries \in 0 .. MaxTries /\ hist.pins \in 0 .. MaxPins
  BY <1>1, <1>3 DEF O!Pins, OathHist, Guesses, Left
<1>5. /\ wrong \in [1 .. MaxPins -> Nat] /\ wrong[m] = 0
      /\ \A p \in 1 .. MaxPins : p # m => wrong[p] = hist.wrong[p]
  BY <1>4
<1>6. n \in 1 .. MaxPins /\ pins \in 0 .. MaxPins /\ n <= pins /\ hist.pins <= pins
  BY <1>1, <1>2, <1>4
<1>7. wrong[n] = 0
  <2>1. CASE op.cmd = "change"
    <3>1. n > hist.pins /\ n # m
      BY <1>4, <2>1
    <3> QED BY <1>5, <1>6, <3>1 DEF Guesses
  <2> QED BY <1>5, <2>1
<1>8. pin \in O!Pins /\ pin.n = n /\ pin # None
  <2>1. MaxTries \in 0 .. MaxTries
    BY <1>1
  <2> QED BY <1>6, <2>1, OathNumbers DEF O!Pins
<1>9. then \in {"verified", "changed"}
  OBVIOUS
<1> HIDE DEF wrong, pins, n, pin, then
<1>10. /\ hist'.wrong = wrong /\ hist'.issued = hist.issued /\ hist'.settled = hist.settled
       /\ hist'.creds = hist.creds /\ hist'.pins = pins
  BY <1>1, <1>2 DEF OathHist
<1>11. hist' = [host |-> hist'.host, creds |-> hist'.creds, pins |-> hist'.pins, cmds |-> hist'.cmds,
                mishaps |-> hist'.mishaps, issued |-> hist'.issued, settled |-> hist'.settled, wrong |-> hist'.wrong,
                torn |-> hist'.torn]
  BY <1>1, <1>2 DEF OathHist
<1>12. OathHist'
  BY <1>1, <1>5, <1>6, <1>10, <1>11 DEF OathHist
<1>13. OathOp' /\ op'.cmd = op.cmd /\ op'.todo = <<w>> /\ op'.then = then /\ op'.pc = "write"
  BY <1>2, RunOne
<1>14. OathTypes'
  BY <1>1, <1>2, <1>12, <1>13 DEF OathTypes, OathPcs
<1>15. ASSUME NEW p \in 1 .. MaxPins PROVE wrong[p] <= hist.wrong[p] /\ wrong[p] \in Nat /\ (p > pins => wrong[p] = 0)
  <2>1. CASE p = m
    <3>1. wrong[p] = 0 /\ hist.wrong[p] \in Nat
      BY <1>4, <1>5, <2>1
    <3> QED BY <3>1
  <2>2. CASE p # m
    <3>1. wrong[p] = hist.wrong[p] /\ hist.wrong[p] \in Nat
      BY <1>4, <1>5, <2>2
    <3>2. p > pins => p > hist.pins
      BY <1>1, <1>4, <1>6
    <3> QED BY <3>1, <3>2 DEF Guesses
  <2> QED BY <2>1, <2>2
<1>16. ASSUME NEW f \in OathFiles, Left(f), f.pin # None PROVE f.pin.n <= pins /\ wrong[f.pin.n] + f.pin.tries <= MaxTries
  <2>1. f.pin \in O!Pins /\ f.pin.n <= hist.pins /\ hist.wrong[f.pin.n] + f.pin.tries <= MaxTries
    BY <1>16 DEF Left, OathFiles
  <2>2. f.pin.n \in 1 .. MaxPins /\ f.pin.tries \in Nat /\ hist.wrong[f.pin.n] \in Nat
    BY <1>1, <1>4, <2>1 DEF O!Pins
  <2>3. wrong[f.pin.n] <= hist.wrong[f.pin.n] /\ wrong[f.pin.n] \in Nat
    BY <1>15, <2>2
  <2>4. \A a, b, c, d \in Nat : a <= b /\ b + c <= d => a + c <= d
    OBVIOUS
  <2>5. wrong[f.pin.n] + f.pin.tries <= MaxTries
    BY <1>1, <2>1, <2>2, <2>3, <2>4
  <2>6. f.pin.n <= pins
    BY <1>4, <1>6, <2>1, <2>2
  <2> QED BY <2>5, <2>6
<1>17. Left(cache)' /\ Left(flash)'
  BY <1>1, <1>2, <1>10, <1>16 DEF Left, Guesses
<1>18. ASSUME NEW p \in 1 .. MaxPins PROVE wrong[p] <= MaxTries
  <2>1. hist.wrong[p] <= MaxTries /\ hist.wrong[p] \in Nat
    BY <1>4 DEF Guesses
  <2>2. wrong[p] <= hist.wrong[p] /\ wrong[p] \in Nat
    BY <1>15
  <2>3. \A a, b, c \in Nat : a <= b /\ b <= c => a <= c
    OBVIOUS
  <2> QED BY <1>1, <2>1, <2>2, <2>3
<1>19. Guesses'
  BY <1>10, <1>13, <1>15, <1>17, <1>18 DEF Guesses
<1>20. Counts'
  BY <1>2, <1>10, <1>13 DEF Counts, Past, Single
<1>21. w.f = "pin" /\ w.v = pin /\ w.sync = FALSE
  BY <1>0 DEF O!Put
<1>22. WriteTypes(w)' /\ CredWrite(w)'
  BY <1>8, <1>21 DEF WriteTypes, CredWrite
<1>23. PinWrite(w)'
  <2>1. hist'.wrong[w.v.n] = 0 /\ w.v.n <= hist'.pins
    BY <1>6, <1>7, <1>8, <1>10, <1>21
  <2>2. 0 + 0 <= MaxTries
    BY <1>1
  <2> QED BY <1>21, <2>1, <2>2 DEF PinWrite
<1>24. <<w>> \in Seq(Items(<<w>>)) /\ Items(<<w>>) = {w} /\ <<w>> # <<>>
  BY OneItem
<1>25. Items(op.todo)' = {w}
  BY <1>13, <1>24 DEF Items
<1>26. then \in OathPcs \ {"write", "listed", "touch", "advance"} /\ then # "compare" /\ then # "code"
  BY <1>9 DEF OathPcs
<1>27. Todo'
  BY <1>13, <1>22, <1>23, <1>24, <1>25, <1>26 DEF Todo
<1> QED BY <1>14, <1>19, <1>20, <1>27

\* The invariant holds of a new card.
LEMMA OathInit == O!Init => OathInv
<1> SUFFICES ASSUME O!Init PROVE OathInv
  OBVIOUS
<1>1. PICK h \in {"codes", "lists", "pins"}, old \in BOOLEAN, n \in Names :
          /\ cache = [cred |-> [s \in Slots |-> IF old /\ s = 0
                                   THEN [O!Cred(1, n, TRUE, FALSE) EXCEPT !.old = TRUE, !.plain = TRUE] ELSE None],
                      code |-> FALSE, guarded |-> FALSE, pin |-> None]
          /\ hist = [host |-> h, creds |-> IF old THEN 1 ELSE 0, pins |-> 0, cmds |-> 0, mishaps |-> 0,
                     issued |-> {}, settled |-> {}, wrong |-> [p \in 1 .. MaxPins |-> 0], torn |-> FALSE]
  BY DEF O!Init
<1>2. flash = cache /\ op = O!Idle
  BY DEF O!Init
<1> DEFINE c == [O!Cred(1, n, TRUE, FALSE) EXCEPT !.old = TRUE, !.plain = TRUE]
           cred == [s \in Slots |-> IF old /\ s = 0 THEN c ELSE None]
<1>3. c \in O!Creds /\ c.id = 1
  BY DEF O!Cred, O!Creds
<1> HIDE DEF c
<1>4. cred \in [Slots -> O!Creds \cup {None}] /\ \A s \in Slots : cred[s] # None => s = 0 /\ old /\ cred[s] = c
  BY <1>3
<1>5. cache = [cred |-> cred, code |-> FALSE, guarded |-> FALSE, pin |-> None]
  BY <1>1 DEF c
<1> HIDE DEF cred
<1>6. OathOp /\ op.pc = "idle"
  BY <1>2 DEF O!Idle, OathOp
<1>7. OathHist
  <2>1. [p \in 1 .. MaxPins |-> 0] \in [1 .. MaxPins -> Nat]
    OBVIOUS
  <2> QED BY <1>1, <2>1, OathNumbers DEF OathHist
<1>8. OathTypes
  BY <1>2, <1>4, <1>5, <1>6, <1>7 DEF OathTypes, OathFiles, OathPcs
<1>9. Guesses
  <2>1. cache.pin = None /\ flash.pin = None
    BY <1>2, <1>5
  <2>2. \A p \in 1 .. MaxPins : hist.wrong[p] = 0
    BY <1>1
  <2> QED BY <1>6, <2>1, <2>2, OathNumbers DEF Guesses, Left
<1>10. Counts
  <2>1. hist.issued = {} /\ hist.settled = {} /\ (old => hist.creds = 1)
    BY <1>1
  <2>2. \A s \in Slots : cache.cred[s] # None => s = 0 /\ old /\ cache.cred[s].id = 1
    BY <1>3, <1>4, <1>5
  <2> QED BY <1>2, <1>6, <2>1, <2>2 DEF Counts, Past, Single
<1>11. Todo
  BY <1>6 DEF Todo
<1> QED BY <1>8, <1>9, <1>10, <1>11 DEF OathInv

LEMMA OathNext == OathInv /\ O!Next => OathInv'
<1> SUFFICES ASSUME OathInv, O!Next PROVE OathInv'
  OBVIOUS
<1>1. CASE O!Write
  BY <1>1, OathWrites
<1>2. CASE O!Fault
  BY <1>2, OathFault
<1>3. CASE O!Drain \/ O!PowerLoss
  BY <1>3, OathFlash
<1>4. CASE O!Select
  BY <1>4, OathSelect
<1>5. ASSUME NEW n \in Names, NEW hotp \in BOOLEAN, NEW touch \in BOOLEAN, O!PutCredential(n, hotp, touch) PROVE OathInv'
  BY <1>5, OathPut
<1>6. ASSUME NEW n \in Names, NEW m \in Names, O!Rename(n, m) PROVE OathInv'
  BY <1>6, OathRename
<1>7. CASE (\E n \in Names : O!DeleteCredential(n)) \/ O!SetCode \/ O!ClearCode \/ O!Reset
  BY <1>7, OathClears
<1>8. CASE \/ O!Selected \/ O!Validate \/ O!ResetDone \/ O!SendRemaining \/ O!ReadOnly \/ O!Listed \/ O!PinDone
           \/ \E type \in {"list", "all"} : O!List(type)
           \/ \E n \in Names : O!Calculate(n)
           \/ \E pressed \in BOOLEAN : O!Touch(pressed)
  BY <1>8, OathQuiet
<1>9. CASE O!Advance
  BY <1>9, OathAdvance
<1>10. CASE O!GiveCode
  BY <1>10, OathGives
<1>11. CASE O!SetPin \/ \E cmd \in {"verify", "change"} : O!CheckPin(cmd)
  BY <1>11, OathPin
<1>12. CASE O!PinWrong
  BY <1>12, OathWrong
<1>13. CASE O!PinRight
  BY <1>13, OathRight
<1> QED BY <1>1, <1>2, <1>3, <1>4, <1>5, <1>6, <1>7, <1>8, <1>9, <1>10, <1>11, <1>12, <1>13 DEF O!Next

LEMMA OathStutter ==
    ASSUME OathInv, UNCHANGED vars
    PROVE  OathInv'
<1>1. cache' = cache /\ flash' = flash /\ op' = op /\ hist' = hist
  BY DEF vars
<1>2. OathTypes' /\ Guesses' /\ Counts'
  BY <1>1 DEF OathInv, OathTypes, OathOp, OathHist, Guesses, Left, Counts, Past, Single
<1>3. Todo'
  BY <1>1 DEF OathInv, Todo, Items, WriteTypes, PinWrite, CredWrite, NewCred, SameCred, NextCred
<1> QED BY <1>2, <1>3 DEF OathInv

LEMMA OathInvSpec == Spec => [](part = "oath" => OathInv)
<1>1. Init => (part = "oath" => OathInv)
  BY OathInit DEF Init
<1>2. (part = "oath" => OathInv) /\ [Next]_vars => (part = "oath" => OathInv)'
  <2> SUFFICES ASSUME part = "oath" => OathInv, [Next]_vars, part' = "oath" PROVE OathInv'
    OBVIOUS
  <2>1. CASE Next
    BY <2>1, OathNext DEF Next
  <2>2. CASE UNCHANGED vars
    <3>1. part = "oath"
      BY <2>2 DEF vars
    <3> QED BY <2>2, <3>1, OathStutter
  <2> QED BY <2>1, <2>2
<1> QED BY <1>1, <1>2, PTL DEF Spec

\* An OTP PIN is compared with at most MAX_OTP_COUNTER wrong values between two right ones: the try is
\* spent in the flash before the comparison (cmd_verify_otp, cmd_change_pin), so no power loss, no failed
\* or torn write and no other command gives a try back.
THEOREM OtpTriesBounded == Spec => []OtpGuessesBounded
<1>1. (part = "oath" => OathInv) => OtpGuessesBounded
  BY DEF OathInv, Guesses, OtpGuessesBounded, O!OtpGuessesBounded
<1> QED BY <1>1, OathInvSpec, PTL

\* No counter of a HOTP credential gives two codes (cmd_calculate): the next one is stored before the code
\* is computed, and no rename, overwriting, migration or failed write sets it back. After a power loss that
\* holds of the codes that were settled in the flash.
THEOREM OathCodesFresh == Spec => [](part = "oath" => O!NoCodeTwice)
<1>1. (part = "oath" => OathInv) => (part = "oath" => O!NoCodeTwice)
  BY DEF OathInv, Counts, O!NoCodeTwice
<1> QED BY <1>1, OathInvSpec, PTL
=============================================================================
