----------------------------- MODULE CardsProofs -----------------------------
(***************************************************************************)
(* Proofs for the parts of MCCards, for every value of their constants:    *)
(* the signatures of OpenPGP, the policies of its keys and of those of     *)
(* PIV, that PIV can be administered or reset, and that the references of  *)
(* OpenPGP and the sessions they open keep fitting its private keys.       *)
(***************************************************************************)
EXTENDS MCCards, Integers, Sequences, TLAPS

-----------------------------------------------------------------------------
(* OpenPgpKeys *)

Exchanged == {"dec", "aut"}

KeysTypes ==
    /\ files \in [key : [K!KeySlots -> Algos \cup {None}], algo : [K!KeySlots -> Algos], uif : [K!KeySlots -> 0..2],
                  count : Nat, several : BOOLEAN, aes : BOOLEAN, certs : SUBSET K!Certs]
    /\ ram \in [has : SUBSET K!Accesses, auth : BOOLEAN, aut : {"dec", "aut"}, dec : {"dec", "aut"}, ef : 0..3]
    /\ op \in [pc : {"idle", "button", "use", "count"}, slot : K!KeySlots, uif : K!KeySlots, aes : BOOLEAN,
               pressed : BOOLEAN]
    /\ op.pc = "idle" => op = K!Idle
    /\ DOMAIN hist = {"host", "signs", "used", "keys"} /\ hist.signs \in Nat

\* A command that waits for the button or uses a key goes by the flag of that key.
Touched ==
    /\ op.pc \in {"button", "use"} => op.slot = op.uif
    /\ op.pc = "use" /\ files.uif[op.uif] > 0 => op.pressed

\* A signature that is on its way may be made, and an access by PW1 is not used up.
Signing ==
    /\ op.pc \in {"button", "use"} /\ op.slot = "sig" => K!MaySign
    /\ "pw1" \in ram.has => ~hist.used

\* The counter counts the signatures, but for a new key whose counter is being reset.
Counting == IF op.pc = "count" /\ op.slot = "sig" THEN hist.signs = 0 ELSE files.count = hist.signs

KeysInv == KeysTypes /\ Touched /\ Signing /\ Counting

LEMMA KeysInit == K!Init => KeysInv
<1> SUFFICES ASSUME K!Init PROVE KeysInv
  OBVIOUS
<1>1. PICK a \in Algos : K!NewFiles.algo = [s \in K!KeySlots |-> a]
  BY CardConstants DEF K!NewFiles
<1>2. /\ files = K!NewFiles /\ ram = K!NoSession /\ op = K!Idle
      /\ \E h \in {"signs", "touches", "objects"} : hist = [host |-> h, signs |-> 0, used |-> FALSE, keys |-> 0]
  BY DEF K!Init
<1>3. files \in [key : [K!KeySlots -> Algos \cup {None}], algo : [K!KeySlots -> Algos], uif : [K!KeySlots -> 0..2],
                 count : Nat, several : BOOLEAN, aes : BOOLEAN, certs : SUBSET K!Certs]
  BY <1>1, <1>2 DEF K!NewFiles
<1>4. KeysTypes
  BY <1>2, <1>3 DEF KeysTypes, K!NoSession, K!Idle, K!KeySlots
<1> QED BY <1>2, <1>4 DEF KeysInv, Touched, Signing, Counting, K!NewFiles, K!NoSession, K!Idle

LEMMA KeysNext == KeysInv /\ K!Next => KeysInv'
<1> SUFFICES ASSUME KeysInv, K!Next PROVE KeysInv'
  OBVIOUS
<1> USE DEF KeysInv, KeysTypes, Touched, Signing, Counting, K!KeySlots, K!Accesses, K!Certs, K!Idle, K!MaySign
<1>1. ASSUME NEW a \in K!Accesses, K!Verify(a) \/ K!VerifyWrong(a) \/ K!Logout(a) PROVE KeysInv'
  <2>1. CASE K!Verify(a)
    BY <2>1 DEF K!Verify
  <2>2. CASE K!VerifyWrong(a)
    BY <2>2 DEF K!VerifyWrong
  <2>3. CASE K!Logout(a)
    BY <2>3 DEF K!Logout
  <2> QED BY <1>1, <2>1, <2>2, <2>3
<1>2. ASSUME K!Select PROVE KeysInv'
  BY <1>2 DEF K!Select, K!NoSession
<1>3. ASSUME K!PsoSign PROVE KeysInv'
  BY <1>3 DEF K!PsoSign, K!Begin, K!UifOf
<1>4. ASSUME NEW aes \in BOOLEAN, K!MayUse, op = K!Idle, K!Begin("dec", ram.dec, aes) PROVE KeysInv'
  BY <1>4 DEF K!Begin, K!UifOf
<1>5. ASSUME K!InternalAut PROVE KeysInv'
  BY <1>5 DEF K!InternalAut, K!Begin, K!UifOf
<1>6. ASSUME NEW b \in BOOLEAN, NEW s \in {"dec", "aut"}, K!Mse(b, s) PROVE KeysInv'
  BY <1>6 DEF K!Mse
<1>7. ASSUME NEW s \in K!KeySlots, NEW gen \in BOOLEAN, K!StoreKey(s, gen) PROVE KeysInv'
  <2>1. /\ files.algo[s] \in Algos
        /\ files' = [files EXCEPT !.key[s] = files.algo[s]] /\ UNCHANGED ram
        /\ op = K!Idle /\ op' = [pc |-> "count", slot |-> s, uif |-> "sig", aes |-> gen, pressed |-> FALSE]
        /\ hist' = [hist EXCEPT !.keys = @ + 1, !.signs = IF s = "sig" THEN 0 ELSE @]
    BY <1>7 DEF K!StoreKey, K!Put
  <2>2. /\ DOMAIN hist' = {"host", "signs", "used", "keys"}
        /\ hist'.used = hist.used /\ hist'.signs = (IF s = "sig" THEN 0 ELSE hist.signs)
    BY <2>1
  <2>3. /\ files' \in [key : [K!KeySlots -> Algos \cup {None}], algo : [K!KeySlots -> Algos], uif : [K!KeySlots -> 0..2],
                       count : Nat, several : BOOLEAN, aes : BOOLEAN, certs : SUBSET K!Certs]
        /\ files'.count = files.count
    BY <2>1
  <2> QED BY <2>1, <2>2, <2>3
<1>8. ASSUME NEW s \in K!KeySlots, NEW a \in Algos, K!PutAlgo(s, a) PROVE KeysInv'
  BY <1>8 DEF K!PutAlgo, K!PutFile, K!Put
<1>9. ASSUME NEW s \in K!KeySlots, NEW v \in 0 .. 2, K!PutUif(s, v) PROVE KeysInv'
  BY <1>9 DEF K!PutUif, K!PutFile, K!Put
<1>10. ASSUME NEW b \in BOOLEAN, K!PutPwStatus(b) PROVE KeysInv'
  BY <1>10 DEF K!PutPwStatus, K!PutFile, K!Put
<1>11. ASSUME K!Pressed \/ K!NotPressed \/ K!UseKey PROVE KeysInv'
  <2>1. CASE K!Pressed
    BY <2>1 DEF K!Pressed
  <2>2. CASE op' = K!Idle /\ op.pc \in {"button", "use"} /\ UNCHANGED <<files, ram, hist>>
    BY <2>2
  <2> QED BY <1>11, <2>1, <2>2 DEF K!NotPressed, K!UseKey, K!Return
<1>12. ASSUME K!SignKey PROVE KeysInv'
  <2>1. /\ op.pc = "use" /\ op.slot = "sig" /\ op' = K!Idle
        /\ ram' = [ram EXCEPT !.has = IF files.several THEN @ ELSE @ \ {"pw1"}]
        /\ files' = [files EXCEPT !.count = @ + 1]
        /\ hist' = [hist EXCEPT !.signs = @ + 1, !.used = @ \/ ~files.several]
    BY <1>12 DEF K!SignKey, K!Return, K!Put, K!AfterSignature
  <2>2. DOMAIN hist' = {"host", "signs", "used", "keys"}
    BY <2>1
  <2>3. hist'.signs = hist.signs + 1 /\ (hist'.used => hist.used \/ ~files.several)
    BY <2>1
  <2>4. /\ files' \in [key : [K!KeySlots -> Algos \cup {None}], algo : [K!KeySlots -> Algos], uif : [K!KeySlots -> 0..2],
                       count : Nat, several : BOOLEAN, aes : BOOLEAN, certs : SUBSET K!Certs]
        /\ files'.count = files.count + 1
    BY <2>1
  <2>5. /\ ram' \in [has : SUBSET K!Accesses, auth : BOOLEAN, aut : {"dec", "aut"}, dec : {"dec", "aut"}, ef : 0..3]
        /\ "pw1" \in ram'.has => "pw1" \in ram.has /\ files.several
    BY <2>1
  <2> QED BY <2>1, <2>2, <2>3, <2>4, <2>5
<1>13. ASSUME K!StoreCount PROVE KeysInv'
  BY <1>13 DEF K!StoreCount, K!Return, K!Put, K!AfterStore
<1>14. ASSUME K!DataObjects PROVE KeysInv'
  <2>1. CASE K!PutCert
    BY <2>1 DEF K!PutCert, K!PutFile, K!Put, K!Cert
  <2>2. CASE K!GetNextData
    BY <2>2 DEF K!GetNextData
  <2>3. ASSUME NEW c \in K!Certs, K!SelectData(c) PROVE KeysInv'
    BY <2>3 DEF K!SelectData
  <2>4. ASSUME NEW obj \in K!ObjectNames \cup {"cert"}, K!GetData(obj) PROVE KeysInv'
    BY <2>4 DEF K!GetData, K!Cert
  <2> QED BY <1>14, <2>1, <2>2, <2>3, <2>4 DEF K!DataObjects
<1>15. ASSUME K!TerminateDf PROVE KeysInv'
  <2>1. PICK a \in Algos : K!NewFiles.algo = [s \in K!KeySlots |-> a]
    BY CardConstants DEF K!NewFiles
  <2>2. /\ files' = K!NewFiles /\ op = K!Idle /\ UNCHANGED op
        /\ ram' = [ram EXCEPT !.has = {}] /\ hist' = [hist EXCEPT !.signs = 0]
    BY <1>15 DEF K!TerminateDf, K!Put
  <2> QED BY <2>1, <2>2 DEF K!NewFiles
<1>16. K!Signing => KeysInv'
  BY <1>3, <1>7, <1>8, <1>10 DEF K!Signing
<1>17. K!Touching => KeysInv'
  BY <1>3, <1>4, <1>5, <1>6, <1>9 DEF K!Touching, K!PsoDecipher, K!PsoAes
<1> QED BY <1>1, <1>2, <1>11, <1>12, <1>13, <1>14, <1>15, <1>16, <1>17 DEF K!Next

LEMMA KeysStutter == KeysInv /\ UNCHANGED K!vars => KeysInv'
BY DEF K!vars, KeysInv, KeysTypes, Touched, Signing, Counting, K!MaySign

LEMMA KeysProperties == KeysInv => K!TouchOfTheKey /\ K!CountExact
BY DEF KeysInv, KeysTypes, Touched, Counting, K!TouchOfTheKey, K!CountExact, K!Idle

\* The number of signatures grows by SignKey only.
LEMMA SignaturesAllowed == KeysInv /\ [K!Next]_K!vars => K!SignedWith
<1> SUFFICES ASSUME KeysInv, [K!Next]_K!vars, hist'.signs > hist.signs
             PROVE  IF files.several THEN ram.has \cap {"pw1", "pw3"} # {} ELSE "pw1" \in ram.has /\ ~hist.used
  BY DEF K!SignedWith
<1>1. hist.signs \in Nat /\ hist'.signs # hist.signs
  BY DEF KeysInv, KeysTypes
<1>2. K!SignKey
  <2>1. ~(\E s \in K!KeySlots, gen \in BOOLEAN : K!StoreKey(s, gen)) /\ ~K!TerminateDf
    <3>1. hist'.signs # 0
      BY <1>1
    <3>2. ASSUME NEW s \in K!KeySlots, NEW gen \in BOOLEAN, K!StoreKey(s, gen) PROVE hist'.signs \in {0, hist.signs}
      BY <3>2 DEF KeysInv, KeysTypes, K!StoreKey
    <3>3. K!TerminateDf => hist'.signs = 0
      BY DEF KeysInv, KeysTypes, K!TerminateDf
    <3> QED BY <1>1, <3>1, <3>2, <3>3
  <2>2. ~UNCHANGED hist
    BY <1>1
  <2>3. ~(\E a \in K!Accesses : K!Verify(a) \/ K!VerifyWrong(a) \/ K!Logout(a))
    BY <1>1 DEF KeysInv, KeysTypes, K!Verify, K!VerifyWrong, K!Logout
  <2>4. ~K!Signing
    BY <2>1, <2>2 DEF K!Signing, K!PsoSign, K!Begin, K!PutAlgo, K!PutPwStatus, K!PutFile
  <2>5. ~K!Touching
    BY <2>2 DEF K!Touching, K!PsoSign, K!PsoDecipher, K!PsoAes, K!InternalAut, K!Begin, K!Mse, K!PutUif, K!PutFile
  <2>6. ~K!DataObjects
    BY <2>2 DEF K!DataObjects, K!PutCert, K!PutFile, K!GetNextData, K!SelectData, K!GetData
  <2>7. ~(K!Select \/ K!Pressed \/ K!NotPressed \/ K!UseKey \/ K!StoreCount)
    BY <2>2 DEF K!Select, K!Pressed, K!NotPressed, K!UseKey, K!StoreCount
  <2> QED BY <2>1, <2>2, <2>3, <2>4, <2>5, <2>6, <2>7 DEF K!Next, K!vars
<1>3. K!MaySign /\ ("pw1" \in ram.has => ~hist.used)
  BY <1>2 DEF KeysInv, Signing, K!SignKey
<1> QED BY <1>3 DEF K!MaySign

-----------------------------------------------------------------------------
(* Piv *)

FileNames == {"ref", "tries", "limit", "dek", "mgm", "mgmMeta", "att", "key", "meta", "cert"}

IsCard(c) ==
    /\ DOMAIN c = FileNames
    /\ DOMAIN c.key = Slots /\ DOMAIN c.meta = V!Tags /\ DOMAIN c.tries = V!References /\ c.dek \in BOOLEAN

\* A write of a whole file, or of a key, its metadata or a counter; keys and metadata as a whole are only cleared.
IsWrite(w) ==
    \/ w.at = None /\ w.f \in FileNames \ {"key", "meta", "tries", "dek"}
    \/ w.at = None /\ w.f = "dek" /\ w.v \in BOOLEAN
    \/ w.at = None /\ w.f = "key" /\ w.v = [s \in Slots |-> None]
    \/ w.at = None /\ w.f = "meta" /\ w.v = [t \in V!Tags |-> None]
    \/ w.at = None /\ w.f = "tries" /\ DOMAIN w.v = V!References
    \/ w.at \in Slots /\ w.f \in {"key", "meta"}
    \/ w.at \in V!References /\ w.f \in {"tries", "ref"}

HistNames == {"host", "keys", "nonces", "faults", "cuts", "cmds", "spent", "touched", "used", "part", "torn"}

PivTypes ==
    /\ IsCard(cache) /\ IsCard(flash)
    /\ DOMAIN ram = {"pwpiv", "mgm", "chal"} /\ DOMAIN hist = HistNames
    /\ DOMAIN op = {"pc", "cmd", "todo", "then", "slot", "pressed"}
    /\ op.pc \in {"idle", "off", "scan", "verified", "button", "use", "write"}
    /\ op.pc = "idle" => op = V!Idle
    /\ op.pc # "write" => op.todo = <<>>
    /\ op.pc = "write" => /\ op.todo # <<>> /\ op.then \in {"idle", "scan", "verified"}
                          /\ \E S : op.todo \in Seq(S) /\ \A w \in S : IsWrite(w)

Fits(c, s) == c.key[s] # None /\ c.meta[s] # None => c.meta[s] = V!MetaOf(c.key[s])

Clears(w) == w.f \in {"key", "meta"} /\ w.at # None => w.v = None

\* Nothing but deletions of keys and metadata is pending.
Clearing ==
    /\ \A i \in 1..Len(op.todo) : Clears(op.todo[i])
    /\ \A s \in Slots \ hist.torn : Fits(cache, s)

\* GENERATE, IMPORT and MOVE are about to write a key and its metadata.
Generates(s, k, m) ==
    /\ op.cmd = "keygen" /\ op.slot = s
    /\ \/ \E c : op.todo = <<V!Put("cert", c), V!PutAt("key", s, k), V!PutAt("meta", s, m)>>
       \/ op.todo = <<V!PutAt("key", s, k), V!PutAt("meta", s, m)>>
       \/ op.todo = <<V!PutAt("meta", s, m)>> /\ cache.key[s] = k

ImportsKey(s, k, m) ==
    /\ op.cmd = "import"
    /\ \/ op.todo = <<V!PutAt("meta", s, None), V!PutAt("key", s, k), V!PutAt("meta", s, m)>>
       \/ op.todo = <<V!PutAt("key", s, k), V!PutAt("meta", s, m)>> /\ cache.meta[s] = None
       \/ op.todo = <<V!PutAt("meta", s, m)>> /\ cache.key[s] = k

Moves(s, k, m) ==
    /\ op.cmd = "move" /\ op.slot = s
    /\ \E t \in Slots \ {s} : \E c, d :
          \/ op.todo = <<V!PutAt("key", s, k), V!Put("cert", c), V!PutAt("meta", s, m), V!PutAt("meta", t, None),
                         V!Put("cert", d), V!PutAt("key", t, None)>>
          \/ /\ \/ op.todo = <<V!Put("cert", c), V!PutAt("meta", s, m), V!PutAt("meta", t, None),
                               V!Put("cert", d), V!PutAt("key", t, None)>>
                \/ op.todo = <<V!PutAt("meta", s, m), V!PutAt("meta", t, None), V!Put("cert", d), V!PutAt("key", t, None)>>
             /\ cache.key[s] = k

Agree(k, m) == k # None /\ m # None => m = V!MetaOf(k)

Filling ==
    \E s \in Slots : \E k, m :
        /\ s \in hist.torn \/ Agree(k, m)
        /\ Generates(s, k, m) \/ ImportsKey(s, k, m) \/ Moves(s, k, m)

\* Metadata fit their keys, in both images, but where they are being written.
Policy ==
    /\ \A s \in Slots \ (hist.torn \cup V!Torn) : Fits(cache, s)
    /\ \A s \in Slots \ (hist.torn \cup hist.part) : Fits(flash, s)
    /\ Clearing \/ Filling

\* A key of policy "always" is used after a verification that no other use has taken.
Using ==
    /\ ram.pwpiv => ~hist.used
    /\ op.pc \in {"button", "use"} =>
          /\ op.slot \in Slots /\ cache.key[op.slot] # None /\ cache.meta[op.slot] # None
          /\ op.slot \notin hist.torn /\ cache.key[op.slot].pin = "always" => ram.pwpiv

Fine(c) == V!MgmWorks(c) \/ V!Blocked(c)

\* The management key is about to be written with its metadata, by SET MANAGEMENT KEY or the first scan.
Mends ==
    /\ op.cmd \in {"scan", "mgm"} /\ op.slot = "mgm" /\ op.then = "idle"
    /\ \E i \in 1..Len(op.todo), a \in V!MgmAlgos, touch \in BOOLEAN :
          /\ op.todo[i] = V!Put("mgmMeta", [algo |-> a, touch |-> touch])
          /\ IF i = 1 THEN cache.mgm = a ELSE op.todo[i - 1] = V!Put("mgm", a)
          /\ \A j \in 1..Len(op.todo) : j # i /\ j # i - 1 => op.todo[j].f \notin {"mgm", "mgmMeta"}

\* RESET gives the tries back last, when the data encryption key is gone.
Resets ==
    /\ op.cmd = "reset" /\ op.then = "scan" /\ V!Blocked(cache)
    /\ \A i \in 1..Len(op.todo) : op.todo[i].f = "dek" => op.todo[i].v = FALSE
    /\ \A i \in 1..Len(op.todo) : op.todo[i].f = "tries" => i = Len(op.todo)
    /\ cache.dek = FALSE \/ \E i \in 1..Len(op.todo) : op.todo[i].f = "dek"
    /\ op.todo[Len(op.todo)].f = "tries"

\* A management key that works is not touched, and a card that is blocked is given no tries back.
Quiet ==
    /\ op.then \in {"idle", "verified"}
    /\ \/ V!MgmWorks(cache) /\ \A i \in 1..Len(op.todo) : op.todo[i].f \notin {"mgm", "mgmMeta"}
       \/ V!Blocked(cache) /\ \A i \in 1..Len(op.todo) : op.todo[i].f # "tries"

\* The cards about which nothing is said: see Manageable, and those whose management key MOVE KEY may delete.
Exempt(marks) == MoveMgm # FALSE \/ marks \cap {"mgm", "retries"} # {}

Managing ==
    /\ ~Exempt(hist.torn) =>
          /\ op.pc \in {"idle", "verified", "button", "use"} => Fine(cache)
          /\ op.pc \in {"off", "scan"} => Fine(cache) \/ cache.dek = FALSE
          /\ op.pc = "write" => Mends \/ Resets \/ Quiet
    /\ ~Exempt(hist.torn \cup hist.part) => Fine(flash) \/ flash.dek = FALSE

PivInv == PivTypes /\ Policy /\ Using /\ Managing

-----------------------------------------------------------------------------
(* Files and writes *)

\* No reference has its file under another number.
NoSlot18 == Slot18 = None

LEMMA AppliedIs ==
    ASSUME NEW c, IsCard(c), NEW w, IsWrite(w), NEW d, d = V!Applied(c, w)
    PROVE  /\ IsCard(d)
           /\ w.f # "key" => d.key = c.key
           /\ w.f # "meta" => d.meta = c.meta
           /\ w.f # "tries" => d.tries = c.tries
           /\ w.f # "mgm" => d.mgm = c.mgm
           /\ w.f # "mgmMeta" => d.mgmMeta = c.mgmMeta
           /\ w.f # "dek" => d.dek = c.dek
           /\ w.f = "mgm" => d.mgm = w.v
           /\ w.f = "mgmMeta" => d.mgmMeta = w.v
           /\ w.f = "dek" => d.dek = w.v
           /\ w.f = "key" => IF w.at = None THEN d.key = [s \in Slots |-> None] ELSE d.key = [c.key EXCEPT ![w.at] = w.v]
           /\ w.f = "meta" => IF w.at = None THEN d.meta = [t \in V!Tags |-> None] ELSE d.meta = [c.meta EXCEPT ![w.at] = w.v]
<1> USE CardConstants DEF IsCard, FileNames
<1>1. CASE w.at = None
  <2>1. d = [c EXCEPT ![w.f] = w.v] /\ w.f \in FileNames
    BY <1>1 DEF V!Applied, IsWrite, V!References
  <2>2. \A f \in FileNames : d[f] = IF f = w.f THEN w.v ELSE c[f]
    BY <2>1
  <2>3. DOMAIN d = FileNames
    BY <2>1
  <2>4. /\ w.f = "key" => w.v = [s \in Slots |-> None]
        /\ w.f = "meta" => w.v = [t \in V!Tags |-> None]
        /\ w.f = "tries" => DOMAIN w.v = V!References
        /\ w.f = "dek" => w.v \in BOOLEAN
    BY <1>1 DEF IsWrite, V!References
  <2> QED BY <1>1, <2>2, <2>3, <2>4
<1>2. CASE w.at # None
  <2>1. d = [c EXCEPT ![w.f][w.at] = V!Value(c, w)] /\ w.f \in {"key", "meta", "tries", "ref"}
    BY <1>2 DEF V!Applied, IsWrite
  <2>2. \A f \in FileNames : d[f] = IF f = w.f THEN [c[f] EXCEPT ![w.at] = V!Value(c, w)] ELSE c[f]
    BY <2>1
  <2>3. DOMAIN d = FileNames
    BY <2>1
  <2>4. w.f # "tries" => V!Value(c, w) = w.v
    BY DEF V!Value
  <2> QED BY <1>2, <2>1, <2>2, <2>3, <2>4
<1> QED BY <1>1, <1>2

\* ... and no more than the file that is written
LEMMA AppliedKeeps ==
    ASSUME NEW c, IsCard(c), NEW w, IsWrite(w), NEW d, d = V!Applied(c, w)
    PROVE  /\ w.f # "key" => d.key = c.key
           /\ w.f # "meta" => d.meta = c.meta
           /\ w.f # "tries" => d.tries = c.tries
           /\ w.f # "mgm" => d.mgm = c.mgm
           /\ w.f # "mgmMeta" => d.mgmMeta = c.mgmMeta
           /\ w.f # "dek" => d.dek = c.dek
<1>1. /\ IsCard(d)
      /\ w.f # "key" => d.key = c.key
      /\ w.f # "meta" => d.meta = c.meta
      /\ w.f # "tries" => d.tries = c.tries
      /\ w.f # "mgm" => d.mgm = c.mgm
      /\ w.f # "mgmMeta" => d.mgmMeta = c.mgmMeta
      /\ w.f # "dek" => d.dek = c.dek
      /\ w.f = "mgm" => d.mgm = w.v
      /\ w.f = "mgmMeta" => d.mgmMeta = w.v
      /\ w.f = "dek" => d.dek = w.v
      /\ w.f = "key" => IF w.at = None THEN d.key = [s \in Slots |-> None] ELSE d.key = [c.key EXCEPT ![w.at] = w.v]
      /\ w.f = "meta" => IF w.at = None THEN d.meta = [t \in V!Tags |-> None] ELSE d.meta = [c.meta EXCEPT ![w.at] = w.v]
  BY AppliedIs
<1> QED BY <1>1

LEMMA AppliedSets ==
    ASSUME NEW c, IsCard(c), NEW w, IsWrite(w), NEW d, d = V!Applied(c, w)
    PROVE  /\ w.f = "mgm" => d.mgm = w.v
           /\ w.f = "mgmMeta" => d.mgmMeta = w.v
           /\ w.f = "dek" => d.dek = w.v
<1>1. /\ IsCard(d)
      /\ w.f # "key" => d.key = c.key
      /\ w.f # "meta" => d.meta = c.meta
      /\ w.f # "tries" => d.tries = c.tries
      /\ w.f # "mgm" => d.mgm = c.mgm
      /\ w.f # "mgmMeta" => d.mgmMeta = c.mgmMeta
      /\ w.f # "dek" => d.dek = c.dek
      /\ w.f = "mgm" => d.mgm = w.v
      /\ w.f = "mgmMeta" => d.mgmMeta = w.v
      /\ w.f = "dek" => d.dek = w.v
      /\ w.f = "key" => IF w.at = None THEN d.key = [s \in Slots |-> None] ELSE d.key = [c.key EXCEPT ![w.at] = w.v]
      /\ w.f = "meta" => IF w.at = None THEN d.meta = [t \in V!Tags |-> None] ELSE d.meta = [c.meta EXCEPT ![w.at] = w.v]
  BY AppliedIs
<1> QED BY <1>1

\* Deleting a key or its metadata leaves nothing that does not fit.
LEMMA ClearingFits ==
    ASSUME NEW c, IsCard(c), NEW w, IsWrite(w), Clears(w), NEW d, d = V!Applied(c, w), NEW s \in Slots, Fits(c, s)
    PROVE  Fits(d, s)
<1>1. /\ w.f # "key" => d.key = c.key
      /\ w.f # "meta" => d.meta = c.meta
      /\ w.f = "key" => IF w.at = None THEN d.key = [t \in Slots |-> None] ELSE d.key = [c.key EXCEPT ![w.at] = w.v]
      /\ w.f = "meta" => IF w.at = None THEN d.meta = [t \in V!Tags |-> None] ELSE d.meta = [c.meta EXCEPT ![w.at] = w.v]
  BY AppliedIs
<1>2. DOMAIN c.key = Slots /\ DOMAIN c.meta = V!Tags /\ s \in V!Tags
  BY DEF IsCard, V!Tags
<1>3. d.key[s] \in {c.key[s], None}
  BY <1>1, <1>2 DEF Clears
<1>4. d.meta[s] \in {c.meta[s], None}
  BY <1>1, <1>2 DEF Clears
<1> QED BY <1>3, <1>4 DEF Fits

\* A write to the key or the metadata of one slot leaves the others alone.
LEMMA OtherSlot ==
    ASSUME NEW c, IsCard(c), NEW s \in Slots, NEW f \in {"key", "meta"}, NEW v, NEW d, d = V!Applied(c, V!PutAt(f, s, v))
    PROVE  /\ IsWrite(V!PutAt(f, s, v)) /\ IsCard(d)
           /\ \A t \in Slots : t # s /\ Fits(c, t) => Fits(d, t)
           /\ f = "key" => d.key[s] = v /\ d.meta[s] = c.meta[s]
           /\ f = "meta" => d.meta[s] = v /\ d.key[s] = c.key[s]
<1>1. PICK w : w = V!PutAt(f, s, v)
  OBVIOUS
<1>2. w.f = f /\ w.at = s /\ w.v = v /\ IsWrite(w) /\ w.at # None
  BY <1>1, CardConstants DEF V!PutAt, IsWrite
<1>3. /\ IsCard(d)
      /\ f # "key" => d.key = c.key
      /\ f # "meta" => d.meta = c.meta
      /\ f = "key" => d.key = [c.key EXCEPT ![s] = v]
      /\ f = "meta" => d.meta = [c.meta EXCEPT ![s] = v]
  BY <1>1, <1>2, AppliedIs
<1>4. DOMAIN c.key = Slots /\ DOMAIN c.meta = V!Tags /\ Slots \subseteq V!Tags
  BY DEF IsCard, V!Tags
<1> QED BY <1>1, <1>2, <1>3, <1>4 DEF Fits

\* The first write of a list and what is left
LEMMA RestOf ==
    ASSUME NEW S, NEW todo \in Seq(S), todo # <<>>
    PROVE  /\ Len(todo) \in Nat /\ 1 \in 1..Len(todo) /\ Head(todo) = todo[1] /\ todo[1] \in S
           /\ Tail(todo) \in Seq(S) /\ Len(Tail(todo)) = Len(todo) - 1
           /\ \A i \in 1..Len(Tail(todo)) : i + 1 \in 1..Len(todo) /\ Tail(todo)[i] = todo[i + 1]
           /\ Len(todo) > 1 <=> Tail(todo) # <<>>
<1>1. Len(todo) \in Nat /\ 1 \in 1..Len(todo) /\ Head(todo) = todo[1] /\ todo[1] \in S
  OBVIOUS
<1>2. PICK n \in Nat : n = Len(todo) /\ n >= 1
  BY <1>1
<1>3. PICK rest : rest = Tail(todo)
  OBVIOUS
<1>4. rest \in Seq(S) /\ Len(rest) = n - 1 /\ \A i \in 1..(n - 1) : rest[i] = todo[i + 1]
  BY <1>2, <1>3
<1>5. n > 1 <=> rest # <<>>
  BY <1>2, <1>4
<1>6. \A i \in 1..Len(rest) : i + 1 \in 1..Len(todo) /\ rest[i] = todo[i + 1]
  BY <1>2, <1>4
<1> QED BY <1>1, <1>2, <1>3, <1>4, <1>5, <1>6

\* What Write does: w is written, and either rest stays to be written or the handler is at its end.
LEMMA WriteIs ==
    ASSUME PivInv, V!Write
    PROVE  \E S, w, rest :
             /\ op.todo \in Seq(S) /\ (\A x \in S : IsWrite(x)) /\ rest \in Seq(S)
             /\ op.todo # <<>> /\ w = Head(op.todo) /\ rest = Tail(op.todo) /\ IsWrite(w)
             /\ op.pc = "write" /\ op.then \in {"idle", "scan", "verified"}
             /\ cache' = V!Applied(cache, w) /\ UNCHANGED <<flash, ram, hist>>
             /\ IF rest # <<>>
                THEN op' = [op EXCEPT !.todo = rest]
                ELSE op' = V!At(op.then)
<1>1. op.pc = "write" /\ op.todo # <<>> /\ op.then \in {"idle", "scan", "verified"}
      /\ \E S : op.todo \in Seq(S) /\ \A x \in S : IsWrite(x)
  BY DEF PivInv, PivTypes, V!Write
<1>2. PICK S : op.todo \in Seq(S) /\ \A x \in S : IsWrite(x)
  BY <1>1
<1>3. PICK todo, w, rest : todo = op.todo /\ w = Head(todo) /\ rest = Tail(todo)
  OBVIOUS
<1>4. w \in S /\ rest \in Seq(S) /\ (Len(todo) > 1 <=> rest # <<>>)
  BY <1>1, <1>2, <1>3, RestOf
<1>5. /\ cache' = V!Applied(cache, w) /\ UNCHANGED <<flash, ram, hist>>
      /\ op' = IF Len(todo) > 1 THEN [op EXCEPT !.todo = rest] ELSE V!At(op.then)
  BY <1>3 DEF V!Write, V!Further
<1>6. IF rest # <<>> THEN op' = [op EXCEPT !.todo = rest] ELSE op' = V!At(op.then)
  BY <1>4, <1>5
<1> QED BY <1>1, <1>2, <1>3, <1>4, <1>5, <1>6

\* The parts of a handler that rests, and of one that goes on
LEMMA AtFields ==
    ASSUME NEW pc, NEW o, o = V!At(pc)
    PROVE  /\ DOMAIN o = {"pc", "cmd", "todo", "then", "slot", "pressed"}
           /\ o.pc = pc /\ o.todo = <<>> /\ Len(o.todo) = 0
BY DEF V!At

LEMMA GoesOn ==
    ASSUME PivTypes, NEW rest, op' = [op EXCEPT !.todo = rest]
    PROVE  /\ DOMAIN op' = DOMAIN op /\ op'.todo = rest
           /\ op'.pc = op.pc /\ op'.cmd = op.cmd /\ op'.then = op.then /\ op'.slot = op.slot /\ op'.pressed = op.pressed
BY DEF PivTypes

\* One write keeps the types.
LEMMA WriteTypes ==
    ASSUME PivInv, V!Write
    PROVE  PivTypes' /\ Using'
<1>1. PICK S, w, rest :
             /\ op.todo \in Seq(S) /\ (\A x \in S : IsWrite(x)) /\ rest \in Seq(S)
             /\ op.todo # <<>> /\ w = Head(op.todo) /\ rest = Tail(op.todo) /\ IsWrite(w)
             /\ op.pc = "write" /\ op.then \in {"idle", "scan", "verified"}
             /\ cache' = V!Applied(cache, w) /\ UNCHANGED <<flash, ram, hist>>
             /\ IF rest # <<>> THEN op' = [op EXCEPT !.todo = rest] ELSE op' = V!At(op.then)
  BY WriteIs
<1>2. IsCard(cache')
  BY <1>1, AppliedIs DEF PivInv, PivTypes
<1>3. CASE rest # <<>>
  <2>1. DOMAIN op' = DOMAIN op /\ op'.todo = rest /\ op'.pc = "write" /\ op'.then = op.then
    BY <1>1, <1>3, GoesOn DEF PivInv
  <2> QED BY <1>1, <1>2, <1>3, <2>1 DEF PivInv, PivTypes, Using
<1>4. CASE rest = <<>>
  <2>1. op' = V!At(op.then) /\ op'.pc = op.then /\ op'.todo = <<>>
        /\ DOMAIN op' = {"pc", "cmd", "todo", "then", "slot", "pressed"}
    BY <1>1, <1>4, AtFields
  <2>2. op'.pc = "idle" => op' = V!Idle
    BY <2>1 DEF V!Idle
  <2>3. op'.pc \in {"idle", "scan", "verified"}
    BY <1>1, <2>1
  <2> QED BY <1>1, <1>2, <2>1, <2>2, <2>3 DEF PivInv, PivTypes, Using
<1> QED BY <1>3, <1>4

\* The first of the writes in progress, and the ones behind it
LEMMA Lists ==
    /\ \A a : Head(<<a>>) = a /\ Tail(<<a>>) = <<>>
    /\ \A a, b : Head(<<a, b>>) = a /\ Tail(<<a, b>>) = <<b>> /\ <<b>> # <<>>
    /\ \A a, b, c : Head(<<a, b, c>>) = a /\ Tail(<<a, b, c>>) = <<b, c>> /\ <<b, c>> # <<>>
    /\ \A a, b, c, d : Head(<<a, b, c, d>>) = a /\ Tail(<<a, b, c, d>>) = <<b, c, d>> /\ <<b, c, d>> # <<>>
    /\ \A a, b, c, d, e : Head(<<a, b, c, d, e>>) = a /\ Tail(<<a, b, c, d, e>>) = <<b, c, d, e>> /\ <<b, c, d, e>> # <<>>
    /\ \A a, b, c, d, e, f : /\ Head(<<a, b, c, d, e, f>>) = a
                             /\ Tail(<<a, b, c, d, e, f>>) = <<b, c, d, e, f>> /\ <<b, c, d, e, f>> # <<>>
<1>1. \A a : Head(<<a>>) = a /\ Tail(<<a>>) = <<>>
  OBVIOUS
<1>2. \A a, b : Head(<<a, b>>) = a /\ Tail(<<a, b>>) = <<b>> /\ <<b>> # <<>>
  OBVIOUS
<1>3. \A a, b, c : Head(<<a, b, c>>) = a /\ Tail(<<a, b, c>>) = <<b, c>> /\ <<b, c>> # <<>>
  OBVIOUS
<1>4. \A a, b, c, d : Head(<<a, b, c, d>>) = a /\ Tail(<<a, b, c, d>>) = <<b, c, d>> /\ <<b, c, d>> # <<>>
  OBVIOUS
<1>5. \A a, b, c, d, e : Head(<<a, b, c, d, e>>) = a /\ Tail(<<a, b, c, d, e>>) = <<b, c, d, e>> /\ <<b, c, d, e>> # <<>>
  OBVIOUS
<1>6. \A a, b, c, d, e, f : /\ Head(<<a, b, c, d, e, f>>) = a
                            /\ Tail(<<a, b, c, d, e, f>>) = <<b, c, d, e, f>> /\ <<b, c, d, e, f>> # <<>>
  OBVIOUS
<1> QED BY <1>1, <1>2, <1>3, <1>4, <1>5, <1>6

\* A write to a certificate leaves keys and metadata alone.
LEMMA OtherFile ==
    ASSUME NEW c, IsCard(c), NEW w, IsWrite(w), NEW d, d = V!Applied(c, w)
    PROVE  w.f \notin {"key", "meta"} => d.key = c.key /\ d.meta = c.meta
<1>1. (w.f # "key" => d.key = c.key) /\ (w.f # "meta" => d.meta = c.meta)
  BY AppliedKeeps
<1> QED BY <1>1

LEMMA CertOnly ==
    ASSUME NEW c, IsCard(c), NEW x, NEW d, d = V!Applied(c, V!Put("cert", x))
    PROVE  d.key = c.key /\ d.meta = c.meta
<1>1. PICK w : w = V!Put("cert", x)
  OBVIOUS
<1>2. IsWrite(w) /\ d = V!Applied(c, w)
  BY <1>1, CardConstants DEF V!Put, IsWrite, FileNames
<1>3. w.f \notin {"key", "meta"}
  BY <1>1 DEF V!Put
<1>4. w.f \notin {"key", "meta"} => d.key = c.key /\ d.meta = c.meta
  BY <1>2, OtherFile
<1> QED BY <1>3, <1>4

LEMMA WritePolicy ==
    ASSUME PivInv, V!Write
    PROVE  Policy'
<1>1. PICK S, w, rest :
             /\ op.todo \in Seq(S) /\ (\A x \in S : IsWrite(x)) /\ rest \in Seq(S)
             /\ op.todo # <<>> /\ w = Head(op.todo) /\ rest = Tail(op.todo) /\ IsWrite(w)
             /\ op.pc = "write" /\ op.then \in {"idle", "scan", "verified"}
             /\ cache' = V!Applied(cache, w) /\ UNCHANGED <<flash, ram, hist>>
             /\ IF rest # <<>> THEN op' = [op EXCEPT !.todo = rest] ELSE op' = V!At(op.then)
  BY WriteIs
<1>2. PICK c, d : c = cache /\ d = cache' /\ d = V!Applied(c, w) /\ IsCard(c)
  BY <1>1 DEF PivInv, PivTypes
<1>3. op'.todo = rest
  BY <1>1, GoesOn, AtFields DEF PivInv
<1>4. rest # <<>> => op'.pc = "write" /\ op'.cmd = op.cmd /\ op'.slot = op.slot
  BY <1>1, GoesOn DEF PivInv
<1>5. \A s \in Slots \ (hist.torn \cup hist.part) : Fits(flash, s)'
  BY <1>1 DEF PivInv, Policy, Fits
<1>6. ASSUME NEW s \in Slots, NEW k, NEW m, s \in hist.torn \/ Agree(k, m), w = V!PutAt("meta", s, m), c.key[s] = k,
             \A t \in Slots \ (hist.torn \cup {s}) : Fits(c, t), \A i \in 1..Len(rest) : Clears(rest[i])
      PROVE  Policy'
  <2>1. d.meta[s] = m /\ d.key[s] = k /\ \A t \in Slots \ (hist.torn \cup {s}) : Fits(d, t)
    BY <1>2, <1>6, OtherSlot
  <2>2. \A t \in Slots \ hist.torn : Fits(d, t)
    BY <1>6, <2>1 DEF Fits, Agree
  <2>3. Clearing' /\ \A t \in Slots \ (hist.torn \cup V!Torn)' : Fits(cache, t)'
    BY <1>1, <1>2, <1>3, <1>6, <2>2 DEF Clearing, Fits
  <2> QED BY <1>1, <1>5, <2>3 DEF Policy
<1>7. ASSUME NEW s \in Slots, NEW k, NEW m, s \in hist.torn \/ Agree(k, m), rest # <<>>,
             Generates(s, k, m)' \/ ImportsKey(s, k, m)' \/ Moves(s, k, m)',
             \A t \in Slots \ (hist.torn \cup {s}) : Fits(d, t),
             (op.cmd \in {"keygen", "move"} /\ op.slot = s) \/ Fits(d, s)
      PROVE  Policy'
  <2>1. Filling'
    BY <1>1, <1>7 DEF Filling
  <2>2. op.cmd \in {"keygen", "move"} /\ op.slot = s => s \in V!Torn'
    BY <1>4, <1>7 DEF V!Torn
  <2>3. \A t \in Slots \ (hist.torn \cup V!Torn)' : Fits(cache, t)'
    BY <1>1, <1>2, <1>7, <2>2 DEF Fits
  <2> QED BY <1>1, <1>5, <2>1, <2>3 DEF Policy
<1>8. CASE Clearing
  <2>1. 1 \in 1..Len(op.todo) /\ w = op.todo[1] /\ \A i \in 1..Len(rest) : i + 1 \in 1..Len(op.todo) /\ rest[i] = op.todo[i + 1]
    BY <1>1, RestOf
  <2>2. Clears(w) /\ \A i \in 1..Len(rest) : Clears(rest[i])
    BY <1>8, <2>1 DEF Clearing
  <2>3. \A s \in Slots \ hist.torn : Fits(d, s)
    BY <1>1, <1>2, <1>8, <2>2, ClearingFits DEF Clearing
  <2>4. Clearing' /\ \A t \in Slots \ (hist.torn \cup V!Torn)' : Fits(cache, t)'
    BY <1>1, <1>2, <1>3, <2>2, <2>3 DEF Clearing, Fits
  <2> QED BY <1>1, <1>5, <2>4 DEF Policy
<1>9. ASSUME NEW s \in Slots, NEW k, NEW m, s \in hist.torn \/ Agree(k, m), Generates(s, k, m) PROVE Policy'
  <2>1. \A t \in Slots \ (hist.torn \cup {s}) : Fits(c, t)
    BY <1>1, <1>2, <1>9 DEF PivInv, Policy, V!Torn, Generates
  <2>2. CASE \E x : op.todo = <<V!Put("cert", x), V!PutAt("key", s, k), V!PutAt("meta", s, m)>>
    <3>1. PICK x : op.todo = <<V!Put("cert", x), V!PutAt("key", s, k), V!PutAt("meta", s, m)>>
      BY <2>2
    <3>2. w = V!Put("cert", x) /\ rest = <<V!PutAt("key", s, k), V!PutAt("meta", s, m)>> /\ rest # <<>>
      BY <1>1, <3>1, Lists
    <3>3. \A t \in Slots \ (hist.torn \cup {s}) : Fits(d, t)
      BY <1>2, <2>1, <3>2, CertOnly DEF Fits
    <3>4. Generates(s, k, m)'
      BY <1>3, <1>4, <1>9, <3>2 DEF Generates
    <3> QED BY <1>7, <1>9, <3>2, <3>3, <3>4 DEF Generates
  <2>3. CASE op.todo = <<V!PutAt("key", s, k), V!PutAt("meta", s, m)>>
    <3>1. w = V!PutAt("key", s, k) /\ rest = <<V!PutAt("meta", s, m)>> /\ rest # <<>>
      BY <1>1, <2>3, Lists
    <3>2. d.key[s] = k /\ \A t \in Slots \ (hist.torn \cup {s}) : Fits(d, t)
      BY <1>2, <2>1, <3>1, OtherSlot
    <3>3. Generates(s, k, m)'
      BY <1>2, <1>3, <1>4, <1>9, <3>1, <3>2 DEF Generates
    <3> QED BY <1>7, <1>9, <3>1, <3>2, <3>3 DEF Generates
  <2>4. CASE op.todo = <<V!PutAt("meta", s, m)>> /\ c.key[s] = k
    <3>1. w = V!PutAt("meta", s, m) /\ rest = <<>>
      BY <1>1, <2>4, Lists
    <3> QED BY <1>6, <1>9, <2>1, <2>4, <3>1
  <2> QED BY <1>2, <1>9, <2>2, <2>3, <2>4 DEF Generates
<1>10. ASSUME NEW s \in Slots, NEW k, NEW m, s \in hist.torn \/ Agree(k, m), ImportsKey(s, k, m) PROVE Policy'
  <2>1. \A t \in Slots \ hist.torn : Fits(c, t)
    BY <1>1, <1>2, <1>10 DEF PivInv, Policy, V!Torn, ImportsKey
  <2>2. CASE op.todo = <<V!PutAt("meta", s, None), V!PutAt("key", s, k), V!PutAt("meta", s, m)>>
    <3>1. w = V!PutAt("meta", s, None) /\ rest = <<V!PutAt("key", s, k), V!PutAt("meta", s, m)>> /\ rest # <<>>
      BY <1>1, <2>2, Lists
    <3>2. d.meta[s] = None /\ \A t \in Slots \ (hist.torn \cup {s}) : Fits(d, t)
      BY <1>2, <2>1, <3>1, OtherSlot
    <3>3. ImportsKey(s, k, m)'
      BY <1>2, <1>3, <1>4, <1>10, <3>1, <3>2 DEF ImportsKey
    <3> QED BY <1>7, <1>10, <3>1, <3>2, <3>3 DEF Fits
  <2>3. CASE op.todo = <<V!PutAt("key", s, k), V!PutAt("meta", s, m)>> /\ c.meta[s] = None
    <3>1. w = V!PutAt("key", s, k) /\ rest = <<V!PutAt("meta", s, m)>> /\ rest # <<>>
      BY <1>1, <2>3, Lists
    <3>2. d.key[s] = k /\ d.meta[s] = None /\ \A t \in Slots \ (hist.torn \cup {s}) : Fits(d, t)
      BY <1>2, <2>1, <2>3, <3>1, OtherSlot
    <3>3. ImportsKey(s, k, m)'
      BY <1>2, <1>3, <1>4, <1>10, <3>1, <3>2 DEF ImportsKey
    <3> QED BY <1>7, <1>10, <3>1, <3>2, <3>3 DEF Fits
  <2>4. CASE op.todo = <<V!PutAt("meta", s, m)>> /\ c.key[s] = k
    <3>1. w = V!PutAt("meta", s, m) /\ rest = <<>>
      BY <1>1, <2>4, Lists
    <3> QED BY <1>6, <1>10, <2>1, <2>4, <3>1
  <2> QED BY <1>2, <1>10, <2>2, <2>3, <2>4 DEF ImportsKey
<1>11. ASSUME NEW s \in Slots, NEW k, NEW m, s \in hist.torn \/ Agree(k, m), Moves(s, k, m) PROVE Policy'
  <2>1. \A t \in Slots \ (hist.torn \cup {s}) : Fits(c, t)
    BY <1>1, <1>2, <1>11 DEF PivInv, Policy, V!Torn, Moves
  <2>2. PICK t \in Slots \ {s} : \E x, y :
          \/ op.todo = <<V!PutAt("key", s, k), V!Put("cert", x), V!PutAt("meta", s, m), V!PutAt("meta", t, None),
                         V!Put("cert", y), V!PutAt("key", t, None)>>
          \/ /\ \/ op.todo = <<V!Put("cert", x), V!PutAt("meta", s, m), V!PutAt("meta", t, None),
                               V!Put("cert", y), V!PutAt("key", t, None)>>
                \/ op.todo = <<V!PutAt("meta", s, m), V!PutAt("meta", t, None), V!Put("cert", y), V!PutAt("key", t, None)>>
             /\ c.key[s] = k
    BY <1>2, <1>11 DEF Moves
  <2>3. PICK x, y :
          \/ op.todo = <<V!PutAt("key", s, k), V!Put("cert", x), V!PutAt("meta", s, m), V!PutAt("meta", t, None),
                         V!Put("cert", y), V!PutAt("key", t, None)>>
          \/ /\ \/ op.todo = <<V!Put("cert", x), V!PutAt("meta", s, m), V!PutAt("meta", t, None),
                               V!Put("cert", y), V!PutAt("key", t, None)>>
                \/ op.todo = <<V!PutAt("meta", s, m), V!PutAt("meta", t, None), V!Put("cert", y), V!PutAt("key", t, None)>>
             /\ c.key[s] = k
    BY <2>2
  <2>4. op.cmd = "move" /\ op.slot = s
    BY <1>11 DEF Moves
  <2>5. CASE op.todo = <<V!PutAt("key", s, k), V!Put("cert", x), V!PutAt("meta", s, m), V!PutAt("meta", t, None),
                         V!Put("cert", y), V!PutAt("key", t, None)>>
    <3>1. /\ w = V!PutAt("key", s, k) /\ rest # <<>>
          /\ rest = <<V!Put("cert", x), V!PutAt("meta", s, m), V!PutAt("meta", t, None), V!Put("cert", y), V!PutAt("key", t, None)>>
      BY <1>1, <2>5, Lists
    <3>2. d.key[s] = k /\ \A u \in Slots \ (hist.torn \cup {s}) : Fits(d, u)
      BY <1>2, <2>1, <3>1, OtherSlot
    <3>3. Moves(s, k, m)'
      BY <1>2, <1>3, <1>4, <2>4, <3>1, <3>2 DEF Moves
    <3> QED BY <1>7, <1>11, <2>4, <3>1, <3>2, <3>3
  <2>6. CASE /\ op.todo = <<V!Put("cert", x), V!PutAt("meta", s, m), V!PutAt("meta", t, None), V!Put("cert", y), V!PutAt("key", t, None)>>
             /\ c.key[s] = k
    <3>1. /\ w = V!Put("cert", x) /\ rest # <<>>
          /\ rest = <<V!PutAt("meta", s, m), V!PutAt("meta", t, None), V!Put("cert", y), V!PutAt("key", t, None)>>
      BY <1>1, <2>6, Lists
    <3>2. d.key[s] = k /\ \A u \in Slots \ (hist.torn \cup {s}) : Fits(d, u)
      BY <1>2, <2>1, <2>6, <3>1, CertOnly DEF Fits
    <3>3. Moves(s, k, m)'
      BY <1>2, <1>3, <1>4, <2>4, <3>1, <3>2 DEF Moves
    <3> QED BY <1>7, <1>11, <2>4, <3>1, <3>2, <3>3
  <2>7. CASE /\ op.todo = <<V!PutAt("meta", s, m), V!PutAt("meta", t, None), V!Put("cert", y), V!PutAt("key", t, None)>>
             /\ c.key[s] = k
    <3>1. PICK e, f, g : e = V!PutAt("meta", t, None) /\ f = V!Put("cert", y) /\ g = V!PutAt("key", t, None)
      OBVIOUS
    <3>2. w = V!PutAt("meta", s, m) /\ rest = <<e, f, g>>
      BY <1>1, <2>7, <3>1, Lists
    <3>3. Clears(e) /\ Clears(f) /\ Clears(g)
      BY <3>1 DEF Clears, V!Put, V!PutAt
    <3>4. \A i \in 1..Len(rest) : Clears(rest[i])
      BY <3>2, <3>3
    <3> QED BY <1>6, <1>11, <2>1, <2>7, <3>2, <3>4
  <2> QED BY <2>3, <2>5, <2>6, <2>7
<1> QED BY <1>8, <1>9, <1>10, <1>11 DEF PivInv, Policy, Filling

LEMMA WriteManages ==
    ASSUME PivInv, V!Write
    PROVE  Managing'
<1>1. PICK S, w, rest :
             /\ op.todo \in Seq(S) /\ (\A x \in S : IsWrite(x)) /\ rest \in Seq(S)
             /\ op.todo # <<>> /\ w = Head(op.todo) /\ rest = Tail(op.todo) /\ IsWrite(w)
             /\ op.pc = "write" /\ op.then \in {"idle", "scan", "verified"}
             /\ cache' = V!Applied(cache, w) /\ UNCHANGED <<flash, ram, hist>>
             /\ IF rest # <<>> THEN op' = [op EXCEPT !.todo = rest] ELSE op' = V!At(op.then)
  BY WriteIs
<1>2. PICK todo : todo = op.todo
  OBVIOUS
<1>3. PICK n \in Nat : n = Len(todo) /\ n >= 1
  BY <1>1, <1>2, RestOf
<1>4. /\ w = todo[1] /\ 1 \in 1..n
      /\ \A i \in 1..(n - 1) : i + 1 \in 1..n /\ rest[i] = todo[i + 1]
      /\ Len(rest) = n - 1 /\ (n > 1 <=> rest # <<>>)
  BY <1>1, <1>2, <1>3, RestOf
<1>5. PICK c, d : c = cache /\ d = cache' /\ d = V!Applied(c, w) /\ IsCard(c) /\ IsCard(d)
  BY <1>1, AppliedIs DEF PivInv, PivTypes
<1>6. /\ op'.todo = rest
      /\ n > 1 => op'.pc = "write" /\ op'.cmd = op.cmd /\ op'.slot = op.slot /\ op'.then = op.then
      /\ n = 1 => op'.pc = op.then
  <2>1. CASE n > 1
    <3>1. op' = [op EXCEPT !.todo = rest]
      BY <1>1, <1>4, <2>1
    <3> QED BY <1>1, <2>1, <3>1, GoesOn DEF PivInv
  <2>2. CASE n = 1
    <3>1. op' = V!At(op.then) /\ rest = <<>>
      BY <1>1, <1>4, <2>2
    <3> QED BY <2>2, <3>1, AtFields
  <2> QED BY <1>3, <2>1, <2>2
<1>7. ~Exempt(hist'.torn \cup hist'.part) => Fine(flash') \/ flash'.dek = FALSE
  BY <1>1 DEF PivInv, Managing
<1>8. ASSUME ~Exempt(hist.torn), Mends PROVE Managing'
  <2>1. PICK i \in 1..n, a \in V!MgmAlgos, touch \in BOOLEAN :
          /\ todo[i] = V!Put("mgmMeta", [algo |-> a, touch |-> touch])
          /\ IF i = 1 THEN c.mgm = a ELSE todo[i - 1] = V!Put("mgm", a)
          /\ \A j \in 1..n : j # i /\ j # i - 1 => todo[j].f \notin {"mgm", "mgmMeta"}
    BY <1>2, <1>3, <1>5, <1>8 DEF Mends
  <2>2. op.then = "idle" /\ op.cmd \in {"scan", "mgm"} /\ op.slot = "mgm"
    BY <1>8 DEF Mends
  <2>3. CASE i = 1
    <3>1. PICK m : m = [algo |-> a, touch |-> touch]
      OBVIOUS
    <3>2. w.f = "mgmMeta" /\ w.v = m
      BY <1>4, <2>1, <2>3, <3>1 DEF V!Put
    <3>3. d.mgm = a /\ d.mgmMeta = m
      <4>1. (w.f # "mgm" => d.mgm = c.mgm) /\ (w.f = "mgmMeta" => d.mgmMeta = w.v)
        <5>1. w.f # "mgm" => d.mgm = c.mgm
          BY <1>1, <1>5, AppliedKeeps
        <5> QED BY <1>1, <1>5, <5>1, AppliedSets
      <4> QED BY <2>1, <2>3, <3>2, <4>1
    <3>4. V!MgmWorks(d)
      BY <3>1, <3>3, CardConstants DEF V!MgmWorks, V!MgmAlgos
    <3>5. \A j \in 1..(n - 1) : rest[j].f \notin {"mgm", "mgmMeta"}
      BY <1>4, <2>1, <2>3
    <3>6. n > 1 => Quiet'
      BY <1>4, <1>5, <1>6, <2>2, <3>4, <3>5 DEF Quiet
    <3>7. n = 1 => op'.pc = "idle" /\ Fine(cache')
      BY <1>5, <1>6, <2>2, <3>4 DEF Fine
    <3> QED BY <1>3, <1>6, <1>7, <3>6, <3>7 DEF Managing
  <2>4. CASE i # 1
    <3>1. PICK k \in 1..(n - 1) : i = k + 1
      BY <2>4
    <3>2. n > 1
      BY <3>1
    <3>3. rest[k] = V!Put("mgmMeta", [algo |-> a, touch |-> touch])
      BY <1>4, <2>1, <3>1
    <3>4. todo[k] = V!Put("mgm", a)
      BY <2>1, <2>4, <3>1
    <3>5. k = 1 => d.mgm = a
      <4>1. k = 1 => w.f = "mgm" /\ w.v = a
        BY <1>4, <3>4 DEF V!Put
      <4>2. w.f = "mgm" => d.mgm = w.v
        BY <1>1, <1>5, AppliedSets
      <4> QED BY <4>1, <4>2
    <3>6. k # 1 => rest[k - 1] = V!Put("mgm", a)
      <4>1. k # 1 => k - 1 \in 1..(n - 1) /\ (k - 1) + 1 = k
        OBVIOUS
      <4> QED BY <1>4, <3>4, <4>1
    <3>7. \A j \in 1..(n - 1) : j # k /\ j # k - 1 => rest[j].f \notin {"mgm", "mgmMeta"}
      <4> SUFFICES ASSUME NEW j \in 1..(n - 1), j # k, j # k - 1 PROVE rest[j].f \notin {"mgm", "mgmMeta"}
        OBVIOUS
      <4>1. PICK l \in 1..n : l = j + 1 /\ l # i /\ l # i - 1 /\ rest[j] = todo[l]
        BY <1>4, <3>1
      <4> QED BY <2>1, <4>1
    <3>8. Mends'
      <4>1. k \in 1..Len(op'.todo) /\ Len(op'.todo) = n - 1
        BY <1>4, <1>6
      <4>2. IF k = 1 THEN cache'.mgm = a ELSE op'.todo[k - 1] = V!Put("mgm", a)
        BY <1>5, <1>6, <3>5, <3>6
      <4> QED BY <1>6, <2>2, <3>2, <3>3, <3>7, <4>1, <4>2 DEF Mends
    <3> QED BY <1>6, <1>7, <3>2, <3>8 DEF Managing
  <2> QED BY <2>3, <2>4
<1>9. ASSUME ~Exempt(hist.torn), Resets PROVE Managing'
  <2>1. /\ op.cmd = "reset" /\ op.then = "scan" /\ V!Blocked(c)
        /\ \A i \in 1..n : todo[i].f = "dek" => todo[i].v = FALSE
        /\ \A i \in 1..n : todo[i].f = "tries" => i = n
        /\ c.dek = FALSE \/ \E i \in 1..n : todo[i].f = "dek"
        /\ todo[n].f = "tries"
    BY <1>2, <1>3, <1>5, <1>9 DEF Resets
  <2>2. (w.f # "dek" => d.dek = c.dek) /\ (w.f # "tries" => d.tries = c.tries)
    BY <1>1, <1>5, AppliedKeeps
  <2>3. w.f = "dek" => d.dek = FALSE
    <3>1. w.f = "dek" => d.dek = w.v
      BY <1>1, <1>5, AppliedSets
    <3> QED BY <1>4, <2>1, <3>1
  <2>4. CASE n = 1
    <3>1. w.f = "tries" /\ c.dek = FALSE
      BY <1>4, <2>1, <2>4
    <3>2. d.dek = FALSE
      BY <2>2, <3>1
    <3> QED BY <1>5, <1>6, <1>7, <2>1, <2>4, <3>2 DEF Managing
  <2>5. CASE n > 1
    <3>1. w.f # "tries"
      BY <1>4, <2>1, <2>5
    <3>2. V!Blocked(d)
      BY <2>1, <2>2, <3>1 DEF V!Blocked
    <3>3. \A i \in 1..(n - 1) : rest[i].f = "dek" => rest[i].v = FALSE
      BY <1>4, <2>1
    <3>4. \A i \in 1..(n - 1) : rest[i].f = "tries" => i = n - 1
      BY <1>4, <2>1
    <3>5. d.dek = FALSE \/ \E i \in 1..(n - 1) : rest[i].f = "dek"
      <4>1. CASE c.dek = FALSE
        BY <2>2, <2>3, <4>1
      <4>2. CASE w.f = "dek"
        BY <2>3, <4>2
      <4>3. CASE w.f # "dek" /\ \E i \in 1..n : todo[i].f = "dek"
        <5>1. PICK i \in 1..n : todo[i].f = "dek" /\ i # 1
          BY <1>4, <4>3
        <5>2. PICK j \in 1..(n - 1) : i = j + 1
          BY <5>1
        <5> QED BY <1>4, <5>1, <5>2
      <4> QED BY <2>1, <4>1, <4>2, <4>3
    <3>6. rest[n - 1].f = "tries"
      <4>1. n - 1 \in 1..(n - 1) /\ (n - 1) + 1 = n
        BY <2>5
      <4> QED BY <1>4, <2>1, <4>1
    <3>7. Resets'
      BY <1>4, <1>5, <1>6, <2>1, <2>5, <3>2, <3>3, <3>4, <3>5, <3>6 DEF Resets
    <3> QED BY <1>6, <1>7, <2>5, <3>7 DEF Managing
  <2> QED BY <1>3, <2>4, <2>5
<1>10. ASSUME ~Exempt(hist.torn), Quiet PROVE Managing'
  <2>1. /\ op.then \in {"idle", "verified"}
        /\ \/ V!MgmWorks(c) /\ \A i \in 1..n : todo[i].f \notin {"mgm", "mgmMeta"}
           \/ V!Blocked(c) /\ \A i \in 1..n : todo[i].f # "tries"
    BY <1>2, <1>3, <1>5, <1>10 DEF Quiet
  <2>2. (w.f # "tries" => d.tries = c.tries) /\ (w.f # "mgm" => d.mgm = c.mgm) /\ (w.f # "mgmMeta" => d.mgmMeta = c.mgmMeta)
    BY <1>1, <1>5, AppliedKeeps
  <2>3. \/ V!MgmWorks(d) /\ \A i \in 1..(n - 1) : rest[i].f \notin {"mgm", "mgmMeta"}
        \/ V!Blocked(d) /\ \A i \in 1..(n - 1) : rest[i].f # "tries"
    <3>1. CASE V!MgmWorks(c) /\ \A i \in 1..n : todo[i].f \notin {"mgm", "mgmMeta"}
      <4>1. V!MgmWorks(d)
        BY <1>4, <2>2, <3>1 DEF V!MgmWorks
      <4> QED BY <1>4, <3>1, <4>1
    <3>2. CASE V!Blocked(c) /\ \A i \in 1..n : todo[i].f # "tries"
      <4>1. V!Blocked(d)
        BY <1>4, <2>2, <3>2 DEF V!Blocked
      <4> QED BY <1>4, <3>2, <4>1
    <3> QED BY <2>1, <3>1, <3>2
  <2>4. n > 1 => Quiet'
    BY <1>4, <1>5, <1>6, <2>1, <2>3 DEF Quiet
  <2>5. n = 1 => op'.pc \in {"idle", "verified"} /\ Fine(cache')
    BY <1>5, <1>6, <2>1, <2>3 DEF Fine
  <2> QED BY <1>3, <1>6, <1>7, <2>4, <2>5 DEF Managing
<1>11. CASE Exempt(hist.torn)
  BY <1>1, <1>7, <1>11 DEF Managing
<1> QED BY <1>1, <1>8, <1>9, <1>10, <1>11 DEF PivInv, Managing


-----------------------------------------------------------------------------
(* Commands *)

\* Between two handlers nothing is half written.
LEMMA Resting ==
    ASSUME PivInv, op.pc # "write"
    PROVE  /\ \A s \in Slots \ hist.torn : Fits(cache, s)
           /\ \A s \in Slots \ (hist.torn \cup hist.part) : Fits(flash, s)
           /\ op.todo = <<>>
BY DEF PivInv, Policy, PivTypes, V!Torn

\* A handler has checked its conditions and leaves the files that it will write.
Begins(name, s, todo, then) ==
    /\ op.pc \in {"idle", "off", "scan"} /\ op' = V!Running(name, s, todo, then) /\ UNCHANGED <<cache, flash>>
    /\ todo # <<>> /\ then \in {"idle", "scan", "verified"}
    /\ DOMAIN ram' = {"pwpiv", "mgm", "chal"} /\ (ram'.pwpiv => ram.pwpiv)
    /\ DOMAIN hist' = HistNames /\ hist'.used = hist.used /\ hist'.part = hist.part /\ hist.torn \subseteq hist'.torn

LEMMA BeginsTypes ==
    ASSUME PivInv, NEW name, NEW s, NEW todo, NEW then, Begins(name, s, todo, then),
           NEW S, todo \in Seq(S), \A w \in S : IsWrite(w)
    PROVE  /\ PivTypes' /\ Using'
           /\ op'.pc = "write" /\ op'.cmd = name /\ op'.slot = s /\ op'.todo = todo /\ op'.then = then
<1>1. /\ op'.pc = "write" /\ op'.cmd = name /\ op'.slot = s /\ op'.todo = todo /\ op'.then = then
      /\ DOMAIN op' = {"pc", "cmd", "todo", "then", "slot", "pressed"}
  BY DEF Begins, V!Running
<1>2. PivTypes'
  <2>1. IsCard(cache)' /\ IsCard(flash)' /\ DOMAIN ram' = {"pwpiv", "mgm", "chal"} /\ DOMAIN hist' = HistNames
    BY DEF PivInv, PivTypes, Begins
  <2>2. op'.todo # <<>> /\ op'.then \in {"idle", "scan", "verified"} /\ op'.todo \in Seq(S)
    BY <1>1 DEF Begins
  <2> QED BY <1>1, <2>1, <2>2 DEF PivTypes
<1>3. Using'
  BY <1>1 DEF PivInv, Using, Begins
<1> QED BY <1>1, <1>2, <1>3

LEMMA BeginsClear ==
    ASSUME PivInv, NEW name, NEW s, NEW todo, NEW then, Begins(name, s, todo, then),
           NEW S, todo \in Seq(S), \A w \in S : Clears(w)
    PROVE  Policy'
<1>1. op'.todo = todo
  BY DEF Begins, V!Running
<1>2. \A i \in 1..Len(todo) : Clears(todo[i])
  OBVIOUS
<1>3. op.pc # "write" /\ cache' = cache /\ flash' = flash /\ hist'.part = hist.part /\ hist.torn \subseteq hist'.torn
  BY DEF Begins
<1>4. \A x \in Slots \ hist.torn : Fits(cache, x)
  BY <1>3, Resting
<1>5. \A x \in Slots \ (hist.torn \cup hist.part) : Fits(flash, x)
  BY <1>3, Resting
<1>6. /\ \A x \in Slots \ hist'.torn : Fits(cache', x)
      /\ \A x \in Slots \ (hist'.torn \cup hist'.part) : Fits(flash', x)
  BY <1>3, <1>4, <1>5
<1>7. Clearing'
  BY <1>1, <1>2, <1>6 DEF Clearing
<1> QED BY <1>6, <1>7 DEF Policy

LEMMA BeginsFill ==
    ASSUME PivInv, NEW name, NEW s \in Slots, NEW todo, NEW then, Begins(name, s, todo, then),
           NEW k, NEW m, s \in hist'.torn \/ Agree(k, m), Generates(s, k, m)' \/ ImportsKey(s, k, m)' \/ Moves(s, k, m)'
    PROVE  Policy'
<1>1. op.pc # "write" /\ cache' = cache /\ flash' = flash /\ hist'.part = hist.part /\ hist.torn \subseteq hist'.torn
  BY DEF Begins
<1>2. \A x \in Slots \ hist.torn : Fits(cache, x)
  BY <1>1, Resting
<1>3. \A x \in Slots \ (hist.torn \cup hist.part) : Fits(flash, x)
  BY <1>1, Resting
<1>4. /\ \A x \in Slots \ hist'.torn : Fits(cache', x)
      /\ \A x \in Slots \ (hist'.torn \cup hist'.part) : Fits(flash', x)
  BY <1>1, <1>2, <1>3
<1>5. Filling'
  BY DEF Filling
<1> QED BY <1>4, <1>5 DEF Policy

\* The image in the flash stays as good as it was.
LEMMA BeginsManages ==
    ASSUME PivInv, NEW name, NEW s, NEW todo, NEW then, Begins(name, s, todo, then), ~Exempt(hist'.torn) => (Mends \/ Resets \/ Quiet)'
    PROVE  Managing'
<1>1. op'.pc = "write"
  BY DEF Begins, V!Running
<1>2. ~Exempt(hist'.torn \cup hist'.part) => Fine(flash') \/ flash'.dek = FALSE
  BY DEF Begins, PivInv, Managing, Exempt
<1> QED BY <1>1, <1>2 DEF Managing

LEMMA BeginsQuiet ==
    ASSUME PivInv, NEW name, NEW s, NEW todo, NEW then \in {"idle", "verified"}, Begins(name, s, todo, then),
           NEW S, todo \in Seq(S), \A w \in S : w.f \notin {"mgm", "mgmMeta"},
           \/ Exempt(hist'.torn) \/ V!MgmWorks(cache)
           \/ V!Blocked(cache) /\ \A w \in S : w.f # "tries"
    PROVE  Managing'
<1>1. op'.todo = todo /\ op'.then = then /\ cache' = cache
  BY DEF Begins, V!Running
<1>2. \A i \in 1..Len(todo) : todo[i] \in S
  OBVIOUS
<1>3. ~Exempt(hist'.torn) => Quiet'
  BY <1>1, <1>2 DEF Quiet
<1> QED BY <1>3, BeginsManages

\* A handler that writes neither the management key nor a key or its metadata, but to delete them
LEMMA BeginsHarmless ==
    ASSUME PivInv, NEW name, NEW s, NEW todo, NEW then \in {"idle", "verified"}, Begins(name, s, todo, then),
           NEW S, todo \in Seq(S), \A w \in S : IsWrite(w) /\ Clears(w) /\ w.f \notin {"mgm", "mgmMeta"},
           \/ Exempt(hist'.torn) \/ V!MgmWorks(cache)
           \/ V!Blocked(cache) /\ \A w \in S : w.f # "tries"
    PROVE  PivInv'
<1>1. PivTypes' /\ Using'
  BY BeginsTypes
<1>2. Policy'
  BY BeginsClear
<1>3. Managing'
  BY BeginsQuiet
<1> QED BY <1>1, <1>2, <1>3 DEF PivInv

\* A step that writes no file and starts no handler that does
Rests ==
    /\ op.pc \in {"idle", "verified", "button", "use"} /\ op'.pc \in {"idle", "button", "use"} /\ UNCHANGED <<cache, flash>>
    /\ DOMAIN op' = {"pc", "cmd", "todo", "then", "slot", "pressed"} /\ op'.todo = <<>> /\ (op'.pc = "idle" => op' = V!Idle)
    /\ DOMAIN ram' = {"pwpiv", "mgm", "chal"}
    /\ DOMAIN hist' = HistNames /\ hist'.part = hist.part /\ hist'.torn = hist.torn

LEMMA RestsOn ==
    ASSUME PivInv, Rests
    PROVE  PivTypes' /\ Policy' /\ Managing'
<1>1. PivTypes'
  BY DEF PivInv, PivTypes, Rests
<1>2. Policy'
  <2>1. \A x \in Slots \ hist.torn : Fits(cache, x)
    BY Resting DEF Rests
  <2>2. \A x \in Slots \ (hist.torn \cup hist.part) : Fits(flash, x)
    BY Resting DEF Rests
  <2>3. Clearing'
    BY <2>1 DEF Clearing, Rests
  <2> QED BY <2>1, <2>2, <2>3 DEF Policy, Rests
<1>3. Managing'
  BY DEF PivInv, Managing, Rests
<1> QED BY <1>1, <1>2, <1>3

\* The commands that change the session only
LEMMA SessionSteps ==
    ASSUME PivInv,
           \/ V!Verified \/ V!Logout \/ V!GetData
           \/ \E s \in Slots : V!GetMetadata(s)
           \/ \E kind \in V!Kinds, a \in V!MgmAlgos :
                 V!Challenge(kind, a) \/ \E n \in 1..hist.nonces, knows \in V!Answers : V!Respond(kind, a, n, knows)
    PROVE  PivInv'
<1> DEFINE Step == /\ Rests /\ op' = V!Idle /\ (ram'.pwpiv => ~hist'.used)
<1>0. V!Idle.pc = "idle" /\ V!Idle.todo = <<>> /\ DOMAIN V!Idle = {"pc", "cmd", "todo", "then", "slot", "pressed"}
  BY DEF V!Idle, V!At
<1>1. ASSUME V!Verified PROVE Step
  <2>1. /\ op.pc = "verified" /\ op' = V!Idle /\ ram' = [ram EXCEPT !.pwpiv = TRUE]
        /\ hist' = [hist EXCEPT !.used = FALSE] /\ UNCHANGED <<cache, flash>>
    BY <1>1 DEF V!Verified
  <2>2. DOMAIN ram' = DOMAIN ram
    BY <2>1
  <2>3. DOMAIN hist' = HistNames /\ hist'.used = FALSE /\ hist'.part = hist.part /\ hist'.torn = hist.torn
    BY <2>1 DEF PivInv, PivTypes, HistNames
  <2>4. Rests
    BY <1>0, <2>1, <2>2, <2>3 DEF PivInv, PivTypes, Rests
  <2> QED BY <2>1, <2>3, <2>4
<1>2. ASSUME V!Logout \/ V!GetData \/ \E s \in Slots : V!GetMetadata(s) PROVE Step
  <2>1. /\ op = V!Idle /\ op' = op /\ UNCHANGED <<cache, flash, hist>>
        /\ ram' \in {V!Forget(ram), [V!Forget(ram) EXCEPT !.pwpiv = FALSE]}
    BY <1>2 DEF V!Logout, V!GetData, V!GetMetadata
  <2>2. DOMAIN ram' = DOMAIN ram /\ (ram'.pwpiv => ram.pwpiv)
    BY <2>1 DEF V!Forget, PivInv, PivTypes
  <2>3. Rests
    BY <1>0, <2>1, <2>2 DEF PivInv, PivTypes, Rests
  <2>4. ram'.pwpiv => ~hist'.used
    BY <2>1, <2>2 DEF PivInv, Using
  <2> QED BY <2>1, <2>3, <2>4
<1>3. ASSUME NEW kind \in V!Kinds, NEW a \in V!MgmAlgos, V!Challenge(kind, a) PROVE Step
  <2>1. /\ op = V!Idle /\ op' = op /\ UNCHANGED <<cache, flash>>
        /\ \E x : ram' = [ram EXCEPT !.chal = x, !.mgm = FALSE]
        /\ \E x, y : hist' = [hist EXCEPT !.nonces = x, !.touched = y]
    BY <1>3 DEF V!Challenge
  <2>2. DOMAIN ram' = DOMAIN ram /\ (ram'.pwpiv => ram.pwpiv)
    BY <2>1 DEF PivInv, PivTypes
  <2>3. DOMAIN hist' = HistNames /\ hist'.used = hist.used /\ hist'.part = hist.part /\ hist'.torn = hist.torn
    BY <2>1 DEF PivInv, PivTypes, HistNames
  <2> QED BY <1>0, <2>1, <2>2, <2>3 DEF PivInv, PivTypes, Rests, Using
<1>4. ASSUME NEW kind \in V!Kinds, NEW a \in V!MgmAlgos, NEW n \in 1..hist.nonces, NEW knows \in V!Answers,
             V!Respond(kind, a, n, knows)
      PROVE  Step
  <2>1. /\ op = V!Idle /\ op' = op /\ UNCHANGED <<cache, flash>>
        /\ \E ok : ram' = V!AfterResponse(ok)
        /\ \E x : hist' = [hist EXCEPT !.spent = x]
    BY <1>4 DEF V!Respond
  <2>2. DOMAIN ram' = DOMAIN ram /\ (ram'.pwpiv => ram.pwpiv)
    BY <2>1 DEF PivInv, PivTypes, V!AfterResponse, V!Forget
  <2>3. DOMAIN hist' = HistNames /\ hist'.used = hist.used /\ hist'.part = hist.part /\ hist'.torn = hist.torn
    BY <2>1 DEF PivInv, PivTypes, HistNames
  <2> QED BY <1>0, <2>1, <2>2, <2>3 DEF PivInv, PivTypes, Rests, Using
<1>5. Step
  <2> HIDE DEF Step
  <2> QED BY <1>1, <1>2, <1>3, <1>4
<1>6. PivTypes' /\ Policy' /\ Managing'
  BY <1>5, RestsOn
<1>7. Using'
  BY <1>0, <1>5 DEF Using
<1> QED BY <1>6, <1>7 DEF PivInv

\* A key is used: metadata are looked at, the button is waited for, and the access is taken back.
LEMMA UseSteps ==
    ASSUME PivInv,
           (\E s \in Slots : V!Authenticate(s)) \/ (\E pressed \in BOOLEAN : V!Button(pressed)) \/ V!UseKey
    PROVE  PivInv'
<1>0. V!Idle.pc = "idle" /\ V!Idle.todo = <<>> /\ DOMAIN V!Idle = {"pc", "cmd", "todo", "then", "slot", "pressed"}
  BY DEF V!Idle, V!At
<1>1. CASE \E s \in Slots : V!Authenticate(s)
  <2>1. PICK s \in Slots : V!Authenticate(s)
    BY <1>1
  <2>2. /\ op = V!Idle /\ cache.meta[s] # None /\ cache.key[s] # None /\ (cache.meta[s].pin # "never" => ram.pwpiv)
        /\ \E x \in {"button", "use"} : op' = [V!Idle EXCEPT !.pc = x, !.cmd = "use", !.slot = s]
        /\ UNCHANGED <<cache, flash, ram, hist>>
    BY <2>1 DEF V!Authenticate
  <2>3. op'.pc \in {"button", "use"} /\ op'.slot = s /\ op'.todo = <<>> /\ DOMAIN op' = DOMAIN V!Idle
    BY <1>0, <2>2
  <2>4. Rests
    BY <1>0, <2>2, <2>3 DEF Rests, PivInv, PivTypes
  <2>5. s \notin hist.torn => Fits(cache, s)
    BY <1>0, <2>2, Resting
  <2>6. s \notin hist.torn /\ cache.key[s].pin = "always" => ram.pwpiv
    <3>1. s \notin hist.torn => cache.meta[s].pin = cache.key[s].pin
      BY <2>2, <2>5 DEF Fits, V!MetaOf
    <3> QED BY <2>2, <3>1
  <2>7. Using'
    BY <2>2, <2>3, <2>6 DEF PivInv, Using
  <2> QED BY <2>4, <2>7, RestsOn DEF PivInv
<1>2. CASE \E pressed \in BOOLEAN : V!Button(pressed)
  <2>1. /\ op.pc = "button" /\ (op' = V!Idle \/ op' = [op EXCEPT !.pc = "use", !.pressed = TRUE])
        /\ UNCHANGED <<cache, flash, ram, hist>>
    BY <1>2 DEF V!Button
  <2>2. /\ DOMAIN op' = {"pc", "cmd", "todo", "then", "slot", "pressed"} /\ op'.todo = <<>>
        /\ op' = V!Idle \/ (op'.pc = "use" /\ op'.slot = op.slot)
    BY <1>0, <2>1 DEF PivInv, PivTypes
  <2>3. Rests
    BY <1>0, <2>1, <2>2 DEF Rests, PivInv, PivTypes
  <2>4. Using'
    BY <1>0, <2>1, <2>2 DEF PivInv, Using
  <2> QED BY <2>3, <2>4, RestsOn DEF PivInv
<1>3. CASE V!UseKey
  <2>1. PICK s : s = op.slot
    OBVIOUS
  <2>2. /\ op.pc = "use" /\ op' = V!Idle /\ UNCHANGED <<cache, flash>>
        /\ ram' = IF cache.meta[s].pin = "always" THEN [ram EXCEPT !.pwpiv = FALSE] ELSE ram
        /\ hist' = [hist EXCEPT !.used = @ \/ (cache.key[s].pin = "always" /\ s \notin hist.torn)]
    BY <1>3, <2>1 DEF V!UseKey, V!AfterUse
  <2>3. /\ DOMAIN hist' = HistNames /\ hist'.part = hist.part /\ hist'.torn = hist.torn
        /\ hist'.used = (hist.used \/ (cache.key[s].pin = "always" /\ s \notin hist.torn))
    BY <2>2 DEF PivInv, PivTypes, HistNames
  <2>4. DOMAIN ram' = DOMAIN ram /\ (cache.meta[s].pin = "always" => ram'.pwpiv = FALSE) /\ (cache.meta[s].pin # "always" => ram' = ram)
    BY <2>2 DEF PivInv, PivTypes
  <2>5. Rests
    BY <1>0, <2>2, <2>3, <2>4 DEF Rests, PivInv, PivTypes
  <2>6. s \in Slots /\ cache.key[s] # None /\ cache.meta[s] # None
    BY <2>1, <2>2 DEF PivInv, Using
  <2>7. s \notin hist.torn => Fits(cache, s)
    BY <2>2, <2>6, Resting
  <2>8. s \notin hist.torn => cache.meta[s].pin = cache.key[s].pin
    BY <2>6, <2>7 DEF Fits, V!MetaOf
  <2>9. ram'.pwpiv => ~hist'.used
    <3>1. ram.pwpiv => ~hist.used
      BY DEF PivInv, Using
    <3> QED BY <2>3, <2>4, <2>8, <3>1
  <2>10. Using'
    BY <1>0, <2>2, <2>9 DEF Using
  <2> QED BY <2>5, <2>10, RestsOn DEF PivInv
<1> QED BY <1>1, <1>2, <1>3

-----------------------------------------------------------------------------
(* Failures *)

\* A handler that goes on without the write that failed is left with a shorter list.
LEMMA PassedOverIs ==
    ASSUME PivInv, V!Fault, V!PassedOver
    PROVE  \E S, rest :
             /\ op.todo \in Seq(S) /\ (\A x \in S : IsWrite(x)) /\ rest \in Seq(S)
             /\ op.todo # <<>> /\ rest = Tail(op.todo)
             /\ op.pc = "write" /\ op.then \in {"idle", "scan", "verified"} /\ op.cmd \in {"retries", "unblock"}
             /\ DOMAIN hist' = HistNames /\ hist'.used = hist.used /\ hist'.part = hist.part /\ hist'.torn = hist.torn
             /\ UNCHANGED <<cache, flash, ram>>
             /\ IF rest # <<>>
                THEN op' = [op EXCEPT !.todo = rest]
                ELSE op' = V!At(op.then)
<1>1. op.pc = "write" /\ op.todo # <<>> /\ op.then \in {"idle", "scan", "verified"}
      /\ \E S : op.todo \in Seq(S) /\ \A x \in S : IsWrite(x)
  BY DEF PivInv, PivTypes, V!Fault
<1>2. PICK S : op.todo \in Seq(S) /\ \A x \in S : IsWrite(x)
  BY <1>1
<1>3. PICK todo, rest : todo = op.todo /\ rest = Tail(todo)
  OBVIOUS
<1>4. rest \in Seq(S) /\ (Len(todo) > 1 <=> rest # <<>>)
  BY <1>1, <1>2, <1>3, RestOf
<1>5. op.cmd \in {"retries", "unblock"} /\ V!Torn = {}
  BY DEF V!PassedOver, V!Torn
<1>6. /\ UNCHANGED <<cache, flash, ram>>
      /\ op' = IF Len(todo) > 1 THEN [op EXCEPT !.todo = rest] ELSE V!At(op.then)
      /\ \E x : hist' = [hist EXCEPT !.faults = x, !.torn = @ \cup V!Torn]
  BY <1>3 DEF V!Fault, V!Further
<1>7. IF rest # <<>> THEN op' = [op EXCEPT !.todo = rest] ELSE op' = V!At(op.then)
  BY <1>4, <1>6
<1>8. DOMAIN hist' = HistNames /\ hist'.used = hist.used /\ hist'.part = hist.part /\ hist'.torn = hist.torn
  BY <1>5, <1>6 DEF PivInv, PivTypes, HistNames
<1> QED BY <1>1, <1>2, <1>3, <1>4, <1>5, <1>6, <1>7, <1>8

LEMMA PassesOver ==
    ASSUME PivInv, V!Fault, V!PassedOver
    PROVE  PivInv'
<1>1. PICK S, rest :
             /\ op.todo \in Seq(S) /\ (\A x \in S : IsWrite(x)) /\ rest \in Seq(S)
             /\ op.todo # <<>> /\ rest = Tail(op.todo)
             /\ op.pc = "write" /\ op.then \in {"idle", "scan", "verified"} /\ op.cmd \in {"retries", "unblock"}
             /\ DOMAIN hist' = HistNames /\ hist'.used = hist.used /\ hist'.part = hist.part /\ hist'.torn = hist.torn
             /\ UNCHANGED <<cache, flash, ram>>
             /\ IF rest # <<>> THEN op' = [op EXCEPT !.todo = rest] ELSE op' = V!At(op.then)
  BY PassedOverIs
<1>2. \A i \in 1..Len(rest) : i + 1 \in 1..Len(op.todo) /\ rest[i] = op.todo[i + 1]
  BY <1>1, RestOf
<1>3. op'.todo = rest /\ (rest = <<>> => op'.pc = op.then)
  <2>1. CASE rest # <<>>
    BY <1>1, <2>1, GoesOn DEF PivInv
  <2>2. CASE rest = <<>>
    <3>1. op' = V!At(op.then)
      BY <1>1, <2>2
    <3> QED BY <2>2, <3>1, AtFields
  <2> QED BY <2>1, <2>2
<1>4. rest # <<>> => /\ DOMAIN op' = DOMAIN op /\ op'.pc = "write" /\ op'.cmd = op.cmd
                     /\ op'.then = op.then /\ op'.slot = op.slot
  BY <1>1, GoesOn DEF PivInv
<1>5. PivTypes' /\ Using'
  <2>1. CASE rest # <<>>
    BY <1>1, <1>3, <1>4, <2>1 DEF PivInv, PivTypes, Using
  <2>2. CASE rest = <<>>
    <3>1. op' = V!At(op.then) /\ op'.todo = <<>> /\ DOMAIN op' = {"pc", "cmd", "todo", "then", "slot", "pressed"}
      BY <1>1, <2>2, AtFields
    <3>2. op'.pc = "idle" => op' = V!Idle
      BY <1>3, <2>2, <3>1 DEF V!Idle
    <3> QED BY <1>1, <1>3, <2>2, <3>1, <3>2 DEF PivInv, PivTypes, Using
  <2> QED BY <2>1, <2>2
<1>6. Policy'
  <2>1. ~Filling /\ V!Torn = {}
    BY <1>1 DEF Filling, Generates, ImportsKey, Moves, V!Torn
  <2>2. /\ \A i \in 1..Len(rest) : Clears(rest[i])
        /\ \A s \in Slots \ hist.torn : Fits(cache, s)
        /\ \A s \in Slots \ (hist.torn \cup hist.part) : Fits(flash, s)
    BY <1>2, <2>1 DEF PivInv, Policy, Clearing
  <2>3. Clearing'
    BY <1>1, <1>3, <2>2 DEF Clearing
  <2> QED BY <1>1, <2>2, <2>3 DEF Policy
<1>7. Managing'
  <2>1. ~Exempt(hist'.torn \cup hist'.part) => Fine(flash') \/ flash'.dek = FALSE
    BY <1>1 DEF PivInv, Managing
  <2>2. ASSUME ~Exempt(hist'.torn) PROVE (op'.pc = "write" /\ Quiet') \/ (op'.pc \in {"idle", "verified"} /\ Fine(cache'))
    <3>1. Quiet
      BY <1>1, <2>2 DEF PivInv, Managing, Mends, Resets
    <3>2. rest # <<>> => Quiet'
      BY <1>1, <1>2, <1>3, <1>4, <3>1 DEF Quiet
    <3>3. Fine(cache') /\ op.then \in {"idle", "verified"}
      BY <1>1, <3>1 DEF Quiet, Fine
    <3> QED BY <1>3, <1>4, <3>2, <3>3
  <2> QED BY <2>1, <2>2 DEF Managing
<1> QED BY <1>5, <1>6, <1>7 DEF PivInv

LEMMA Failures ==
    ASSUME PivInv, V!Fault \/ V!Drain \/ V!PowerLoss
    PROVE  PivInv'
<1>0. /\ V!Idle.pc = "idle" /\ V!Idle.todo = <<>> /\ DOMAIN V!Idle = {"pc", "cmd", "todo", "then", "slot", "pressed"}
      /\ V!Off.pc = "off" /\ V!Off.todo = <<>> /\ DOMAIN V!Off = {"pc", "cmd", "todo", "then", "slot", "pressed"}
  BY DEF V!Idle, V!At, V!Off
<1>1. V!Torn \subseteq {op.slot} /\ (op.pc # "write" => V!Torn = {})
  BY DEF V!Torn
<1>2. CASE V!Fault /\ ~V!PassedOver
  <2>1. /\ op.pc = "write" /\ op.cmd # "scan" /\ op' = V!Idle /\ UNCHANGED <<cache, flash, ram>>
        /\ \E x : hist' = [hist EXCEPT !.faults = x, !.torn = @ \cup V!Torn]
    BY <1>2 DEF V!Fault
  <2>2. DOMAIN hist' = HistNames /\ hist'.used = hist.used /\ hist'.part = hist.part /\ hist'.torn = hist.torn \cup V!Torn
    BY <2>1 DEF PivInv, PivTypes, HistNames
  <2>3. PivTypes' /\ Using'
    BY <1>0, <2>1, <2>2 DEF PivInv, PivTypes, Using
  <2>4. Policy'
    <3>1. /\ \A s \in Slots \ hist'.torn : Fits(cache, s)
          /\ \A s \in Slots \ (hist'.torn \cup hist'.part) : Fits(flash, s)
      BY <2>2 DEF PivInv, Policy
    <3>2. Clearing'
      BY <1>0, <2>1, <3>1 DEF Clearing
    <3> QED BY <2>1, <3>1, <3>2 DEF Policy
  <2>5. Managing'
    <3>1. Mends => Exempt(hist'.torn)
      BY <2>1, <2>2 DEF Mends, V!Torn, Exempt
    <3>2. Resets \/ Quiet => Fine(cache)
      BY DEF Resets, Quiet, Fine
    <3>3. Exempt(hist.torn) => Exempt(hist'.torn)
      BY <2>2 DEF Exempt
    <3>4. Exempt(hist.torn \cup hist.part) => Exempt(hist'.torn \cup hist'.part)
      BY <2>2 DEF Exempt
    <3> QED BY <1>0, <2>1, <3>1, <3>2, <3>3, <3>4 DEF PivInv, Managing
  <2> QED BY <2>3, <2>4, <2>5 DEF PivInv
<1>3. CASE V!Drain
  <2>1. flash' = cache /\ hist' = [hist EXCEPT !.part = V!Torn] /\ UNCHANGED <<cache, ram, op>>
    BY <1>3 DEF V!Drain
  <2>2. DOMAIN hist' = HistNames /\ hist'.used = hist.used /\ hist'.part = V!Torn /\ hist'.torn = hist.torn
    BY <2>1 DEF PivInv, PivTypes, HistNames
  <2>3. PivTypes' /\ Using'
    BY <2>1, <2>2 DEF PivInv, PivTypes, Using
  <2>4. Policy'
    <3>1. \A s \in Slots \ (hist.torn \cup V!Torn) : Fits(cache, s)
      BY DEF PivInv, Policy
    <3>2. Clearing => Clearing'
      BY <2>1, <2>2 DEF Clearing
    <3>3. ASSUME Filling PROVE Filling'
      <4>1. PICK s \in Slots : \E k, m : (s \in hist.torn \/ Agree(k, m)) /\ (Generates(s, k, m) \/ ImportsKey(s, k, m) \/ Moves(s, k, m))
        BY <3>3 DEF Filling
      <4>2. PICK k, m : (s \in hist.torn \/ Agree(k, m)) /\ (Generates(s, k, m) \/ ImportsKey(s, k, m) \/ Moves(s, k, m))
        BY <4>1
      <4>3. Generates(s, k, m) => Generates(s, k, m)'
        BY <2>1 DEF Generates
      <4>4. ImportsKey(s, k, m) => ImportsKey(s, k, m)'
        BY <2>1 DEF ImportsKey
      <4>5. Moves(s, k, m) => Moves(s, k, m)'
        BY <2>1 DEF Moves
      <4> QED BY <2>2, <4>2, <4>3, <4>4, <4>5 DEF Filling
    <3>4. V!Torn' = V!Torn
      BY <2>1 DEF V!Torn
    <3> QED BY <2>1, <2>2, <3>1, <3>2, <3>3, <3>4 DEF PivInv, Policy
  <2>5. Managing'
    <3>1. (Mends <=> Mends') /\ (Resets <=> Resets') /\ (Quiet <=> Quiet')
      BY <2>1 DEF Mends, Resets, Quiet
    <3>2. ~Exempt(hist.torn \cup V!Torn) => Fine(cache) \/ cache.dek = FALSE
      <4> SUFFICES ASSUME ~Exempt(hist.torn \cup V!Torn) PROVE Fine(cache) \/ cache.dek = FALSE
        OBVIOUS
      <4>1. ~Exempt(hist.torn) /\ "mgm" \notin V!Torn
        BY DEF Exempt
      <4>2. CASE op.pc # "write"
        BY <4>1, <4>2 DEF PivInv, PivTypes, Managing
      <4>3. CASE op.pc = "write"
        <5>1. ~Mends
          BY <4>1, <4>3 DEF Mends, V!Torn
        <5>2. Resets \/ Quiet
          BY <4>1, <4>3, <5>1 DEF PivInv, Managing
        <5> QED BY <5>2 DEF Resets, Quiet, Fine
      <4> QED BY <4>2, <4>3
    <3> QED BY <2>1, <2>2, <3>1, <3>2 DEF PivInv, Managing
  <2> QED BY <2>3, <2>4, <2>5 DEF PivInv
<1>4. CASE V!PowerLoss
  <2>1. /\ cache' = flash /\ flash' = flash /\ ram' = V!NoSession /\ op' = V!Off
        /\ \E x : hist' = [hist EXCEPT !.cuts = x, !.torn = @ \cup hist.part]
    BY <1>4 DEF V!PowerLoss
  <2>2. DOMAIN hist' = HistNames /\ hist'.used = hist.used /\ hist'.part = hist.part /\ hist'.torn = hist.torn \cup hist.part
    BY <2>1 DEF PivInv, PivTypes, HistNames
  <2>3. PivTypes' /\ Using'
    BY <1>0, <2>1, <2>2 DEF PivInv, PivTypes, Using, V!NoSession
  <2>4. Policy'
    <3>1. \A s \in Slots \ hist'.torn : Fits(flash, s)
      BY <2>2 DEF PivInv, Policy
    <3>2. Clearing'
      BY <1>0, <2>1, <3>1 DEF Clearing
    <3> QED BY <2>1, <2>2, <3>1, <3>2 DEF Policy
  <2>5. Managing'
    <3>1. ~Exempt(hist'.torn) => Fine(flash) \/ flash.dek = FALSE
      BY <2>2 DEF PivInv, Managing
    <3>2. ~Exempt(hist'.torn \cup hist'.part) => Fine(flash) \/ flash.dek = FALSE
      BY <2>2, <3>1 DEF Exempt
    <3> QED BY <1>0, <2>1, <3>1, <3>2 DEF Managing
  <2> QED BY <2>3, <2>4, <2>5 DEF PivInv
<1> QED BY <1>2, <1>3, <1>4, PassesOver

-----------------------------------------------------------------------------
(* Commands about the PIN, and about certificates *)

Harmless(w) == IsWrite(w) /\ Clears(w) /\ w.f \notin {"mgm", "mgmMeta"}

LEMMA HarmlessReference ==
    ASSUME NEW r \in V!References, NEW f \in {"tries", "ref"}, NEW v
    PROVE  Harmless(V!PutAt(f, r, v)) /\ V!PutAt(f, r, v).f = f
<1>1. PICK w : w = V!PutAt(f, r, v)
  OBVIOUS
<1>2. w.f = f /\ w.at = r
  BY <1>1 DEF V!PutAt
<1> QED BY <1>1, <1>2 DEF Harmless, IsWrite, Clears

LEMMA HarmlessFile ==
    ASSUME NEW f \in {"limit", "att", "cert"}, NEW v
    PROVE  Harmless(V!Put(f, v)) /\ V!Put(f, v).f # "tries"
<1>1. PICK w : w = V!Put(f, v)
  OBVIOUS
<1>2. w.f = f /\ w.at = None
  BY <1>1 DEF V!Put
<1> QED BY <1>1, <1>2 DEF Harmless, IsWrite, Clears, FileNames

LEMMA HarmlessDelete ==
    ASSUME NEW s \in Slots, NEW f \in {"key", "meta"}
    PROVE  Harmless(V!PutAt(f, s, None)) /\ V!PutAt(f, s, None).f # "tries"
<1>1. PICK w : w = V!PutAt(f, s, None)
  OBVIOUS
<1>2. w.f = f /\ w.at = s /\ w.v = None
  BY <1>1 DEF V!PutAt
<1> QED BY <1>1, <1>2 DEF Harmless, IsWrite, Clears, FileNames

LEMMA Joined ==
    ASSUME NEW S, NEW a \in Seq(S), NEW b \in Seq(S), b # <<>>
    PROVE  a \o b \in Seq(S) /\ a \o b # <<>>
<1>1. a \o b \in Seq(S) /\ Len(a \o b) = Len(a) + Len(b)
  OBVIOUS
<1>2. Len(a) \in Nat /\ Len(b) \in Nat /\ Len(b) # 0
  OBVIOUS
<1>3. Len(a \o b) # 0
  BY <1>1, <1>2
<1> QED BY <1>1, <1>3

\* What every command has in common
LEMMA CommandBegins ==
    ASSUME PivInv, op = V!Idle, NEW name, NEW s, NEW todo, todo # <<>>, NEW then \in {"idle", "scan", "verified"},
           V!Starts(name, s, todo, then) \/ (op' = V!Running(name, s, todo, then) /\ UNCHANGED <<cache, flash>>
                                             /\ ram' = [V!Forget(ram) EXCEPT !.pwpiv = FALSE]),
           DOMAIN hist' = HistNames, hist'.used = hist.used, hist'.part = hist.part, hist.torn \subseteq hist'.torn
    PROVE  Begins(name, s, todo, then)
<1>1. op.pc = "idle"
  BY DEF V!Idle, V!At
<1>2. op' = V!Running(name, s, todo, then) /\ UNCHANGED <<cache, flash>>
      /\ ram' \in {V!Forget(ram), [V!Forget(ram) EXCEPT !.pwpiv = FALSE]}
  BY DEF V!Starts
<1>3. DOMAIN ram' = {"pwpiv", "mgm", "chal"} /\ (ram'.pwpiv => ram.pwpiv)
  BY <1>2 DEF V!Forget, PivInv, PivTypes
<1> QED BY <1>1, <1>2, <1>3 DEF Begins

LEMMA CountedIs ==
    ASSUME PivInv, V!Counted
    PROVE  DOMAIN hist' = HistNames /\ hist'.used = hist.used /\ hist'.part = hist.part /\ hist'.torn = hist.torn
BY DEF PivInv, PivTypes, HistNames, V!Counted

\* A card with a reference that can be tried is not blocked.
LEMMA Checkable ==
    ASSUME PivInv, op = V!Idle, NEW r \in V!References, V!CanCheck(r)
    PROVE  Exempt(hist.torn) \/ V!MgmWorks(cache)
<1>1. ~V!Blocked(cache)
  BY DEF V!CanCheck, V!Blocked
<1>2. op.pc = "idle"
  BY DEF V!Idle, V!At
<1> QED BY <1>1, <1>2 DEF PivInv, Managing, Fine

LEMMA PinCommands ==
    ASSUME PivInv, V!VerifyWrong \/ V!Verify \/ V!ResetRetry \/ (\E r \in V!References : V!ChangePin(r))
    PROVE  PivInv'
<1>1. ASSUME NEW name, NEW s, NEW todo, todo # <<>>, NEW then \in {"idle", "verified"}, op = V!Idle,
             NEW r \in V!References, V!CanCheck(r),
             NEW S, todo \in Seq(S), \A w \in S : Harmless(w),
             V!Starts(name, s, todo, then) \/ (op' = V!Running(name, s, todo, then) /\ UNCHANGED <<cache, flash>>
                                               /\ ram' = [V!Forget(ram) EXCEPT !.pwpiv = FALSE]),
             V!Counted \/ hist' = hist
      PROVE  PivInv'
  <2>1. DOMAIN hist' = HistNames /\ hist'.used = hist.used /\ hist'.part = hist.part /\ hist'.torn = hist.torn
    BY <1>1, CountedIs DEF PivInv, PivTypes
  <2>2. Begins(name, s, todo, then)
    BY <1>1, <2>1, CommandBegins
  <2>3. Exempt(hist'.torn) \/ V!MgmWorks(cache)
    BY <1>1, <2>1, Checkable
  <2> QED BY <1>1, <2>2, <2>3, BeginsHarmless DEF Harmless
<1>2. \A r \in V!References : Harmless(V!Wrong(r)) /\ Harmless(V!Restored(r))
  BY HarmlessReference DEF V!Wrong, V!Restored
<1>3. "pin" \in V!References /\ "puk" \in V!References
  BY DEF V!References
<1>4. CASE V!VerifyWrong
  <2>1. PICK w : w = V!Wrong("pin")
    OBVIOUS
  <2>2. <<w>> # <<>> /\ <<w>> \in Seq({w}) /\ \A x \in {w} : Harmless(x)
    BY <1>2, <1>3, <2>1
  <2>3. /\ op = V!Idle /\ V!CanCheck("pin") /\ op' = V!Running("verify", None, <<w>>, "idle") /\ UNCHANGED <<cache, flash>>
        /\ ram' = [V!Forget(ram) EXCEPT !.pwpiv = FALSE] /\ V!Counted
    BY <1>4, <2>1 DEF V!VerifyWrong, V!Pins
  <2> QED BY <1>1, <1>3, <2>2, <2>3
<1>5. CASE V!Verify
  <2>1. PICK v, w : v = V!Wrong("pin") /\ w = V!Restored("pin")
    OBVIOUS
  <2>2. <<v, w>> # <<>> /\ <<v, w>> \in Seq({v, w}) /\ \A x \in {v, w} : Harmless(x)
    BY <1>2, <1>3, <2>1
  <2>3. /\ op = V!Idle /\ V!CanCheck("pin") /\ op' = V!Running("verify", None, <<v, w>>, "verified") /\ UNCHANGED <<cache, flash>>
        /\ ram' = [V!Forget(ram) EXCEPT !.pwpiv = FALSE] /\ hist' = hist
    BY <1>5, <2>1 DEF V!Verify, V!Check
  <2> QED BY <1>1, <1>3, <2>2, <2>3
<1>6. ASSUME NEW r \in V!References, NEW name, NEW s, NEW rest, NEW S, rest \in Seq(S), rest # <<>>,
             \A x \in S : Harmless(x), op = V!Idle, V!CanCheck(r), V!Counted, ram' = V!Forget(ram), UNCHANGED <<cache, flash>>,
             \/ op' = V!Running(name, s, <<V!Wrong(r)>>, "idle")
             \/ op' = V!Running(name, s, V!Check(r) \o rest, "idle")
      PROVE  PivInv'
  <2>1. PICK v, w : v = V!Wrong(r) /\ w = V!Restored(r)
    OBVIOUS
  <2>2. PICK todo : todo \in {<<v>>, <<v, w>> \o rest} /\ V!Starts(name, s, todo, "idle")
    BY <1>6, <2>1 DEF V!Starts, V!Check
  <2>3. PICK T : T = S \cup {v, w}
    OBVIOUS
  <2>4. <<v>> \in Seq(T) /\ <<v>> # <<>> /\ <<v, w>> \in Seq(T) /\ rest \in Seq(T) /\ \A x \in T : Harmless(x)
    BY <1>2, <1>6, <2>1, <2>3
  <2>5. todo \in Seq(T) /\ todo # <<>>
    <3>1. CASE todo = <<v>>
      BY <2>4, <3>1
    <3>2. CASE todo = <<v, w>> \o rest
      BY <1>6, <2>4, <3>2, Joined
    <3> QED BY <2>2, <3>1, <3>2
  <2> QED BY <1>1, <1>6, <2>2, <2>4, <2>5
<1>7. CASE \E r \in V!References : V!ChangePin(r)
  <2>1. PICK r \in V!References : V!ChangePin(r)
    BY <1>7
  <2>2. PICK w : w = V!PutAt("ref", r, "own")
    OBVIOUS
  <2>3. PICK rest, S : rest = <<w>> /\ S = {w}
    OBVIOUS
  <2>4. /\ op = V!Idle /\ V!CanCheck(r) /\ V!Counted /\ ram' = V!Forget(ram) /\ UNCHANGED <<cache, flash>>
        /\ \/ op' = V!Running("change", r, <<V!Wrong(r)>>, "idle")
           \/ op' = V!Running("change", r, V!Check(r) \o rest, "idle")
    BY <2>1, <2>2, <2>3 DEF V!ChangePin, V!Pins, V!Command, V!Starts
  <2>5. rest \in Seq(S) /\ rest # <<>> /\ \A x \in S : Harmless(x)
    BY <2>2, <2>3, HarmlessReference
  <2> QED BY <1>6, <2>4, <2>5
<1>8. CASE V!ResetRetry
  <2>1. PICK v, w : v = V!PutAt("ref", "pin", "own") /\ w = V!Restored("pin")
    OBVIOUS
  <2>2. PICK rest, S : rest = <<v, w>> /\ S = {v, w}
    OBVIOUS
  <2>3. /\ op = V!Idle /\ V!CanCheck("puk") /\ V!Counted /\ ram' = V!Forget(ram) /\ UNCHANGED <<cache, flash>>
        /\ \/ op' = V!Running("unblock", "puk", <<V!Wrong("puk")>>, "idle")
           \/ op' = V!Running("unblock", "puk", V!Check("puk") \o rest, "idle")
    BY <1>8, <2>1, <2>2 DEF V!ResetRetry, V!Pins, V!Command, V!Starts
  <2>4. rest \in Seq(S) /\ rest # <<>> /\ \A x \in S : Harmless(x)
    BY <1>2, <1>3, <2>1, <2>2, HarmlessReference
  <2> QED BY <1>3, <1>6, <2>3, <2>4
<1> QED BY <1>4, <1>5, <1>7, <1>8

\* SET RETRIES says so when it gives tries to a card without its management key.
LEMMA RetriesCommand ==
    ASSUME PivInv, NEW n, V!SetRetries(n)
    PROVE  PivInv'
<1>1. PICK a, b, c, d, e :
        /\ a = V!Put("limit", [r \in V!References |-> n])
        /\ b = V!PutAt("ref", "pin", "factory") /\ c = V!Restored("pin")
        /\ d = V!PutAt("ref", "puk", "factory") /\ e = V!Restored("puk")
  OBVIOUS
<1>2. PICK S : S = {a, b, c, d, e}
  OBVIOUS
<1>3. <<a, b, c, d, e>> \in Seq(S) /\ <<a, b, c, d, e>> # <<>>
  BY <1>2
<1>4. \A w \in S : Harmless(w)
  <2>1. Harmless(b) /\ Harmless(c) /\ Harmless(d) /\ Harmless(e)
    BY <1>1, HarmlessReference DEF V!References, V!Restored
  <2>2. Harmless(a)
    BY <1>1, HarmlessFile
  <2> QED BY <1>2, <2>1, <2>2
<1>5. /\ op = V!Idle /\ V!Starts("retries", None, <<a, b, c, d, e>>, "idle")
      /\ \E x : hist' = [hist EXCEPT !.cmds = x, !.torn = IF V!MgmWorks(cache) THEN @ ELSE @ \cup {"retries"}]
  BY <1>1 DEF V!SetRetries, V!Pins
<1>6. /\ DOMAIN hist' = HistNames /\ hist'.used = hist.used /\ hist'.part = hist.part
      /\ hist'.torn = IF V!MgmWorks(cache) THEN hist.torn ELSE hist.torn \cup {"retries"}
  BY <1>5 DEF PivInv, PivTypes, HistNames
<1>7. Begins("retries", None, <<a, b, c, d, e>>, "idle")
  <2>1. hist.torn \subseteq hist'.torn
    BY <1>6
  <2> QED BY <1>3, <1>5, <1>6, <2>1, CommandBegins
<1>8. Exempt(hist'.torn) \/ V!MgmWorks(cache)
  BY <1>6 DEF Exempt
<1> QED BY <1>3, <1>4, <1>7, <1>8, BeginsHarmless DEF Harmless

-----------------------------------------------------------------------------
(* Commands about keys *)

\* A handler that is idle has found the card fit to be administered or blocked.
LEMMA IdleFine ==
    ASSUME PivInv, op = V!Idle
    PROVE  Exempt(hist.torn) \/ V!MgmWorks(cache) \/ V!Blocked(cache)
<1>1. op.pc = "idle"
  BY DEF V!Idle, V!At
<1> QED BY <1>1 DEF PivInv, Managing, Fine

\* What a key command writes besides keys and metadata does no harm to the management key.
KeyFiles(w) == IsWrite(w) /\ w.f \notin {"mgm", "mgmMeta", "tries"}

LEMMA KeyFileWrites ==
    /\ \A s \in Slots : \A v : KeyFiles(V!PutAt("key", s, v)) /\ KeyFiles(V!PutAt("meta", s, v))
    /\ \A v : KeyFiles(V!Put("cert", v))
<1>1. ASSUME NEW s \in Slots, NEW v, NEW f \in {"key", "meta"} PROVE KeyFiles(V!PutAt(f, s, v))
  <2>1. PICK w : w = V!PutAt(f, s, v)
    OBVIOUS
  <2>2. w.f = f /\ w.at = s
    BY <2>1 DEF V!PutAt
  <2> QED BY <2>1, <2>2 DEF KeyFiles, IsWrite
<1>2. ASSUME NEW v PROVE KeyFiles(V!Put("cert", v))
  <2>1. PICK w : w = V!Put("cert", v)
    OBVIOUS
  <2>2. w.f = "cert" /\ w.at = None
    BY <2>1 DEF V!Put
  <2> QED BY <2>1, <2>2 DEF KeyFiles, IsWrite, FileNames
<1> QED BY <1>1, <1>2

LEMMA KeyCommand ==
    ASSUME PivInv, op = V!Idle, NEW name, NEW s, NEW todo, todo # <<>>,
           op' = V!Running(name, s, todo, "idle"), ram' = V!Forget(ram), cache' = cache, flash' = flash, NEW S, todo \in Seq(S), \A w \in S : KeyFiles(w),
           DOMAIN hist' = HistNames, hist'.used = hist.used, hist'.part = hist.part, hist.torn \subseteq hist'.torn
    PROVE  /\ Begins(name, s, todo, "idle") /\ PivTypes' /\ Using' /\ Managing'
           /\ op'.pc = "write" /\ op'.cmd = name /\ op'.slot = s /\ op'.todo = todo /\ op'.then = "idle"
           /\ \A x \in Slots \ hist.torn : Fits(cache, x)
<1>1. Begins(name, s, todo, "idle")
  <2>1. V!Starts(name, s, todo, "idle")
    BY DEF V!Starts
  <2> QED BY <2>1, CommandBegins
<1>2. Exempt(hist'.torn) \/ V!MgmWorks(cache) \/ V!Blocked(cache)
  BY IdleFine DEF Exempt
<1>3. Managing'
  BY <1>1, <1>2, BeginsQuiet DEF KeyFiles
<1>4. /\ PivTypes' /\ Using'
      /\ op'.pc = "write" /\ op'.cmd = name /\ op'.slot = s /\ op'.todo = todo /\ op'.then = "idle"
  BY <1>1, BeginsTypes DEF KeyFiles
<1>5. op.pc # "write"
  BY DEF V!Idle, V!At
<1>6. \A x \in Slots \ hist.torn : Fits(cache, x)
  BY <1>5, Resting
<1> QED BY <1>1, <1>3, <1>4, <1>6

\* GENERATE and IMPORT describe the key that they make.
LEMMA MakingKeys ==
    ASSUME PivInv, NEW s \in Slots, NEW p \in V!Policies, V!AsymKeygen(s, p) \/ V!ImportAsym(s, p)
    PROVE  PivInv'
<1>1. ASSUME NEW name, NEW todo, V!Make(name, s, todo)
      PROVE  /\ op' = V!Running(name, s, todo, "idle") /\ ram' = V!Forget(ram) /\ cache' = cache /\ flash' = flash
             /\ DOMAIN hist' = HistNames /\ hist'.used = hist.used /\ hist'.part = hist.part /\ hist.torn \subseteq hist'.torn
  <2>1. /\ op' = V!Running(name, s, todo, "idle") /\ ram' = V!Forget(ram) /\ cache' = cache /\ flash' = flash
        /\ \E x, y : hist' = [hist EXCEPT !.keys = x, !.cmds = y]
    BY <1>1 DEF V!Make, V!Starts
  <2> QED BY <2>1 DEF PivInv, PivTypes, HistNames
<1>2. CASE V!AsymKeygen(s, p)
  <2>1. PICK k, m, u, a, b, c :
          /\ k = V!NewKey(p, TRUE) /\ m = V!MetaOf(k) /\ u = cache.cert \cup {s}
          /\ a = V!Put("cert", u) /\ b = V!PutAt("key", s, k) /\ c = V!PutAt("meta", s, m)
    OBVIOUS
  <2>2. op = V!Idle /\ V!Make("keygen", s, <<a, b, c>>)
    BY <1>2, <2>1 DEF V!AsymKeygen, V!Keys
  <2>3. /\ op' = V!Running("keygen", s, <<a, b, c>>, "idle") /\ ram' = V!Forget(ram) /\ cache' = cache /\ flash' = flash
        /\ DOMAIN hist' = HistNames /\ hist'.used = hist.used /\ hist'.part = hist.part /\ hist.torn \subseteq hist'.torn
    BY <1>1, <2>2
  <2>4. KeyFiles(a) /\ KeyFiles(b) /\ KeyFiles(c)
    BY <2>1, KeyFileWrites
  <2>5. PICK name, todo, S : name = "keygen" /\ todo = <<a, b, c>> /\ S = {a, b, c}
    OBVIOUS
  <2>6. todo # <<>> /\ todo \in Seq(S) /\ \A w \in S : KeyFiles(w)
    BY <2>4, <2>5
  <2>7. op' = V!Running(name, s, todo, "idle")
    BY <2>5, <2>3
  <2>8. /\ Begins(name, s, todo, "idle") /\ PivTypes' /\ Using' /\ Managing'
        /\ op'.pc = "write" /\ op'.cmd = name /\ op'.slot = s /\ op'.todo = todo
    BY <2>2, <2>3, <2>6, <2>7, KeyCommand
  <2>9. Generates(s, k, m)' /\ Agree(k, m)
    BY <2>1, <2>5, <2>8 DEF Generates, Agree
  <2>10. Policy'
    BY <2>8, <2>9, BeginsFill
  <2> QED BY <2>8, <2>10 DEF PivInv
<1>3. CASE V!ImportAsym(s, p)
  <2>1. PICK k, m, a, b, c :
          /\ k = V!NewKey(p, FALSE) /\ m = V!MetaOf(k)
          /\ a = V!PutAt("meta", s, None) /\ b = V!PutAt("key", s, k) /\ c = V!PutAt("meta", s, m)
    OBVIOUS
  <2>2. op = V!Idle /\ V!Make("import", s, <<a, b, c>>)
    BY <1>3, <2>1 DEF V!ImportAsym, V!ImportWrites, V!Keys
  <2>3. /\ op' = V!Running("import", s, <<a, b, c>>, "idle") /\ ram' = V!Forget(ram) /\ cache' = cache /\ flash' = flash
        /\ DOMAIN hist' = HistNames /\ hist'.used = hist.used /\ hist'.part = hist.part /\ hist.torn \subseteq hist'.torn
    BY <1>1, <2>2
  <2>4. KeyFiles(a) /\ KeyFiles(b) /\ KeyFiles(c)
    BY <2>1, KeyFileWrites
  <2>5. PICK name, todo, S : name = "import" /\ todo = <<a, b, c>> /\ S = {a, b, c}
    OBVIOUS
  <2>6. todo # <<>> /\ todo \in Seq(S) /\ \A w \in S : KeyFiles(w)
    BY <2>4, <2>5
  <2>7. op' = V!Running(name, s, todo, "idle")
    BY <2>5, <2>3
  <2>8. /\ Begins(name, s, todo, "idle") /\ PivTypes' /\ Using' /\ Managing'
        /\ op'.pc = "write" /\ op'.cmd = name /\ op'.slot = s /\ op'.todo = todo
    BY <2>2, <2>3, <2>6, <2>7, KeyCommand
  <2>9. ImportsKey(s, k, m)' /\ Agree(k, m)
    BY <2>1, <2>5, <2>8 DEF ImportsKey, Agree
  <2>10. Policy'
    BY <2>8, <2>9, BeginsFill
  <2> QED BY <2>8, <2>10 DEF PivInv
<1> QED BY <1>2, <1>3

\* Without the special number of slot 18, MOVE KEY finds the metadata of every slot.
LEMMA Tags == NoSlot18 => \A s \in Slots : V!MoveTag(s) = s
BY CardConstants DEF NoSlot18, V!MoveTag

\* MOVE carries the key with its metadata, and the mark of a key whose metadata do not fit.
LEMMA MovingKeys ==
    ASSUME PivInv, NoSlot18, NEW s \in Slots, NEW t \in Slots, V!MoveKey(s, t)
    PROVE  PivInv'
<1>1. PICK k, m, x, y, a, b, c, d, e, f :
        /\ k = cache.key[t] /\ m = cache.meta[t]
        /\ x = (IF t \in cache.cert THEN cache.cert \cup {s} ELSE cache.cert \ {s})
        /\ y = (IF t \in cache.cert THEN (cache.cert \cup {s}) \ {t} ELSE cache.cert \ {s, t})
        /\ a = V!PutAt("key", s, k) /\ b = V!Put("cert", x) /\ c = V!PutAt("meta", s, m)
        /\ d = V!PutAt("meta", t, None) /\ e = V!Put("cert", y) /\ f = V!PutAt("key", t, None)
  OBVIOUS
<1>2. V!MoveTag(s) = s /\ V!MoveTag(t) = t
  BY Tags
<1>3. /\ op = V!Idle /\ s # t
      /\ op' = V!Running("move", s, <<a, b, c, d, e, f>>, "idle") /\ ram' = V!Forget(ram) /\ cache' = cache /\ flash' = flash
      /\ \E n : hist' = [hist EXCEPT !.cmds = n, !.torn = IF t \in @ THEN @ \cup {s} ELSE @]
  BY <1>1, <1>2 DEF V!MoveKey, V!Keys, V!Starts
<1>4. /\ DOMAIN hist' = HistNames /\ hist'.used = hist.used /\ hist'.part = hist.part
      /\ hist'.torn = IF t \in hist.torn THEN hist.torn \cup {s} ELSE hist.torn
  BY <1>3 DEF PivInv, PivTypes, HistNames
<1>5. PICK name, todo, S : name = "move" /\ todo = <<a, b, c, d, e, f>> /\ S = {a, b, c, d, e, f}
  OBVIOUS
<1>6. todo # <<>> /\ todo \in Seq(S) /\ \A w \in S : KeyFiles(w)
  <2>1. KeyFiles(a) /\ KeyFiles(b) /\ KeyFiles(c) /\ KeyFiles(d) /\ KeyFiles(e) /\ KeyFiles(f)
    BY <1>1, KeyFileWrites
  <2> QED BY <1>5, <2>1
<1>7. hist.torn \subseteq hist'.torn
  BY <1>4
<1>8. op' = V!Running(name, s, todo, "idle") /\ ram' = V!Forget(ram) /\ cache' = cache /\ flash' = flash
  BY <1>3, <1>5
<1>9. /\ Begins(name, s, todo, "idle") /\ PivTypes' /\ Using' /\ Managing'
      /\ op'.pc = "write" /\ op'.cmd = name /\ op'.slot = s /\ op'.todo = todo
      /\ \A z \in Slots \ hist.torn : Fits(cache, z)
  BY <1>3, <1>4, <1>6, <1>7, <1>8, KeyCommand
<1>10. Moves(s, k, m)'
  <2>1. op'.cmd = "move" /\ op'.slot = s /\ t \in Slots \ {s}
    BY <1>3, <1>5, <1>9
  <2>2. op'.todo = <<V!PutAt("key", s, k), V!Put("cert", x), V!PutAt("meta", s, m), V!PutAt("meta", t, None),
                     V!Put("cert", y), V!PutAt("key", t, None)>>
    BY <1>1, <1>5, <1>9
  <2> QED BY <2>1, <2>2 DEF Moves
<1>11. s \in hist'.torn \/ Agree(k, m)
  BY <1>1, <1>4, <1>9 DEF Fits, Agree
<1>12. Policy'
  BY <1>9, <1>10, <1>11, BeginsFill
<1> QED BY <1>9, <1>12 DEF PivInv

LEMMA DeletingKeys ==
    ASSUME PivInv, NoSlot18, NEW s \in Slots, V!DeleteKey(s) \/ V!PutData(s)
    PROVE  PivInv'
<1>1. ASSUME NEW name, NEW x, NEW todo, todo # <<>>, op = V!Idle, V!Counted,
             op' = V!Running(name, x, todo, "idle"), ram' = V!Forget(ram), cache' = cache, flash' = flash, NEW S, todo \in Seq(S), \A w \in S : Harmless(w) /\ w.f # "tries"
      PROVE  PivInv'
  <2>1. DOMAIN hist' = HistNames /\ hist'.used = hist.used /\ hist'.part = hist.part /\ hist.torn \subseteq hist'.torn
    BY <1>1, CountedIs
  <2>2. Begins(name, x, todo, "idle")
    <3>1. V!Starts(name, x, todo, "idle")
      BY <1>1 DEF V!Starts
    <3> QED BY <1>1, <2>1, <3>1, CommandBegins
  <2>3. Exempt(hist'.torn) \/ V!MgmWorks(cache) \/ V!Blocked(cache)
    BY <1>1, <2>1, IdleFine DEF Exempt
  <2> QED BY <1>1, <2>2, <2>3, BeginsHarmless DEF Harmless
<1>2. CASE V!DeleteKey(s)
  <2>1. PICK a, b, c : a = V!PutAt("meta", s, None) /\ b = V!Put("cert", cache.cert \ {s}) /\ c = V!PutAt("key", s, None)
    OBVIOUS
  <2>2. V!MoveTag(s) = s
    BY Tags
  <2>3. /\ op = V!Idle /\ V!Counted
        /\ op' = V!Running("delete", s, <<a, b, c>>, "idle") /\ ram' = V!Forget(ram) /\ cache' = cache /\ flash' = flash
    BY <1>2, <2>1, <2>2 DEF V!DeleteKey, V!Keys, V!Command, V!Starts
  <2>4. PICK todo, S : todo = <<a, b, c>> /\ S = {a, b, c}
    OBVIOUS
  <2>5. todo # <<>> /\ todo \in Seq(S) /\ \A w \in S : Harmless(w) /\ w.f # "tries"
    BY <2>1, <2>4, HarmlessDelete, HarmlessFile
  <2> QED BY <1>1, <2>3, <2>4, <2>5
<1>3. CASE V!PutData(s)
  <2>1. /\ op = V!Idle /\ V!Counted /\ ram' = V!Forget(ram) /\ cache' = cache /\ flash' = flash
        /\ \E c : op' = V!Running("put", None, <<V!Put("cert", c)>>, "idle")
    BY <1>3 DEF V!PutData, V!Keys, V!Command, V!Starts
  <2>2. PICK c : op' = V!Running("put", None, <<V!Put("cert", c)>>, "idle")
    BY <2>1
  <2>3. PICK a, S : a = V!Put("cert", c) /\ S = {a}
    OBVIOUS
  <2>4. <<a>> # <<>> /\ <<a>> \in Seq(S) /\ \A w \in S : Harmless(w) /\ w.f # "tries"
    BY <2>3, HarmlessFile
  <2> QED BY <1>1, <2>1, <2>2, <2>3, <2>4
<1> QED BY <1>2, <1>3

-----------------------------------------------------------------------------
(* The management key, RESET and SELECT *)

LEMMA MgmWrites ==
    ASSUME NEW f \in {"mgm", "mgmMeta"}, NEW v
    PROVE  /\ V!Put(f, v).f = f /\ V!Put(f, v).v = v
           /\ IsWrite(V!Put(f, v)) /\ Clears(V!Put(f, v))
<1>1. PICK w : w = V!Put(f, v)
  OBVIOUS
<1>2. w.f = f /\ w.at = None /\ w.v = v
  BY <1>1 DEF V!Put
<1> QED BY <1>1, <1>2 DEF IsWrite, Clears, FileNames

\* SET MANAGEMENT KEY writes the key and then its metadata.
LEMMA MgmCommand ==
    ASSUME PivInv, NEW a \in V!MgmAlgos, NEW touch \in BOOLEAN, V!SetMgmKey(a, touch)
    PROVE  PivInv'
<1>1. PICK u, v : u = V!Put("mgm", a) /\ v = V!Put("mgmMeta", [algo |-> a, touch |-> touch])
  OBVIOUS
<1>2. PICK todo, S : todo = (IF cache.mgmMeta = None THEN <<u>> ELSE <<u, v>>) /\ S = {u, v}
  OBVIOUS
<1>3. todo # <<>> /\ todo \in Seq(S) /\ (\A w \in S : IsWrite(w)) /\ (\A w \in S : Clears(w))
  <2>1. \A w \in S : IsWrite(w) /\ Clears(w)
    BY <1>1, <1>2, MgmWrites
  <2>2. <<u>> \in Seq(S) /\ <<u, v>> \in Seq(S) /\ <<u>> # <<>> /\ <<u, v>> # <<>>
    BY <1>2
  <2> QED BY <1>2, <2>1, <2>2
<1>4. op = V!Idle /\ V!Counted /\ V!Starts("mgm", "mgm", todo, "idle")
  BY <1>1, <1>2 DEF V!SetMgmKey, V!Command
<1>5. DOMAIN hist' = HistNames /\ hist'.used = hist.used /\ hist'.part = hist.part /\ hist.torn \subseteq hist'.torn
  BY <1>4, CountedIs
<1>6. Begins("mgm", "mgm", todo, "idle")
  BY <1>3, <1>4, <1>5, CommandBegins
<1>7. /\ PivTypes' /\ Using'
      /\ op'.cmd = "mgm" /\ op'.slot = "mgm" /\ op'.todo = todo /\ op'.then = "idle"
  BY <1>3, <1>6, BeginsTypes
<1>8. Policy'
  BY <1>3, <1>6, BeginsClear
<1>9. CASE cache.mgmMeta # None
  <2>1. Len(todo) = 2 /\ todo[1] = u /\ todo[2] = v
    BY <1>2, <1>9
  <2>2. 2 \in 1..Len(op'.todo)
    BY <1>7, <2>1
  <2>3. op'.todo[2] = V!Put("mgmMeta", [algo |-> a, touch |-> touch]) /\ op'.todo[2 - 1] = V!Put("mgm", a)
    BY <1>1, <1>7, <2>1
  <2>4. \A j \in 1..Len(op'.todo) : j # 2 /\ j # 2 - 1 => op'.todo[j].f \notin {"mgm", "mgmMeta"}
    BY <1>7, <2>1
  <2>5. Mends'
    BY <1>7, <2>2, <2>3, <2>4 DEF Mends
  <2> QED BY <1>6, <1>7, <1>8, <2>5, BeginsManages DEF PivInv
<1>10. CASE cache.mgmMeta = None
  <2>1. Len(todo) = 1 /\ todo[1].f = "mgm"
    BY <1>1, <1>2, <1>10, MgmWrites
  <2>2. \A i \in 1..Len(op'.todo) : op'.todo[i].f # "tries"
    BY <1>7, <2>1
  <2>3. Exempt(hist'.torn) \/ V!Blocked(cache')
    <3>1. Exempt(hist.torn) => Exempt(hist'.torn)
      BY <1>5 DEF Exempt
    <3>2. cache' = cache /\ ~V!MgmWorks(cache)
      BY <1>4, <1>10 DEF V!Starts, V!MgmWorks
    <3> QED BY <1>4, <3>1, <3>2, IdleFine
  <2>4. Exempt(hist'.torn) \/ Quiet'
    BY <1>7, <2>2, <2>3 DEF Quiet
  <2> QED BY <1>6, <1>7, <1>8, <2>4, BeginsManages DEF PivInv
<1> QED BY <1>9, <1>10

\* MOVE KEY deletes the management key with its metadata.
LEMMA MgmDeletion ==
    ASSUME PivInv, V!DeleteMgm
    PROVE  PivInv'
<1>1. PICK u, v : u = V!Put("mgmMeta", None) /\ v = V!Put("mgm", None)
  OBVIOUS
<1>2. PICK todo, S : todo = <<u, v>> /\ S = {u, v}
  OBVIOUS
<1>3. todo # <<>> /\ todo \in Seq(S) /\ (\A w \in S : IsWrite(w)) /\ (\A w \in S : Clears(w))
  BY <1>1, <1>2, MgmWrites
<1>4. op = V!Idle /\ V!Counted /\ V!Starts("delete", "mgm", todo, "idle") /\ MoveMgm # FALSE
  BY <1>1, <1>2 DEF V!DeleteMgm, V!Keys, V!Command
<1>5. DOMAIN hist' = HistNames /\ hist'.used = hist.used /\ hist'.part = hist.part /\ hist.torn \subseteq hist'.torn
  BY <1>4, CountedIs
<1>6. Begins("delete", "mgm", todo, "idle")
  BY <1>3, <1>4, <1>5, CommandBegins
<1>7. PivTypes' /\ Using'
  BY <1>3, <1>6, BeginsTypes
<1>8. Policy'
  BY <1>3, <1>6, BeginsClear
<1>9. Managing'
  BY <1>4, <1>6, BeginsManages DEF Exempt
<1> QED BY <1>7, <1>8, <1>9 DEF PivInv

\* RESET gives the tries back with its last write, and the data encryption key is gone before.
LEMMA ResetCommand ==
    ASSUME PivInv, NoSlot18, V!ResetCard
    PROVE  PivInv'
<1>1. PICK a, b, c, d, e, f, g, h, i, j, k :
        /\ a = V!Put("key", [s \in Slots |-> None]) /\ b = V!Put("meta", [t \in V!Tags |-> None])
        /\ c = V!Put("mgm", None) /\ d = V!Put("mgmMeta", None) /\ e = V!Put("att", FALSE) /\ f = V!Put("cert", {})
        /\ g = V!PutAt("ref", "pin", None) /\ h = V!PutAt("ref", "puk", None) /\ i = V!Put("dek", FALSE)
        /\ j = V!Put("limit", [r \in V!References |-> MaxTries]) /\ k = V!Put("tries", [r \in V!References |-> MaxTries])
  OBVIOUS
<1>2. PICK todo, S : todo = <<a, b, c, d, e, f, g, h, i, j, k>> /\ S = {a, b, c, d, e, f, g, h, i, j, k}
  OBVIOUS
<1>3. V!ResetWrites = todo
  <2>1. [t \in V!Tags |-> IF t = Slot18 THEN cache.meta[t] ELSE None] = [t \in V!Tags |-> None]
    BY CardConstants DEF NoSlot18, V!Tags, V!Fid18
  <2> QED BY <1>1, <1>2, <2>1 DEF V!ResetWrites
<1>4. \A w \in S : IsWrite(w) /\ Clears(w)
  <2>1. IsWrite(c) /\ Clears(c) /\ IsWrite(d) /\ Clears(d)
    BY <1>1, MgmWrites
  <2>2. \A w \in {e, f, g, h, j} : IsWrite(w) /\ Clears(w)
    BY <1>1, HarmlessFile, HarmlessReference DEF Harmless, V!References
  <2>3. IsWrite(a) /\ Clears(a) /\ IsWrite(b) /\ Clears(b)
    BY <1>1 DEF IsWrite, Clears, V!Put
  <2>4. IsWrite(i) /\ Clears(i) /\ IsWrite(k) /\ Clears(k)
    BY <1>1 DEF IsWrite, Clears, V!Put
  <2> QED BY <1>2, <2>1, <2>2, <2>3, <2>4
<1>5. Len(todo) = 11 /\ todo # <<>> /\ todo \in Seq(S)
  BY <1>2
<1>6. /\ op = V!Idle /\ V!Counted /\ V!Blocked(cache) /\ op' = V!Running("reset", None, todo, "scan")
      /\ ram' = V!Forget(ram) /\ cache' = cache /\ flash' = flash
  BY <1>3 DEF V!ResetCard, V!Command, V!Starts
<1>7. DOMAIN hist' = HistNames /\ hist'.used = hist.used /\ hist'.part = hist.part /\ hist.torn \subseteq hist'.torn
  BY <1>6, CountedIs
<1>8. Begins("reset", None, todo, "scan")
  <2>1. V!Starts("reset", None, todo, "scan")
    BY <1>6 DEF V!Starts
  <2> QED BY <1>5, <1>6, <1>7, <2>1, CommandBegins
<1>9. PivTypes' /\ Using' /\ op'.todo = todo /\ op'.then = "scan" /\ op'.cmd = "reset"
  BY <1>4, <1>5, <1>8, BeginsTypes
<1>10. Policy'
  BY <1>4, <1>5, <1>8, BeginsClear
<1>11. /\ todo[1].f = "key" /\ todo[2].f = "meta" /\ todo[3].f = "mgm" /\ todo[4].f = "mgmMeta" /\ todo[5].f = "att"
       /\ todo[6].f = "cert" /\ todo[7].f = "ref" /\ todo[8].f = "ref" /\ todo[9].f = "dek" /\ todo[9].v = FALSE
       /\ todo[10].f = "limit" /\ todo[11].f = "tries"
  <2>1. /\ a.f = "key" /\ b.f = "meta" /\ c.f = "mgm" /\ d.f = "mgmMeta" /\ e.f = "att" /\ f.f = "cert" /\ g.f = "ref"
        /\ h.f = "ref" /\ i.f = "dek" /\ i.v = FALSE /\ j.f = "limit" /\ k.f = "tries"
    BY <1>1 DEF V!Put, V!PutAt
  <2> QED BY <1>2, <2>1
<1>12. \A n \in 1..11 : n \in {1, 2, 3, 4, 5, 6, 7, 8, 9, 10, 11}
  OBVIOUS
<1>13. Resets'
  <2>1. \A n \in 1..Len(op'.todo) : op'.todo[n].f = "dek" => op'.todo[n].v = FALSE
    BY <1>5, <1>9, <1>11, <1>12
  <2>2. \A n \in 1..Len(op'.todo) : op'.todo[n].f = "tries" => n = Len(op'.todo)
    BY <1>5, <1>9, <1>11, <1>12
  <2>3. (\E n \in 1..Len(op'.todo) : op'.todo[n].f = "dek") /\ op'.todo[Len(op'.todo)].f = "tries"
    <3>1. 9 \in 1..11
      OBVIOUS
    <3> QED BY <1>5, <1>9, <1>11, <3>1
  <2> QED BY <1>6, <1>9, <2>1, <2>2, <2>3 DEF Resets
<1>14. Managing'
  BY <1>8, <1>13, BeginsManages
<1> QED BY <1>9, <1>10, <1>14 DEF PivInv

\* The scan of a card without its data encryption key sets the management key and describes it; otherwise
\* it leaves the management key alone.
LEMMA SelectCard ==
    ASSUME PivInv, V!Select
    PROVE  PivInv'
<1>1. PICK v1, v2, v3, S :
        /\ v1 = V!PutAt("ref", "pin", "factory") /\ v2 = V!PutAt("ref", "puk", "factory") /\ v3 = V!Put("att", TRUE)
        /\ S = {v1, v2, v3}
  OBVIOUS
<1>2. PICK old, puk, cert, set :
        /\ old = (IF cache.dek /\ cache.ref["pin"] # None THEN <<>> ELSE <<v1>>)
        /\ puk = (IF cache.ref["puk"] # None THEN <<>> ELSE <<v2>>)
        /\ cert = (IF cache.att THEN <<>> ELSE <<v3>>)
        /\ set = (old \o puk) \o cert
  OBVIOUS
<1>3. \A w \in S : Harmless(w) /\ w.f # "tries"
  <2>1. Harmless(v1) /\ v1.f = "ref" /\ Harmless(v2) /\ v2.f = "ref"
    BY <1>1, HarmlessReference DEF V!References
  <2>2. Harmless(v3) /\ v3.f # "tries"
    BY <1>1, HarmlessFile
  <2> QED BY <1>1, <2>1, <2>2
<1>4. old \in Seq(S) /\ puk \in Seq(S) /\ cert \in Seq(S)
  <2>1. <<>> \in Seq(S) /\ <<v1>> \in Seq(S) /\ <<v2>> \in Seq(S) /\ <<v3>> \in Seq(S)
    BY <1>1
  <2> QED BY <1>2, <2>1
<1>5. set \in Seq(S)
  <2>1. old \o puk \in Seq(S)
    BY <1>4
  <2> QED BY <1>2, <1>4, <2>1
<1>6. PICK x, y, z, first :
        /\ x = V!Put("dek", TRUE) /\ y = V!Put("mgm", "aes192") /\ z = V!Put("mgmMeta", [algo |-> "aes192", touch |-> FALSE])
        /\ first = (IF cache.dek THEN <<>> ELSE <<x, y, z>>)
  OBVIOUS
<1>7. V!ScanWrites = ((first \o old) \o puk) \o cert
  BY <1>1, <1>2, <1>6 DEF V!ScanWrites
<1>8. PICK todo : todo = V!ScanWrites
  OBVIOUS
<1>9. /\ IF cache.dek THEN todo = set ELSE todo = <<x, y, z>> \o set
  <2>1. CASE cache.dek
    <3>1. first = <<>> /\ <<>> \o old = old
      BY <1>4, <1>6, <2>1
    <3> QED BY <1>2, <1>7, <1>8, <2>1, <3>1
  <2>2. CASE ~cache.dek
    <3>1. PICK T : T = S \cup {x, y, z}
      OBVIOUS
    <3>2. first = <<x, y, z>> /\ first \in Seq(T) /\ old \in Seq(T) /\ puk \in Seq(T) /\ cert \in Seq(T)
      <4>1. first = <<x, y, z>> /\ <<x, y, z>> \in Seq(T)
        <5>1. first = <<x, y, z>>
          BY <1>6, <2>2
        <5>2. <<x, y, z>> \in Seq(T)
          BY <3>1
        <5> QED BY <5>1, <5>2
      <4>2. \A q \in Seq(S) : q \in Seq(T)
        BY <3>1
      <4> QED BY <1>4, <4>1, <4>2
    <3>3. ((first \o old) \o puk) \o cert = first \o ((old \o puk) \o cert)
      BY <3>2
    <3> QED BY <1>2, <1>7, <1>8, <2>2, <3>2, <3>3
  <2> QED BY <2>1, <2>2
<1>10. /\ op.pc \in {"off", "scan", "idle"} /\ ram' = V!NoSession /\ UNCHANGED <<cache, flash, hist>>
       /\ IF todo = <<>> THEN op' = V!Idle ELSE op' = V!Running("scan", "mgm", todo, "idle")
  BY <1>8 DEF V!Select, V!Idle, V!At
<1>11. DOMAIN ram' = {"pwpiv", "mgm", "chal"} /\ ram'.pwpiv = FALSE
  BY <1>10 DEF V!NoSession
<1>12. DOMAIN hist' = HistNames /\ hist'.used = hist.used /\ hist'.part = hist.part /\ hist'.torn = hist.torn
  BY <1>10 DEF PivInv, PivTypes
<1>13. todo # <<>> => Begins("scan", "mgm", todo, "idle")
  BY <1>10, <1>11, <1>12 DEF Begins
<1>14. cache.dek /\ ~Exempt(hist.torn) => Fine(cache)
  BY <1>10 DEF PivInv, Managing
<1>15. CASE cache.dek /\ todo # <<>>
  <2>1. Exempt(hist'.torn) \/ V!MgmWorks(cache) \/ V!Blocked(cache)
    BY <1>12, <1>14, <1>15 DEF Fine
  <2> QED BY <1>3, <1>5, <1>9, <1>13, <1>15, <2>1, BeginsHarmless DEF Harmless
<1>16. CASE cache.dek /\ todo = <<>>
  <2>1. op' = V!Idle /\ op'.pc = "idle" /\ op'.todo = <<>> /\ DOMAIN op' = {"pc", "cmd", "todo", "then", "slot", "pressed"}
    BY <1>10, <1>16 DEF V!Idle, V!At
  <2>2. op.pc # "write"
    BY <1>10
  <2>3. PivTypes' /\ Using'
    BY <1>10, <1>11, <1>12, <2>1 DEF PivInv, PivTypes, Using
  <2>4. Policy'
    <3>1. /\ \A s \in Slots \ hist.torn : Fits(cache, s)
          /\ \A s \in Slots \ (hist.torn \cup hist.part) : Fits(flash, s)
      BY <2>2, Resting
    <3>2. Clearing'
      BY <1>10, <2>1, <3>1 DEF Clearing
    <3> QED BY <1>10, <3>1, <3>2 DEF Policy
  <2>5. Managing'
    BY <1>10, <1>14, <1>16, <2>1 DEF PivInv, Managing
  <2> QED BY <2>3, <2>4, <2>5 DEF PivInv
<1>17. CASE ~cache.dek
  <2>1. PICK T : T = S \cup {x, y, z}
    OBVIOUS
  <2>2. todo = <<x, y, z>> \o set /\ <<x, y, z>> \in Seq(T) /\ set \in Seq(T)
    BY <1>5, <1>9, <1>17, <2>1
  <2>3. PICK n \in Nat : n = Len(set)
    BY <1>5
  <2>4. /\ todo \in Seq(T) /\ Len(todo) = n + 3 /\ todo[1] = x /\ todo[2] = y /\ todo[3] = z
        /\ \A i \in 1..n : todo[i + 3] = set[i] /\ set[i] \in S
    BY <1>5, <2>2, <2>3
  <2>5. todo # <<>>
    BY <2>4
  <2>6. IsWrite(x) /\ Clears(x) /\ x.f = "dek"
    BY <1>6 DEF V!Put, IsWrite, Clears
  <2>7. IsWrite(y) /\ Clears(y) /\ IsWrite(z) /\ Clears(z)
    BY <1>6, MgmWrites
  <2>8. (\A w \in T : IsWrite(w)) /\ (\A w \in T : Clears(w))
    BY <1>3, <2>1, <2>6, <2>7 DEF Harmless
  <2>9. Begins("scan", "mgm", todo, "idle")
    BY <1>13, <2>5
  <2>10. /\ PivTypes' /\ Using'
         /\ op'.cmd = "scan" /\ op'.slot = "mgm" /\ op'.todo = todo /\ op'.then = "idle"
    BY <2>4, <2>8, <2>9, BeginsTypes
  <2>11. Policy'
    BY <2>4, <2>8, <2>9, BeginsClear
  <2>12. \A j \in 1..(n + 3) : j # 3 /\ j # 2 => todo[j].f \notin {"mgm", "mgmMeta"}
    <3> SUFFICES ASSUME NEW j \in 1..(n + 3), j # 3, j # 2 PROVE todo[j].f \notin {"mgm", "mgmMeta"}
      OBVIOUS
    <3>1. CASE j = 1
      BY <2>4, <2>6, <3>1
    <3>2. CASE j # 1
      <4>1. PICK i \in 1..n : j = i + 3
        BY <3>2
      <4> QED BY <1>3, <2>4, <4>1 DEF Harmless
    <3> QED BY <3>1, <3>2
  <2>13. Mends'
    <3>1. Len(op'.todo) = n + 3 /\ 3 \in 1..Len(op'.todo)
      BY <2>4, <2>10
    <3>2. PICK a \in V!MgmAlgos, touch \in BOOLEAN : a = "aes192" /\ touch = FALSE
      BY DEF V!MgmAlgos
    <3>3. op'.todo[3] = V!Put("mgmMeta", [algo |-> a, touch |-> touch]) /\ op'.todo[3 - 1] = V!Put("mgm", a)
      <4>1. z = V!Put("mgmMeta", [algo |-> a, touch |-> touch]) /\ y = V!Put("mgm", a)
        BY <1>6, <3>2
      <4>2. op'.todo[3] = z /\ op'.todo[3 - 1] = y
        BY <2>4, <2>10
      <4> QED BY <4>1, <4>2
    <3>4. \A j \in 1..Len(op'.todo) : j # 3 /\ j # 3 - 1 => op'.todo[j].f \notin {"mgm", "mgmMeta"}
      BY <2>10, <2>12, <3>1
    <3> QED BY <2>10, <3>1, <3>2, <3>3, <3>4 DEF Mends
  <2>14. Managing'
    BY <2>9, <2>13, BeginsManages
  <2> QED BY <2>10, <2>11, <2>14 DEF PivInv
<1> QED BY <1>15, <1>16, <1>17

-----------------------------------------------------------------------------
(* The invariant of PIV *)

LEMMA PivInit == V!Init => PivInv
<1> SUFFICES ASSUME V!Init PROVE PivInv
  OBVIOUS
<1>1. /\ cache = V!NewFiles /\ flash = V!NewFiles /\ ram = V!NoSession /\ op = V!Off
      /\ \E h \in {"pins", "keys", "challenges"} :
            hist = [host |-> h, keys |-> 0, nonces |-> 0, faults |-> 0, cuts |-> 0, cmds |-> 0,
                    spent |-> {}, touched |-> {}, used |-> FALSE, part |-> {}, torn |-> {}]
  BY DEF V!Init
<1>2. DOMAIN hist = HistNames /\ hist.used = FALSE /\ hist.part = {} /\ hist.torn = {}
  BY <1>1 DEF HistNames
<1>3. op.pc = "off" /\ op.todo = <<>> /\ DOMAIN op = {"pc", "cmd", "todo", "then", "slot", "pressed"}
  BY <1>1 DEF V!Off, V!At
<1>4. PICK c : c = V!NewFiles
  OBVIOUS
<1>5. IsCard(c) /\ c.dek = FALSE /\ \A s \in Slots : c.key[s] = None
  BY <1>4 DEF V!NewFiles, IsCard, FileNames
<1>6. PivTypes
  BY <1>1, <1>2, <1>3, <1>4, <1>5 DEF PivTypes, V!NoSession
<1>7. Policy
  BY <1>1, <1>3, <1>4, <1>5 DEF Policy, Clearing, Fits
<1>8. Using /\ Managing
  BY <1>1, <1>2, <1>3, <1>4, <1>5 DEF Using, Managing, V!NoSession
<1> QED BY <1>6, <1>7, <1>8 DEF PivInv

LEMMA PivNext == PivInv /\ NoSlot18 /\ V!Next => PivInv'
<1> SUFFICES ASSUME PivInv, NoSlot18, V!Next PROVE PivInv'
  OBVIOUS
<1>1. CASE V!Write
  <2>1. PivTypes' /\ Using'
    BY <1>1, WriteTypes
  <2>2. Policy'
    BY <1>1, WritePolicy
  <2>3. Managing'
    BY <1>1, WriteManages
  <2> QED BY <2>1, <2>2, <2>3 DEF PivInv
<1>2. CASE V!Fault \/ V!Drain \/ V!PowerLoss
  BY <1>2, Failures
<1>3. CASE V!Select
  BY <1>3, SelectCard
<1>4. CASE V!VerifyWrong \/ V!Verify \/ V!ResetRetry \/ \E r \in V!References : V!ChangePin(r)
  BY <1>4, PinCommands
<1>5. CASE V!Verified \/ V!Logout \/ V!GetData
  BY <1>5, SessionSteps
<1>6. CASE V!ResetCard
  BY <1>6, ResetCommand
<1>7. CASE \E n \in {0, MaxTries} : V!SetRetries(n)
  BY <1>7, RetriesCommand
<1>8. CASE \E kind \in V!Kinds, a \in V!MgmAlgos :
              V!Challenge(kind, a) \/ \E n \in 1..hist.nonces, knows \in V!Answers : V!Respond(kind, a, n, knows)
  BY <1>8, SessionSteps
<1>9. CASE \E a \in V!MgmAlgos, touch \in BOOLEAN : V!SetMgmKey(a, touch)
  BY <1>9, MgmCommand
<1>10. ASSUME NEW s \in Slots,
              \/ \E p \in V!Policies : V!AsymKeygen(s, p) \/ V!ImportAsym(s, p)
              \/ \E t \in Slots : V!MoveKey(t, s)
              \/ V!DeleteKey(s) \/ V!PutData(s) \/ V!GetMetadata(s) \/ V!Authenticate(s)
       PROVE  PivInv'
  <2>1. CASE \E p \in V!Policies : V!AsymKeygen(s, p) \/ V!ImportAsym(s, p)
    BY <2>1, MakingKeys
  <2>2. CASE \E t \in Slots : V!MoveKey(t, s)
    BY <2>2, MovingKeys
  <2>3. CASE V!DeleteKey(s) \/ V!PutData(s)
    BY <2>3, DeletingKeys
  <2>4. CASE V!GetMetadata(s)
    BY <2>4, SessionSteps
  <2>5. CASE V!Authenticate(s)
    BY <2>5, UseSteps
  <2> QED BY <1>10, <2>1, <2>2, <2>3, <2>4, <2>5
<1>11. CASE V!DeleteMgm
  BY <1>11, MgmDeletion
<1>12. CASE (\E pressed \in BOOLEAN : V!Button(pressed)) \/ V!UseKey
  BY <1>12, UseSteps
<1> QED BY <1>1, <1>2, <1>3, <1>4, <1>5, <1>6, <1>7, <1>8, <1>9, <1>10, <1>11, <1>12 DEF V!Next

LEMMA PivStutter == PivInv /\ UNCHANGED V!vars => PivInv'
<1> SUFFICES ASSUME PivInv, UNCHANGED V!vars PROVE PivInv'
  OBVIOUS
<1>1. UNCHANGED <<cache, flash, ram, op, hist>>
  BY DEF V!vars
<1>2. PivTypes' /\ Using'
  BY <1>1 DEF PivInv, PivTypes, Using
<1>3. Policy'
  <2>2. ASSUME Filling PROVE Filling'
    <3>1. PICK s \in Slots : \E k, m : (s \in hist.torn \/ Agree(k, m)) /\ (Generates(s, k, m) \/ ImportsKey(s, k, m) \/ Moves(s, k, m))
      BY <2>2 DEF Filling
    <3>2. PICK k, m : (s \in hist.torn \/ Agree(k, m)) /\ (Generates(s, k, m) \/ ImportsKey(s, k, m) \/ Moves(s, k, m))
      BY <3>1
    <3>3. Generates(s, k, m) => Generates(s, k, m)'
      BY <1>1 DEF Generates
    <3>4. ImportsKey(s, k, m) => ImportsKey(s, k, m)'
      BY <1>1 DEF ImportsKey
    <3>5. Moves(s, k, m) => Moves(s, k, m)'
      BY <1>1 DEF Moves
    <3> QED BY <1>1, <3>2, <3>3, <3>4, <3>5 DEF Filling
  <2> QED BY <1>1, <2>2 DEF PivInv, Policy, Clearing, V!Torn
<1>4. Managing'
  <2>1. (Mends <=> Mends') /\ (Resets <=> Resets') /\ (Quiet <=> Quiet')
    BY <1>1 DEF Mends, Resets, Quiet
  <2> QED BY <1>1, <2>1 DEF PivInv, Managing
<1> QED BY <1>2, <1>3, <1>4 DEF PivInv

LEMMA PivProperties == PivInv => V!PolicyOfKey /\ V!OneUsePerPin /\ (MoveMgm = FALSE => V!Manageable)
<1> SUFFICES ASSUME PivInv PROVE V!PolicyOfKey /\ V!OneUsePerPin /\ (MoveMgm = FALSE => V!Manageable)
  OBVIOUS
<1>1. V!Idle.pc = "idle"
  BY DEF V!Idle, V!At
<1>2. V!PolicyOfKey
  <2>1. op = V!Idle => \A s \in Slots \ hist.torn : Fits(cache, s)
    BY <1>1, Resting
  <2> QED BY <2>1 DEF V!PolicyOfKey, Fits
<1>3. V!OneUsePerPin
  BY DEF PivInv, Using, V!OneUsePerPin
<1>4. MoveMgm = FALSE => V!Manageable
  BY <1>1 DEF PivInv, Managing, Fine, Exempt, V!Manageable
<1> QED BY <1>2, <1>3, <1>4

-----------------------------------------------------------------------------
(* Theorems *)

LEMMA KeysPart == Spec => [](part = "keys" => KeysInv)
<1>1. Init => (part = "keys" => KeysInv)
  BY KeysInit DEF Init
<1>2. (part = "keys" => KeysInv) /\ [Next]_vars => (part = "keys" => KeysInv)'
  <2> SUFFICES ASSUME part = "keys" => KeysInv, [Next]_vars, part' = "keys" PROVE KeysInv'
    OBVIOUS
  <2>1. CASE Next
    BY <2>1, KeysNext DEF Next
  <2>2. CASE UNCHANGED vars
    <3>1. part = "keys" /\ UNCHANGED K!vars
      BY <2>2 DEF vars, K!vars
    <3> QED BY <3>1, KeysStutter
  <2> QED BY <2>1, <2>2
<1> QED BY <1>1, <1>2, PTL DEF Spec

LEMMA PivPart == ASSUME NoSlot18 PROVE Spec => [](part = "piv" => PivInv)
<1>1. Init => (part = "piv" => PivInv)
  BY PivInit DEF Init
<1>2. (part = "piv" => PivInv) /\ [Next]_vars => (part = "piv" => PivInv)'
  <2> SUFFICES ASSUME part = "piv" => PivInv, [Next]_vars, part' = "piv" PROVE PivInv'
    OBVIOUS
  <2>1. CASE Next
    BY <2>1, PivNext DEF Next
  <2>2. CASE UNCHANGED vars
    <3>1. part = "piv" /\ UNCHANGED V!vars
      BY <2>2 DEF vars, V!vars
    <3> QED BY <3>1, PivStutter
  <2> QED BY <2>1, <2>2
<1> QED BY <1>1, <1>2, PTL DEF Spec

\* One verification of PW1 gives one signature, when EF_PW_PRIV asks for that, for any number of
\* signatures, algorithms and keys (cmd_pso).
THEOREM OneSignature == Spec => OneSignaturePerPin
<1>1. (part = "keys" => KeysInv) /\ [Next]_vars => [part = "keys" => K!SignedWith]_vars
  <2> SUFFICES ASSUME part = "keys" => KeysInv, Next, part = "keys" PROVE K!SignedWith
    OBVIOUS
  <2>1. K!Next
    BY DEF Next
  <2> QED BY <2>1, SignaturesAllowed
<1> QED BY <1>1, KeysPart, PTL DEF Spec, OneSignaturePerPin

\* Every key is used as its own policy says: an OpenPGP key after the touch that its flag asks for,
\* the signature counter counting the signatures of the current key (open_pgp_check_uif, inc_sig_count),
\* a PIV key under the policy it was made with, with "always" once per verification (cmd_authenticate).
THEOREM KeyPolicies == ASSUME Slot18 = None PROVE Spec => []PolicyOfKey
<1>1. (part = "keys" => KeysInv) /\ (part = "piv" => PivInv) => PolicyOfKey
  BY KeysProperties, PivProperties DEF PolicyOfKey
<1>2. NoSlot18
  BY DEF NoSlot18
<1>3. Spec => [](part = "piv" => PivInv)
  BY <1>2, PivPart
<1> QED BY <1>1, <1>3, KeysPart, PTL

\* PIV can be administered, or it is blocked and RESET is open, whatever write of whatever command
\* failed and wherever the power went (cmd_reset, cmd_set_mgm, scan_files_piv).
THEOREM PivManageable == ASSUME Slot18 = None, MoveMgm = FALSE PROVE Spec => []Manageable
<1>1. (part = "piv" => PivInv) => Manageable
  BY PivProperties DEF Manageable
<1>2. NoSlot18
  BY DEF NoSlot18
<1>3. Spec => [](part = "piv" => PivInv)
  BY <1>2, PivPart
<1> QED BY <1>1, <1>3, PTL

-----------------------------------------------------------------------------
(* OpenPgpPin: types *)

Deks == P!DekValues \cup {P!Noise(None)}
MayWrap == [by : P!Pins, dek : Deks] \cup {None}
PinFiles == [pin : [P!Refs -> P!Pins \cup {None}], old : SUBSET P!Refs, wrap : [P!Refs -> MayWrap],
             slot : [P!Refs -> MayWrap], txn : [P!Refs -> MayWrap], kdf : {"none", "off", "on"},
             tries : [P!Refs -> Int \cup {None}], key : Deks \cup {None}]

Provisions == {"scandek1", "scandek3", "scanpin1", "scanpin3", "limits"}
Replacing == {"stage", "pin", "wrap", "unstage", "tries"}
RcPcs == {"rctxn", "rcpin", "rcwrap"}
Undos == {"undo1", "undo2", "undo3", "undo4", "undo5", "undo6", "undo7", "undo8", "undo9"}
Clearings == {"clear1", "clear2", "clear3", "clear4", "clear5", "clear6", "clear7"}
PinPcs == {"idle", "migrate", "unslot", "load"} \cup RcPcs \cup Provisions \cup Replacing \cup Undos \cup Clearings
PinCmds == {"none", "scan", "verify", "change", "unblock", "putrc", "clearrc", "kdf", "terminate"}

PinOps == [cmd : PinCmds, pc : PinPcs, ref : P!Refs, pin : P!Pins \cup {None}, dek : Deks \cup {None},
           fresh : BOOLEAN, live : BOOLEAN, snap : PinFiles]

\* The references that are missing where the scan and openpgp_reset_code_deactivate are
Missing ==
    /\ op.pc \in {"scandek1", "scandek3", "scanpin1"} => cache.pin["pw1"] = None
    /\ op.pc \in {"scandek1", "scandek3", "scanpin3"} \/ (op.pc = "scanpin1" /\ op.fresh) => cache.pin["pw3"] = None
    /\ op.pc \in {"scanpin3", "limits"} => cache.pin["pw1"] # None
    /\ op.pc = "limits" => cache.pin["pw3"] # None
    /\ op.pc = "rcwrap" => cache.pin["rc"] = None

\* Which handler is where, and what it has of the file it is at
PinShaped ==
    /\ op.pc = "idle" => op = P!Idle
    /\ op.cmd = "terminate" <=> op.pc \in Clearings
    /\ op.pc \in Undos => op.cmd = "kdf" /\ ram.has = {}
    /\ op.cmd = "kdf" => op.pc \in Replacing \cup Undos \cup RcPcs /\ op.ref # "rc"
    /\ op.pc \in Replacing \/ op.cmd = "kdf" => op.pin # None
    /\ op.pc \in Replacing \cup {"scandek1", "scandek3", "migrate"} => op.dek # None
    /\ op.pc = "migrate" => cache.pin[op.ref] # None
    /\ Missing

\* The references that a KDF update has replaced
Reseeded ==
    op.cmd = "kdf" /\ op.pc \notin Undos =>
        /\ op.ref = "pw1" \/ op.pc \in {"wrap", "unstage", "tries"} => cache.pin["pw3"] = op.pin
        /\ op.pc \in RcPcs \/ (op.ref = "pw1" /\ op.pc \in {"wrap", "unstage", "tries"})
               => cache.pin["pw1"] = op.pin
        /\ op.pc \in RcPcs => op.ref = "pw1"

PinTypes ==
    /\ cache \in PinFiles /\ flash \in PinFiles /\ op \in PinOps
    /\ ram \in [has : SUBSET P!Accesses, sess : [P!Refs -> P!Pins \cup {None}], drawn : 1 .. MaxDeks]
    /\ hist \in [cuts : Nat, torn : BOOLEAN, half : BOOLEAN, mid : {"no", "half", "torn"}, commands : Nat, faults : Nat]
    /\ PinShaped /\ Reseeded

-----------------------------------------------------------------------------
(* OpenPgpPin: the form of the references *)

SentBy(f) == IF f.kdf = "on" THEN KdfPins ELSE RawPins
Agrees(f) ==
    /\ \A r \in P!Refs : f.pin[r] \in SentBy(f) \cup {None}
    /\ f.pin["pw1"] = None \/ f.pin["pw3"] = None => f.kdf # "on"

\* Where the undoing of a KDF update has put back the verifier of r, and its wrap
PinBackPcs(r) ==
    CASE r = "pw1" -> {"undo4", "undo5", "undo6", "undo7", "undo8", "undo9"}
      [] r = "pw3" -> {"undo5", "undo6", "undo7", "undo8", "undo9"}
      [] r = "rc" -> {"undo8", "undo9"}
WrapBackPcs(r) ==
    CASE r = "pw1" -> {"undo6", "undo7", "undo8", "undo9"}
      [] r = "pw3" -> {"undo7", "undo8", "undo9"}
      [] r = "rc" -> {"undo9"}

\* How far an update of the KDF object was undone
Restoring ==
    /\ Agrees(op.snap)
    /\ op.pc \notin {"undo1", "undo2"} => cache.kdf = op.snap.kdf
    /\ \A r \in P!Refs : op.pc \in PinBackPcs(r) => cache.pin[r] = op.snap.pin[r]

Announced ==
    IF op.cmd = "terminate" THEN op.pc \in {"clear1", "clear7"} => Agrees(cache)
    ELSE IF op.pc \in Undos THEN Restoring
    ELSE IF op.cmd = "kdf" THEN op.pin \in SentBy(cache) /\ Agrees(op.snap)
    ELSE Agrees(cache) /\ (op.pc \in Replacing => op.pin \in SentBy(cache))

FormInv ==
    ~hist.half => /\ hist.mid = "no" => Agrees(flash)
                  /\ Announced

-----------------------------------------------------------------------------
(* OpenPgpPin: the data encryption key *)

DrawnDeks == {P!Dek(n) : n \in 1 .. MaxDeks}
By(w, p) == w # None /\ w.by = p

\* All that is wrapped is one DEK, and the keys are sealed with it.
OneDek(f, d) ==
    /\ \A r \in P!Refs :
          /\ f.wrap[r] # None => f.wrap[r].dek = d
          /\ f.slot[r] # None => f.slot[r].dek = d
          /\ f.txn[r] # None => f.txn[r].dek = d
    /\ f.key \in {None, d}

\* The verifier of r fits what wraps the DEK, with a staged transaction or without.
Direct(f, r) == IF r \in f.old THEN By(f.slot[r], f.pin[r]) /\ f.wrap[r] = None ELSE By(f.wrap[r], f.pin[r])
Fitting(f, r) ==
    IF f.pin[r] = None
    THEN r \notin f.old /\ (r = "rc" \/ (f.key = None /\ By(f.wrap[r], Default) /\ f.txn[r] = None))
    ELSE Direct(f, r) \/ (r \notin f.old /\ By(f.txn[r], f.pin[r]))

Whole(f, d) == OneDek(f, d) /\ "rc" \notin f.old /\ \A r \in P!Refs : Fitting(f, r)

\* The files before a DEK is drawn
Bare(f) ==
    /\ f.pin = P!Nothing /\ f.old = {} /\ f.slot = P!Nothing /\ f.txn = P!Nothing /\ f.key = None
    /\ f.wrap["rc"] = None /\ f.wrap["pw3"] = None

Image(f) == Bare(f) \/ \E d \in DrawnDeks : Whole(f, d)

\* The scan writes the first two copies of a new DEK.
Making ==
    /\ op.pc \in {"scandek1", "scandek3"} /\ Bare(cache) /\ ram.has = {}
    /\ op.dek \in DrawnDeks /\ op.fresh
    /\ op.pc = "scandek3" => cache.wrap["pw1"] = P!Wrap(Default, op.dek)

\* What TERMINATE has cleared
Gone ==
    /\ op.pc # "clear1" => cache.key = None
    /\ op.pc \notin {"clear1", "clear2"} => cache.slot = P!Nothing
    /\ op.pc \notin {"clear1", "clear2", "clear3"} => cache.wrap["rc"] = None /\ cache.wrap["pw3"] = None
    /\ op.pc \in {"clear5", "clear6", "clear7"} => cache.txn = P!Nothing
    /\ op.pc = "clear7" => cache.pin = P!Nothing /\ cache.old = {}

\* Reference r, where the handler in progress is at
Holding(r) ==
    IF op.pc = "migrate" /\ r = op.ref
    THEN cache.pin[r] # None /\ r \notin cache.old /\ cache.wrap[r] = None /\ By(cache.slot[r], cache.pin[r])
    ELSE \/ op.pc \in Undos
         \/ op.pc = "pin" /\ r = op.ref /\ op.live
         \/ op.pc = "rcpin" /\ r = "rc" /\ op.live
         \/ Fitting(cache, r)

\* The new PIN of a reference is staged, put and wrapped.
Exchanging ==
    /\ op.pc \in {"pin", "wrap"} => By(cache.txn[op.ref], op.pin)
    /\ op.pc \in {"wrap", "unstage", "tries"} => cache.pin[op.ref] = op.pin /\ op.ref \notin cache.old
    /\ op.pc \in {"unstage", "tries"} => By(cache.wrap[op.ref], op.pin)
    /\ op.pc \in {"load", "unslot"} =>
          cache.pin[op.ref] # None /\ op.ref \notin cache.old /\ By(cache.wrap[op.ref], cache.pin[op.ref])
    /\ op.cmd = "kdf" /\ op.ref = "pw1" /\ op.pc \notin Undos =>
          By(cache.wrap["pw3"], op.pin) /\ (op.pc \in RcPcs => By(cache.wrap["pw1"], op.pin))

\* An access was given for a reference that wraps the DEK; without a fault its session key fits.
Granted ==
    /\ \A a \in ram.has :
          LET r == P!RefOf(a) IN
          r \notin cache.old /\ (cache.wrap[r] # None \/ (op.pc = "migrate" /\ r = op.ref))
    /\ hist.faults = 0 /\ op.cmd # "kdf" =>
          \A a \in ram.has :
              LET r == P!RefOf(a) IN
              IF r = op.ref /\ op.pc \in {"stage", "pin", "wrap"} THEN ram.sess[r] = op.pin
              ELSE \/ r = "rc" /\ op.pc = "rcwrap"
                   \/ ram.sess[r] = cache.pin[r] /\ (By(cache.wrap[r], cache.pin[r]) \/ (op.pc = "migrate" /\ r = op.ref))

\* What a KDF update can undo
Snapped(d) ==
    op.cmd = "kdf" =>
        /\ Whole(op.snap, d) /\ op.snap.pin["pw1"] # None /\ op.snap.pin["pw3"] # None
        /\ cache.slot = op.snap.slot
        /\ op.pc \in Undos => \A r \in P!Refs : ~P!Live(op.snap, r)
        /\ \A r \in P!Refs :
              /\ op.pc \in PinBackPcs(r) => cache.pin[r] = op.snap.pin[r] /\ (r \in cache.old <=> r \in op.snap.old)
              /\ op.pc \in WrapBackPcs(r) => cache.wrap[r] = op.snap.wrap[r]

Standing(d) ==
    /\ OneDek(cache, d) /\ "rc" \notin cache.old
    /\ op.pc \notin {"scandek1", "scandek3"}
    /\ op.pc # "scanpin1" => cache.pin["pw1"] # None
    /\ op.pc \notin {"scanpin1", "scanpin3"} => cache.pin["pw3"] # None
    /\ op.pc \in Replacing \cup {"migrate"} => op.dek = d
    /\ \A r \in P!Refs : Holding(r)
    /\ Exchanging /\ Granted /\ Snapped(d)

DekInv ==
    ~hist.torn =>
        /\ hist.mid # "torn" => Image(flash)
        /\ op.cmd = "terminate" => Gone /\ (op.pc = "clear1" => Image(cache))
        /\ op.cmd # "terminate" => Making \/ \E d \in DrawnDeks : Standing(d)

PinInv == PinTypes /\ FormInv /\ DekInv

-----------------------------------------------------------------------------
(* OpenPgpPin: the operators *)

LEMMA PinNumbers ==
    /\ Default \in RawPins /\ KdfInit \in KdfPins /\ None \notin P!Pins /\ None \notin DrawnDeks
    /\ Default \in P!Pins /\ KdfInit \in P!Pins /\ RawPins \subseteq P!Pins /\ KdfPins \subseteq P!Pins
    /\ DrawnDeks \subseteq Deks /\ MaxDeks \in Nat \ {0} /\ MaxTries \in Int
    /\ \A p \in P!Pins, d \in DrawnDeks : P!Wrap(p, d) # None
    /\ \A p \in P!Pins, d \in Deks : P!Wrap(p, d) \in MayWrap
    /\ \A p, d : P!Wrap(p, d).by = p /\ P!Wrap(p, d).dek = d
<1>1. DrawnDeks \subseteq P!DekValues
  BY DEF DrawnDeks, P!DekValues
<1>2. /\ Default \in RawPins /\ KdfInit \in KdfPins /\ MaxDeks \in Nat \ {0} /\ MaxTries \in Int
      /\ None \notin P!Pins /\ None \notin P!DekValues /\ None \notin [by : P!Pins, dek : P!DekValues]
  BY PinConstants DEF P!ConstantTypes
<1>3. \A p \in P!Pins, d \in P!DekValues : P!Wrap(p, d) \in [by : P!Pins, dek : P!DekValues]
  BY DEF P!Wrap
<1>4. \A p \in P!Pins, d \in Deks : P!Wrap(p, d) \in MayWrap
  BY DEF P!Wrap, MayWrap
<1>5. \A p, d : P!Wrap(p, d).by = p /\ P!Wrap(p, d).dek = d
  BY DEF P!Wrap
<1>6. RawPins \subseteq P!Pins /\ KdfPins \subseteq P!Pins /\ P!DekValues \subseteq Deks
  BY DEF P!Pins, Deks
<1> QED BY <1>1, <1>2, <1>3, <1>4, <1>5, <1>6

\* The copy of a PIN
LEMMA WrapIs ==
    ASSUME NEW p \in P!Pins, NEW d \in DrawnDeks, NEW w, w = P!Wrap(p, d)
    PROVE  w \in MayWrap /\ w # None /\ w.by = p /\ w.dek = d /\ By(w, p)
BY PinNumbers DEF By

LEMMA RefsOfAccesses ==
    /\ \A a \in P!Accesses : P!RefOf(a) \in P!Refs
    /\ P!RefOf("pw1") = "pw1" /\ P!RefOf("pw2") = "pw1" /\ P!RefOf("pw3") = "pw3" /\ P!RefOf("rc") = "rc"
    /\ "pw1" \in P!Refs /\ "pw3" \in P!Refs /\ "rc" \in P!Refs
    /\ \A r \in P!Refs : r \in P!Accesses /\ P!RefOf(r) = r
BY DEF P!RefOf, P!Refs, P!Accesses

Keys == [P!Refs -> P!Pins \cup {None}]
RamTypes == [has : SUBSET P!Accesses, sess : Keys, drawn : 1 .. MaxDeks]
LEMMA SessionIs ==
    ASSUME NEW has \in SUBSET P!Accesses, NEW sess \in Keys, ram.drawn \in 1 .. MaxDeks, ram' = P!Session(has, sess)
    PROVE  /\ ram' \in RamTypes
           /\ ram'.has = has /\ ram'.drawn = ram.drawn
           /\ \A a \in has : ram'.sess[P!RefOf(a)] = sess[P!RefOf(a)]
BY RefsOfAccesses DEF P!Session, Keys, RamTypes

\* What load_dek returns
LEMMA OpenerIs ==
    ASSUME NEW has \in SUBSET P!Accesses, has # {}
    PROVE  \E a \in has : P!RefOf(a) = P!Opener(has)
BY DEF P!Opener, P!RefOf, P!Accesses

LEMMA LoadTypes ==
    ASSUME NEW f \in PinFiles, NEW has \in SUBSET P!Accesses, NEW sess,
           \A r \in P!Refs : sess[r] \in P!Pins \cup {None} \cup {P!Multi(p) : p \in P!Pins}
    PROVE  P!LoadDek(f, has, sess) \in Deks \cup {None}
<1>1. CASE has = {}
  BY <1>1 DEF P!LoadDek
<1>2. CASE has # {}
  <2> DEFINE r == P!Opener(has)
  <2>1. r \in P!Refs
    BY DEF P!Opener, P!Refs
  <2> HIDE DEF r
  <2>2. f.wrap[r] \in MayWrap /\ f.slot[r] \in MayWrap
    BY <2>1 DEF PinFiles
  <2>3. P!OldDek(f, r, sess[r]) \in Deks
    <3>1. sess[r] \in P!Pins \cup {None} \cup {P!Multi(p) : p \in P!Pins}
      BY <2>1
    <3>2. P!Noise(sess[r]) \in Deks
      BY <3>1 DEF Deks, P!DekValues
    <3>3. f.slot[r] # None => f.slot[r].dek \in Deks
      BY <2>2 DEF MayWrap
    <3> QED BY <3>2, <3>3 DEF P!OldDek
  <2>4. f.wrap[r] # None => f.wrap[r].dek \in Deks
    BY <2>2 DEF MayWrap
  <2> QED BY <2>3, <2>4 DEF P!LoadDek, r
<1> QED BY <1>1, <1>2

LEMMA LoadsIt ==
    ASSUME NEW f \in PinFiles, NEW d, OneDek(f, d), NEW has \in SUBSET P!Accesses, NEW sess,
           \A a \in has : f.wrap[P!RefOf(a)] # None
    PROVE  /\ P!LoadDek(f, has, sess) \in {None, d}
           /\ has # {} /\ (\A a \in has : By(f.wrap[P!RefOf(a)], sess[P!RefOf(a)])) => P!LoadDek(f, has, sess) = d
<1>1. CASE has = {}
  BY <1>1 DEF P!LoadDek
<1>2. CASE has # {}
  <2>1. PICK a \in has : P!RefOf(a) = P!Opener(has)
    BY <1>2, OpenerIs
  <2>2. P!RefOf(a) \in P!Refs
    BY RefsOfAccesses
  <2> DEFINE r == P!Opener(has)
  <2>3. f.wrap[r] # None /\ f.wrap[r].dek = d
    BY <2>1, <2>2 DEF OneDek
  <2>4. P!LoadDek(f, has, sess) = IF f.wrap[r].by = sess[r] THEN d ELSE None
    BY <1>2, <2>3 DEF P!LoadDek
  <2>5. (\A b \in has : By(f.wrap[P!RefOf(b)], sess[P!RefOf(b)])) => f.wrap[r].by = sess[r]
    BY <2>1 DEF By
  <2> QED BY <2>4, <2>5
<1> QED BY <1>1, <1>2

\* pin_txn_recover
LEMMA RecoveredIs ==
    ASSUME NEW f \in PinFiles, NEW r \in P!Refs, NEW g, g = P!Recovered(f, r)
    PROVE  /\ g \in PinFiles /\ g.pin = f.pin /\ g.old = f.old /\ g.slot = f.slot /\ g.kdf = f.kdf
           /\ g.tries = f.tries /\ g.key = f.key
           /\ g.txn[r] = None
           /\ \A q \in P!Refs : q # r => g.txn[q] = f.txn[q] /\ g.wrap[q] = f.wrap[q]
           /\ By(f.txn[r], f.pin[r]) => g.wrap[r] = f.txn[r]
           /\ ~By(f.txn[r], f.pin[r]) => g.wrap[r] = f.wrap[r]
<1>1. None \in MayWrap /\ f.txn[r] \in MayWrap
  BY DEF MayWrap, PinFiles
<1>2. CASE f.txn[r] = None
  BY <1>2 DEF P!Recovered, By, PinFiles
<1>3. CASE f.txn[r] # None /\ f.txn[r].by # f.pin[r]
  <2>1. g = [f EXCEPT !.txn[r] = None]
    BY <1>3 DEF P!Recovered
  <2> QED BY <1>1, <1>3, <2>1 DEF By, PinFiles
<1>4. CASE f.txn[r] # None /\ f.txn[r].by = f.pin[r]
  <2> DEFINE w == f.txn[r]
  <2>1. g = [f EXCEPT !.wrap[r] = w, !.txn[r] = None]
    BY <1>4 DEF P!Recovered
  <2>2. By(w, f.pin[r]) /\ w \in MayWrap
    BY <1>1, <1>4 DEF By
  <2>3. g \in PinFiles /\ g.pin = f.pin /\ g.old = f.old /\ g.slot = f.slot /\ g.kdf = f.kdf
        /\ g.tries = f.tries /\ g.key = f.key /\ g.wrap = [f.wrap EXCEPT ![r] = w]
        /\ g.txn = [f.txn EXCEPT ![r] = None]
    <3> DEFINE wr == [f.wrap EXCEPT ![r] = w]
               tx == [f.txn EXCEPT ![r] = None]
    <3>1. g = [f EXCEPT !.wrap = wr, !.txn = tx]
      BY <2>1 DEF PinFiles
    <3>2. wr \in [P!Refs -> MayWrap] /\ tx \in [P!Refs -> MayWrap]
      BY <1>1, <2>2 DEF PinFiles
    <3> HIDE DEF wr, tx
    <3>3. g \in PinFiles /\ g.pin = f.pin /\ g.old = f.old /\ g.slot = f.slot /\ g.kdf = f.kdf
          /\ g.tries = f.tries /\ g.key = f.key /\ g.wrap = wr /\ g.txn = tx
      BY <3>1, <3>2 DEF PinFiles
    <3> QED BY <3>3 DEF wr, tx
  <2>4. f.wrap \in [P!Refs -> MayWrap] /\ f.txn \in [P!Refs -> MayWrap]
    BY DEF PinFiles
  <2> QED BY <2>2, <2>3, <2>4
<1> QED BY <1>2, <1>3, <1>4

\* pin_txn_delete
LEMMA UnstagedIs ==
    ASSUME NEW f \in PinFiles, NEW R \in SUBSET P!Refs, NEW g, g = P!Unstaged(f, R)
    PROVE  /\ g \in PinFiles /\ g.pin = f.pin /\ g.old = f.old /\ g.wrap = f.wrap /\ g.slot = f.slot
           /\ g.kdf = f.kdf /\ g.tries = f.tries /\ g.key = f.key
           /\ \A q \in P!Refs : g.txn[q] = IF q \in R THEN None ELSE f.txn[q]
           /\ \A d : OneDek(f, d) => OneDek(g, d)
<1> DEFINE tx == [q \in P!Refs |-> IF q \in R THEN None ELSE f.txn[q]]
<1>1. g = [f EXCEPT !.txn = tx]
  BY DEF P!Unstaged
<1>2. tx \in [P!Refs -> MayWrap] /\ \A q \in P!Refs : tx[q] = IF q \in R THEN None ELSE f.txn[q]
  <2>1. f.txn \in [P!Refs -> MayWrap] /\ None \in MayWrap
    BY DEF PinFiles, MayWrap
  <2> QED BY <2>1
<1> HIDE DEF tx
<1>3. /\ g \in PinFiles /\ g.pin = f.pin /\ g.old = f.old /\ g.wrap = f.wrap /\ g.slot = f.slot
      /\ g.kdf = f.kdf /\ g.tries = f.tries /\ g.key = f.key /\ g.txn = tx
  BY <1>1, <1>2 DEF PinFiles
<1>4. \A d : OneDek(f, d) => OneDek(g, d)
  BY <1>2, <1>3 DEF OneDek
<1> QED BY <1>2, <1>3, <1>4

\* A reference without a live transaction fits what is wrapped for it.
LEMMA SettledDirect ==
    ASSUME NEW f \in PinFiles, NEW r \in P!Refs, Fitting(f, r), f.pin[r] # None, ~P!Live(f, r)
    PROVE  Direct(f, r)
<1> DEFINE g == P!Recovered(f, r)
<1>1. By(f.txn[r], f.pin[r]) => g.wrap[r] = f.txn[r]
  BY RecoveredIs
<1>2. g.wrap = f.wrap
  BY DEF P!Live
<1>3. Direct(f, r) \/ (r \notin f.old /\ By(f.txn[r], f.pin[r]))
  BY DEF Fitting
<1> HIDE DEF g
<1> QED BY <1>1, <1>2, <1>3 DEF Direct

\* No handler is in progress.
LEMMA IdleOp ==
    /\ P!Idle \in PinOps /\ P!Idle.cmd = "none" /\ P!Idle.pc = "idle" /\ P!Idle.ref = "pw1" /\ P!Idle.pin = None
    /\ P!Idle.dek = None /\ ~P!Idle.fresh /\ ~P!Idle.live /\ P!Idle.snap = P!Blank /\ P!Blank \in PinFiles
<1>1. P!Nothing \in [P!Refs -> P!Pins \cup {None}] /\ P!Nothing \in [P!Refs -> MayWrap]
      /\ P!Nothing \in [P!Refs -> Int \cup {None}]
  BY DEF P!Nothing, MayWrap
<1>2. P!Blank \in PinFiles
  BY <1>1 DEF P!Blank, PinFiles
<1> QED BY <1>2 DEF P!Idle, PinOps, PinCmds, PinPcs, P!Refs

\* The scan
LEMMA ScanOnIs ==
    ASSUME NEW o \in PinOps, NEW f \in PinFiles, NEW x, x = P!ScanOn(o, f)
    PROVE  \/ /\ x = P!Idle /\ f.pin["pw1"] # None /\ f.pin["pw3"] # None
           \/ /\ x \in PinOps /\ x.cmd = o.cmd /\ x.pc \in {"scanpin1", "scanpin3", "limits", "rctxn"}
              /\ x.ref = o.ref /\ x.pin = o.pin /\ x.dek = o.dek /\ x.fresh = o.fresh /\ x.snap = o.snap
              /\ x.pc = "scanpin1" <=> f.pin["pw1"] = None
              /\ x.pc # "scanpin1" => (x.pc = "scanpin3" <=> f.pin["pw3"] = None)
<1> DEFINE pc == P!ScanPc(f, o.fresh)
<1>1. /\ pc \in {"scanpin1", "scanpin3", "limits", "rctxn", "idle"}
      /\ pc = "scanpin1" <=> f.pin["pw1"] = None
      /\ pc # "scanpin1" => (pc = "scanpin3" <=> f.pin["pw3"] = None)
  BY DEF P!ScanPc
<1>2. x = IF pc = "idle" THEN P!Idle ELSE [o EXCEPT !.pc = pc]
  BY DEF P!ScanOn
<1> HIDE DEF pc
<1>3. CASE pc = "idle"
  BY <1>1, <1>2, <1>3
<1>4. CASE pc # "idle"
  <2>1. pc \in PinPcs
    BY <1>1, <1>4 DEF PinPcs, Provisions, RcPcs
  <2>2. x \in PinOps /\ x.cmd = o.cmd /\ x.pc = pc /\ x.ref = o.ref /\ x.pin = o.pin /\ x.dek = o.dek
        /\ x.fresh = o.fresh /\ x.snap = o.snap
    BY <1>2, <1>4, <2>1 DEF PinOps
  <2> QED BY <1>1, <1>4, <2>2
<1> QED BY <1>3, <1>4

\* A DEK is drawn, or what is missing is filled in.
Filled(f) ==
    /\ op' \in PinOps /\ op'.cmd \in {"none", "scan"} /\ (op'.pc = "idle" => op' = P!Idle)
    /\ op'.pc \in {"idle", "scanpin1", "scanpin3", "limits", "rctxn"}
    /\ op'.pc = "scanpin1" <=> f.pin["pw1"] = None
    /\ op'.pc # "scanpin1" => (op'.pc = "scanpin3" <=> f.pin["pw3"] = None)
    /\ op'.ref = "pw1" /\ ~op'.fresh

LEMMA ScanIs ==
    ASSUME NEW f \in PinFiles, NEW r, r \in RamTypes,
           ram.drawn \in 1 .. MaxDeks, P!Scan(f, r)
    PROVE  /\ ram' \in RamTypes
           /\ ram'.has = r.has /\ ram'.sess = r.sess
           /\ IF P!NeedsDek(f)
              THEN /\ op' \in PinOps /\ op'.cmd = "scan" /\ op'.pc = "scandek1" /\ op'.dek \in DrawnDeks /\ op'.fresh
                   /\ f.pin["pw1"] = None /\ f.pin["pw3"] = None
              ELSE Filled(f)
<1> DEFINE d == ram.drawn + 1
           D == P!Dek(d)
           o == [P!Idle EXCEPT !.cmd = "scan"]
<1>1. /\ o \in PinOps /\ o.cmd = "scan" /\ o.pc = "idle" /\ o.ref = "pw1" /\ ~o.fresh
  BY IdleOp DEF PinOps, PinCmds
<1>2. CASE P!NeedsDek(f)
  <2>1. d \in 1 .. MaxDeks /\ op' = [o EXCEPT !.pc = "scandek1", !.dek = D, !.fresh = TRUE]
        /\ ram' = [r EXCEPT !.drawn = d]
    BY <1>2, PinNumbers DEF P!Scan
  <2>2. D \in DrawnDeks /\ D \in Deks
    BY <2>1, PinNumbers DEF DrawnDeks
  <2> HIDE DEF D, d, o
  <2>3. ram' \in RamTypes /\ ram'.has = r.has /\ ram'.sess = r.sess
    BY <2>1 DEF RamTypes
  <2>4. op' \in PinOps /\ op'.cmd = "scan" /\ op'.pc = "scandek1" /\ op'.dek = D /\ op'.fresh
    BY <1>1, <2>1, <2>2 DEF PinOps, PinPcs, Provisions
  <2> QED BY <1>2, <2>2, <2>3, <2>4 DEF P!NeedsDek, P!Provisioning
<1>3. CASE ~P!NeedsDek(f)
  <2>1. op' = P!ScanOn(o, f) /\ ram' = r
    BY <1>3 DEF P!Scan
  <2> HIDE DEF o
  <2>2. Filled(f)
    BY <1>1, <2>1, ScanOnIs, IdleOp DEF Filled
  <2> QED BY <1>3, <2>1, <2>2
<1> QED BY <1>2, <1>3

-----------------------------------------------------------------------------
(* OpenPgpPin: how the invariant is shown *)

HistTypes == [cuts : Nat, torn : BOOLEAN, half : BOOLEAN, mid : {"no", "half", "torn"}, commands : Nat, faults : Nat]

CalmPcs == {"idle", "load", "limits", "scanpin1", "scanpin3", "rctxn", "rcwrap"}
Calm ==
    /\ op \in PinOps /\ op.pc \in CalmPcs /\ op.cmd \notin {"kdf", "terminate"} /\ (op.pc = "idle" => op = P!Idle)
    /\ Missing

LEMMA CalmShape == ASSUME Calm PROVE PinShaped /\ Reseeded
BY DEF Calm, CalmPcs, PinShaped, Reseeded, Clearings, Undos, Replacing

LEMMA CalmForm == ASSUME Calm, Agrees(cache) PROVE Announced
BY DEF Calm, CalmPcs, Announced, Undos, Replacing

\* The references that are there where no reference is being changed, and the one that was checked
PinsThere ==
    /\ op.pc # "scanpin1" => cache.pin["pw1"] # None
    /\ op.pc \notin {"scanpin1", "scanpin3"} => cache.pin["pw3"] # None
    /\ op.pc = "load" => cache.pin[op.ref] # None /\ op.ref \notin cache.old /\ By(cache.wrap[op.ref], cache.pin[op.ref])

\* Sessions where no reference is being changed
Admitted ==
    /\ \A a \in ram.has : P!RefOf(a) \notin cache.old /\ cache.wrap[P!RefOf(a)] # None
    /\ hist.faults = 0 =>
          \A a \in ram.has :
              LET r == P!RefOf(a) IN
              \/ r = "rc" /\ op.pc = "rcwrap"
              \/ ram.sess[r] = cache.pin[r] /\ By(cache.wrap[r], cache.pin[r])

LEMMA CalmStands ==
    ASSUME NEW d \in DrawnDeks, Calm, Whole(cache, d), PinsThere, Admitted
    PROVE  Standing(d)
<1>1. Granted
  BY DEF Calm, CalmPcs, Admitted, Granted
<1>2. Exchanging
  BY DEF Calm, CalmPcs, Exchanging, PinsThere
<1>3. Snapped(d)
  BY DEF Calm, Snapped
<1>4. \A r \in P!Refs : Holding(r)
  BY DEF Calm, CalmPcs, Holding, Whole, Undos
<1>5. op.pc \notin {"scandek1", "scandek3"} /\ op.pc \notin Replacing \cup {"migrate"}
  BY DEF Calm, CalmPcs, Replacing
<1> QED BY <1>1, <1>2, <1>3, <1>4, <1>5 DEF Standing, Whole, PinsThere

LEMMA AtRest ==
    ASSUME NEW d, Standing(d), op.pc \notin {"migrate"} \cup Undos, ~(op.live /\ op.pc \in {"pin", "rcpin"})
    PROVE  Whole(cache, d)
BY DEF Standing, Holding, Whole

LEMMA AtIdle ==
    ASSUME NEW d, Standing(d), op.pc \in {"idle", "load", "limits", "rctxn", "scanpin1", "scanpin3"}, op.cmd # "kdf"
    PROVE  Whole(cache, d) /\ Admitted
BY AtRest DEF Standing, Granted, Admitted, Undos

\* Where the DEK was drawn before
LEMMA DekStands ==
    ASSUME DekInv, ~hist.torn, op.cmd # "terminate", op.pc \notin {"scandek1", "scandek3"}
    PROVE  \E d \in DrawnDeks : Standing(d)
BY DEF DekInv, Making

LEMMA TypesOf ==
    ASSUME PinInv
    PROVE  /\ cache \in PinFiles /\ flash \in PinFiles /\ op \in PinOps /\ hist \in HistTypes /\ ram \in RamTypes
           /\ PinShaped /\ Reseeded /\ Missing /\ FormInv /\ DekInv
BY DEF PinInv, PinTypes, HistTypes, RamTypes, Keys, PinShaped

LEMMA BackPcs == \A r \in P!Refs : PinBackPcs(r) \subseteq Undos /\ WrapBackPcs(r) \subseteq Undos
BY DEF P!Refs, PinBackPcs, WrapBackPcs, Undos

\* A KDF update goes on.
LEMMA SnapHeld ==
    ASSUME NEW d, Snapped(d), op'.cmd = "kdf" => op.cmd = "kdf" /\ op'.snap = op.snap,
           cache'.slot = cache.slot, op'.pc \notin Undos
    PROVE  Snapped(d)'
<1>1. Whole(op.snap, d) /\ op'.snap = op.snap => Whole(op'.snap, d)
  OBVIOUS
<1> QED BY <1>1, BackPcs DEF Snapped

\* Steps that leave the flash alone
LEMMA FormKept ==
    ASSUME FormInv, UNCHANGED flash, hist'.half = hist.half, hist'.mid = hist.mid, ~hist.half => Announced'
    PROVE  FormInv'
BY DEF FormInv, Agrees, SentBy

LEMMA DekKept ==
    ASSUME DekInv, UNCHANGED flash, hist.torn => hist'.torn, hist'.mid = hist.mid,
           ~hist'.torn /\ op'.cmd = "terminate" => Gone' /\ (op'.pc = "clear1" => Image(cache)'),
           ~hist'.torn /\ op'.cmd # "terminate" => Making' \/ \E d \in DrawnDeks : Standing(d)'
    PROVE  DekInv'
<1>1. Image(flash) <=> Image(flash')
  OBVIOUS
<1> QED BY <1>1 DEF DekInv

\* A step to another calm point
LEMMA CalmStep ==
    ASSUME PinInv, UNCHANGED flash, hist'.half = hist.half, hist'.mid = hist.mid, hist.torn => hist'.torn,
           cache' \in PinFiles, hist' \in HistTypes,
           ram' \in RamTypes,
           Calm', ~hist.half => Agrees(cache'),
           ~hist'.torn => \E d \in DrawnDeks : Whole(cache', d) /\ PinsThere' /\ Admitted'
    PROVE  PinInv'
<1>1. PinShaped' /\ Reseeded'
  BY CalmShape, PTL
<1>2. PinTypes'
  BY <1>1 DEF PinInv, PinTypes, Calm, Keys, HistTypes, RamTypes
<1>3. ~hist.half => Announced'
  <2>1. Calm' /\ Agrees(cache)' => Announced'
    BY CalmForm, PTL
  <2>2. Agrees(cache') => Agrees(cache)'
    BY DEF Agrees, SentBy
  <2> QED BY <2>1, <2>2
<1>4. FormInv'
  BY <1>3, FormKept DEF PinInv
<1>5. ~hist'.torn => op'.cmd # "terminate" /\ \E d \in DrawnDeks : Standing(d)'
  <2> SUFFICES ASSUME ~hist'.torn PROVE op'.cmd # "terminate" /\ \E d \in DrawnDeks : Standing(d)'
    OBVIOUS
  <2>1. PICK d \in DrawnDeks : Whole(cache', d) /\ PinsThere' /\ Admitted'
    OBVIOUS
  <2>2. Calm' /\ Whole(cache, d)' /\ PinsThere' /\ Admitted' => Standing(d)'
    BY CalmStands, PTL
  <2>3. Whole(cache, d)'
    BY <2>1 DEF Whole, OneDek, Fitting, Direct, By
  <2>4. op'.cmd # "terminate"
    BY DEF Calm
  <2> QED BY <2>1, <2>2, <2>3, <2>4
<1>6. DekInv'
  BY <1>5, DekKept DEF PinInv
<1> QED BY <1>2, <1>4, <1>6 DEF PinInv

-----------------------------------------------------------------------------
(* OpenPgpPin: the scan and the resetting code *)

\* What the scan leaves at a calm point
LEMMA ScanOnCalm ==
    ASSUME op' = P!ScanOn(op, cache'), op \in PinOps, op.cmd \notin {"kdf", "terminate"}, cache' \in PinFiles,
           cache'.pin["pw1"] # None
    PROVE  Calm' /\ PinsThere' /\ op'.pc # "rcwrap"
<1>1. \/ op' = P!Idle /\ cache'.pin["pw1"] # None /\ cache'.pin["pw3"] # None
      \/ /\ op' \in PinOps /\ op'.cmd = op.cmd /\ op'.pc \in {"scanpin3", "limits", "rctxn"}
         /\ op'.pc = "scanpin3" <=> cache'.pin["pw3"] = None
  BY ScanOnIs
<1> QED BY <1>1, IdleOp DEF Calm, CalmPcs, Missing, PinsThere

LEMMA FilledCalm ==
    ASSUME Filled(cache') PROVE Calm' /\ PinsThere' /\ op'.pc # "rcwrap"
BY IdleOp DEF Filled, Calm, CalmPcs, Missing, PinsThere

LEMMA ScanDek1Step == ASSUME PinInv, P!ScanDek("scandek1", "pw1", "scandek3") PROVE PinInv'
<1> DEFINE w == P!Wrap(Default, op.dek)
<1>1. /\ op.pc = "scandek1" /\ cache' = [cache EXCEPT !.wrap["pw1"] = w] /\ op' = [op EXCEPT !.pc = "scandek3"]
      /\ UNCHANGED <<flash, ram, hist>>
  BY DEF P!ScanDek, P!At, P!Put, P!Goto
<1>2. /\ cache \in PinFiles /\ flash \in PinFiles /\ op \in PinOps /\ op.dek \in Deks /\ op.cmd \notin {"kdf", "terminate"}
      /\ cache.pin["pw1"] = None /\ cache.pin["pw3"] = None
  BY <1>1 DEF PinInv, PinTypes, PinShaped, Missing, PinOps, Clearings, Replacing, Undos, RcPcs
<1>3. w \in MayWrap /\ w.dek = op.dek /\ w.by = Default
  BY <1>2, PinNumbers
<1> HIDE DEF w
<1>4. cache' \in PinFiles /\ cache'.pin = cache.pin /\ cache'.old = cache.old /\ cache'.slot = cache.slot
      /\ cache'.txn = cache.txn /\ cache'.key = cache.key /\ cache'.kdf = cache.kdf
      /\ cache'.wrap = [cache.wrap EXCEPT !["pw1"] = w]
  BY <1>1, <1>2, <1>3 DEF PinFiles
<1>5. op' \in PinOps /\ op'.pc = "scandek3" /\ op'.cmd = op.cmd /\ op'.dek = op.dek /\ op'.fresh = op.fresh
      /\ op'.ref = op.ref
  BY <1>1, <1>2 DEF PinOps, PinPcs, Provisions
<1>6. PinTypes'
  <2>1. PinShaped' /\ Reseeded'
    BY <1>1, <1>2, <1>4, <1>5 DEF PinInv, PinTypes, PinShaped, Reseeded, Missing, Clearings, Replacing, Undos
  <2> QED BY <1>1, <1>4, <1>5, <2>1 DEF PinInv, PinTypes
<1>7. FormInv'
  <2>1. ~hist.half => Announced'
    BY <1>1, <1>2, <1>4, <1>5 DEF PinInv, FormInv, Announced, Agrees, SentBy, Replacing, Undos
  <2> QED BY <1>1, <2>1, FormKept DEF PinInv
<1>8. ~hist.torn => Making'
  <2> SUFFICES ASSUME ~hist.torn PROVE Making'
    OBVIOUS
  <2>1. Making
    BY <1>1, <1>2 DEF PinInv, DekInv, Standing
  <2>2. cache'.wrap["pw1"] = w /\ cache'.wrap["rc"] = cache.wrap["rc"] /\ cache'.wrap["pw3"] = cache.wrap["pw3"]
    BY <1>2, <1>4 DEF PinFiles, P!Refs
  <2> QED BY <1>1, <1>4, <1>5, <2>1, <2>2 DEF Making, Bare, w
<1>9. DekInv'
  BY <1>1, <1>2, <1>5, <1>8, DekKept DEF PinInv
<1> QED BY <1>6, <1>7, <1>9 DEF PinInv

LEMMA ScanDek3Step == ASSUME PinInv, P!ScanDek("scandek3", "pw3", "scanpin1") PROVE PinInv'
<1> DEFINE w == P!Wrap(Default, op.dek)
<1>1. /\ op.pc = "scandek3" /\ cache' = [cache EXCEPT !.wrap["pw3"] = w] /\ op' = [op EXCEPT !.pc = "scanpin1"]
      /\ UNCHANGED <<flash, ram, hist>>
  BY DEF P!ScanDek, P!At, P!Put, P!Goto
<1>2. /\ cache \in PinFiles /\ flash \in PinFiles /\ op \in PinOps /\ op.dek \in Deks /\ op.cmd \notin {"kdf", "terminate"}
      /\ cache.pin["pw1"] = None /\ cache.pin["pw3"] = None
  BY <1>1 DEF PinInv, PinTypes, PinShaped, Missing, PinOps, Clearings, Replacing, Undos, RcPcs
<1>3. w \in MayWrap /\ w.dek = op.dek /\ w.by = Default
  BY <1>2, PinNumbers
<1> HIDE DEF w
<1>4. cache' \in PinFiles /\ cache'.pin = cache.pin /\ cache'.old = cache.old /\ cache'.slot = cache.slot
      /\ cache'.txn = cache.txn /\ cache'.key = cache.key /\ cache'.kdf = cache.kdf
      /\ cache'.wrap = [cache.wrap EXCEPT !["pw3"] = w]
  BY <1>1, <1>2, <1>3 DEF PinFiles
<1>5. op' \in PinOps /\ op'.pc = "scanpin1" /\ op'.cmd = op.cmd /\ op'.dek = op.dek
  BY <1>1, <1>2 DEF PinOps, PinPcs, Provisions
<1>6. Calm' /\ PinsThere'
  BY <1>2, <1>4, <1>5 DEF Calm, CalmPcs, Missing, PinsThere
<1>7. ~hist.half => Agrees(cache')
  BY <1>1, <1>2, <1>4 DEF PinInv, FormInv, Announced, Agrees, SentBy, Replacing, Undos
<1>8. ~hist.torn => Whole(cache', op.dek) /\ op.dek \in DrawnDeks /\ ram.has = {}
  <2> SUFFICES ASSUME ~hist.torn PROVE Whole(cache', op.dek) /\ op.dek \in DrawnDeks /\ ram.has = {}
    OBVIOUS
  <2>1. Making
    BY <1>1, <1>2 DEF PinInv, DekInv, Standing
  <2>2. w # None /\ By(w, Default)
    BY <2>1, PinNumbers DEF w, Making, By
  <2>3. \A r \in P!Refs : cache'.pin[r] = None /\ cache'.slot[r] = None /\ cache'.txn[r] = None /\ r \notin cache'.old
    BY <1>4, <2>1 DEF Making, Bare, P!Nothing
  <2>4. cache'.wrap["pw3"] = w /\ cache'.wrap["rc"] = None /\ cache'.wrap["pw1"] = P!Wrap(Default, op.dek)
    BY <1>1, <1>2, <1>4, <2>1 DEF PinFiles, P!Refs, Making, Bare
  <2>5. cache'.key = None
    BY <1>4, <2>1 DEF Making, Bare
  <2>6. \A r \in P!Refs : r = "rc" \/ (cache'.wrap[r] = w /\ r \in {"pw1", "pw3"})
    BY <2>4 DEF P!Refs, w
  <2>7. OneDek(cache', op.dek)
    BY <1>3, <2>3, <2>4, <2>5, <2>6 DEF OneDek
  <2>8. \A r \in P!Refs : Fitting(cache', r)
    BY <2>2, <2>3, <2>5, <2>6 DEF Fitting
  <2> QED BY <2>1, <2>3, <2>7, <2>8 DEF Whole, Making, P!Refs
<1>9. hist' \in HistTypes /\ ram' \in RamTypes
  BY <1>1 DEF PinInv, PinTypes, HistTypes, RamTypes, Keys
<1>10. ~hist'.torn => \E d \in DrawnDeks : Whole(cache', d) /\ PinsThere' /\ Admitted'
  BY <1>1, <1>6, <1>8 DEF Admitted
<1> QED BY <1>1, <1>4, <1>6, <1>7, <1>9, <1>10, CalmStep

\* The scan gives a reference that is missing its factory value.
LEMMA DefaultPut ==
    ASSUME NEW r \in {"pw1", "pw3"}, cache \in PinFiles, cache.pin[r] = None,
           cache' = [cache EXCEPT !.pin[r] = Default, !.old = @ \ {r}]
    PROVE  /\ cache' \in PinFiles /\ cache'.pin[r] = Default
           /\ \A q \in P!Refs : q # r => cache'.pin[q] = cache.pin[q]
           /\ Agrees(cache) => Agrees(cache')
           /\ \A d \in DrawnDeks : Whole(cache, d) => Whole(cache', d)
           /\ \A d \in DrawnDeks : Whole(cache, d) /\ Admitted /\ UNCHANGED <<ram, hist>> /\ op.pc # "rcwrap"
                                   /\ ram \in RamTypes => Admitted'
<1>1. Default \in P!Pins /\ Default # None /\ Default \in RawPins /\ r \in P!Refs
  BY PinNumbers DEF P!Refs
<1>2. /\ cache' \in PinFiles /\ cache'.pin = [cache.pin EXCEPT ![r] = Default] /\ cache'.old = cache.old \ {r}
      /\ cache'.wrap = cache.wrap /\ cache'.slot = cache.slot /\ cache'.txn = cache.txn /\ cache'.key = cache.key
      /\ cache'.kdf = cache.kdf
  BY <1>1 DEF PinFiles
<1>3. cache'.pin[r] = Default /\ \A q \in P!Refs : q # r => cache'.pin[q] = cache.pin[q]
  BY <1>1, <1>2 DEF PinFiles
<1>4. Agrees(cache) => Agrees(cache')
  BY <1>1, <1>2, <1>3 DEF Agrees, SentBy
<1>5. ASSUME NEW d \in DrawnDeks, Whole(cache, d) PROVE Whole(cache', d) /\ By(cache.wrap[r], Default)
  <2>1. By(cache.wrap[r], Default) /\ r \notin cache.old
    BY <1>1, <1>5 DEF Whole, Fitting
  <2>2. \A q \in P!Refs : Fitting(cache', q)
    BY <1>1, <1>2, <1>3, <1>5, <2>1 DEF Whole, Fitting, Direct
  <2> QED BY <1>2, <1>5, <2>1, <2>2 DEF Whole, OneDek
<1>6. ASSUME NEW d \in DrawnDeks, Whole(cache, d), Admitted, UNCHANGED <<ram, hist>>, op.pc # "rcwrap", ram \in RamTypes
      PROVE  Admitted'
  <2>1. \A a \in ram.has : P!RefOf(a) \in P!Refs
    BY <1>6, RefsOfAccesses DEF RamTypes
  <2>2. hist.faults = 0 => \A a \in ram.has : P!RefOf(a) # r
    BY <1>1, <1>5, <1>6 DEF Admitted, By
  <2> QED BY <1>2, <1>3, <1>6, <2>1, <2>2 DEF Admitted
<1> QED BY <1>2, <1>3, <1>4, <1>5, <1>6

\* Where the scan is, a command may start or a checked reference is about to be loaded
LEMMA CalmFacts ==
    ASSUME PinInv, op.pc \in {"idle", "load", "scanpin1", "scanpin3", "limits"}
    PROVE  /\ cache \in PinFiles /\ op \in PinOps /\ op.cmd \notin {"kdf", "terminate"} /\ hist \in HistTypes
           /\ ram \in RamTypes /\ Missing /\ (~hist.half => Agrees(cache))
           /\ ~hist.torn => \E d \in DrawnDeks : Whole(cache, d) /\ Admitted /\ PinsThere
<1>1. /\ cache \in PinFiles /\ op \in PinOps /\ op.cmd \notin {"kdf", "terminate"} /\ hist \in HistTypes
      /\ ram \in RamTypes /\ Missing
  BY DEF PinInv, PinTypes, PinShaped, HistTypes, RamTypes, Keys, Clearings, Replacing, Undos, RcPcs
<1>2. ~hist.half => Agrees(cache)
  BY <1>1 DEF PinInv, FormInv, Announced, Undos
<1>3. ~hist.torn => \E d \in DrawnDeks : Whole(cache, d) /\ Admitted /\ PinsThere
  <2>1. ~hist.torn => \E d \in DrawnDeks : Standing(d)
    BY <1>1, DekStands DEF PinInv
  <2>2. \A d \in DrawnDeks : Standing(d) => PinsThere
    BY DEF Standing, Exchanging, PinsThere
  <2> QED BY <1>1, <2>1, <2>2, AtIdle
<1> QED BY <1>1, <1>2, <1>3

LEMMA ScanPin1Step == ASSUME PinInv, P!ScanPin1 PROVE PinInv'
<1>1. /\ op.pc = "scanpin1" /\ cache' = [cache EXCEPT !.pin["pw1"] = Default, !.old = @ \ {"pw1"}]
      /\ op' = (IF op.fresh THEN [op EXCEPT !.pc = "scanpin3"] ELSE P!ScanOn(op, cache'))
      /\ UNCHANGED <<flash, ram, hist>>
  BY DEF P!ScanPin1, P!At, P!Put
<1>2. /\ cache \in PinFiles /\ op \in PinOps /\ op.cmd \notin {"kdf", "terminate"} /\ hist \in HistTypes
      /\ ram \in RamTypes /\ Missing /\ (~hist.half => Agrees(cache))
      /\ ~hist.torn => \E d \in DrawnDeks : Whole(cache, d) /\ Admitted
  BY <1>1, CalmFacts
<1>3. cache.pin["pw1"] = None /\ (op.fresh => cache.pin["pw3"] = None)
  BY <1>1, <1>2 DEF Missing
<1>4. /\ cache' \in PinFiles /\ cache'.pin["pw1"] = Default /\ cache'.pin["pw3"] = cache.pin["pw3"]
      /\ Agrees(cache) => Agrees(cache')
      /\ \A d \in DrawnDeks : Whole(cache, d) => Whole(cache', d)
      /\ \A d \in DrawnDeks : Whole(cache, d) /\ Admitted => Admitted'
  BY <1>1, <1>2, <1>3, DefaultPut DEF P!Refs
<1>5. Calm' /\ PinsThere'
  <2>1. Default # None
    BY PinNumbers
  <2>2. CASE op.fresh
    <3>1. op' \in PinOps /\ op'.pc = "scanpin3" /\ op'.cmd = op.cmd
      BY <1>1, <1>2, <2>2 DEF PinOps, PinPcs, Provisions
    <3> QED BY <1>2, <1>3, <1>4, <2>1, <2>2, <3>1 DEF Calm, CalmPcs, Missing, PinsThere
  <2>3. CASE ~op.fresh
    BY <1>1, <1>2, <1>4, <2>1, <2>3, ScanOnCalm
  <2> QED BY <2>2, <2>3
<1>6. hist' \in HistTypes /\ ram' \in RamTypes
  BY <1>1, <1>2
<1>7. ~hist'.torn => \E d \in DrawnDeks : Whole(cache', d) /\ PinsThere' /\ Admitted'
  BY <1>1, <1>2, <1>4, <1>5
<1>8. ~hist.half => Agrees(cache')
  BY <1>2, <1>4
<1> QED BY <1>1, <1>4, <1>5, <1>6, <1>7, <1>8, CalmStep

LEMMA ScanPin3Step == ASSUME PinInv, P!ScanPin3 PROVE PinInv'
<1>1. /\ op.pc = "scanpin3" /\ cache' = [cache EXCEPT !.pin["pw3"] = Default, !.old = @ \ {"pw3"}]
      /\ op' = P!ScanOn(op, cache')
      /\ UNCHANGED <<flash, ram, hist>>
  BY DEF P!ScanPin3, P!At, P!Put
<1>2. /\ cache \in PinFiles /\ op \in PinOps /\ op.cmd \notin {"kdf", "terminate"} /\ hist \in HistTypes
      /\ ram \in RamTypes /\ Missing /\ (~hist.half => Agrees(cache))
      /\ ~hist.torn => \E d \in DrawnDeks : Whole(cache, d) /\ Admitted
  BY <1>1, CalmFacts
<1>3. cache.pin["pw3"] = None /\ cache.pin["pw1"] # None
  BY <1>1, <1>2 DEF Missing
<1>4. /\ cache' \in PinFiles /\ cache'.pin["pw1"] = cache.pin["pw1"]
      /\ Agrees(cache) => Agrees(cache')
      /\ \A d \in DrawnDeks : Whole(cache, d) => Whole(cache', d)
      /\ \A d \in DrawnDeks : Whole(cache, d) /\ Admitted => Admitted'
  BY <1>1, <1>2, <1>3, DefaultPut DEF P!Refs
<1>5. Calm' /\ PinsThere'
  BY <1>1, <1>2, <1>3, <1>4, ScanOnCalm
<1>6. hist' \in HistTypes /\ ram' \in RamTypes
  BY <1>1, <1>2
<1>7. ~hist'.torn => \E d \in DrawnDeks : Whole(cache', d) /\ PinsThere' /\ Admitted'
  BY <1>1, <1>2, <1>4, <1>5
<1>8. ~hist.half => Agrees(cache')
  BY <1>2, <1>4
<1> QED BY <1>1, <1>4, <1>5, <1>6, <1>7, <1>8, CalmStep

\* A step that leaves the references, the wraps and the sessions alone
LEMMA SameFiles ==
    ASSUME cache'.pin = cache.pin, cache'.old = cache.old, cache'.wrap = cache.wrap, cache'.slot = cache.slot,
           cache'.txn = cache.txn, cache'.key = cache.key
    PROVE  /\ \A d \in DrawnDeks : Whole(cache, d) => Whole(cache', d)
           /\ UNCHANGED <<ram, hist>> /\ Admitted /\ op.pc # "rcwrap" => Admitted'
<1>1. \A d \in DrawnDeks : Whole(cache, d) => Whole(cache', d)
  BY DEF Whole, OneDek, Fitting, Direct, By
<1>2. UNCHANGED <<ram, hist>> /\ Admitted /\ op.pc # "rcwrap" => Admitted'
  BY DEF Admitted, By
<1> QED BY <1>1, <1>2

LEMMA ScanLimitsStep == ASSUME PinInv, P!ScanLimits PROVE PinInv'
<1> DEFINE tries == IF cache.tries = P!Nothing THEN P!Limits ELSE cache.tries
           kdf == IF cache.kdf = "none" THEN "off" ELSE cache.kdf
<1>1. /\ op.pc = "limits" /\ cache' = [cache EXCEPT !.tries = tries, !.kdf = kdf]
      /\ op' = P!ScanOn(op, cache')
      /\ UNCHANGED <<flash, ram, hist>>
  BY DEF P!ScanLimits, P!At, P!Put
<1>2. /\ cache \in PinFiles /\ op \in PinOps /\ op.cmd \notin {"kdf", "terminate"} /\ hist \in HistTypes
      /\ ram \in RamTypes /\ Missing /\ (~hist.half => Agrees(cache))
      /\ ~hist.torn => \E d \in DrawnDeks : Whole(cache, d) /\ Admitted
  BY <1>1, CalmFacts
<1>3. cache.pin["pw3"] # None /\ cache.pin["pw1"] # None
  BY <1>1, <1>2 DEF Missing
<1>4. tries \in [P!Refs -> Int \cup {None}] /\ kdf \in {"none", "off", "on"} /\ (kdf = "on" <=> cache.kdf = "on")
  BY <1>2, PinNumbers DEF PinFiles, P!Limits, P!Refs
<1> HIDE DEF tries, kdf
<1>5. /\ cache' \in PinFiles /\ cache'.pin = cache.pin /\ cache'.old = cache.old /\ cache'.wrap = cache.wrap
      /\ cache'.slot = cache.slot /\ cache'.txn = cache.txn /\ cache'.key = cache.key
      /\ cache'.kdf = kdf
  BY <1>1, <1>2, <1>4 DEF PinFiles
<1>6. /\ \A d \in DrawnDeks : Whole(cache, d) => Whole(cache', d)
      /\ Admitted => Admitted'
  BY <1>1, <1>5, SameFiles
<1>7. Calm' /\ PinsThere'
  BY <1>1, <1>2, <1>3, <1>5, ScanOnCalm
<1>8. ~hist'.torn => \E d \in DrawnDeks : Whole(cache', d) /\ PinsThere' /\ Admitted'
  BY <1>1, <1>2, <1>6, <1>7
<1>9. ~hist.half => Agrees(cache')
  BY <1>2, <1>4, <1>5 DEF Agrees, SentBy
<1>10. hist' \in HistTypes /\ ram' \in RamTypes
  BY <1>1, <1>2
<1> QED BY <1>1, <1>5, <1>7, <1>8, <1>9, <1>10, CalmStep

\* The transaction of the resetting code is deleted, or could not be.
LEMMA RcTxnKept ==
    ASSUME PinInv, op.pc = "rctxn", cache' = cache \/ cache' = P!Unstaged(cache, {"rc"}), P!RcTxnGone(cache'),
           UNCHANGED <<flash, ram>>, hist' \in HistTypes, hist'.mid = hist.mid, hist'.half = hist.half,
           hist.torn => hist'.torn, hist'.faults = 0 => hist.faults = 0
    PROVE  PinInv'
<1> DEFINE l == P!Live(cache, "rc") /\ cache'.txn["rc"] = None
<1>1. /\ cache \in PinFiles /\ op \in PinOps /\ flash \in PinFiles /\ ram \in RamTypes /\ PinShaped /\ Reseeded
      /\ op.cmd # "terminate"
  BY TypesOf DEF PinShaped, Clearings
<1>2. /\ op' \in PinOps /\ op'.pc = "rcpin" /\ op'.cmd = op.cmd /\ op'.ref = op.ref /\ op'.pin = op.pin
      /\ op'.dek = op.dek /\ op'.snap = op.snap /\ op'.fresh = op.fresh /\ op'.live = l
  <2>1. op' = [op EXCEPT !.pc = "rcpin", !.live = l] /\ l \in BOOLEAN
    BY DEF P!RcTxnGone, P!Live
  <2> HIDE DEF l
  <2> QED BY <1>1, <2>1 DEF PinOps, PinPcs, RcPcs
<1>3. /\ cache' \in PinFiles /\ cache'.pin = cache.pin /\ cache'.old = cache.old /\ cache'.wrap = cache.wrap
      /\ cache'.slot = cache.slot /\ cache'.kdf = cache.kdf /\ cache'.key = cache.key
      /\ \A q \in P!Refs : q # "rc" => cache'.txn[q] = cache.txn[q]
      /\ cache' = cache \/ cache'.txn["rc"] = None
      /\ \A d : OneDek(cache, d) => OneDek(cache', d)
  <2>1. CASE cache' = cache
    BY <1>1, <2>1
  <2>2. CASE cache' = P!Unstaged(cache, {"rc"})
    BY <1>1, <2>2, UnstagedIs, RefsOfAccesses
  <2> QED BY <2>1, <2>2
<1>4. PinTypes'
  <2>1. PinShaped' /\ Reseeded'
    BY <1>1, <1>2, <1>3 DEF PinShaped, Reseeded, Missing, Clearings, Replacing, Undos, RcPcs
  <2> QED BY <1>1, <1>2, <1>3, <2>1 DEF PinTypes, HistTypes, RamTypes, Keys
<1>5. FormInv'
  <2>1. ~hist.half => Announced'
    BY <1>1, <1>2, <1>3 DEF PinInv, FormInv, Announced, Agrees, SentBy, Undos, Replacing
  <2> QED BY <2>1, FormKept DEF PinInv
<1>6. ~hist'.torn => \E d \in DrawnDeks : Standing(d)'
  <2> SUFFICES ASSUME ~hist'.torn PROVE \E d \in DrawnDeks : Standing(d)'
    OBVIOUS
  <2>1. PICK d \in DrawnDeks : Standing(d) /\ Whole(cache, d)
    BY <1>1, DekStands, AtRest DEF PinInv, Undos
  <2>2. \A r \in P!Refs : Holding(r)'
    <3> SUFFICES ASSUME NEW r \in P!Refs, ~(r = "rc" /\ l) PROVE Fitting(cache', r)
      <4>1. \A r \in P!Refs : Fitting(cache', r) => Fitting(cache, r)'
        BY DEF Fitting, Direct, By
      <4> QED BY <1>2, <4>1 DEF Holding
    <3>1. Fitting(cache, r)
      BY <2>1 DEF Whole
    <3>2. CASE r # "rc" \/ cache' = cache
      BY <1>3, <3>1, <3>2 DEF Fitting, Direct
    <3>3. CASE r = "rc" /\ cache' # cache
      <4>1. ~P!Live(cache, r)
        BY <1>3, <3>3
      <4>2. cache.pin[r] # None => Direct(cache, r)
        BY <1>1, <3>1, <4>1, SettledDirect
      <4> QED BY <1>3, <3>1, <3>3, <4>2 DEF Fitting, Direct
    <3> QED BY <3>2, <3>3
  <2>3. Exchanging'
    BY <1>2, <1>3, <2>1 DEF Standing, Exchanging, RcPcs, Undos
  <2>4. Granted'
    <3>1. Granted
      BY <2>1 DEF Standing
    <3> QED BY <1>2, <1>3, <3>1 DEF Granted, By
  <2>5. Snapped(d)'
    BY <1>2, <1>3, <2>1, SnapHeld DEF Standing, Undos
  <2>6. OneDek(cache, d)' /\ "rc" \notin cache'.old /\ cache'.pin["pw1"] # None /\ cache'.pin["pw3"] # None
    <3>1. OneDek(cache', d) => OneDek(cache, d)'
      BY DEF OneDek
    <3> QED BY <1>3, <2>1, <3>1 DEF Standing
  <2> QED BY <1>2, <2>2, <2>3, <2>4, <2>5, <2>6 DEF Standing, Replacing
<1>7. DekInv'
  BY <1>1, <1>2, <1>6, DekKept DEF PinInv
<1> QED BY <1>4, <1>5, <1>7 DEF PinInv

LEMMA RcTxnStep == ASSUME PinInv, P!RcTxn PROVE PinInv'
<1>1. /\ op.pc = "rctxn" /\ cache' = P!Unstaged(cache, {"rc"}) /\ P!RcTxnGone(cache')
      /\ UNCHANGED <<flash, ram, hist>>
  BY DEF P!RcTxn, P!At, P!Put
<1>2. hist' \in HistTypes
  BY <1>1, TypesOf
<1> QED BY <1>1, <1>2, RcTxnKept

\* The verifier of the resetting code is gone.
LEMMA NoRcIs ==
    ASSUME NEW f \in PinFiles, NEW g, g = P!NoRc(f)
    PROVE  /\ g \in PinFiles /\ g.old = f.old \ {"rc"} /\ g.wrap = f.wrap /\ g.slot = f.slot /\ g.txn = f.txn
           /\ g.key = f.key /\ g.kdf = f.kdf /\ g.pin["rc"] = None
           /\ \A r \in P!Refs : r # "rc" => g.pin[r] = f.pin[r]
           /\ \A d : OneDek(f, d) => OneDek(g, d)
           /\ \A r \in P!Refs : r = "rc" \/ Fitting(f, r) => Fitting(g, r)
           /\ Agrees(f) => Agrees(g)
<1>1. /\ g \in PinFiles /\ g.pin = [f.pin EXCEPT !["rc"] = None] /\ g.old = f.old \ {"rc"}
      /\ g.wrap = f.wrap /\ g.slot = f.slot /\ g.txn = f.txn /\ g.key = f.key /\ g.kdf = f.kdf
  BY DEF P!NoRc, PinFiles
<1>2. g.pin["rc"] = None /\ \A r \in P!Refs : r # "rc" => g.pin[r] = f.pin[r]
  BY <1>1 DEF PinFiles, P!Refs
<1>3. \A d : OneDek(f, d) => OneDek(g, d)
  BY <1>1 DEF OneDek
<1>4. \A r \in P!Refs : r = "rc" \/ Fitting(f, r) => Fitting(g, r)
  BY <1>1, <1>2 DEF Fitting, Direct
<1>5. Agrees(f) => Agrees(g)
  BY <1>1, <1>2 DEF Agrees, SentBy, P!Refs
<1> QED BY <1>1, <1>2, <1>3, <1>4, <1>5

LEMMA RcPinStep == ASSUME PinInv, P!RcPin PROVE PinInv'
<1>1. /\ op.pc = "rcpin" /\ cache' = P!NoRc(cache)
      /\ op' = [op EXCEPT !.pc = "rcwrap"] /\ UNCHANGED <<flash, ram, hist>>
  BY DEF P!RcPin, P!At, P!Put, P!Goto
<1>2. /\ cache \in PinFiles /\ flash \in PinFiles /\ op \in PinOps /\ op.cmd # "terminate" /\ hist \in HistTypes
      /\ ram \in RamTypes /\ PinShaped /\ Reseeded
  BY <1>1, TypesOf DEF PinShaped, Clearings
<1>3. /\ cache' \in PinFiles /\ cache'.old = cache.old \ {"rc"}
      /\ cache'.wrap = cache.wrap /\ cache'.slot = cache.slot /\ cache'.txn = cache.txn
      /\ cache'.key = cache.key /\ cache'.kdf = cache.kdf /\ cache'.pin["rc"] = None
      /\ \A r \in P!Refs : r # "rc" => cache'.pin[r] = cache.pin[r]
      /\ \A d : OneDek(cache, d) => OneDek(cache', d)
      /\ \A r \in P!Refs : r = "rc" \/ Fitting(cache, r) => Fitting(cache', r)
      /\ Agrees(cache) => Agrees(cache')
  BY <1>1, <1>2, NoRcIs
<1>4. /\ op' \in PinOps /\ op'.pc = "rcwrap" /\ op'.cmd = op.cmd /\ op'.ref = op.ref /\ op'.pin = op.pin
      /\ op'.dek = op.dek /\ op'.snap = op.snap
  BY <1>1, <1>2 DEF PinOps, PinPcs, RcPcs
<1>5. ~hist.torn => \E d \in DrawnDeks : Standing(d)
  BY <1>1, <1>2, DekStands DEF PinInv
<1>6. ASSUME NEW d \in DrawnDeks, Standing(d)
      PROVE  Whole(cache', d) /\ cache'.pin["pw1"] # None /\ cache'.pin["pw3"] # None
  <2>1. OneDek(cache', d)
    BY <1>3, <1>6 DEF Standing
  <2>2. \A r \in P!Refs : Fitting(cache', r)
    <3>1. \A r \in P!Refs : r = "rc" \/ Fitting(cache, r)
      BY <1>1, <1>6 DEF Standing, Holding, Undos
    <3> QED BY <1>3, <3>1
  <2>3. cache.pin["pw1"] # None /\ cache.pin["pw3"] # None
    BY <1>1, <1>6 DEF Standing
  <2> QED BY <1>3, <2>1, <2>2, <2>3 DEF Whole, P!Refs
<1>7. CASE op.cmd # "kdf"
  <2>1. ~hist.half => Agrees(cache')
    BY <1>1, <1>2, <1>3, <1>7 DEF PinInv, FormInv, Announced, Undos
  <2>2. Calm'
    BY <1>2, <1>3, <1>4, <1>7 DEF Calm, CalmPcs, Missing
  <2>3. ~hist'.torn => \E d \in DrawnDeks : Whole(cache', d) /\ PinsThere' /\ Admitted'
    <3> SUFFICES ASSUME ~hist.torn PROVE \E d \in DrawnDeks : Whole(cache', d) /\ PinsThere' /\ Admitted'
      BY <1>1
    <3>1. PICK d \in DrawnDeks : Standing(d)
      BY <1>5
    <3>2. \A a \in ram.has : P!RefOf(a) \in P!Refs
      BY <1>2, RefsOfAccesses DEF RamTypes
    <3>3. Admitted'
      BY <1>1, <1>3, <1>4, <1>7, <3>1, <3>2 DEF Admitted, Standing, Granted
    <3> QED BY <1>4, <1>6, <3>1, <3>3 DEF PinsThere
  <2>4. hist' \in HistTypes /\ ram' \in RamTypes
    BY <1>1, <1>2
  <2> QED BY <1>1, <1>3, <2>1, <2>2, <2>3, <2>4, CalmStep
<1>8. CASE op.cmd = "kdf"
  <2>1. PinTypes'
    <3>1. PinShaped' /\ Reseeded'
      BY <1>1, <1>2, <1>3, <1>4, <1>8 DEF PinShaped, Reseeded, Missing, Clearings, Replacing, Undos, RcPcs, P!Refs
    <3> QED BY <1>1, <1>3, <1>4, <3>1 DEF PinInv, PinTypes
  <2>2. FormInv'
    <3>1. ~hist.half => Announced'
      BY <1>1, <1>2, <1>3, <1>4, <1>8 DEF PinInv, FormInv, Announced, Agrees, SentBy, Undos, Replacing
    <3> QED BY <1>1, <3>1, FormKept DEF PinInv
  <2>3. ~hist.torn => \E d \in DrawnDeks : Standing(d)'
    <3> SUFFICES ASSUME ~hist.torn PROVE \E d \in DrawnDeks : Standing(d)'
      OBVIOUS
    <3>1. PICK d \in DrawnDeks : Standing(d)
      BY <1>5
    <3>2. Whole(cache', d) /\ cache'.pin["pw1"] # None /\ cache'.pin["pw3"] # None
      BY <1>6, <3>1
    <3>3. \A r \in P!Refs : Holding(r)'
      BY <1>4, <3>2 DEF Holding, Whole, Fitting, Direct, By
    <3>4. Exchanging'
      BY <1>1, <1>3, <1>4, <3>1 DEF Standing, Exchanging, By, Undos, RcPcs
    <3>5. Granted'
      BY <1>1, <1>3, <1>4, <1>8, <3>1 DEF Standing, Granted
    <3>6. Snapped(d)'
      BY <1>3, <1>4, <3>1, SnapHeld DEF Standing, Undos
    <3>7. OneDek(cache, d)' /\ "rc" \notin cache'.old
      BY <3>2 DEF Whole, OneDek
    <3> QED BY <1>4, <3>2, <3>3, <3>4, <3>5, <3>6, <3>7 DEF Standing, Replacing
  <2>4. DekInv'
    BY <1>1, <1>2, <1>4, <2>3, DekKept DEF PinInv
  <2> QED BY <2>1, <2>2, <2>4 DEF PinInv
<1> QED BY <1>7, <1>8

LEMMA RcWrapStep == ASSUME PinInv, P!RcWrap PROVE PinInv'
<1> DEFINE sess == IF op.cmd = "kdf" THEN [r \in P!Refs |-> op.pin] ELSE ram.sess
           has == ram.has \ {"rc"}
<1>1. /\ op.pc = "rcwrap" /\ cache' = [P!NoRcWrap(cache) EXCEPT !.tries["rc"] = 0]
      /\ ram' = P!Session(has, sess) /\ op' = P!Idle /\ UNCHANGED <<flash, hist>>
  BY DEF P!RcWrap, P!At, P!Put, P!Return
<1>2. /\ cache \in PinFiles /\ flash \in PinFiles /\ op \in PinOps /\ op.cmd # "terminate" /\ hist \in HistTypes
      /\ ram \in RamTypes /\ PinShaped /\ Reseeded
  BY <1>1 DEF PinInv, PinTypes, PinShaped, HistTypes, RamTypes, Keys, Clearings
<1>3. /\ cache' \in PinFiles /\ cache'.pin = cache.pin /\ cache'.old = cache.old
      /\ cache'.wrap = [cache.wrap EXCEPT !["rc"] = None] /\ cache'.slot = cache.slot /\ cache'.txn = cache.txn
      /\ cache'.key = cache.key /\ cache'.kdf = cache.kdf
  <2> DEFINE tries == [cache.tries EXCEPT !["rc"] = 0]
             wrap == [cache.wrap EXCEPT !["rc"] = None]
  <2>1. cache' = [cache EXCEPT !.wrap = wrap, !.tries = tries]
    BY <1>1, <1>2 DEF PinFiles, P!NoRcWrap
  <2>2. tries \in [P!Refs -> Int \cup {None}] /\ wrap \in [P!Refs -> MayWrap]
    <3>1. cache.tries \in [P!Refs -> Int \cup {None}] /\ cache.wrap \in [P!Refs -> MayWrap]
      BY <1>2 DEF PinFiles
    <3>2. wrap \in [P!Refs -> MayWrap]
      BY <3>1 DEF MayWrap
    <3>3. \A z \in Int \cup {None} : [cache.tries EXCEPT !["rc"] = z] \in [P!Refs -> Int \cup {None}]
      BY <3>1
    <3>4. 0 \in Int \cup {None}
      OBVIOUS
    <3> QED BY <3>2, <3>3, <3>4
  <2> HIDE DEF tries
  <2> QED BY <1>2, <2>1, <2>2 DEF PinFiles
<1>4. cache'.wrap["rc"] = None /\ \A r \in P!Refs : r # "rc" => cache'.wrap[r] = cache.wrap[r]
  BY <1>2, <1>3 DEF PinFiles, P!Refs
<1>5. has \in SUBSET P!Accesses /\ sess \in Keys /\ ram.drawn \in 1 .. MaxDeks
  BY <1>2 DEF RamTypes, Keys, PinOps
<1>6. ram' \in RamTypes /\ ram'.has = has /\ \A a \in has : ram'.sess[P!RefOf(a)] = sess[P!RefOf(a)]
  <2> HIDE DEF has, sess
  <2> QED BY <1>1, <1>5, SessionIs
<1>7. Calm' /\ cache.pin["rc"] = None
  BY <1>1, <1>2, IdleOp DEF Calm, CalmPcs, Missing, PinShaped
<1>8. ~hist.half => Agrees(cache')
  <2>1. CASE op.cmd # "kdf"
    BY <1>1, <1>2, <1>3, <2>1 DEF PinInv, FormInv, Announced, Undos, Agrees, SentBy
  <2>2. CASE op.cmd = "kdf"
    <3>1. cache.pin["pw1"] = op.pin /\ cache.pin["pw3"] = op.pin /\ op.pin # None
      BY <1>1, <1>2, <2>2 DEF Reseeded, PinShaped, Undos, RcPcs
    <3>2. ~hist.half => op.pin \in SentBy(cache)
      BY <1>1, <1>2, <2>2 DEF PinInv, FormInv, Announced, Undos
    <3> QED BY <1>3, <1>7, <3>1, <3>2 DEF Agrees, SentBy, P!Refs
  <2> QED BY <2>1, <2>2
<1>9. ~hist'.torn => \E d \in DrawnDeks : Whole(cache', d) /\ PinsThere' /\ Admitted'
  <2> SUFFICES ASSUME ~hist.torn PROVE \E d \in DrawnDeks : Whole(cache', d) /\ PinsThere' /\ Admitted'
    BY <1>1
  <2>1. PICK d \in DrawnDeks : Standing(d) /\ Whole(cache, d)
    BY <1>1, <1>2, DekStands, AtRest DEF PinInv, Undos
  <2>2. OneDek(cache', d)
    BY <1>3, <1>4, <2>1 DEF Whole, OneDek
  <2>3. \A r \in P!Refs : Fitting(cache', r)
    <3> SUFFICES ASSUME NEW r \in P!Refs PROVE Fitting(cache', r)
      OBVIOUS
    <3>1. CASE r = "rc"
      BY <1>3, <1>7, <2>1, <3>1 DEF Fitting, Whole
    <3>2. CASE r # "rc"
      BY <1>3, <1>4, <2>1, <3>2 DEF Whole, Fitting, Direct
    <3> QED BY <3>1, <3>2
  <2>4. PinsThere'
    BY <1>1, <1>3, <2>1, IdleOp DEF Standing, PinsThere
  <2>5. \A a \in has : a \in ram.has /\ P!RefOf(a) \in {"pw1", "pw3"}
    BY <1>2 DEF RamTypes, P!Accesses, P!RefOf
  <2>6. \A a \in has : P!RefOf(a) \notin cache.old /\ cache.wrap[P!RefOf(a)] # None
    BY <1>1, <2>1, <2>5 DEF Standing, Granted
  <2>7. hist.faults = 0 => \A a \in has : LET r == P!RefOf(a) IN sess[r] = cache.pin[r] /\ By(cache.wrap[r], cache.pin[r])
    <3>1. CASE op.cmd # "kdf"
      BY <1>1, <2>1, <2>5, <3>1 DEF Standing, Granted
    <3>2. CASE op.cmd = "kdf"
      <4>1. cache.pin["pw1"] = op.pin /\ cache.pin["pw3"] = op.pin /\ op.ref = "pw1"
        BY <1>1, <1>2, <3>2 DEF Reseeded, PinShaped, Undos, RcPcs
      <4>2. By(cache.wrap["pw1"], op.pin) /\ By(cache.wrap["pw3"], op.pin)
        BY <1>1, <2>1, <3>2, <4>1 DEF Standing, Exchanging, Undos, RcPcs
      <4> QED BY <2>5, <3>2, <4>1, <4>2 DEF P!Refs
    <3> QED BY <3>1, <3>2
  <2>8. Admitted'
    <3> HIDE DEF has, sess
    <3>1. \A a \in has : cache'.wrap[P!RefOf(a)] = cache.wrap[P!RefOf(a)]
      BY <1>4, <2>5 DEF P!Refs
    <3> QED BY <1>1, <1>3, <1>6, <2>6, <2>7, <3>1 DEF Admitted, By
  <2> QED BY <1>3, <2>1, <2>2, <2>3, <2>4, <2>8 DEF Whole
<1>10. hist' \in HistTypes
  BY <1>1, <1>2
<1> QED BY <1>1, <1>3, <1>6, <1>7, <1>8, <1>9, <1>10, CalmStep

-----------------------------------------------------------------------------
(* OpenPgpPin: check_pin *)

\* Files that differ in the counters only
Alike(f, g) ==
    /\ g.pin = f.pin /\ g.old = f.old /\ g.wrap = f.wrap /\ g.slot = f.slot /\ g.txn = f.txn /\ g.key = f.key
    /\ g.kdf = f.kdf

LEMMA TriesPut ==
    ASSUME NEW f \in PinFiles, NEW r \in P!Refs, NEW n \in Int, NEW g, g = [f EXCEPT !.tries[r] = n]
    PROVE  g \in PinFiles /\ Alike(f, g)
<1> DEFINE tries == [f.tries EXCEPT ![r] = n]
<1>1. g = [f EXCEPT !.tries = tries]
  BY DEF PinFiles
<1>2. n \in Int \cup {None}
  OBVIOUS
<1>3. tries \in [P!Refs -> Int \cup {None}]
  BY <1>2 DEF PinFiles
<1> HIDE DEF tries
<1> QED BY <1>1, <1>3 DEF PinFiles, Alike

\* pin_reset_retries
LEMMA RestoredIs ==
    ASSUME NEW f \in PinFiles, NEW r \in P!Refs, NEW g, g = P!Restored(f, r)
    PROVE  g \in PinFiles /\ Alike(f, g)
BY PinNumbers, TriesPut DEF P!Restored

LEMMA AlikeWhole ==
    ASSUME NEW f, NEW g, Alike(f, g)
    PROVE  /\ Agrees(f) => Agrees(g)
           /\ \A d : OneDek(f, d) => OneDek(g, d)
           /\ \A r : Fitting(f, r) => Fitting(g, r)
           /\ \A d : Whole(f, d) => Whole(g, d)
<1>1. Agrees(f) => Agrees(g)
  BY DEF Alike, Agrees, SentBy
<1>2. ASSUME NEW d, OneDek(f, d) PROVE OneDek(g, d)
  BY <1>2 DEF Alike, OneDek
<1>3. ASSUME NEW r, Fitting(f, r) PROVE Fitting(g, r)
  BY <1>3 DEF Alike, Fitting, Direct, By
<1>4. ASSUME NEW d, Whole(f, d) PROVE Whole(g, d)
  <2>1. OneDek(f, d) /\ "rc" \notin f.old /\ \A r \in P!Refs : Fitting(f, r)
    BY <1>4 DEF Whole
  <2>2. OneDek(g, d) /\ "rc" \notin g.old /\ \A r \in P!Refs : Fitting(g, r)
    BY <1>2, <1>3, <2>1 DEF Alike
  <2> QED BY <2>2 DEF Whole
<1> QED BY <1>1, <1>2, <1>3, <1>4

\* pin_txn_recover after a right PIN: the reference is whole again.
LEMMA RecoveredWhole ==
    ASSUME NEW f \in PinFiles, NEW d \in DrawnDeks, OneDek(f, d), "rc" \notin f.old, NEW r \in P!Refs,
           \A q \in P!Refs : q # r => Fitting(f, q), f.pin[r] # None, r \notin f.old,
           By(f.wrap[r], f.pin[r]) \/ By(f.txn[r], f.pin[r]), NEW g, g = P!Recovered(f, r)
    PROVE  Whole(g, d) /\ By(g.wrap[r], g.pin[r]) /\ \A q \in P!Refs : q # r => g.wrap[q] = f.wrap[q]
<1>1. /\ g \in PinFiles /\ g.pin = f.pin /\ g.old = f.old /\ g.slot = f.slot /\ g.key = f.key
      /\ g.txn[r] = None
      /\ \A q \in P!Refs : q # r => g.txn[q] = f.txn[q] /\ g.wrap[q] = f.wrap[q]
      /\ By(f.txn[r], f.pin[r]) => g.wrap[r] = f.txn[r]
      /\ ~By(f.txn[r], f.pin[r]) => g.wrap[r] = f.wrap[r]
  BY RecoveredIs
<1>2. g.wrap[r] \in {f.wrap[r], f.txn[r]} /\ By(g.wrap[r], g.pin[r])
  BY <1>1
<1>3. \A q \in P!Refs : Fitting(g, q)
  <2> SUFFICES ASSUME NEW q \in P!Refs PROVE Fitting(g, q)
    OBVIOUS
  <2>1. CASE q = r
    BY <1>1, <1>2, <2>1 DEF Fitting, Direct
  <2>2. CASE q # r
    <3>1. Fitting(f, q)
      BY <2>2
    <3> QED BY <1>1, <2>2, <3>1 DEF Fitting, Direct
  <2> QED BY <2>1, <2>2
<1>4. OneDek(g, d)
  <2> SUFFICES ASSUME NEW q \in P!Refs
               PROVE  /\ g.wrap[q] # None => g.wrap[q].dek = d
                      /\ g.slot[q] # None => g.slot[q].dek = d
                      /\ g.txn[q] # None => g.txn[q].dek = d
    BY <1>1 DEF OneDek
  <2>1. CASE q = r
    BY <1>1, <1>2, <2>1 DEF OneDek
  <2>2. CASE q # r
    BY <1>1, <2>2 DEF OneDek
  <2> QED BY <2>1, <2>2
<1> QED BY <1>1, <1>2, <1>3, <1>4 DEF Whole

\* Accesses are given up.
LEMMA FewerSessions ==
    ASSUME ram \in RamTypes, NEW has \in SUBSET ram.has, ram' = P!Session(has, ram.sess), hist'.faults = hist.faults,
           op.pc # "rcwrap", cache'.pin = cache.pin, cache'.old = cache.old, cache'.wrap = cache.wrap
    PROVE  ram' \in RamTypes /\ (Admitted => Admitted')
<1>1. has \in SUBSET P!Accesses /\ ram.sess \in Keys /\ ram.drawn \in 1 .. MaxDeks
  BY DEF RamTypes
<1>2. ram' \in RamTypes /\ ram'.has = has /\ \A a \in has : ram'.sess[P!RefOf(a)] = ram.sess[P!RefOf(a)]
  BY <1>1, SessionIs
<1>3. Admitted => Admitted'
  BY <1>2 DEF Admitted, By
<1> QED BY <1>2, <1>3

LEMMA IdleFacts ==
    ASSUME PinInv, op = P!Idle
    PROVE  /\ op.pc = "idle" /\ op' = op => Calm'
           /\ op' = P!Idle => Calm'
           /\ op' = P!Idle /\ PinsThere /\ cache'.pin = cache.pin => PinsThere'
BY IdleOp DEF Calm, CalmPcs, Missing, PinsThere

LEMMA CheckWrongStep ==
    ASSUME PinInv, NEW a \in P!Accesses, NEW p, P!CheckWrong(a, p) PROVE PinInv'
<1> DEFINE r == P!RefOf(a)
           has == ram.has \ (IF a = "rc" THEN {"pw1"} ELSE {a})
<1>1. /\ op = P!Idle /\ P!CanCheck(r) /\ cache' = P!Spent(cache, r)
      /\ ram' = P!Session(has, ram.sess) /\ hist' = [hist EXCEPT !.commands = @ + 1] /\ UNCHANGED <<flash, op>>
  BY DEF P!CheckWrong, P!Put, P!Counted
<1>2. op.pc = "idle" /\ op' = P!Idle /\ r \in P!Refs
  BY <1>1, IdleOp, RefsOfAccesses
<1>3. /\ cache \in PinFiles /\ hist \in HistTypes
      /\ ram \in RamTypes /\ (~hist.half => Agrees(cache))
      /\ ~hist.torn => \E d \in DrawnDeks : Whole(cache, d) /\ Admitted /\ PinsThere
  BY <1>2, CalmFacts
<1>4. cache' \in PinFiles /\ Alike(cache, cache')
  <2>1. cache.tries[r] \in Int \cup {None} /\ cache.tries[r] # None
    BY <1>1, <1>2, <1>3 DEF PinFiles, P!CanCheck
  <2>2. cache.tries[r] - 1 \in Int
    BY <2>1
  <2> QED BY <1>1, <1>2, <1>3, <2>2, TriesPut DEF P!Spent
<1>5. hist' \in HistTypes /\ hist'.faults = hist.faults /\ hist'.half = hist.half /\ hist'.mid = hist.mid
      /\ hist'.torn = hist.torn
  BY <1>1, <1>3 DEF HistTypes
<1>6. ram' \in RamTypes /\ (Admitted => Admitted')
  <2> HIDE DEF has
  <2>1. has \in SUBSET ram.has
    BY DEF has
  <2>2. cache'.pin = cache.pin /\ cache'.old = cache.old /\ cache'.wrap = cache.wrap
    BY <1>4 DEF Alike
  <2> QED BY <1>1, <1>2, <1>3, <1>5, <2>1, <2>2, FewerSessions
<1>7. Calm' /\ (PinsThere => PinsThere')
  BY <1>1, <1>2, <1>4, IdleFacts DEF Alike
<1>8. ~hist.half => Agrees(cache')
  BY <1>3, <1>4, AlikeWhole
<1>9. ~hist'.torn => \E d \in DrawnDeks : Whole(cache', d) /\ PinsThere' /\ Admitted'
  BY <1>3, <1>4, <1>5, <1>6, <1>7, AlikeWhole
<1> QED BY <1>1, <1>4, <1>5, <1>6, <1>7, <1>8, <1>9, CalmStep

LEMMA LogoutStep ==
    ASSUME PinInv, NEW a \in P!Accesses, P!Logout(a) PROVE PinInv'
<1>1. /\ op = P!Idle /\ ram' = P!Session(ram.has \ {a}, ram.sess) /\ hist' = [hist EXCEPT !.commands = @ + 1]
      /\ UNCHANGED <<cache, flash, op>>
  BY DEF P!Logout, P!Counted
<1>2. op.pc = "idle" /\ op' = P!Idle
  BY <1>1, IdleOp
<1>3. /\ cache \in PinFiles /\ hist \in HistTypes
      /\ ram \in RamTypes /\ (~hist.half => Agrees(cache))
      /\ ~hist.torn => \E d \in DrawnDeks : Whole(cache, d) /\ Admitted /\ PinsThere
  BY <1>2, CalmFacts
<1>4. hist' \in HistTypes /\ hist'.faults = hist.faults /\ hist'.half = hist.half /\ hist'.mid = hist.mid
      /\ hist'.torn = hist.torn
  BY <1>1, <1>3 DEF HistTypes
<1>5. ram' \in RamTypes /\ (Admitted => Admitted')
  BY <1>1, <1>2, <1>3, <1>4, FewerSessions
<1>6. Calm' /\ (PinsThere => PinsThere')
  BY <1>1, <1>2, IdleFacts
<1>7. ~hist'.torn => \E d \in DrawnDeks : Whole(cache', d) /\ PinsThere' /\ Admitted'
  BY <1>1, <1>3, <1>4, <1>5, <1>6
<1>8. ~hist.half => Agrees(cache')
  BY <1>1, <1>3
<1> QED BY <1>1, <1>3, <1>4, <1>5, <1>6, <1>7, <1>8, CalmStep

LEMMA ClearRcStep == ASSUME PinInv, P!ClearRc PROVE PinInv'
<1>1. /\ op = P!Idle /\ op' = [P!Idle EXCEPT !.cmd = "clearrc", !.pc = "rctxn"]
      /\ hist' = [hist EXCEPT !.commands = @ + 1] /\ UNCHANGED <<cache, flash, ram>>
  BY DEF P!ClearRc, P!Counted
<1>2. op.pc = "idle" /\ op' \in PinOps /\ op'.pc = "rctxn" /\ op'.cmd = "clearrc"
  BY <1>1, IdleOp DEF PinOps, PinPcs, PinCmds, RcPcs
<1>3. /\ cache \in PinFiles /\ hist \in HistTypes
      /\ ram \in RamTypes /\ (~hist.half => Agrees(cache))
      /\ ~hist.torn => \E d \in DrawnDeks : Whole(cache, d) /\ Admitted /\ PinsThere
  BY <1>2, CalmFacts
<1>4. hist' \in HistTypes /\ hist'.faults = hist.faults /\ hist'.half = hist.half /\ hist'.mid = hist.mid
      /\ hist'.torn = hist.torn
  BY <1>1, <1>3 DEF HistTypes
<1>5. Calm' /\ (PinsThere => PinsThere')
  BY <1>1, <1>2 DEF Calm, CalmPcs, Missing, PinsThere
<1>6. Admitted => Admitted'
  BY <1>1, <1>2, <1>4 DEF Admitted
<1>7. ~hist'.torn => \E d \in DrawnDeks : Whole(cache', d) /\ PinsThere' /\ Admitted'
  BY <1>1, <1>3, <1>4, <1>5, <1>6
<1>8. ~hist.half => Agrees(cache')
  BY <1>1, <1>3
<1> QED BY <1>1, <1>3, <1>4, <1>5, <1>7, <1>8, CalmStep

LEMMA AcceptedIs ==
    ASSUME ram \in RamTypes, NEW a \in P!Accesses, NEW p \in P!Pins, ram' = P!Accepted(a, p)
    PROVE  /\ ram' \in RamTypes
           /\ ram'.has = IF a = "rc" THEN ram.has \ {"pw1"} ELSE ram.has \cup {a}
           /\ \A b \in ram'.has : ram'.sess[P!RefOf(b)] =
                 IF a # "rc" /\ P!RefOf(b) = P!RefOf(a) THEN p ELSE ram.sess[P!RefOf(b)]
<1> DEFINE has == IF a = "rc" THEN ram.has \ {"pw1"} ELSE ram.has \cup {a}
           sess == IF a = "rc" THEN ram.sess ELSE [ram.sess EXCEPT ![P!RefOf(a)] = p]
<1>1. has \in SUBSET P!Accesses /\ sess \in Keys /\ ram.drawn \in 1 .. MaxDeks
  BY RefsOfAccesses DEF RamTypes, Keys
<1>2. ram' = P!Session(has, sess)
  BY DEF P!Accepted
<1>3. \A b \in has : sess[P!RefOf(b)] = IF a # "rc" /\ P!RefOf(b) = P!RefOf(a) THEN p ELSE ram.sess[P!RefOf(b)]
  BY <1>1, RefsOfAccesses DEF RamTypes, Keys
<1>4. has = IF a = "rc" THEN ram.has \ {"pw1"} ELSE ram.has \cup {a}
  OBVIOUS
<1> HIDE DEF has, sess
<1>5. ram' \in RamTypes /\ ram'.has = has /\ \A b \in has : ram'.sess[P!RefOf(b)] = sess[P!RefOf(b)]
  BY <1>1, <1>2, SessionIs
<1> QED BY <1>3, <1>4, <1>5

\* A PIN that was accepted is the value of a reference.
LEMMA CheckedIs ==
    ASSUME cache \in PinFiles, NEW r \in P!Refs, NEW p, P!CanCheck(r), ~P!Mismatch(cache, r, p)
    PROVE  p \in P!Pins /\ cache.pin[r] = p /\ p # None
BY PinNumbers DEF P!CanCheck, P!Mismatch, PinFiles

LEMMA CheckRightStep ==
    ASSUME PinInv, NEW cmd \in {"verify", "change", "unblock"}, NEW a \in P!Accesses, NEW p, P!CheckRight(cmd, a, p)
    PROVE  PinInv'
<1> DEFINE r == P!RefOf(a)
           f == P!Restored(cache, r)
<1>1. /\ op = P!Idle /\ P!CanCheck(r) /\ ~P!Mismatch(cache, r, p) /\ r \notin cache.old
      /\ cache' = P!Recovered(f, r) /\ ram' = P!Accepted(a, p)
      /\ op' = (IF cmd = "verify" THEN P!Idle ELSE [P!Idle EXCEPT !.cmd = cmd, !.pc = "load", !.ref = r])
      /\ hist' = [hist EXCEPT !.commands = IF cmd = "verify" THEN @ ELSE @ + 1] /\ UNCHANGED flash
  BY DEF P!CheckRight, P!Put
<1>2. op.pc = "idle" /\ r \in P!Refs
  BY <1>1, IdleOp, RefsOfAccesses
<1>3. /\ cache \in PinFiles /\ hist \in HistTypes
      /\ ram \in RamTypes /\ (~hist.half => Agrees(cache))
      /\ ~hist.torn => \E d \in DrawnDeks : Whole(cache, d) /\ Admitted /\ PinsThere
  BY <1>2, CalmFacts
<1>4. p \in P!Pins /\ cache.pin[r] = p /\ p # None
  BY <1>1, <1>2, <1>3, CheckedIs
<1>5. f \in PinFiles /\ Alike(cache, f)
  BY <1>2, <1>3, RestoredIs
<1>6. hist' \in HistTypes /\ hist'.faults = hist.faults /\ hist'.half = hist.half /\ hist'.mid = hist.mid
      /\ hist'.torn = hist.torn
  <2> DEFINE n == IF cmd = "verify" THEN hist.commands ELSE hist.commands + 1
  <2>1. n \in Nat
    BY <1>3 DEF HistTypes
  <2>2. hist' = [hist EXCEPT !.commands = n]
    BY <1>1
  <2> HIDE DEF n
  <2> QED BY <1>3, <2>1, <2>2 DEF HistTypes
<1>7. /\ ram' \in RamTypes
      /\ ram'.has = IF a = "rc" THEN ram.has \ {"pw1"} ELSE ram.has \cup {a}
      /\ \A b \in ram'.has : ram'.sess[P!RefOf(b)] = IF a # "rc" /\ P!RefOf(b) = r THEN p ELSE ram.sess[P!RefOf(b)]
  <2>1. ram' = P!Accepted(a, p) /\ ram \in RamTypes /\ p \in P!Pins
    BY <1>1, <1>3, <1>4
  <2> HIDE DEF f
  <2> QED BY <2>1, AcceptedIs
<1>8. op' \in PinOps /\ op'.pc \in {"idle", "load"} /\ (op'.pc = "idle" => op' = P!Idle) /\ op'.cmd \notin {"kdf", "terminate"}
      /\ (op'.pc = "load" => op'.ref = r)
  <2>1. CASE cmd = "verify"
    BY <1>1, <2>1, IdleOp
  <2>2. CASE cmd # "verify"
    <3> HIDE DEF r
    <3>1. op' = [P!Idle EXCEPT !.cmd = cmd, !.pc = "load", !.ref = r] /\ cmd \in PinCmds /\ "load" \in PinPcs
      BY <1>1, <2>2 DEF PinCmds, PinPcs
    <3> QED BY <1>2, <2>2, <3>1, IdleOp DEF PinOps
  <2> QED BY <2>1, <2>2
<1>9. Calm'
  BY <1>8 DEF Calm, CalmPcs, Missing
<1> HIDE DEF f, r
<1>10. cache' \in PinFiles /\ cache'.pin = cache.pin /\ cache'.old = cache.old /\ cache'.kdf = cache.kdf
  BY <1>1, <1>2, <1>5, RecoveredIs DEF Alike
<1>11. ~hist.half => Agrees(cache')
  BY <1>3, <1>10 DEF Agrees, SentBy
<1>12. ~hist'.torn => \E d \in DrawnDeks : Whole(cache', d) /\ PinsThere' /\ Admitted'
  <2> SUFFICES ASSUME ~hist.torn PROVE \E d \in DrawnDeks : Whole(cache', d) /\ PinsThere' /\ Admitted'
    BY <1>6
  <2>1. PICK d \in DrawnDeks : Whole(cache, d) /\ Admitted /\ PinsThere
    BY <1>3
  <2>2. OneDek(f, d) /\ "rc" \notin f.old /\ (\A q \in P!Refs : Fitting(f, q)) /\ f.pin[r] # None /\ r \notin f.old
        /\ (By(f.wrap[r], f.pin[r]) \/ By(f.txn[r], f.pin[r]))
    <3>1. OneDek(f, d) /\ "rc" \notin f.old /\ \A q \in P!Refs : Fitting(f, q)
      BY <1>5, <2>1, AlikeWhole DEF Whole
    <3>2. f.pin[r] # None /\ r \notin f.old
      BY <1>1, <1>4, <1>5 DEF Alike
    <3> QED BY <1>2, <3>1, <3>2 DEF Fitting, Direct
  <2>3. Whole(cache', d) /\ By(cache'.wrap[r], cache'.pin[r]) /\ \A q \in P!Refs : q # r => cache'.wrap[q] = f.wrap[q]
    BY <1>1, <1>2, <1>5, <2>2, RecoveredWhole
  <2>4. By(cache'.wrap[r], p) /\ \A q \in P!Refs : q # r => cache'.wrap[q] = cache.wrap[q]
    BY <1>4, <1>5, <1>10, <2>3 DEF Alike
  <2>5. PinsThere'
    BY <1>1, <1>2, <1>4, <1>8, <1>10, <2>1, <2>4 DEF PinsThere
  <2>6. \A b \in ram'.has : P!RefOf(b) \in P!Refs /\ (P!RefOf(b) # r => b \in ram.has) /\ (a = "rc" => b \in ram.has)
    BY <1>7, RefsOfAccesses DEF RamTypes, r
  <2>7. \A b \in ram'.has : P!RefOf(b) \notin cache'.old /\ cache'.wrap[P!RefOf(b)] # None
    BY <1>1, <1>10, <2>1, <2>4, <2>6 DEF Admitted, By
  <2>8. hist'.faults = 0 => \A b \in ram'.has :
            LET q == P!RefOf(b) IN ram'.sess[q] = cache'.pin[q] /\ By(cache'.wrap[q], cache'.pin[q])
    <3> SUFFICES ASSUME hist.faults = 0, NEW b \in ram'.has
                 PROVE ram'.sess[P!RefOf(b)] = cache'.pin[P!RefOf(b)] /\ By(cache'.wrap[P!RefOf(b)], cache'.pin[P!RefOf(b)])
      BY <1>6
    <3> DEFINE q == P!RefOf(b)
    <3>1. b \in ram.has => ram.sess[q] = cache.pin[q] /\ By(cache.wrap[q], cache.pin[q])
      BY <1>2, <2>1 DEF Admitted
    <3>2. q \in P!Refs /\ (q # r => b \in ram.has) /\ (a = "rc" => b \in ram.has)
          /\ ram'.sess[q] = IF a # "rc" /\ q = r THEN p ELSE ram.sess[q]
      BY <1>7, <2>6
    <3> HIDE DEF q
    <3>3. ram'.sess[q] = cache'.pin[q] /\ By(cache'.wrap[q], cache'.pin[q])
      <4>1. CASE q = r
        BY <1>4, <1>10, <2>4, <3>1, <3>2, <4>1
      <4>2. CASE q # r
        BY <1>10, <2>4, <3>1, <3>2, <4>2
      <4> QED BY <4>1, <4>2
    <3> QED BY <3>3 DEF q
  <2>9. Admitted'
    BY <2>7, <2>8 DEF Admitted
  <2> QED BY <2>3, <2>5, <2>9
<1> QED BY <1>1, <1>6, <1>7, <1>9, <1>10, <1>11, <1>12, CalmStep

LEMMA CheckOldStep ==
    ASSUME PinInv, NEW cmd \in {"verify", "change", "unblock"}, NEW a \in P!Accesses, NEW p, NEW written \in BOOLEAN,
           P!CheckOld(cmd, a, p, written)
    PROVE  PinInv'
<1> DEFINE r == P!RefOf(a)
           e == [cache EXCEPT !.old = IF written THEN @ \ {r} ELSE @]
           f == P!Restored(e, r)
           sess == [ram'.sess EXCEPT ![r] = P!Multi(p)]
           dek == P!LoadDek(f, ram'.has, sess)
           lost == ~written \/ (a # "rc" /\ dek = None)
<1>1. /\ op = P!Idle /\ P!CanCheck(r) /\ ~P!Mismatch(cache, r, p) /\ r \in cache.old
      /\ cache' = f /\ ram' = P!Accepted(a, p)
      /\ op' = (IF a = "rc" THEN [P!Idle EXCEPT !.cmd = cmd, !.pc = "load", !.ref = r]
                ELSE IF dek = None THEN P!Idle
                ELSE [P!Idle EXCEPT !.cmd = cmd, !.pc = "migrate", !.ref = r, !.dek = dek])
      /\ hist' = [hist EXCEPT !.commands = IF cmd = "verify" THEN @ ELSE @ + 1,
                              !.faults = IF written THEN @ ELSE @ + 1, !.torn = @ \/ lost]
      /\ UNCHANGED flash
  BY DEF P!CheckOld, P!Put
<1>2. op.pc = "idle" /\ r \in P!Refs /\ op.cmd = "none"
  BY <1>1, IdleOp, RefsOfAccesses
<1>3. /\ cache \in PinFiles /\ flash \in PinFiles /\ hist \in HistTypes
      /\ ram \in RamTypes /\ (~hist.half => Agrees(cache))
      /\ ~hist.torn => \E d \in DrawnDeks : Whole(cache, d) /\ Admitted /\ PinsThere
  BY <1>2, CalmFacts DEF PinInv, PinTypes
<1>4. p \in P!Pins /\ cache.pin[r] = p /\ p # None
  BY <1>1, <1>2, <1>3, CheckedIs
<1>5. cache' \in PinFiles /\ cache'.old = (IF written THEN cache.old \ {r} ELSE cache.old) /\ cache'.pin = cache.pin /\ cache'.wrap = cache.wrap
      /\ cache'.slot = cache.slot /\ cache'.txn = cache.txn /\ cache'.key = cache.key /\ cache'.kdf = cache.kdf
  <2>1. e \in PinFiles /\ e.old = (IF written THEN cache.old \ {r} ELSE cache.old) /\ e.pin = cache.pin /\ e.wrap = cache.wrap
        /\ e.slot = cache.slot /\ e.txn = cache.txn /\ e.key = cache.key /\ e.kdf = cache.kdf
    BY <1>3 DEF PinFiles
  <2> HIDE DEF e
  <2>2. f \in PinFiles /\ Alike(e, f)
    BY <1>2, <2>1, RestoredIs
  <2> QED BY <1>1, <2>1, <2>2 DEF Alike
<1>6. /\ ram' \in RamTypes
      /\ ram'.has = IF a = "rc" THEN ram.has \ {"pw1"} ELSE ram.has \cup {a}
      /\ \A b \in ram'.has : ram'.sess[P!RefOf(b)] = IF a # "rc" /\ P!RefOf(b) = r THEN p ELSE ram.sess[P!RefOf(b)]
  BY <1>1, <1>3, <1>4, AcceptedIs
<1>7. dek \in Deks \cup {None} /\ f = cache'
  <2>1. \A q \in P!Refs : sess[q] \in P!Pins \cup {None} \cup {P!Multi(x) : x \in P!Pins}
    BY <1>4, <1>6 DEF RamTypes, Keys
  <2>2. ram'.has \in SUBSET P!Accesses
    BY <1>6 DEF RamTypes
  <2>3. f = cache'
    BY <1>1
  <2> HIDE DEF f, sess
  <2> QED BY <1>5, <2>1, <2>2, <2>3, LoadTypes
<1>8. sess[r] = P!Multi(p) /\ \A q \in P!Refs : q # r => sess[q] = ram'.sess[q]
  BY <1>2, <1>6 DEF RamTypes, Keys
<1>9. hist' \in HistTypes /\ (written => hist'.faults = hist.faults) /\ hist'.half = hist.half /\ hist'.mid = hist.mid
      /\ hist'.torn = (hist.torn \/ lost)
  <2> DEFINE n == IF cmd = "verify" THEN hist.commands ELSE hist.commands + 1
             t == hist.torn \/ lost
             m == IF written THEN hist.faults ELSE hist.faults + 1
  <2>1. n \in Nat /\ m \in Nat /\ t \in BOOLEAN /\ (written => m = hist.faults)
    BY <1>3 DEF HistTypes
  <2>2. hist' = [hist EXCEPT !.commands = n, !.faults = m, !.torn = t]
    BY <1>1
  <2> HIDE DEF n, t, m
  <2>3. hist' \in HistTypes /\ hist'.faults = m /\ hist'.half = hist.half /\ hist'.mid = hist.mid /\ hist'.torn = t
    BY <1>3, <2>1, <2>2 DEF HistTypes
  <2> QED BY <2>1, <2>3 DEF t
<1>10. ~hist.half => Agrees(cache')
  BY <1>3, <1>5 DEF Agrees, SentBy
<1>11. ~hist.torn => a # "rc"
  <2>1. ~hist.torn => "rc" \notin cache.old
    BY <1>3 DEF Whole
  <2> QED BY <1>1, <2>1, RefsOfAccesses
<1>12. CASE op'.pc # "migrate"
  <2>1. /\ a = "rc" \/ dek = None
        /\ op' \in PinOps /\ op'.pc \in {"idle", "load"} /\ (op'.pc = "idle" => op' = P!Idle)
        /\ op'.cmd \notin {"kdf", "terminate"}
    <3> HIDE DEF r, dek
    <3>1. CASE a = "rc"
      <4>1. op' = [P!Idle EXCEPT !.cmd = cmd, !.pc = "load", !.ref = r] /\ cmd \in PinCmds /\ "load" \in PinPcs
        BY <1>1, <3>1 DEF PinCmds, PinPcs
      <4> QED BY <1>2, <3>1, <4>1, IdleOp DEF PinOps
    <3>2. CASE a # "rc"
      <4>1. dek = None
        <5> SUFFICES ASSUME dek # None PROVE op'.pc = "migrate"
          BY <1>12
        <5> QED BY <1>1, <3>2, IdleOp DEF PinOps
      <4> QED BY <1>1, <3>2, <4>1, IdleOp
    <3> QED BY <3>1, <3>2
  <2>2. Calm'
    BY <2>1 DEF Calm, CalmPcs, Missing
  <2>3. hist'.torn
    BY <1>9, <1>11, <2>1
  <2> QED BY <1>1, <1>5, <1>6, <1>9, <1>10, <2>2, <2>3, CalmStep
<1>13. CASE op'.pc = "migrate"
  <2>1. a # "rc" /\ dek # None
    <3> HIDE DEF dek, r
    <3>1. a # "rc"
      BY <1>1, <1>13, IdleOp DEF PinOps
    <3> QED BY <1>1, <1>13, <3>1, IdleOp
  <2>2. op' \in PinOps /\ op'.ref = r /\ op'.dek = dek /\ op'.cmd = cmd /\ op'.pc = "migrate"
    <3> HIDE DEF r, dek
    <3>1. op' = [P!Idle EXCEPT !.cmd = cmd, !.pc = "migrate", !.ref = r, !.dek = dek] /\ cmd \in PinCmds /\ "migrate" \in PinPcs
      BY <1>1, <2>1 DEF PinCmds, PinPcs
    <3>2. dek \in Deks \cup {None}
      BY <1>7
    <3> QED BY <1>2, <3>1, <3>2, IdleOp DEF PinOps
  <2>3. PinTypes'
    <3>1. PinShaped' /\ Reseeded'
      BY <1>4, <1>5, <2>1, <2>2 DEF PinShaped, Reseeded, Missing, Clearings, Replacing, Undos
    <3> QED BY <1>1, <1>3, <1>5, <1>6, <1>9, <2>2, <3>1 DEF PinTypes, HistTypes, RamTypes, Keys
  <2>4. FormInv'
    <3>1. Agrees(cache') => Agrees(cache)'
      BY DEF Agrees, SentBy
    <3>2. ~hist.half => Announced'
      BY <1>10, <2>2, <3>1 DEF Announced, Undos, Replacing
    <3> QED BY <1>1, <1>9, <3>2, FormKept DEF PinInv
  <2>5. ~hist'.torn => \E d \in DrawnDeks : Standing(d)'
    <3> SUFFICES ASSUME ~hist'.torn PROVE \E d \in DrawnDeks : Standing(d)'
      OBVIOUS
    <3>0. ~hist.torn /\ written /\ cache'.old = cache.old \ {r}
      BY <1>5, <1>9
    <3>1. PICK d \in DrawnDeks : Whole(cache, d) /\ Admitted /\ PinsThere
      BY <1>3, <3>0
    <3>2. By(cache.slot[r], p) /\ cache.wrap[r] = None /\ cache.slot[r].dek = d
      BY <1>1, <1>2, <1>4, <3>1 DEF Whole, Fitting, Direct, OneDek, By
    <3>3. OneDek(cache', d)
      BY <1>5, <3>1 DEF Whole, OneDek
    <3>4. \A b \in ram'.has : P!RefOf(b) \in P!Refs /\ (P!RefOf(b) # r => b \in ram.has)
      BY <1>6, RefsOfAccesses DEF RamTypes
    <3>5. dek = d
      <4>1. a \in ram'.has /\ ram'.has \in SUBSET P!Accesses
        BY <1>6, <2>1 DEF RamTypes
      <4>2. PICK b \in ram'.has : P!RefOf(b) = P!Opener(ram'.has)
        BY <4>1, OpenerIs
      <4> DEFINE q == P!Opener(ram'.has)
      <4>3. dek = IF cache'.wrap[q] = None THEN P!OldDek(cache', q, sess[q])
                  ELSE IF cache'.wrap[q].by = sess[q] THEN cache'.wrap[q].dek ELSE None
        BY <1>7, <4>1 DEF P!LoadDek
      <4>4. q \in P!Refs /\ (q # r => cache.wrap[q] # None)
        BY <3>1, <3>4, <4>2 DEF Admitted
      <4> HIDE DEF q, dek, sess, r
      <4>5. CASE q = r
        BY <1>5, <1>8, <3>2, <4>3, <4>5 DEF P!OldDek, By
      <4>6. CASE q # r
        BY <1>5, <2>1, <3>1, <4>3, <4>4, <4>6 DEF Whole, OneDek
      <4> QED BY <4>5, <4>6
    <3>6. \A q \in P!Refs : Holding(q)'
      <4> SUFFICES ASSUME NEW q \in P!Refs PROVE Holding(q)'
        OBVIOUS
      <4>1. CASE q = r
        BY <1>4, <1>5, <2>2, <3>0, <3>2, <4>1 DEF Holding
      <4>2. CASE q # r
        BY <1>5, <2>2, <3>0, <3>1, <4>2 DEF Holding, Whole, Fitting, Direct, By
      <4> QED BY <4>1, <4>2
    <3>7. Exchanging' /\ Snapped(d)'
      BY <2>2 DEF Exchanging, Snapped
    <3>8. Granted'
      <4>1. \A b \in ram'.has : P!RefOf(b) \notin cache'.old /\ (cache'.wrap[P!RefOf(b)] # None \/ P!RefOf(b) = r)
        BY <1>5, <3>0, <3>1, <3>4 DEF Admitted
      <4>2. hist.faults = 0 => \A b \in ram'.has : LET q == P!RefOf(b) IN
                ram'.sess[q] = cache'.pin[q] /\ (By(cache'.wrap[q], cache'.pin[q]) \/ q = r)
        <5> SUFFICES ASSUME hist.faults = 0, NEW b \in ram'.has
                     PROVE LET q == P!RefOf(b) IN ram'.sess[q] = cache'.pin[q] /\ (By(cache'.wrap[q], cache'.pin[q]) \/ q = r)
          OBVIOUS
        <5>1. CASE P!RefOf(b) = r
          BY <1>4, <1>5, <1>6, <2>1, <5>1
        <5>2. CASE P!RefOf(b) # r
          BY <1>2, <1>5, <1>6, <3>1, <3>4, <5>2 DEF Admitted
        <5> QED BY <5>1, <5>2
      <4> QED BY <1>9, <2>2, <3>0, <4>1, <4>2 DEF Granted
    <3>9. cache'.pin["pw1"] # None /\ cache'.pin["pw3"] # None /\ "rc" \notin cache'.old
      BY <1>2, <1>5, <3>0, <3>1 DEF PinsThere, Whole
    <3>10. OneDek(cache, d)'
      BY <3>3 DEF OneDek
    <3> QED BY <2>2, <3>5, <3>6, <3>7, <3>8, <3>9, <3>10 DEF Standing
  <2>6. DekInv'
    BY <1>1, <1>9, <2>2, <2>5, DekKept DEF PinInv
  <2> QED BY <2>3, <2>4, <2>6 DEF PinInv
<1> QED BY <1>12, <1>13

LEMMA MigrateStep == ASSUME PinInv, P!Migrate PROVE PinInv'
<1> DEFINE r == op.ref
           w == P!Wrap(cache.pin[r], op.dek)
           wrap == [cache.wrap EXCEPT ![r] = w]
<1>1. /\ op.pc = "migrate" /\ cache' = [cache EXCEPT !.wrap = wrap] /\ op' = [op EXCEPT !.pc = "unslot"]
      /\ UNCHANGED <<flash, ram, hist>>
  BY DEF P!Migrate, P!At, P!Put, P!Goto
<1>2. /\ cache \in PinFiles /\ flash \in PinFiles /\ op \in PinOps /\ hist \in HistTypes /\ ram \in RamTypes
      /\ PinShaped /\ Reseeded /\ Missing /\ FormInv /\ DekInv
  BY TypesOf
<1>3. /\ r \in P!Refs /\ cache.pin[r] \in P!Pins /\ cache.pin[r] # None /\ op.dek \in Deks
      /\ op.cmd \notin {"kdf", "terminate"}
  BY <1>1, <1>2 DEF PinShaped, PinOps, PinFiles, Clearings, Replacing, Undos, RcPcs
<1>4. w \in MayWrap /\ w.by = cache.pin[r] /\ w.dek = op.dek
  BY <1>3, PinNumbers
<1>5. wrap \in [P!Refs -> MayWrap] /\ wrap[r] = w /\ \A q \in P!Refs : q # r => wrap[q] = cache.wrap[q]
  BY <1>2, <1>3, <1>4 DEF PinFiles
<1>6. /\ op' \in PinOps /\ op'.pc = "unslot" /\ op'.cmd = op.cmd /\ op'.ref = r
  BY <1>1, <1>2 DEF PinOps, PinPcs
<1> HIDE DEF wrap, r
<1>7. cache' \in PinFiles /\ cache'.old = cache.old /\ cache'.pin = cache.pin /\ cache'.wrap = wrap
      /\ cache'.slot = cache.slot /\ cache'.txn = cache.txn /\ cache'.key = cache.key /\ cache'.kdf = cache.kdf
  BY <1>1, <1>2, <1>5 DEF PinFiles
<1>8. PinTypes'
  <2>1. PinShaped' /\ Reseeded'
    BY <1>3, <1>6 DEF PinShaped, Reseeded, Missing, Clearings, Replacing, Undos
  <2> QED BY <1>1, <1>6, <1>7, <2>1 DEF PinInv, PinTypes
<1>9. FormInv'
  <2>1. ~hist.half => Announced'
    BY <1>1, <1>2, <1>3, <1>6, <1>7 DEF FormInv, Announced, Agrees, SentBy, Replacing, Undos
  <2> QED BY <1>1, <1>2, <2>1, FormKept
<1>10. ~hist.torn => \E d \in DrawnDeks : Standing(d)'
  <2> SUFFICES ASSUME ~hist.torn PROVE \E d \in DrawnDeks : Standing(d)'
    OBVIOUS
  <2>1. PICK d \in DrawnDeks : Standing(d)
    BY <1>1, <1>2, <1>3, DekStands
  <2>2. op.dek = d /\ w # None /\ By(w, cache.pin[r])
    BY <1>1, <1>3, <1>4, <2>1, PinNumbers DEF Standing, By, w
  <2>3. OneDek(cache, d)'
    <3>1. OneDek(cache, d)
      BY <2>1 DEF Standing
    <3> QED BY <1>4, <1>5, <1>7, <2>2, <3>1 DEF OneDek
  <2>4. \A q \in P!Refs : Holding(q)'
    <3> SUFFICES ASSUME NEW q \in P!Refs PROVE Holding(q)'
      OBVIOUS
    <3>1. Holding(q)
      BY <2>1 DEF Standing
    <3>2. CASE q = r
      <4>1. cache.pin[r] # None /\ r \notin cache.old
        BY <1>1, <3>1, <3>2 DEF Holding, r
      <4>2. Fitting(cache, q)'
        BY <1>5, <1>7, <2>2, <3>2, <4>1 DEF Fitting, Direct, By
      <4> QED BY <1>6, <4>2 DEF Holding
    <3>3. CASE q # r
      BY <1>1, <1>5, <1>6, <1>7, <3>1, <3>3 DEF Holding, Fitting, Direct, By, Undos, r
    <3> QED BY <3>2, <3>3
  <2>5. Exchanging' /\ Snapped(d)'
    <3>1. cache.pin[r] # None /\ r \notin cache.old
      BY <1>1, <1>3, <2>1 DEF Standing, Holding, r
    <3>2. Exchanging'
      BY <1>3, <1>5, <1>6, <1>7, <2>2, <3>1 DEF Exchanging, By, r
    <3> QED BY <1>3, <1>6, <3>2 DEF Snapped
  <2>6. Granted'
    <3>1. \A b \in ram.has : P!RefOf(b) \in P!Refs
      BY <1>2, RefsOfAccesses DEF RamTypes
    <3>2. \A b \in ram.has : P!RefOf(b) \notin cache.old /\ (P!RefOf(b) # r => cache.wrap[P!RefOf(b)] # None)
      BY <1>1, <2>1 DEF Standing, Granted, r
    <3>3. hist.faults = 0 => \A b \in ram.has : LET q == P!RefOf(b) IN
              ram.sess[q] = cache.pin[q] /\ (By(cache.wrap[q], cache.pin[q]) \/ q = r)
      BY <1>1, <1>3, <2>1 DEF Standing, Granted, r
    <3>4. \A b \in ram.has : LET q == P!RefOf(b) IN
              IF q = r THEN wrap[q] # None /\ By(wrap[q], cache.pin[q]) ELSE wrap[q] = cache.wrap[q]
      BY <1>5, <2>2, <3>1
    <3>5. \A b \in ram'.has : P!RefOf(b) \notin cache'.old /\ cache'.wrap[P!RefOf(b)] # None
      BY <1>1, <1>7, <3>2, <3>4
    <3>6. hist'.faults = 0 => \A b \in ram'.has : LET q == P!RefOf(b) IN
              ram'.sess[q] = cache'.pin[q] /\ By(cache'.wrap[q], cache'.pin[q])
      BY <1>1, <1>7, <3>3, <3>4
    <3> QED BY <1>6, <3>5, <3>6 DEF Granted
  <2>7. cache'.pin["pw1"] # None /\ cache'.pin["pw3"] # None /\ "rc" \notin cache'.old
    BY <1>1, <1>7, <2>1 DEF Standing
  <2> QED BY <1>6, <2>3, <2>4, <2>5, <2>6, <2>7 DEF Standing, Replacing
<1>11. DekInv'
  BY <1>1, <1>2, <1>3, <1>6, <1>10, DekKept
<1> QED BY <1>8, <1>9, <1>11 DEF PinInv

LEMMA UnslotStep == ASSUME PinInv, P!Unslot PROVE PinInv'
<1> DEFINE r == op.ref
           slot == [cache.slot EXCEPT ![r] = None]
           e == [cache EXCEPT !.slot = slot]
<1>1. /\ op.pc = "unslot" /\ cache' = P!Recovered(e, r)
      /\ op' = (IF op.cmd = "verify" THEN P!Idle ELSE [op EXCEPT !.pc = "load"])
      /\ UNCHANGED <<flash, ram, hist>>
  BY DEF P!Unslot, P!At, P!Put, P!Goto, P!Return
<1>2. /\ cache \in PinFiles /\ flash \in PinFiles /\ op \in PinOps /\ hist \in HistTypes /\ ram \in RamTypes
      /\ PinShaped /\ FormInv /\ DekInv
  BY TypesOf
<1>3. r \in P!Refs /\ op.cmd \notin {"kdf", "terminate"}
  BY <1>1, <1>2 DEF PinShaped, PinOps, Clearings, Replacing, Undos, RcPcs
<1>4. slot \in [P!Refs -> MayWrap] /\ slot[r] = None /\ \A q \in P!Refs : q # r => slot[q] = cache.slot[q]
  BY <1>2, <1>3 DEF PinFiles, MayWrap
<1>5. /\ op' \in PinOps /\ op'.pc \in {"idle", "load"} /\ op'.cmd \notin {"kdf", "terminate"}
      /\ op'.pc = "idle" => op' = P!Idle
      /\ op'.pc = "load" => op'.ref = r
  BY <1>1, <1>2, <1>3, IdleOp DEF PinOps, PinPcs
<1> HIDE DEF slot, r
<1>6. e \in PinFiles /\ e.old = cache.old /\ e.pin = cache.pin /\ e.wrap = cache.wrap
      /\ e.slot = slot /\ e.txn = cache.txn /\ e.key = cache.key /\ e.kdf = cache.kdf
  BY <1>2, <1>4 DEF PinFiles
<1> HIDE DEF e
<1>7. cache' \in PinFiles /\ cache'.pin = cache.pin /\ cache'.old = cache.old /\ cache'.kdf = cache.kdf
  BY <1>1, <1>3, <1>6, RecoveredIs
<1>8. Calm'
  BY <1>5 DEF Calm, CalmPcs, Missing
<1>9. ~hist.half => Agrees(cache')
  BY <1>1, <1>2, <1>3, <1>7 DEF FormInv, Announced, Agrees, SentBy, Undos
<1>10. ~hist'.torn => \E d \in DrawnDeks : Whole(cache', d) /\ PinsThere' /\ Admitted'
  <2> SUFFICES ASSUME ~hist.torn PROVE \E d \in DrawnDeks : Whole(cache', d) /\ PinsThere' /\ Admitted'
    BY <1>1
  <2>1. PICK d \in DrawnDeks : Standing(d)
    BY <1>1, <1>2, <1>3, DekStands
  <2>2. /\ cache.pin[r] # None /\ r \notin cache.old /\ By(cache.wrap[r], cache.pin[r])
        /\ \A q \in P!Refs : q # r => Fitting(cache, q)
        /\ OneDek(cache, d) /\ "rc" \notin cache.old
    <3>1. Whole(cache, d)
      BY <1>1, <2>1, AtRest DEF Undos
    <3>2. cache.pin[r] # None /\ r \notin cache.old /\ By(cache.wrap[r], cache.pin[r])
      BY <1>1, <2>1 DEF Standing, Exchanging, r
    <3> QED BY <3>1, <3>2 DEF Whole
  <2>3. OneDek(e, d)
    BY <1>4, <1>6, <2>2 DEF OneDek
  <2>4. \A q \in P!Refs : q # r => Fitting(e, q)
    BY <1>4, <1>6, <2>2 DEF Fitting, Direct
  <2>5. Whole(cache', d) /\ By(cache'.wrap[r], cache'.pin[r]) /\ \A q \in P!Refs : q # r => cache'.wrap[q] = e.wrap[q]
    BY <1>1, <1>3, <1>6, <2>2, <2>3, <2>4, RecoveredWhole
  <2>6. PinsThere'
    BY <1>1, <1>5, <1>7, <2>1, <2>2, <2>5 DEF PinsThere, Standing
  <2>7. \A b \in ram.has : P!RefOf(b) \in P!Refs
    BY <1>2, RefsOfAccesses DEF RamTypes
  <2>8. \A b \in ram.has : P!RefOf(b) \notin cache.old /\ cache.wrap[P!RefOf(b)] # None
    BY <1>1, <2>1 DEF Standing, Granted
  <2>9. hist.faults = 0 => \A b \in ram.has : LET q == P!RefOf(b) IN
            ram.sess[q] = cache.pin[q] /\ By(cache.wrap[q], cache.pin[q])
    BY <1>1, <1>3, <2>1 DEF Standing, Granted
  <2>10. \A b \in ram.has : LET q == P!RefOf(b) IN
             IF q = r THEN By(cache'.wrap[q], cache'.pin[q]) ELSE cache'.wrap[q] = cache.wrap[q]
    BY <1>6, <2>5, <2>7
  <2>11. \A b \in ram'.has : P!RefOf(b) \notin cache'.old /\ cache'.wrap[P!RefOf(b)] # None
    BY <1>1, <1>7, <2>8, <2>10 DEF By
  <2>12. hist'.faults = 0 => \A b \in ram'.has : LET q == P!RefOf(b) IN
             ram'.sess[q] = cache'.pin[q] /\ By(cache'.wrap[q], cache'.pin[q])
    BY <1>1, <1>7, <2>9, <2>10
  <2>13. Admitted'
    BY <2>11, <2>12 DEF Admitted
  <2> QED BY <2>5, <2>6, <2>13
<1> QED BY <1>1, <1>2, <1>7, <1>8, <1>9, <1>10, CalmStep

-----------------------------------------------------------------------------
(* OpenPgpPin: the commands that replace a reference *)

\* The DEK is loaded, and the replacement of a reference begins.
LEMMA StageStarts ==
    ASSUME PinInv, op.pc \in {"idle", "load"}, UNCHANGED <<cache, flash>>, hist' \in HistTypes,
           hist'.half = hist.half, hist'.mid = hist.mid, hist'.torn = hist.torn, ram' \in RamTypes,
           op' \in PinOps, op'.pc = "stage", op'.cmd \notin {"kdf", "terminate"}, op'.pin \in SentBy(cache), op'.dek # None,
           \A d \in DrawnDeks : Whole(cache, d) /\ Admitted /\ PinsThere => op'.dek = d /\ Granted'
    PROVE  PinInv'
<1>1. /\ cache \in PinFiles /\ flash \in PinFiles /\ FormInv /\ DekInv
      /\ op.cmd \notin {"kdf", "terminate"} /\ (~hist.half => Agrees(cache))
      /\ ~hist.torn => \E d \in DrawnDeks : Whole(cache, d) /\ Admitted /\ PinsThere
  BY TypesOf, CalmFacts
<1>2. op'.pin # None
  BY PinNumbers DEF SentBy, P!Pins
<1>3. PinTypes'
  <2>1. PinShaped' /\ Reseeded'
    BY <1>2 DEF PinShaped, Reseeded, Missing, Clearings, Replacing, Undos
  <2> QED BY <1>1, <2>1 DEF PinTypes, HistTypes, RamTypes, Keys
<1>4. FormInv'
  <2>1. ~hist.half => Announced'
    BY <1>1 DEF Announced, Agrees, SentBy, Replacing, Undos
  <2> QED BY <1>1, <2>1, FormKept
<1>5. ~hist.torn => \E d \in DrawnDeks : Standing(d)'
  <2> SUFFICES ASSUME ~hist.torn PROVE \E d \in DrawnDeks : Standing(d)'
    OBVIOUS
  <2>1. PICK d \in DrawnDeks : Whole(cache, d) /\ Admitted /\ PinsThere
    BY <1>1
  <2>2. op'.dek = d /\ Granted'
    BY <2>1
  <2>3. OneDek(cache, d)'
    BY <2>1 DEF Whole, OneDek
  <2>4. \A r \in P!Refs : Holding(r)'
    BY <2>1 DEF Whole, Holding, Fitting, Direct, By
  <2>5. Exchanging' /\ Snapped(d)'
    BY DEF Exchanging, Snapped
  <2>6. cache'.pin["pw1"] # None /\ cache'.pin["pw3"] # None /\ "rc" \notin cache'.old
    BY <2>1 DEF PinsThere, Whole
  <2> QED BY <2>2, <2>3, <2>4, <2>5, <2>6 DEF Standing
<1>6. DekInv'
  BY <1>1, <1>5, DekKept
<1> QED BY <1>3, <1>4, <1>6 DEF PinInv

LEMMA LoadStep == ASSUME PinInv, NEW p \in P!Sent, P!Load(p) PROVE PinInv'
<1> DEFINE rc == op.ref = "rc"
           has == IF rc THEN (ram.has \ {"pw1", "pw3"}) \cup {"rc"} ELSE ram.has
           key == cache.pin["rc"]
           sess == IF rc THEN [ram.sess EXCEPT !["rc"] = key] ELSE ram.sess
           new == IF rc THEN "pw1" ELSE op.ref
           next == [sess EXCEPT ![new] = p]
           dek == P!LoadDek(cache, has, sess)
<1>1. /\ op.pc = "load"
      /\ op' = (IF dek = None THEN P!Idle ELSE [op EXCEPT !.pc = "stage", !.ref = new, !.pin = p, !.dek = dek])
      /\ ram' = P!Session(has, IF dek = None THEN sess ELSE next)
      /\ UNCHANGED <<cache, flash, hist>>
  BY DEF P!Load, P!At
<1>2. /\ cache \in PinFiles /\ op \in PinOps /\ op.cmd \notin {"kdf", "terminate"} /\ hist \in HistTypes
      /\ ram \in RamTypes /\ (~hist.half => Agrees(cache))
      /\ ~hist.torn => \E d \in DrawnDeks : Whole(cache, d) /\ Admitted /\ PinsThere
  BY <1>1, CalmFacts
<1>3. p \in SentBy(cache) /\ p \in P!Pins
  BY PinNumbers DEF P!Sent, SentBy
<1>4. has \in SUBSET P!Accesses /\ sess \in Keys /\ ram.drawn \in 1 .. MaxDeks /\ new \in P!Refs
  <2>1. ram.has \in SUBSET P!Accesses /\ ram.sess \in Keys /\ ram.drawn \in 1 .. MaxDeks /\ op.ref \in P!Refs
        /\ key \in P!Pins \cup {None}
    BY <1>2, RefsOfAccesses DEF RamTypes, PinOps, PinFiles
  <2> HIDE DEF key
  <2> QED BY <2>1, RefsOfAccesses DEF Keys
<1>5. /\ next \in Keys /\ next[new] = p /\ \A q \in P!Refs : q # new => next[q] = sess[q]
  <2> HIDE DEF sess, new
  <2> QED BY <1>3, <1>4 DEF Keys
<1>6. \A q \in P!Refs : sess[q] = IF rc /\ q = "rc" THEN key ELSE ram.sess[q]
  BY <1>2, RefsOfAccesses DEF RamTypes, Keys
<1>7. dek \in Deks \cup {None}
  <2>1. \A q \in P!Refs : sess[q] \in P!Pins \cup {None} \cup {P!Multi(x) : x \in P!Pins}
    BY <1>4 DEF Keys
  <2> HIDE DEF has, sess
  <2> QED BY <1>2, <1>4, <2>1, LoadTypes
<1>8. \A b \in has : P!RefOf(b) \in P!Refs /\ (b \in ram.has \/ (rc /\ b = "rc" /\ P!RefOf(b) = "rc"))
  BY <1>4, RefsOfAccesses
<1>9. ASSUME Admitted, PinsThere
      PROVE  /\ \A b \in has : P!RefOf(b) \notin cache.old /\ cache.wrap[P!RefOf(b)] # None
             /\ hist.faults = 0 => \A b \in has : LET q == P!RefOf(b) IN sess[q] = cache.pin[q] /\ By(cache.wrap[q], cache.pin[q])
  <2>1. rc => "rc" \notin cache.old /\ By(cache.wrap["rc"], cache.pin["rc"])
    BY <1>1, <1>9 DEF PinsThere
  <2>2. \A b \in has : P!RefOf(b) \notin cache.old /\ cache.wrap[P!RefOf(b)] # None
    BY <1>8, <1>9, <2>1 DEF Admitted, By
  <2>3. ASSUME hist.faults = 0, NEW b \in has PROVE LET q == P!RefOf(b) IN sess[q] = cache.pin[q] /\ By(cache.wrap[q], cache.pin[q])
    <3> DEFINE q == P!RefOf(b)
    <3>1. q \in P!Refs /\ (b \in ram.has \/ (rc /\ b = "rc" /\ q = "rc"))
      BY <1>8
    <3>2. sess[q] = IF rc /\ q = "rc" THEN key ELSE ram.sess[q]
      BY <1>6, <3>1
    <3>3. b \in ram.has => ram.sess[q] = cache.pin[q] /\ By(cache.wrap[q], cache.pin[q])
      BY <1>1, <1>9, <2>3 DEF Admitted
    <3> HIDE DEF sess, q
    <3>4. sess[q] = cache.pin[q] /\ By(cache.wrap[q], cache.pin[q])
      BY <2>1, <3>1, <3>2, <3>3
    <3> QED BY <3>4 DEF q
  <2> HIDE DEF has, sess
  <2> QED BY <2>2, <2>3
<1> HIDE DEF has, sess, next, dek, new
<1>10. CASE dek = None
  <2>1. op' = P!Idle /\ ram' = P!Session(has, sess)
    BY <1>1, <1>10
  <2>2. ram' \in RamTypes /\ ram'.has = has /\ \A b \in has : ram'.sess[P!RefOf(b)] = sess[P!RefOf(b)]
    BY <1>4, <2>1, SessionIs
  <2>3. Calm'
    BY <2>1, IdleOp DEF Calm, CalmPcs, Missing
  <2>4. PinsThere => PinsThere'
    BY <1>1, <2>1, IdleOp DEF PinsThere
  <2>5. Admitted /\ PinsThere => Admitted'
    BY <1>1, <1>9, <2>2 DEF Admitted, By
  <2>6. ~hist'.torn => \E d \in DrawnDeks : Whole(cache', d) /\ PinsThere' /\ Admitted'
    BY <1>1, <1>2, <2>4, <2>5
  <2>7. ~hist.half => Agrees(cache')
    BY <1>1, <1>2
  <2> QED BY <1>1, <1>2, <2>2, <2>3, <2>6, <2>7, CalmStep
<1>11. CASE dek # None
  <2>1. op' = [op EXCEPT !.pc = "stage", !.ref = new, !.pin = p, !.dek = dek] /\ ram' = P!Session(has, next)
    BY <1>1, <1>11
  <2>2. ram' \in RamTypes /\ ram'.has = has /\ \A b \in has : ram'.sess[P!RefOf(b)] = next[P!RefOf(b)]
    BY <1>4, <1>5, <2>1, SessionIs
  <2>3. /\ op' \in PinOps /\ op'.pc = "stage" /\ op'.cmd = op.cmd /\ op'.pin = p /\ op'.dek = dek /\ op'.ref = new
    <3>1. "stage" \in PinPcs
      BY DEF PinPcs, Replacing
    <3> QED BY <1>2, <1>3, <1>4, <1>7, <2>1, <3>1 DEF PinOps
  <2>4. ASSUME NEW d \in DrawnDeks, Whole(cache, d), Admitted, PinsThere PROVE op'.dek = d /\ Granted'
    <3>1. /\ \A b \in has : P!RefOf(b) \notin cache.old /\ cache.wrap[P!RefOf(b)] # None
          /\ hist.faults = 0 => \A b \in has : LET q == P!RefOf(b) IN sess[q] = cache.pin[q] /\ By(cache.wrap[q], cache.pin[q])
      BY <1>9, <2>4
    <3>2. dek = d
      BY <1>2, <1>4, <1>11, <2>4, <3>1, LoadsIt DEF Whole, dek
    <3>3. hist'.faults = 0 => \A b \in ram'.has : LET q == P!RefOf(b) IN
              IF q = new THEN ram'.sess[q] = p ELSE ram'.sess[q] = cache'.pin[q] /\ By(cache'.wrap[q], cache'.pin[q])
      <4> SUFFICES ASSUME hist.faults = 0, NEW b \in has
                   PROVE LET q == P!RefOf(b) IN
                         IF q = new THEN ram'.sess[q] = p ELSE ram'.sess[q] = cache.pin[q] /\ By(cache.wrap[q], cache.pin[q])
        BY <1>1, <2>2 DEF By
      <4>1. P!RefOf(b) \in P!Refs /\ ram'.sess[P!RefOf(b)] = next[P!RefOf(b)]
        BY <1>8, <2>2
      <4> QED BY <1>5, <3>1, <4>1
    <3>4. \A b \in ram'.has : P!RefOf(b) \notin cache'.old /\ cache'.wrap[P!RefOf(b)] # None
      BY <1>1, <2>2, <3>1
    <3>5. Granted'
      BY <2>3, <3>3, <3>4 DEF Granted
    <3> QED BY <2>3, <3>2, <3>5
  <2> QED BY <1>1, <1>2, <1>3, <1>11, <2>2, <2>3, <2>4, StageStarts
<1> QED BY <1>10, <1>11

\* RESET RETRY COUNTER by PW3 and PUT DATA of the resetting code
LEMMA ReplaceStep ==
    ASSUME PinInv, op = P!Idle, NEW cmd \in {"unblock", "putrc"}, NEW r \in P!Refs, NEW p \in P!Sent,
           NEW has \in SUBSET ram.has, P!Replace(cmd, r, p, has, cache)
    PROVE  PinInv'
<1> DEFINE next == [ram.sess EXCEPT ![r] = p]
           dek == P!LoadDek(cache, has, ram.sess)
<1>1. /\ op' = (IF dek = None THEN P!Idle
                ELSE [P!Idle EXCEPT !.cmd = cmd, !.pc = "stage", !.ref = r, !.pin = p, !.dek = dek, !.snap = P!Blank])
      /\ ram' = P!Session(has, IF dek = None THEN ram.sess ELSE next)
      /\ hist' = [hist EXCEPT !.commands = @ + 1] /\ UNCHANGED <<cache, flash>>
  BY DEF P!Replace, P!Put, P!NewSession, P!Counted
<1>2. op.pc = "idle"
  BY IdleOp
<1>3. /\ cache \in PinFiles /\ hist \in HistTypes
      /\ ram \in RamTypes /\ (~hist.half => Agrees(cache))
      /\ ~hist.torn => \E d \in DrawnDeks : Whole(cache, d) /\ Admitted /\ PinsThere
  BY <1>2, CalmFacts
<1>4. p \in SentBy(cache) /\ p \in P!Pins
  BY PinNumbers DEF P!Sent, SentBy
<1>5. has \in SUBSET P!Accesses /\ ram.sess \in Keys /\ ram.drawn \in 1 .. MaxDeks /\ \A b \in has : P!RefOf(b) \in P!Refs
  BY <1>3, RefsOfAccesses DEF RamTypes
<1>6. /\ next \in Keys /\ next[r] = p /\ \A q \in P!Refs : q # r => next[q] = ram.sess[q]
  BY <1>4, <1>5 DEF Keys
<1>7. dek \in Deks \cup {None}
  <2>1. \A q \in P!Refs : ram.sess[q] \in P!Pins \cup {None} \cup {P!Multi(x) : x \in P!Pins}
    BY <1>5 DEF Keys
  <2> QED BY <1>3, <1>5, <2>1, LoadTypes
<1>8. hist' \in HistTypes /\ hist'.faults = hist.faults /\ hist'.half = hist.half /\ hist'.mid = hist.mid
      /\ hist'.torn = hist.torn
  BY <1>1, <1>3 DEF HistTypes
<1>9. ASSUME Admitted
      PROVE  /\ \A b \in has : P!RefOf(b) \notin cache.old /\ cache.wrap[P!RefOf(b)] # None
             /\ hist.faults = 0 => \A b \in has : LET q == P!RefOf(b) IN ram.sess[q] = cache.pin[q] /\ By(cache.wrap[q], cache.pin[q])
  BY <1>2, <1>9 DEF Admitted
<1> HIDE DEF next, dek
<1>10. CASE dek = None
  <2>1. op' = P!Idle /\ ram' = P!Session(has, ram.sess)
    BY <1>1, <1>10
  <2>2. ram' \in RamTypes /\ (Admitted => Admitted')
    BY <1>1, <1>2, <1>3, <1>8, <2>1, FewerSessions
  <2>3. Calm' /\ (PinsThere => PinsThere')
    BY <1>1, <2>1, IdleFacts
  <2>4. ~hist'.torn => \E d \in DrawnDeks : Whole(cache', d) /\ PinsThere' /\ Admitted'
    BY <1>1, <1>3, <1>8, <2>2, <2>3
  <2>5. ~hist.half => Agrees(cache')
    BY <1>1, <1>3
  <2> QED BY <1>1, <1>3, <1>8, <2>2, <2>3, <2>4, <2>5, CalmStep
<1>11. CASE dek # None
  <2>1. op' = [P!Idle EXCEPT !.cmd = cmd, !.pc = "stage", !.ref = r, !.pin = p, !.dek = dek, !.snap = P!Blank]
        /\ ram' = P!Session(has, next)
    BY <1>1, <1>11
  <2>2. ram' \in RamTypes /\ ram'.has = has /\ \A b \in has : ram'.sess[P!RefOf(b)] = next[P!RefOf(b)]
    BY <1>5, <1>6, <2>1, SessionIs
  <2>3. /\ op' \in PinOps /\ op'.pc = "stage" /\ op'.cmd = cmd /\ op'.pin = p /\ op'.dek = dek /\ op'.ref = r
    <3>1. "stage" \in PinPcs /\ cmd \in PinCmds
      BY DEF PinPcs, PinCmds, Replacing
    <3> QED BY <1>4, <1>7, <2>1, <3>1, IdleOp DEF PinOps
  <2>4. ASSUME NEW d \in DrawnDeks, Whole(cache, d), Admitted, PinsThere PROVE op'.dek = d /\ Granted'
    <3>1. /\ \A b \in has : P!RefOf(b) \notin cache.old /\ cache.wrap[P!RefOf(b)] # None
          /\ hist.faults = 0 => \A b \in has : LET q == P!RefOf(b) IN ram.sess[q] = cache.pin[q] /\ By(cache.wrap[q], cache.pin[q])
      BY <1>9, <2>4
    <3>2. dek = d
      BY <1>3, <1>5, <1>11, <2>4, <3>1, LoadsIt DEF Whole, dek
    <3>3. hist'.faults = 0 => \A b \in ram'.has : LET q == P!RefOf(b) IN
              IF q = r THEN ram'.sess[q] = p ELSE ram'.sess[q] = cache'.pin[q] /\ By(cache'.wrap[q], cache'.pin[q])
      <4> SUFFICES ASSUME hist.faults = 0, NEW b \in has
                   PROVE LET q == P!RefOf(b) IN
                         IF q = r THEN ram'.sess[q] = p ELSE ram'.sess[q] = cache.pin[q] /\ By(cache.wrap[q], cache.pin[q])
        BY <1>1, <1>8, <2>2 DEF By
      <4>1. P!RefOf(b) \in P!Refs /\ ram'.sess[P!RefOf(b)] = next[P!RefOf(b)]
        BY <1>5, <2>2
      <4> QED BY <1>6, <3>1, <4>1
    <3>4. \A b \in ram'.has : P!RefOf(b) \notin cache'.old /\ cache'.wrap[P!RefOf(b)] # None
      BY <1>1, <2>2, <3>1
    <3>5. Granted'
      BY <2>3, <3>3, <3>4 DEF Granted
    <3> QED BY <2>3, <3>2, <3>5
  <2> QED BY <1>1, <1>2, <1>4, <1>8, <1>11, <2>2, <2>3, <2>4, StageStarts
<1> QED BY <1>10, <1>11

LEMMA UnblockByPw3Step == ASSUME PinInv, NEW p \in P!Sent, P!UnblockByPw3(p) PROVE PinInv'
<1>1. op = P!Idle /\ P!Replace("unblock", "pw1", p, ram.has \ {"pw1"}, cache)
  BY DEF P!UnblockByPw3
<1> QED BY <1>1, ReplaceStep DEF P!Refs

LEMMA PutRcStep == ASSUME PinInv, NEW p \in P!Sent, P!PutRc(p) PROVE PinInv'
<1>1. op = P!Idle /\ P!Replace("putrc", "rc", p, ram.has \ {"rc"}, cache)
  BY DEF P!PutRc
<1> QED BY <1>1, ReplaceStep DEF P!Refs

LEMMA PutKdfStep == ASSUME PinInv, NEW k \in {"off", "on"}, P!PutKdf(k) PROVE PinInv'
<1> DEFINE init == IF k = "on" THEN KdfInit ELSE Default
           dek == P!LoadDek(cache, ram.has, ram.sess)
<1>1. /\ op = P!Idle
      /\ op' = (IF dek = None THEN P!Idle
                ELSE [P!Idle EXCEPT !.cmd = "kdf", !.pc = "stage", !.ref = "pw3", !.pin = init, !.dek = dek, !.snap = cache])
      /\ ram' = P!Session(ram.has, ram.sess)
      /\ cache' = (IF dek = None THEN cache ELSE [cache EXCEPT !.kdf = k])
      /\ hist' = [hist EXCEPT !.commands = @ + 1] /\ UNCHANGED flash
  <2> DEFINE on == [cache EXCEPT !.kdf = k]
  <2>1. op = P!Idle /\ P!Replace("kdf", "pw3", init, ram.has, on)
    BY DEF P!PutKdf
  <2> HIDE DEF init, on
  <2>2. /\ op' = (IF dek = None THEN P!Idle
                  ELSE [P!Idle EXCEPT !.cmd = "kdf", !.pc = "stage", !.ref = "pw3", !.pin = init, !.dek = dek, !.snap = cache])
        /\ ram' = P!Session(ram.has, ram.sess)
        /\ cache' = (IF dek = None THEN cache ELSE on)
        /\ hist' = [hist EXCEPT !.commands = @ + 1] /\ UNCHANGED flash
    <3>1. P!LoadDek(on, ram.has, ram.sess) = dek
      <4>1. on.wrap = cache.wrap /\ on.slot = cache.slot
        BY TypesOf DEF on, PinFiles
      <4> QED BY <4>1 DEF P!LoadDek, P!OldDek
    <3> HIDE DEF dek
    <3>2. op' = (IF dek = None THEN P!Idle
                 ELSE [P!Idle EXCEPT !.cmd = "kdf", !.pc = "stage", !.ref = "pw3", !.pin = init, !.dek = dek, !.snap = cache])
      BY <2>1, <3>1 DEF P!Replace
    <3>3. ram' = P!Session(ram.has, ram.sess)
      BY <2>1, <3>1 DEF P!Replace
    <3>4. cache' = IF dek = None THEN cache ELSE on
      BY <2>1, <3>1 DEF P!Replace, P!Put
    <3>5. hist' = [hist EXCEPT !.commands = @ + 1] /\ UNCHANGED flash
      BY <2>1 DEF P!Replace, P!Counted
    <3> QED BY <3>2, <3>3, <3>4, <3>5
  <2> QED BY <2>1, <2>2 DEF on
<1>2. op.pc = "idle"
  BY <1>1, IdleOp
<1>3. /\ cache \in PinFiles /\ flash \in PinFiles /\ hist \in HistTypes /\ FormInv /\ DekInv
      /\ ram \in RamTypes /\ (~hist.half => Agrees(cache))
      /\ ~hist.torn => \E d \in DrawnDeks : Whole(cache, d) /\ Admitted /\ PinsThere
  BY <1>2, CalmFacts, TypesOf
<1>4. init \in P!Pins /\ init # None /\ init \in (IF k = "on" THEN KdfPins ELSE RawPins)
  BY PinNumbers
<1>5. ram.has \in SUBSET P!Accesses /\ ram.sess \in Keys /\ ram.drawn \in 1 .. MaxDeks
  BY <1>3 DEF RamTypes
<1>6. dek \in Deks \cup {None}
  <2>1. \A q \in P!Refs : ram.sess[q] \in P!Pins \cup {None} \cup {P!Multi(x) : x \in P!Pins}
    BY <1>5 DEF Keys
  <2> QED BY <1>3, <1>5, <2>1, LoadTypes
<1>7. hist' \in HistTypes /\ hist'.faults = hist.faults /\ hist'.half = hist.half /\ hist'.mid = hist.mid
      /\ hist'.torn = hist.torn
  BY <1>1, <1>3 DEF HistTypes
<1>8. ram' \in RamTypes /\ ram'.has = ram.has
  BY <1>1, <1>5, SessionIs
<1> HIDE DEF init, dek
<1>9. CASE dek = None
  <2>1. op' = P!Idle /\ UNCHANGED cache
    BY <1>1, <1>9
  <2>2. Admitted => Admitted'
    BY <1>1, <1>2, <1>3, <1>7, <2>1, FewerSessions
  <2>3. Calm' /\ (PinsThere => PinsThere')
    BY <1>1, <2>1, IdleFacts
  <2>4. ~hist'.torn => \E d \in DrawnDeks : Whole(cache', d) /\ PinsThere' /\ Admitted'
    BY <1>3, <1>7, <2>1, <2>2, <2>3
  <2>5. ~hist.half => Agrees(cache')
    BY <1>3, <2>1
  <2> QED BY <1>1, <1>3, <1>7, <1>8, <2>1, <2>3, <2>4, <2>5, CalmStep
<1>10. CASE dek # None
  <2>1. op' = [P!Idle EXCEPT !.cmd = "kdf", !.pc = "stage", !.ref = "pw3", !.pin = init, !.dek = dek, !.snap = cache]
        /\ cache' = [cache EXCEPT !.kdf = k]
    BY <1>1, <1>10
  <2>2. /\ cache' \in PinFiles /\ cache'.old = cache.old /\ cache'.pin = cache.pin /\ cache'.wrap = cache.wrap
        /\ cache'.slot = cache.slot /\ cache'.txn = cache.txn /\ cache'.key = cache.key /\ cache'.kdf = k
    BY <1>3, <2>1 DEF PinFiles
  <2>3. /\ op' \in PinOps /\ op'.pc = "stage" /\ op'.cmd = "kdf" /\ op'.pin = init /\ op'.dek = dek /\ op'.ref = "pw3"
        /\ op'.snap = cache
    <3>1. "stage" \in PinPcs /\ "kdf" \in PinCmds
      BY DEF PinPcs, PinCmds, Replacing
    <3> QED BY <1>3, <1>4, <1>6, <2>1, <3>1, IdleOp DEF PinOps, P!Refs
  <2>4. PinTypes'
    <3>1. PinShaped' /\ Reseeded'
      BY <1>4, <1>10, <2>3 DEF PinShaped, Reseeded, Missing, Clearings, Replacing, Undos, RcPcs
    <3> QED BY <1>1, <1>3, <1>7, <1>8, <2>2, <2>3, <3>1 DEF PinTypes, HistTypes, RamTypes, Keys
  <2>5. FormInv'
    <3>1. Agrees(cache) => Agrees(op.snap)'
      BY <2>3 DEF Agrees, SentBy
    <3>2. ~hist.half => Announced'
      BY <1>3, <1>4, <2>2, <2>3, <3>1 DEF Announced, SentBy, Undos
    <3> QED BY <1>1, <1>3, <1>7, <3>2, FormKept
  <2>6. ~hist.torn => \E d \in DrawnDeks : Standing(d)'
    <3> SUFFICES ASSUME ~hist.torn PROVE \E d \in DrawnDeks : Standing(d)'
      OBVIOUS
    <3>1. PICK d \in DrawnDeks : Whole(cache, d) /\ Admitted /\ PinsThere
      BY <1>3
    <3>2. OneDek(cache, d) /\ "rc" \notin cache.old /\ (\A q \in P!Refs : Fitting(cache, q))
          /\ cache.pin["pw1"] # None /\ cache.pin["pw3"] # None
      BY <1>2, <3>1 DEF Whole, PinsThere
    <3>3. dek = d
      <4>1. \A b \in ram.has : cache.wrap[P!RefOf(b)] # None
        BY <3>1 DEF Admitted
      <4> QED BY <1>3, <1>5, <1>10, <3>2, <4>1, LoadsIt DEF dek
    <3>4. OneDek(cache, d)'
      BY <2>2, <3>2 DEF OneDek
    <3>5. \A r \in P!Refs : Holding(r)'
      BY <2>2, <2>3, <3>2 DEF Holding, Fitting, Direct, By
    <3>6. Exchanging'
      BY <2>3 DEF Exchanging, RcPcs
    <3>7. Granted'
      BY <1>8, <2>2, <2>3, <3>1 DEF Granted, Admitted
    <3>8. Snapped(d)'
      <4>1. Whole(op.snap, d)'
        BY <2>3, <3>1 DEF Whole, OneDek, Fitting, Direct, By
      <4> QED BY <2>2, <2>3, <3>2, <4>1, BackPcs DEF Snapped, Undos
    <3>9. cache'.pin["pw1"] # None /\ cache'.pin["pw3"] # None /\ "rc" \notin cache'.old
      BY <2>2, <3>2
    <3> QED BY <2>3, <3>3, <3>4, <3>5, <3>6, <3>7, <3>8, <3>9 DEF Standing
  <2>7. DekInv'
    BY <1>1, <1>3, <1>7, <2>3, <2>6, DekKept
  <2> QED BY <2>4, <2>5, <2>7 DEF PinInv
<1> QED BY <1>9, <1>10

\* While a reference is being replaced
LEMMA ReplacingFacts ==
    ASSUME PinInv, op.pc \in Replacing
    PROVE  /\ cache \in PinFiles /\ flash \in PinFiles /\ op \in PinOps /\ hist \in HistTypes /\ ram \in RamTypes
           /\ PinShaped /\ Reseeded /\ FormInv /\ DekInv /\ op.cmd # "terminate"
           /\ op.ref \in P!Refs /\ op.pin \in P!Pins /\ op.pin # None /\ op.dek \in Deks /\ op.dek # None
           /\ op.cmd = "kdf" => op.ref # "rc"
           /\ ~hist.half => /\ op.pin \in SentBy(cache)
                            /\ IF op.cmd = "kdf" THEN Agrees(op.snap) ELSE Agrees(cache)
           /\ ~hist.torn => \E d \in DrawnDeks : Standing(d)
<1>1. /\ cache \in PinFiles /\ flash \in PinFiles /\ op \in PinOps /\ hist \in HistTypes /\ ram \in RamTypes
      /\ PinShaped /\ Reseeded /\ FormInv /\ DekInv
  BY TypesOf
<1>2. op.cmd # "terminate" /\ op.pin # None /\ op.dek # None /\ (op.cmd = "kdf" => op.ref # "rc")
  BY <1>1 DEF PinShaped, Replacing, Clearings
<1>3. op.ref \in P!Refs /\ op.pin \in P!Pins /\ op.dek \in Deks
  BY <1>1, <1>2 DEF PinOps
<1>4. op.pc \notin Undos /\ op.pc \notin {"scandek1", "scandek3"}
  BY DEF Replacing, Undos
<1>5. ~hist.half => /\ op.pin \in SentBy(cache)
                    /\ IF op.cmd = "kdf" THEN Agrees(op.snap) ELSE Agrees(cache)
  BY <1>1, <1>2, <1>4 DEF FormInv, Announced
<1>6. ~hist.torn => \E d \in DrawnDeks : Standing(d)
  BY <1>1, <1>2, <1>4, DekStands
<1> QED BY <1>1, <1>2, <1>3, <1>5, <1>6

\* A step on the way
LEMMA ReplacingKept ==
    ASSUME PinInv, op.pc \in Replacing, op'.pc \in Replacing, UNCHANGED <<flash, ram, hist>>,
           op' \in PinOps, op'.cmd = op.cmd, op'.pin = op.pin, op'.dek = op.dek, op'.snap = op.snap,
           op'.cmd = "kdf" => op'.ref # "rc",
           cache' \in PinFiles, cache'.kdf = cache.kdf, cache'.slot = cache.slot,
           \A q \in P!Refs : q # op.ref => cache'.pin[q] = cache.pin[q],
           cache'.pin[op.ref] \in {cache.pin[op.ref], op.pin}, Reseeded',
           \A d \in DrawnDeks : Standing(d) =>
               OneDek(cache', d) /\ "rc" \notin cache'.old /\ (\A q \in P!Refs : Holding(q)') /\ Exchanging' /\ Granted'
    PROVE  PinInv'
<1>1. /\ cache \in PinFiles /\ flash \in PinFiles /\ op \in PinOps /\ hist \in HistTypes /\ ram \in RamTypes
      /\ PinShaped /\ FormInv /\ DekInv /\ op.cmd # "terminate"
      /\ op.ref \in P!Refs /\ op.pin \in P!Pins /\ op.pin # None /\ op.dek # None
      /\ op.cmd = "kdf" => op.ref # "rc"
      /\ ~hist.half => /\ op.pin \in SentBy(cache)
                       /\ IF op.cmd = "kdf" THEN Agrees(op.snap) ELSE Agrees(cache)
      /\ ~hist.torn => \E d \in DrawnDeks : Standing(d)
  BY ReplacingFacts
<1>2. op'.pc \notin Clearings \cup Undos \cup {"idle", "scandek1", "scandek3", "scanpin1", "scanpin3", "limits", "migrate"} \cup RcPcs
  BY DEF Clearings, Replacing, Undos, RcPcs
<1>3. PinTypes'
  <2>1. PinShaped'
    BY <1>1, <1>2 DEF PinShaped, Missing, RcPcs
  <2> QED BY <1>1, <2>1 DEF PinTypes, HistTypes, RamTypes, Keys
<1>4. \A q \in P!Refs : cache'.pin[q] \in {cache.pin[q], op.pin} /\ (q # op.ref => cache'.pin[q] = cache.pin[q])
  BY <1>1
<1>5. FormInv'
  <2>1. CASE op.cmd = "kdf"
    <3>1. Agrees(op.snap) => Agrees(op.snap)'
      BY DEF Agrees, SentBy
    <3>2. ~hist.half => Announced'
      BY <1>1, <1>2, <2>1, <3>1 DEF Announced, SentBy
    <3> QED BY <1>1, <3>2, FormKept
  <2>2. CASE op.cmd # "kdf"
    <3>1. ~hist.half => Agrees(cache')
      <4>1. cache'.pin["pw1"] = None => cache.pin["pw1"] = None
        BY <1>1, <1>4 DEF P!Refs
      <4>2. cache'.pin["pw3"] = None => cache.pin["pw3"] = None
        BY <1>1, <1>4 DEF P!Refs
      <4> QED BY <1>1, <1>4, <2>2, <4>1, <4>2 DEF Agrees, SentBy
    <3>2. Agrees(cache') => Agrees(cache)'
      BY DEF Agrees, SentBy
    <3>3. ~hist.half => Announced'
      BY <1>1, <1>2, <2>2, <3>1, <3>2 DEF Announced, SentBy
    <3> QED BY <1>1, <3>3, FormKept
  <2> QED BY <2>1, <2>2
<1>6. ~hist.torn => \E d \in DrawnDeks : Standing(d)'
  <2> SUFFICES ASSUME ~hist.torn PROVE \E d \in DrawnDeks : Standing(d)'
    OBVIOUS
  <2>1. PICK d \in DrawnDeks : Standing(d)
    BY <1>1
  <2>2. OneDek(cache', d) /\ "rc" \notin cache'.old /\ (\A q \in P!Refs : Holding(q)') /\ Exchanging' /\ Granted'
    BY <2>1
  <2>3. OneDek(cache, d)'
    BY <2>2 DEF OneDek
  <2>4. cache'.pin["pw1"] # None /\ cache'.pin["pw3"] # None
    <3>1. cache.pin["pw1"] # None /\ cache.pin["pw3"] # None
      BY <2>1 DEF Standing, Replacing
    <3> QED BY <1>1, <1>4, <3>1 DEF P!Refs
  <2>5. Snapped(d)'
    BY <1>2, <2>1, SnapHeld DEF Standing
  <2>6. op.dek = d
    BY <2>1 DEF Standing
  <2> QED BY <1>2, <2>2, <2>3, <2>4, <2>5, <2>6 DEF Standing
<1>7. DekInv'
  BY <1>1, <1>6, DekKept
<1> QED BY <1>3, <1>5, <1>7 DEF PinInv

LEMMA StageStep == ASSUME PinInv, P!Stage PROVE PinInv'
<1> DEFINE r == op.ref
           w == P!Wrap(op.pin, op.dek)
           txn == [cache.txn EXCEPT ![r] = w]
           live == P!Live(cache, r)
<1>1. /\ op.pc = "stage" /\ cache' = [cache EXCEPT !.txn = txn] /\ op' = [op EXCEPT !.pc = "pin", !.live = live]
      /\ UNCHANGED <<flash, ram, hist>>
  BY DEF P!Stage, P!At, P!Put, P!Staged
<1>2. op.pc \in Replacing
  BY <1>1 DEF Replacing
<1>3. /\ cache \in PinFiles /\ op \in PinOps /\ Reseeded /\ r \in P!Refs /\ op.pin \in P!Pins /\ op.dek \in Deks
      /\ op.cmd = "kdf" => op.ref # "rc"
  BY <1>2, ReplacingFacts
<1>4. w \in MayWrap /\ w.by = op.pin /\ w.dek = op.dek /\ live \in BOOLEAN
  BY <1>3, PinNumbers DEF P!Live
<1> HIDE DEF w, live
<1>5. txn \in [P!Refs -> MayWrap] /\ txn[r] = w /\ \A q \in P!Refs : q # r => txn[q] = cache.txn[q]
  BY <1>3, <1>4 DEF PinFiles
<1>6. /\ op' \in PinOps /\ op'.pc = "pin" /\ op'.live = live /\ op'.cmd = op.cmd /\ op'.ref = r /\ op'.pin = op.pin
      /\ op'.dek = op.dek /\ op'.snap = op.snap
  BY <1>1, <1>3, <1>4 DEF PinOps, PinPcs, Replacing
<1> HIDE DEF txn
<1>7. cache' \in PinFiles /\ cache'.old = cache.old /\ cache'.pin = cache.pin /\ cache'.wrap = cache.wrap
      /\ cache'.slot = cache.slot /\ cache'.txn = txn /\ cache'.key = cache.key /\ cache'.kdf = cache.kdf
  BY <1>1, <1>3, <1>5 DEF PinFiles
<1>8. Reseeded'
  BY <1>1, <1>3, <1>6, <1>7 DEF Reseeded, Undos, RcPcs
<1>9. ASSUME NEW d \in DrawnDeks, Standing(d)
      PROVE  OneDek(cache', d) /\ "rc" \notin cache'.old /\ (\A q \in P!Refs : Holding(q)') /\ Exchanging' /\ Granted'
  <2>1. op.dek = d /\ By(w, op.pin) /\ w.dek = d
    BY <1>2, <1>3, <1>4, <1>9, PinNumbers DEF Standing, By, w
  <2>2. Whole(cache, d)
    BY <1>1, <1>9, AtRest DEF Undos
  <2>3. OneDek(cache', d)
    BY <1>5, <1>7, <2>1, <2>2 DEF Whole, OneDek
  <2>4. Fitting(cache', r) \/ live
    <3>1. Fitting(cache, r) /\ (cache.pin[r] = None => r = "rc")
      BY <1>1, <1>3, <1>9, <2>2 DEF Whole, Standing, P!Refs
    <3>2. cache.pin[r] = None \/ Direct(cache, r) \/ live
      BY <1>3, <3>1, SettledDirect DEF live
    <3> QED BY <1>7, <3>1, <3>2 DEF Fitting, Direct
  <2>5. \A q \in P!Refs : Holding(q)'
    <3> SUFFICES ASSUME NEW q \in P!Refs PROVE Holding(q)'
      OBVIOUS
    <3>1. CASE q = r
      <4>2. Fitting(cache', q) => Fitting(cache, q)'
        BY DEF Fitting, Direct, By
      <4> QED BY <1>6, <2>4, <3>1, <4>2 DEF Holding
    <3>2. CASE q # r
      <4>1. Fitting(cache, q)
        BY <2>2 DEF Whole
      <4>2. Fitting(cache, q)'
        BY <1>5, <1>7, <3>2, <4>1 DEF Fitting, Direct, By
      <4> QED BY <1>6, <4>2 DEF Holding
    <3> QED BY <3>1, <3>2
  <2>6. Exchanging'
    BY <1>1, <1>5, <1>6, <1>7, <1>9, <2>1 DEF Standing, Exchanging, By, Undos, RcPcs
  <2>7. Granted'
    BY <1>1, <1>6, <1>7, <1>9 DEF Standing, Granted, By, r
  <2> QED BY <1>7, <2>2, <2>3, <2>5, <2>6, <2>7 DEF Whole
<1>10. op'.pc \in Replacing /\ cache'.pin[op.ref] \in {cache.pin[op.ref], op.pin}
       /\ \A q \in P!Refs : q # op.ref => cache'.pin[q] = cache.pin[q]
  BY <1>6, <1>7 DEF Replacing
<1> QED BY <1>1, <1>2, <1>3, <1>6, <1>7, <1>8, <1>9, <1>10, ReplacingKept

LEMMA PutPinStep == ASSUME PinInv, P!PutPin PROVE PinInv'
<1> DEFINE r == op.ref
           pin == [cache.pin EXCEPT ![r] = op.pin]
           old == cache.old \ {r}
<1>1. /\ op.pc = "pin" /\ cache' = [cache EXCEPT !.pin = pin, !.old = old] /\ op' = [op EXCEPT !.pc = "wrap"]
      /\ UNCHANGED <<flash, ram, hist>>
  BY DEF P!PutPin, P!At, P!Put, P!Goto, P!NewVerifier
<1>2. op.pc \in Replacing
  BY <1>1 DEF Replacing
<1>3. /\ cache \in PinFiles /\ op \in PinOps /\ Reseeded /\ r \in P!Refs /\ op.pin \in P!Pins /\ op.pin # None
      /\ op.cmd = "kdf" => op.ref # "rc"
  BY <1>2, ReplacingFacts
<1>4. /\ pin \in [P!Refs -> P!Pins \cup {None}] /\ old \in SUBSET P!Refs
      /\ pin[r] = op.pin /\ r \notin old /\ \A q \in P!Refs : q # r => pin[q] = cache.pin[q] /\ (q \in old <=> q \in cache.old)
  BY <1>3 DEF PinFiles
<1>5. /\ op' \in PinOps /\ op'.pc = "wrap" /\ op'.cmd = op.cmd /\ op'.ref = r /\ op'.pin = op.pin
      /\ op'.dek = op.dek /\ op'.snap = op.snap
  BY <1>1, <1>3 DEF PinOps, PinPcs, Replacing
<1> HIDE DEF pin, old
<1>6. cache' \in PinFiles /\ cache'.old = old /\ cache'.pin = pin /\ cache'.wrap = cache.wrap
      /\ cache'.slot = cache.slot /\ cache'.txn = cache.txn /\ cache'.key = cache.key /\ cache'.kdf = cache.kdf
  BY <1>1, <1>3, <1>4 DEF PinFiles
<1>7. Reseeded'
  <2> SUFFICES ASSUME op.cmd = "kdf"
               PROVE  cache'.pin["pw3"] = op.pin /\ (r = "pw1" => cache'.pin["pw1"] = op.pin)
    BY <1>5 DEF Reseeded, RcPcs
  <2>1. CASE r = "pw1"
    BY <1>1, <1>3, <1>4, <1>6, <2>1 DEF Reseeded, Undos, P!Refs
  <2>2. CASE r = "pw3"
    BY <1>4, <1>6, <2>2
  <2> QED BY <1>3, <2>1, <2>2 DEF P!Refs
<1>8. ASSUME NEW d \in DrawnDeks, Standing(d)
      PROVE  OneDek(cache', d) /\ "rc" \notin cache'.old /\ (\A q \in P!Refs : Holding(q)') /\ Exchanging' /\ Granted'
  <2>1. By(cache.txn[r], op.pin)
    BY <1>1, <1>8 DEF Standing, Exchanging
  <2>2. OneDek(cache', d) /\ "rc" \notin cache'.old
    BY <1>4, <1>6, <1>8 DEF Standing, OneDek, P!Refs
  <2>3. \A q \in P!Refs : Holding(q)'
    <3> SUFFICES ASSUME NEW q \in P!Refs PROVE Holding(q)'
      OBVIOUS
    <3>1. CASE q = r
      <4>1. Fitting(cache, q)'
        BY <1>3, <1>4, <1>6, <2>1, <3>1 DEF Fitting, By
      <4> QED BY <1>5, <4>1 DEF Holding
    <3>2. CASE q # r
      <4>1. Fitting(cache, q)
        BY <1>1, <1>8, <3>2 DEF Standing, Holding, Undos
      <4>2. Fitting(cache, q)'
        BY <1>4, <1>6, <3>2, <4>1 DEF Fitting, Direct, By
      <4> QED BY <1>5, <4>2 DEF Holding
    <3> QED BY <3>1, <3>2
  <2>4. Exchanging'
    BY <1>1, <1>4, <1>5, <1>6, <1>8, <2>1 DEF Standing, Exchanging, By, Undos, RcPcs
  <2>5. Granted'
    <3>1. \A b \in ram.has : P!RefOf(b) \in P!Refs
      BY ReplacingFacts, <1>2, RefsOfAccesses DEF RamTypes
    <3>2. \A b \in ram.has : P!RefOf(b) \notin cache.old /\ cache.wrap[P!RefOf(b)] # None
      BY <1>1, <1>8 DEF Standing, Granted
    <3>3. hist.faults = 0 /\ op.cmd # "kdf" => \A b \in ram.has : LET q == P!RefOf(b) IN
              IF q = r THEN ram.sess[q] = op.pin ELSE ram.sess[q] = cache.pin[q] /\ By(cache.wrap[q], cache.pin[q])
      BY <1>1, <1>8 DEF Standing, Granted
    <3>4. \A b \in ram'.has : P!RefOf(b) \notin cache'.old /\ cache'.wrap[P!RefOf(b)] # None
      BY <1>1, <1>4, <1>6, <3>1, <3>2
    <3>5. hist'.faults = 0 /\ op'.cmd # "kdf" => \A b \in ram'.has : LET q == P!RefOf(b) IN
              IF q = r THEN ram'.sess[q] = op'.pin ELSE ram'.sess[q] = cache'.pin[q] /\ By(cache'.wrap[q], cache'.pin[q])
      BY <1>1, <1>4, <1>5, <1>6, <3>1, <3>3
    <3> QED BY <1>5, <3>4, <3>5 DEF Granted
  <2> QED BY <2>2, <2>3, <2>4, <2>5
<1>9. op'.pc \in Replacing /\ cache'.pin[op.ref] \in {cache.pin[op.ref], op.pin}
      /\ \A q \in P!Refs : q # op.ref => cache'.pin[q] = cache.pin[q]
  BY <1>4, <1>5, <1>6 DEF Replacing, r
<1> QED BY <1>1, <1>2, <1>3, <1>5, <1>6, <1>7, <1>8, <1>9, ReplacingKept

LEMMA PutWrapStep == ASSUME PinInv, P!PutWrap PROVE PinInv'
<1> DEFINE r == op.ref
           w == P!Wrap(op.pin, op.dek)
           wrap == [cache.wrap EXCEPT ![r] = w]
<1>1. /\ op.pc = "wrap" /\ cache' = [cache EXCEPT !.wrap = wrap] /\ op' = [op EXCEPT !.pc = "unstage"]
      /\ UNCHANGED <<flash, ram, hist>>
  BY DEF P!PutWrap, P!At, P!Put, P!Goto
<1>2. op.pc \in Replacing
  BY <1>1 DEF Replacing
<1>3. /\ cache \in PinFiles /\ op \in PinOps /\ Reseeded /\ r \in P!Refs /\ op.pin \in P!Pins /\ op.pin # None
      /\ op.dek \in Deks
      /\ op.cmd = "kdf" => op.ref # "rc"
  BY <1>2, ReplacingFacts
<1>4. w \in MayWrap /\ w.by = op.pin /\ w.dek = op.dek
  BY <1>3, PinNumbers
<1> HIDE DEF w
<1>5. wrap \in [P!Refs -> MayWrap] /\ wrap[r] = w /\ \A q \in P!Refs : q # r => wrap[q] = cache.wrap[q]
  BY <1>3, <1>4 DEF PinFiles
<1>6. /\ op' \in PinOps /\ op'.pc = "unstage" /\ op'.cmd = op.cmd /\ op'.ref = r /\ op'.pin = op.pin
      /\ op'.dek = op.dek /\ op'.snap = op.snap
  BY <1>1, <1>3 DEF PinOps, PinPcs, Replacing
<1> HIDE DEF wrap
<1>7. cache' \in PinFiles /\ cache'.old = cache.old /\ cache'.pin = cache.pin /\ cache'.wrap = wrap
      /\ cache'.slot = cache.slot /\ cache'.txn = cache.txn /\ cache'.key = cache.key /\ cache'.kdf = cache.kdf
  BY <1>1, <1>3, <1>5 DEF PinFiles
<1>8. Reseeded'
  BY <1>1, <1>3, <1>6, <1>7 DEF Reseeded, Undos, RcPcs
<1>9. ASSUME NEW d \in DrawnDeks, Standing(d)
      PROVE  OneDek(cache', d) /\ "rc" \notin cache'.old /\ (\A q \in P!Refs : Holding(q)') /\ Exchanging' /\ Granted'
  <2>1. By(w, op.pin) /\ w.dek = d /\ w # None
    BY <1>2, <1>3, <1>4, <1>9, PinNumbers DEF Standing, By, w
  <2>2. cache.pin[r] = op.pin /\ r \notin cache.old
    BY <1>1, <1>9 DEF Standing, Exchanging
  <2>3. OneDek(cache', d) /\ "rc" \notin cache'.old
    BY <1>5, <1>7, <1>9, <2>1 DEF Standing, OneDek
  <2>4. \A q \in P!Refs : Holding(q)'
    <3> SUFFICES ASSUME NEW q \in P!Refs PROVE Holding(q)'
      OBVIOUS
    <3>1. CASE q = r
      <4>1. Fitting(cache, q)'
        BY <1>3, <1>5, <1>7, <2>1, <2>2, <3>1 DEF Fitting, Direct, By
      <4> QED BY <1>6, <4>1 DEF Holding
    <3>2. CASE q # r
      <4>1. Fitting(cache, q)
        BY <1>1, <1>9, <3>2 DEF Standing, Holding, Undos
      <4>2. Fitting(cache, q)'
        BY <1>5, <1>7, <3>2, <4>1 DEF Fitting, Direct, By
      <4> QED BY <1>6, <4>2 DEF Holding
    <3> QED BY <3>1, <3>2
  <2>5. Exchanging'
    <3>1. By(cache'.wrap[r], op.pin)
      BY <1>5, <1>7, <2>1
    <3>2. op.cmd = "kdf" /\ r = "pw1" => By(cache'.wrap["pw3"], op.pin)
      BY <1>1, <1>5, <1>7, <1>9 DEF Standing, Exchanging, Undos, P!Refs
    <3> QED BY <1>6, <1>7, <2>2, <3>1, <3>2 DEF Exchanging, By
  <2>6. Granted'
    <3>1. \A b \in ram.has : P!RefOf(b) \in P!Refs
      BY ReplacingFacts, <1>2, RefsOfAccesses DEF RamTypes
    <3>2. \A b \in ram.has : P!RefOf(b) \notin cache.old /\ cache.wrap[P!RefOf(b)] # None
      BY <1>1, <1>9 DEF Standing, Granted
    <3>3. hist.faults = 0 /\ op.cmd # "kdf" => \A b \in ram.has : LET q == P!RefOf(b) IN
              IF q = r THEN ram.sess[q] = op.pin ELSE ram.sess[q] = cache.pin[q] /\ By(cache.wrap[q], cache.pin[q])
      BY <1>1, <1>9 DEF Standing, Granted
    <3>4. \A b \in ram'.has : P!RefOf(b) \notin cache'.old /\ cache'.wrap[P!RefOf(b)] # None
      BY <1>1, <1>5, <1>7, <2>1, <3>1, <3>2
    <3>5. hist'.faults = 0 /\ op'.cmd # "kdf" => \A b \in ram'.has : LET q == P!RefOf(b) IN
              ram'.sess[q] = cache'.pin[q] /\ By(cache'.wrap[q], cache'.pin[q])
      BY <1>1, <1>5, <1>6, <1>7, <2>1, <2>2, <3>1, <3>3
    <3> QED BY <1>6, <3>4, <3>5 DEF Granted
  <2> QED BY <2>3, <2>4, <2>5, <2>6
<1>10. op'.pc \in Replacing /\ cache'.pin[op.ref] \in {cache.pin[op.ref], op.pin}
       /\ \A q \in P!Refs : q # op.ref => cache'.pin[q] = cache.pin[q]
  BY <1>6, <1>7 DEF Replacing
<1> QED BY <1>1, <1>2, <1>3, <1>6, <1>7, <1>8, <1>9, <1>10, ReplacingKept

\* A command that ends with one of the references just replaced
LEMMA ReplacedCalm ==
    ASSUME PinInv, op.pc \in {"unstage", "tries"}, op.cmd # "kdf", op' = P!Idle, UNCHANGED <<flash, ram, hist>>,
           cache' \in PinFiles, cache'.pin = cache.pin, cache'.old = cache.old, cache'.wrap = cache.wrap,
           cache'.kdf = cache.kdf, \A d \in DrawnDeks : Standing(d) => Whole(cache', d)
    PROVE  PinInv'
<1>1. op.pc \in Replacing
  BY DEF Replacing
<1>2. /\ hist \in HistTypes /\ ram \in RamTypes
      /\ ~hist.half => Agrees(cache)
      /\ ~hist.torn => \E d \in DrawnDeks : Standing(d)
  BY <1>1, ReplacingFacts
<1>3. Calm'
  BY IdleOp DEF Calm, CalmPcs, Missing
<1>4. ~hist.half => Agrees(cache')
  BY <1>2 DEF Agrees, SentBy
<1>5. ASSUME NEW d \in DrawnDeks, Standing(d) PROVE PinsThere' /\ Admitted'
  <2>1. PinsThere'
    BY <1>5, IdleOp DEF Standing, PinsThere
  <2>2. Admitted'
    BY <1>5 DEF Standing, Granted, Admitted, By
  <2> QED BY <2>1, <2>2
<1>6. ~hist'.torn => \E d \in DrawnDeks : Whole(cache', d) /\ PinsThere' /\ Admitted'
  BY <1>2, <1>5
<1>7. hist' \in HistTypes /\ ram' \in RamTypes
  BY <1>2
<1> QED BY <1>3, <1>4, <1>6, <1>7, CalmStep

\* The transaction of a reference that was replaced is deleted.
LEMMA UnstagedWhole ==
    ASSUME PinInv, op.pc = "unstage", NEW d \in DrawnDeks, Standing(d), NEW f, f = P!Unstaged(cache, {op.ref})
    PROVE  Whole(f, d)
<1> DEFINE r == op.ref
<1>1. cache \in PinFiles /\ r \in P!Refs /\ op.pin # None
  BY ReplacingFacts DEF Replacing
<1>2. {r} \in SUBSET P!Refs
  BY <1>1
<1>3. /\ f.pin = cache.pin /\ f.old = cache.old /\ f.wrap = cache.wrap /\ f.slot = cache.slot /\ f.key = cache.key
      /\ \A q \in P!Refs : f.txn[q] = IF q \in {r} THEN None ELSE cache.txn[q]
      /\ OneDek(cache, d) => OneDek(f, d)
  BY <1>1, <1>2, UnstagedIs
<1>4. By(cache.wrap[r], op.pin) /\ cache.pin[r] = op.pin /\ r \notin cache.old
  BY DEF Standing, Exchanging
<1>5. Whole(cache, d)
  BY AtRest DEF Undos
<1>6. ASSUME NEW q \in P!Refs PROVE Fitting(f, q)
  <2>1. CASE q = r
    BY <1>1, <1>3, <1>4, <2>1 DEF Fitting, Direct
  <2>2. CASE q # r
    <3>1. Fitting(cache, q)
      BY <1>5 DEF Whole
    <3> QED BY <1>3, <2>2, <3>1 DEF Fitting, Direct
  <2> QED BY <2>1, <2>2
<1> QED BY <1>3, <1>5, <1>6 DEF Whole

LEMMA UnstageStep == ASSUME PinInv, P!Unstage PROVE PinInv'
<1> DEFINE r == op.ref
<1>1. /\ op.pc = "unstage" /\ cache' = P!Unstaged(cache, {r})
      /\ op' = (IF op.cmd = "change" THEN P!Idle ELSE [op EXCEPT !.pc = "tries"])
      /\ UNCHANGED <<flash, ram, hist>>
  BY DEF P!Unstage, P!At, P!Put, P!Goto, P!Return
<1>2. op.pc \in Replacing
  BY <1>1 DEF Replacing
<1>3. /\ cache \in PinFiles /\ op \in PinOps /\ Reseeded /\ r \in P!Refs /\ op.pin \in P!Pins /\ op.pin # None
      /\ op.cmd = "kdf" => op.ref # "rc"
  BY <1>2, ReplacingFacts
<1>4. cache'.txn[r] = None /\ \A q \in P!Refs : q # r => cache'.txn[q] = cache.txn[q]
  <2>1. {r} \in SUBSET P!Refs
    BY <1>3
  <2>2. \A q \in P!Refs : cache'.txn[q] = IF q \in {r} THEN None ELSE cache.txn[q]
    BY <1>1, <1>3, <2>1, UnstagedIs
  <2> QED BY <1>3, <2>2
<1>5. cache' \in PinFiles /\ cache'.old = cache.old /\ cache'.pin = cache.pin /\ cache'.wrap = cache.wrap
      /\ cache'.slot = cache.slot /\ cache'.key = cache.key /\ cache'.kdf = cache.kdf
  BY <1>1, <1>3, UnstagedIs
<1>6. \A d \in DrawnDeks : Standing(d) => Whole(cache', d)
  BY <1>1, UnstagedWhole
<1>7. CASE op.cmd = "change"
  <2>1. op' = P!Idle
    BY <1>1, <1>7
  <2> QED BY <1>1, <1>5, <1>6, <1>7, <2>1, ReplacedCalm
<1>8. CASE op.cmd # "change"
  <2>1. /\ op' \in PinOps /\ op'.pc = "tries" /\ op'.cmd = op.cmd /\ op'.ref = r /\ op'.pin = op.pin
        /\ op'.dek = op.dek /\ op'.snap = op.snap
    BY <1>1, <1>3, <1>8 DEF PinOps, PinPcs, Replacing
  <2>2. Reseeded'
    BY <1>1, <1>3, <1>5, <2>1 DEF Reseeded, Undos, RcPcs
  <2>3. ASSUME NEW d \in DrawnDeks, Standing(d)
        PROVE  OneDek(cache', d) /\ "rc" \notin cache'.old /\ (\A q \in P!Refs : Holding(q)') /\ Exchanging' /\ Granted'
    <3>1. Whole(cache', d)
      BY <1>6, <2>3
    <3>2. \A q \in P!Refs : Holding(q)'
      BY <2>1, <3>1 DEF Holding, Whole, Fitting, Direct, By
    <3>3. Exchanging'
      BY <1>1, <1>5, <2>1, <2>3 DEF Standing, Exchanging, By, Undos
    <3>4. Granted'
      BY <1>1, <1>5, <2>1, <2>3 DEF Standing, Granted, By
    <3> QED BY <3>1, <3>2, <3>3, <3>4 DEF Whole
  <2>4. op'.pc \in Replacing /\ cache'.pin[op.ref] \in {cache.pin[op.ref], op.pin}
        /\ \A q \in P!Refs : q # op.ref => cache'.pin[q] = cache.pin[q]
    BY <1>5, <2>1 DEF Replacing
  <2> QED BY <1>1, <1>2, <1>3, <1>5, <2>1, <2>2, <2>3, <2>4, ReplacingKept
<1> QED BY <1>7, <1>8

LEMMA ResetTriesStep == ASSUME PinInv, P!ResetTries PROVE PinInv'
<1>1. /\ op.pc = "tries" /\ cache' = P!Restored(cache, op.ref) /\ op' = P!AfterTries(op) /\ UNCHANGED <<flash, ram, hist>>
  BY DEF P!ResetTries, P!At, P!Put
<1>2. op.pc \in Replacing
  BY <1>1 DEF Replacing
<1>3. /\ cache \in PinFiles /\ flash \in PinFiles /\ op \in PinOps /\ hist \in HistTypes /\ ram \in RamTypes
      /\ PinShaped /\ Reseeded /\ FormInv /\ DekInv
      /\ op.ref \in P!Refs /\ op.pin \in P!Pins /\ op.pin # None /\ op.dek # None
      /\ op.cmd = "kdf" => op.ref # "rc"
      /\ ~hist.half => op.pin \in SentBy(cache) /\ (op.cmd = "kdf" => Agrees(op.snap))
      /\ ~hist.torn => \E d \in DrawnDeks : Standing(d)
  BY <1>2, ReplacingFacts
<1>4. cache' \in PinFiles /\ Alike(cache, cache')
  BY <1>1, <1>3, RestoredIs
<1>5. ASSUME NEW d \in DrawnDeks, Standing(d) PROVE Whole(cache', d) /\ Whole(cache, d)
  BY <1>1, <1>4, <1>5, AtRest, AlikeWhole DEF Undos
<1>6. CASE op.cmd # "kdf"
  <2>1. op' = P!Idle
    BY <1>1, <1>6 DEF P!AfterTries
  <2> QED BY <1>1, <1>4, <1>5, <1>6, <2>1, ReplacedCalm DEF Alike
<1>7. CASE op.cmd = "kdf" /\ op.ref = "pw3"
  <2>1. /\ op' \in PinOps /\ op'.pc = "stage" /\ op'.cmd = op.cmd /\ op'.ref = "pw1" /\ op'.pin = op.pin
        /\ op'.dek = op.dek /\ op'.snap = op.snap
    <3>1. op' = [op EXCEPT !.pc = "stage", !.ref = "pw1"] /\ "stage" \in PinPcs /\ "pw1" \in P!Refs
      BY <1>1, <1>7 DEF P!AfterTries, PinPcs, Replacing, P!Refs
    <3> QED BY <1>3, <3>1 DEF PinOps
  <2>2. Reseeded'
    BY <1>1, <1>3, <1>4, <1>7, <2>1 DEF Reseeded, Undos, Alike, RcPcs
  <2>3. ASSUME NEW d \in DrawnDeks, Standing(d)
        PROVE  OneDek(cache', d) /\ "rc" \notin cache'.old /\ (\A q \in P!Refs : Holding(q)') /\ Exchanging' /\ Granted'
    <3>1. Whole(cache', d)
      BY <1>5, <2>3
    <3>2. \A q \in P!Refs : Holding(q)'
      BY <2>1, <3>1 DEF Holding, Whole, Fitting, Direct, By
    <3>3. Exchanging'
      BY <1>1, <1>4, <1>7, <2>1, <2>3 DEF Standing, Exchanging, By, Alike, RcPcs
    <3>4. Granted'
      BY <1>1, <1>4, <1>7, <2>1, <2>3 DEF Standing, Granted, By, Alike
    <3> QED BY <3>1, <3>2, <3>3, <3>4 DEF Whole
  <2>4. op'.pc \in Replacing /\ cache'.pin[op.ref] \in {cache.pin[op.ref], op.pin} /\ cache'.kdf = cache.kdf
        /\ cache'.slot = cache.slot /\ (\A q \in P!Refs : q # op.ref => cache'.pin[q] = cache.pin[q])
    BY <1>4, <2>1 DEF Replacing, Alike
  <2> QED BY <1>1, <1>2, <1>4, <2>1, <2>2, <2>3, <2>4, ReplacingKept
<1>8. CASE op.cmd = "kdf" /\ op.ref # "pw3"
  <2>1. op.ref = "pw1"
    BY <1>3, <1>8 DEF P!Refs
  <2>2. /\ op' \in PinOps /\ op'.pc = "rctxn" /\ op'.cmd = "kdf" /\ op'.ref = "pw1" /\ op'.pin = op.pin
        /\ op'.dek = op.dek /\ op'.snap = op.snap
    <3>1. op' = [op EXCEPT !.pc = "rctxn"] /\ "rctxn" \in PinPcs
      BY <1>1, <1>8 DEF P!AfterTries, PinPcs, RcPcs
    <3> QED BY <1>3, <1>8, <2>1, <3>1 DEF PinOps
  <2>3. PinTypes'
    <3>1. PinShaped' /\ Reseeded'
      BY <1>1, <1>3, <1>4, <1>8, <2>1, <2>2 DEF PinShaped, Reseeded, Missing, Clearings, Replacing, Undos, RcPcs, Alike
    <3> QED BY <1>1, <1>3, <1>4, <2>2, <3>1 DEF PinTypes, HistTypes, RamTypes, Keys
  <2>4. FormInv'
    <3>1. ~hist.half => Announced'
      BY <1>3, <1>4, <1>8, <2>2 DEF Announced, Agrees, SentBy, Replacing, Undos, Alike
    <3> QED BY <1>1, <1>3, <3>1, FormKept
  <2>5. ~hist.torn => \E d \in DrawnDeks : Standing(d)'
    <3> SUFFICES ASSUME ~hist.torn PROVE \E d \in DrawnDeks : Standing(d)'
      OBVIOUS
    <3>1. PICK d \in DrawnDeks : Standing(d)
      BY <1>3
    <3>2. Whole(cache', d)
      BY <1>5, <3>1
    <3>3. \A r \in P!Refs : Holding(r)'
      BY <2>2, <3>2 DEF Holding, Whole, Fitting, Direct, By
    <3>4. Exchanging'
      BY <1>1, <1>4, <1>8, <2>1, <2>2, <3>1 DEF Standing, Exchanging, By, Alike, Undos, RcPcs
    <3>5. Granted'
      BY <1>1, <1>4, <2>2, <3>1 DEF Standing, Granted, Alike
    <3>6. Snapped(d)'
      BY <1>4, <1>8, <2>2, <3>1, SnapHeld DEF Standing, Alike, Undos
    <3>7. OneDek(cache, d)' /\ "rc" \notin cache'.old
      BY <3>2 DEF Whole, OneDek
    <3>8. cache'.pin["pw1"] # None /\ cache'.pin["pw3"] # None
      BY <1>1, <1>4, <3>1 DEF Standing, Alike
    <3> QED BY <2>2, <3>3, <3>4, <3>5, <3>6, <3>7, <3>8 DEF Standing, Replacing
  <2>6. DekInv'
    BY <1>1, <1>3, <2>2, <2>5, DekKept
  <2> QED BY <2>3, <2>4, <2>6 DEF PinInv
<1> QED BY <1>6, <1>7, <1>8

-----------------------------------------------------------------------------
(* OpenPgpPin: a write fails *)

LEMMA FailsIs ==
    ASSUME hist \in HistTypes, NEW f, P!Fails(f)
    PROVE  /\ cache' = f /\ UNCHANGED flash /\ hist' \in HistTypes /\ hist'.mid = hist.mid /\ hist'.faults # 0
           /\ hist'.torn = (hist.torn \/ P!Orphans(f) \/ P!Abandoned \/ op.pc = "migrate")
           /\ hist'.half = (hist.half \/ P!Abandoned)
<1> DEFINE n == hist.faults + 1
           torn == hist.torn \/ P!Orphans(f) \/ P!Abandoned \/ op.pc = "migrate"
           half == hist.half \/ P!Abandoned
<1>1. cache' = f /\ UNCHANGED flash /\ hist' = [hist EXCEPT !.faults = n, !.torn = torn, !.half = half]
  BY DEF P!Fails, P!Put, P!At
<1>2. n \in Nat /\ n # 0 /\ torn \in BOOLEAN /\ half \in BOOLEAN
  BY DEF HistTypes
<1> HIDE DEF n, torn, half
<1>3. hist' \in HistTypes /\ hist'.mid = hist.mid /\ hist'.faults = n /\ hist'.torn = torn /\ hist'.half = half
  BY <1>1, <1>2 DEF HistTypes
<1> QED BY <1>1, <1>2, <1>3 DEF torn, half

LEMMA NoSessionIs == /\ P!NoSession.has = {}
                     /\ ram.drawn \in 1 .. MaxDeks => P!NoSession \in RamTypes
BY DEF P!NoSession, P!Session, P!Nothing, RamTypes, Keys

\* Where a command may end because a write failed
Failing == Replacing \cup RcPcs \cup {"migrate", "unslot"}

\* The command ends, or a KDF update begins to undo what it did.
LEMMA EndsKept ==
    ASSUME PinInv, op.pc \in Failing, NEW r \in RamTypes, P!Ends(r), r.has \subseteq ram.has,
           cache' \in PinFiles, UNCHANGED flash, hist' \in HistTypes, hist'.mid = hist.mid, hist'.half = hist.half,
           hist.torn \/ op.pc = "migrate" => hist'.torn, hist'.faults # 0,
           \A q \in P!Refs : q # "rc" => cache'.pin[q] = cache.pin[q],
           cache'.old \subseteq cache.old, cache'.slot = cache.slot, Agrees(cache) => Agrees(cache'),
           \A a \in r.has : cache'.wrap[P!RefOf(a)] = cache.wrap[P!RefOf(a)],
           ~hist'.torn => /\ \A d \in DrawnDeks : Standing(d) => Whole(cache', d)
                          /\ op.cmd = "kdf" => \A q \in P!Refs : ~P!Live(op.snap, q)
    PROVE  PinInv'
<1>1. /\ cache \in PinFiles /\ flash \in PinFiles /\ op \in PinOps /\ hist \in HistTypes /\ ram \in RamTypes
      /\ PinShaped /\ FormInv /\ DekInv
  BY TypesOf
<1>2. /\ op.pc \notin Undos \cup Clearings \cup {"scandek1", "scandek3", "scanpin1", "scanpin3", "idle"}
      /\ op.cmd # "terminate"
  BY <1>1 DEF PinShaped, Failing, Replacing, RcPcs, Undos, Clearings
<1>3. ~hist'.torn => \E d \in DrawnDeks : Standing(d) /\ Whole(cache', d)
  BY <1>1, <1>2, DekStands
<1>4. CASE op.cmd # "kdf"
  <2>1. op' = P!Idle /\ ram' = r
    BY <1>4 DEF P!Ends, P!Return
  <2>2. Calm'
    BY <2>1, IdleOp DEF Calm, CalmPcs, Missing
  <2>3. ~hist.half => Agrees(cache')
    BY <1>1, <1>2, <1>4 DEF FormInv, Announced
  <2>4. ASSUME ~hist'.torn, NEW d \in DrawnDeks, Standing(d) PROVE PinsThere' /\ Admitted'
    <3>1. PinsThere'
      BY <1>2, <2>1, <2>4, IdleOp DEF Standing, PinsThere, P!Refs
    <3>2. \A a \in ram'.has : P!RefOf(a) \notin cache'.old /\ cache'.wrap[P!RefOf(a)] # None
      BY <2>1, <2>4 DEF Standing, Granted
    <3> QED BY <3>1, <3>2 DEF Admitted
  <2>5. ~hist'.torn => \E d \in DrawnDeks : Whole(cache', d) /\ PinsThere' /\ Admitted'
    BY <1>3, <2>4
  <2>6. ram' \in RamTypes
    BY <2>1
  <2> QED BY <2>2, <2>3, <2>5, <2>6, CalmStep
<1>5. CASE op.cmd = "kdf"
  <2>1. /\ op' \in PinOps /\ op'.pc = "undo1" /\ op'.cmd = "kdf" /\ op'.ref = op.ref /\ op'.pin = op.pin
        /\ op'.dek = op.dek /\ op'.snap = op.snap
    <3>1. op' = [op EXCEPT !.pc = "undo1"] /\ "undo1" \in PinPcs
      BY <1>5 DEF P!Ends, P!Goto, PinPcs, Undos
    <3> QED BY <1>1, <1>5, <3>1 DEF PinOps
  <2>2. ram' \in RamTypes /\ ram'.has = {}
    <3>1. ram' = P!NoSession /\ ram.drawn \in 1 .. MaxDeks
      BY <1>1, <1>5 DEF P!Ends, RamTypes
    <3> QED BY <3>1, NoSessionIs
  <2>3. PinTypes'
    <3>1. PinShaped' /\ Reseeded'
      BY <1>1, <1>5, <2>1, <2>2 DEF PinShaped, Reseeded, Missing, Clearings, Replacing, RcPcs, Undos
    <3> QED BY <1>1, <2>1, <2>2, <3>1 DEF PinTypes, HistTypes, RamTypes, Keys
  <2>4. FormInv'
    <3>1. Agrees(op.snap) => Agrees(op.snap)'
      BY <2>1 DEF Agrees, SentBy
    <3>2. ~hist.half => Agrees(op.snap)
      BY <1>1, <1>2, <1>5 DEF FormInv, Announced
    <3>3. ~hist.half => Announced'
      BY <2>1, <3>1, <3>2 DEF Announced, Restoring, Undos, PinBackPcs, P!Refs
    <3> QED BY <1>1, <3>3, FormKept
  <2>5. ~hist'.torn => \E d \in DrawnDeks : Standing(d)'
    <3> SUFFICES ASSUME ~hist'.torn PROVE \E d \in DrawnDeks : Standing(d)'
      OBVIOUS
    <3>1. PICK d \in DrawnDeks : Standing(d) /\ Whole(cache', d)
      BY <1>3
    <3>2. Whole(op.snap, d) /\ op.snap.pin["pw1"] # None /\ op.snap.pin["pw3"] # None /\ cache.slot = op.snap.slot
      BY <1>5, <3>1 DEF Standing, Snapped
    <3>3. OneDek(cache, d)' /\ "rc" \notin cache'.old
      BY <3>1 DEF Whole, OneDek
    <3>4. \A q \in P!Refs : Holding(q)'
      BY <2>1 DEF Holding, Undos
    <3>5. Exchanging' /\ Granted'
      BY <2>1, <2>2 DEF Exchanging, Granted, Undos
    <3>6. \A q \in P!Refs : ~P!Live(op.snap, q)'
      BY <1>5, <2>1 DEF P!Live, P!Recovered
    <3>7. Whole(op.snap, d)'
      BY <2>1, <3>2 DEF Whole, OneDek, Fitting, Direct
    <3>8. Snapped(d)'
      BY <2>1, <3>2, <3>6, <3>7 DEF Snapped, PinBackPcs, WrapBackPcs, P!Refs
    <3>9. cache'.pin["pw1"] # None /\ cache'.pin["pw3"] # None
      BY <1>2, <3>1 DEF Standing, P!Refs
    <3> QED BY <2>1, <3>3, <3>4, <3>5, <3>8, <3>9 DEF Standing, Replacing
  <2>6. DekInv'
    BY <1>1, <2>1, <2>5, DekKept
  <2> QED BY <2>3, <2>4, <2>6 DEF PinInv
<1> QED BY <1>4, <1>5

\* Another DEK is staged for a reference whose transaction was not live.
LEMMA StagedWhole ==
    ASSUME PinInv, op.pc = "stage", NEW d \in DrawnDeks, Standing(d), ~P!Live(cache, op.ref),
           NEW f, f = P!Staged(cache, op.ref, op.pin, op.dek)
    PROVE  Whole(f, d)
<1> DEFINE r == op.ref
           w == P!Wrap(op.pin, op.dek)
           txn == [cache.txn EXCEPT ![r] = w]
<1>1. cache \in PinFiles /\ r \in P!Refs /\ op.pin \in P!Pins /\ op.dek = d
  BY ReplacingFacts DEF Replacing, Standing
<1>2. w # None /\ w.dek = d /\ w \in MayWrap
  BY <1>1, PinNumbers
<1>3. f = [cache EXCEPT !.txn = txn]
  BY DEF P!Staged
<1> HIDE DEF w
<1>4. txn \in [P!Refs -> MayWrap] /\ txn[r] = w /\ \A q \in P!Refs : q # r => txn[q] = cache.txn[q]
  BY <1>1, <1>2 DEF PinFiles
<1> HIDE DEF txn
<1>5. f.pin = cache.pin /\ f.old = cache.old /\ f.wrap = cache.wrap /\ f.slot = cache.slot /\ f.txn = txn /\ f.key = cache.key
  BY <1>1, <1>3 DEF PinFiles
<1>6. Whole(cache, d)
  BY AtRest DEF Undos
<1>7. OneDek(f, d)
  BY <1>2, <1>4, <1>5, <1>6 DEF Whole, OneDek
<1>8. ASSUME NEW q \in P!Refs PROVE Fitting(f, q)
  <2>1. Fitting(cache, q)
    BY <1>6 DEF Whole
  <2>2. CASE q = r
    <3>1. cache.pin[r] = None \/ Direct(cache, r)
      BY <1>1, <2>1, <2>2, SettledDirect
    <3>2. cache.pin[r] = None => r = "rc"
      BY <1>1 DEF Standing, P!Refs
    <3> QED BY <1>5, <2>1, <2>2, <3>1, <3>2 DEF Fitting, Direct
  <2>3. CASE q # r
    BY <1>4, <1>5, <2>1, <2>3 DEF Fitting, Direct
  <2> QED BY <2>2, <2>3
<1> QED BY <1>5, <1>6, <1>7, <1>8 DEF Whole

LEMMA StagedIs ==
    ASSUME PinInv, op.pc = "stage", NEW f, f = P!Staged(cache, op.ref, op.pin, op.dek)
    PROVE  /\ f \in PinFiles /\ f.pin = cache.pin /\ f.old = cache.old /\ f.wrap = cache.wrap
           /\ f.slot = cache.slot /\ f.kdf = cache.kdf
<1> DEFINE w == P!Wrap(op.pin, op.dek)
           txn == [cache.txn EXCEPT ![op.ref] = w]
<1>1. cache \in PinFiles /\ op.ref \in P!Refs /\ op.pin \in P!Pins /\ op.dek \in Deks
  BY ReplacingFacts DEF Replacing
<1>2. f = [cache EXCEPT !.txn = txn]
  BY DEF P!Staged
<1>3. w \in MayWrap
  BY <1>1, PinNumbers
<1> HIDE DEF w
<1>4. txn \in [P!Refs -> MayWrap]
  BY <1>1, <1>3 DEF PinFiles
<1> HIDE DEF txn
<1> QED BY <1>1, <1>2, <1>4 DEF PinFiles

LEMMA ReplaceFailsStep == ASSUME PinInv, P!ReplaceFails PROVE PinInv'
<1>1. PICK f : /\ P!Fails(f)
               /\ \/ f = cache
                  \/ op.pc = "stage" /\ f = P!Staged(cache, op.ref, op.pin, op.dek)
                  \/ op.pc = "unstage" /\ f = P!Unstaged(cache, {op.ref})
  BY DEF P!ReplaceFails, P!At
<1>2. op.pc \in Replacing \cup {"migrate", "unslot"} /\ P!Ends(ram)
  BY DEF P!ReplaceFails, Replacing
<1>3. /\ cache \in PinFiles /\ op \in PinOps /\ hist \in HistTypes /\ ram \in RamTypes /\ PinShaped
  BY TypesOf
<1>4. ~P!Abandoned /\ op.pc \in Failing /\ op.pc \notin Undos
  BY <1>2 DEF P!Abandoned, P!Undoing, P!At, Replacing, Failing, Undos
<1>5. /\ cache' = f /\ UNCHANGED flash /\ hist' \in HistTypes /\ hist'.mid = hist.mid /\ hist'.faults # 0
      /\ hist'.torn = (hist.torn \/ P!Orphans(f) \/ op.pc = "migrate") /\ hist'.half = hist.half
  <2>1. /\ cache' = f /\ UNCHANGED flash /\ hist' \in HistTypes /\ hist'.mid = hist.mid /\ hist'.faults # 0
        /\ hist'.torn = (hist.torn \/ P!Orphans(f) \/ P!Abandoned \/ op.pc = "migrate")
        /\ hist'.half = (hist.half \/ P!Abandoned)
    BY <1>1, <1>3, FailsIs
  <2>2. hist.half \in BOOLEAN
    BY <1>3 DEF HistTypes
  <2> QED BY <1>4, <2>1, <2>2
<1>6. {op.ref} \in SUBSET P!Refs
  BY <1>3 DEF PinOps
<1>7. /\ f \in PinFiles /\ f.pin = cache.pin /\ f.old = cache.old /\ f.wrap = cache.wrap /\ f.slot = cache.slot
      /\ f.kdf = cache.kdf
  BY <1>1, <1>3, <1>6, StagedIs, UnstagedIs
<1>8. Agrees(cache) => Agrees(f)
  BY <1>7 DEF Agrees, SentBy
<1>9. ASSUME ~P!Orphans(f), op.pc # "migrate", NEW d \in DrawnDeks, Standing(d) PROVE Whole(f, d)
  <2>1. ~(op.live /\ op.pc \in {"pin", "rcpin"}) /\ op.pc \notin {"migrate"} \cup Undos
    BY <1>4, <1>9 DEF P!Orphans
  <2>2. Whole(cache, d)
    BY <1>9, <2>1, AtRest
  <2>3. CASE f = cache
    BY <2>2, <2>3
  <2>4. CASE op.pc = "stage" /\ f = P!Staged(cache, op.ref, op.pin, op.dek) /\ f # cache
    <3>1. ~P!Live(cache, op.ref)
      BY <1>9, <2>4 DEF P!Orphans, P!At
    <3> QED BY <1>9, <2>4, <3>1, StagedWhole
  <2>5. CASE op.pc = "unstage" /\ f = P!Unstaged(cache, {op.ref})
    BY <1>9, <2>5, UnstagedWhole
  <2> QED BY <1>1, <2>3, <2>4, <2>5
<1>10. ~hist'.torn => /\ \A d \in DrawnDeks : Standing(d) => Whole(cache', d)
                      /\ op.cmd = "kdf" => \A q \in P!Refs : ~P!Live(op.snap, q)
  <2>1. ~P!Orphans(f) /\ op.cmd = "kdf" => \A q \in P!Refs : ~P!Live(op.snap, q)
    BY <1>4 DEF P!Orphans, P!Undoing, Undos
  <2> QED BY <1>5, <1>9, <2>1
<1> QED BY <1>2, <1>3, <1>4, <1>5, <1>7, <1>8, <1>10, EndsKept

LEMMA RcFailsStep == ASSUME PinInv, P!RcFails PROVE PinInv'
<1> DEFINE r == P!Session(ram.has \ {"rc"}, ram.sess)
<1>1. PICK f : /\ P!Fails(f)
               /\ \/ f = cache
                  \/ op.pc = "rctxn" /\ f = P!Unstaged(cache, {"rc"})
                  \/ op.pc = "rcpin" /\ f = P!NoRc(cache)
                  \/ op.pc = "rcwrap" /\ f = P!NoRcWrap(cache)
  BY DEF P!RcFails, P!At
<1>2. /\ cache \in PinFiles /\ op \in PinOps /\ hist \in HistTypes /\ ram \in RamTypes /\ PinShaped /\ Missing
  BY TypesOf
<1>3. op.pc \in RcPcs /\ op.pc \in Failing /\ ~P!Abandoned /\ op.pc \notin Undos
  BY DEF P!RcFails, RcPcs, Failing, P!Abandoned, P!Undoing, P!At, Undos
<1>4. /\ cache' = f /\ UNCHANGED flash /\ hist' \in HistTypes /\ hist'.mid = hist.mid /\ hist'.faults # 0
      /\ hist'.torn = (hist.torn \/ P!Orphans(f) \/ op.pc = "migrate") /\ hist'.half = hist.half
  <2>1. /\ cache' = f /\ UNCHANGED flash /\ hist' \in HistTypes /\ hist'.mid = hist.mid /\ hist'.faults # 0
        /\ hist'.torn = (hist.torn \/ P!Orphans(f) \/ P!Abandoned \/ op.pc = "migrate")
        /\ hist'.half = (hist.half \/ P!Abandoned)
    BY <1>1, <1>2, FailsIs
  <2>2. hist.half \in BOOLEAN
    BY <1>2 DEF HistTypes
  <2> QED BY <1>3, <2>1, <2>2
<1>5. CASE op.pc = "rctxn" /\ cache.pin["rc"] # None
  <2>1. P!RcTxnGone(cache') /\ UNCHANGED ram
    BY <1>5 DEF P!RcFails, P!At
  <2> QED BY <1>1, <1>4, <1>5, <2>1, RcTxnKept
<1>6. CASE ~(op.pc = "rctxn" /\ cache.pin["rc"] # None)
  <2>1. P!Ends(r)
    BY <1>6 DEF P!RcFails, P!At
  <2>2. r \in RamTypes /\ r.has = ram.has \ {"rc"}
    BY <1>2 DEF RamTypes, Keys, P!Session
  <2>3. \A a \in r.has : P!RefOf(a) \in P!Refs \ {"rc"}
    BY <1>2, <2>2 DEF RamTypes, P!Accesses, P!RefOf, P!Refs
  <2>4. CASE op.pc = "rcwrap" /\ f = P!NoRcWrap(cache)
    <3>1. cache.pin["rc"] = None
      BY <1>2, <2>4 DEF Missing
    <3> DEFINE wrap == [cache.wrap EXCEPT !["rc"] = None]
    <3>2. f = [cache EXCEPT !.wrap = wrap]
      BY <2>4 DEF P!NoRcWrap
    <3>3. wrap \in [P!Refs -> MayWrap] /\ wrap["rc"] = None /\ \A q \in P!Refs : q # "rc" => wrap[q] = cache.wrap[q]
      BY <1>2 DEF PinFiles, MayWrap, P!Refs
    <3> HIDE DEF wrap
    <3>4. /\ f \in PinFiles /\ f.pin = cache.pin /\ f.old = cache.old /\ f.wrap = wrap /\ f.slot = cache.slot
          /\ f.txn = cache.txn /\ f.kdf = cache.kdf /\ f.key = cache.key
      BY <1>2, <3>2, <3>3 DEF PinFiles
    <3>5. ASSUME NEW d \in DrawnDeks, Standing(d) PROVE Whole(f, d)
      <4>1. Whole(cache, d)
        BY <2>4, <3>5, AtRest DEF Undos
      <4>2. \A q \in P!Refs : Fitting(f, q)
        BY <3>1, <3>3, <3>4, <4>1 DEF Whole, Fitting, Direct
      <4> QED BY <3>3, <3>4, <4>1, <4>2 DEF Whole, OneDek
    <3>6. Agrees(cache) => Agrees(f)
      BY <3>4 DEF Agrees, SentBy
    <3>7. \A a \in r.has : f.wrap[P!RefOf(a)] = cache.wrap[P!RefOf(a)]
      BY <2>3, <3>3, <3>4
    <3>8. ~hist'.torn /\ op.cmd = "kdf" => \A q \in P!Refs : ~P!Live(op.snap, q)
      BY <1>3, <1>4 DEF P!Orphans, P!Undoing, Undos
    <3> HIDE DEF r
    <3> QED BY <1>3, <1>4, <2>1, <2>2, <3>4, <3>5, <3>6, <3>7, <3>8, EndsKept
  <2>5. CASE ~(op.pc = "rcwrap" /\ f = P!NoRcWrap(cache))
    <3>1. /\ f \in PinFiles /\ f.wrap = cache.wrap /\ f.slot = cache.slot /\ f.old \subseteq cache.old
          /\ \A q \in P!Refs : q # "rc" => f.pin[q] = cache.pin[q]
          /\ Agrees(cache) => Agrees(f)
      <4>1. CASE f = cache
        BY <1>2, <4>1
      <4>2. CASE f = P!Unstaged(cache, {"rc"})
        <5>1. /\ f \in PinFiles /\ f.wrap = cache.wrap /\ f.slot = cache.slot /\ f.old = cache.old /\ f.pin = cache.pin
              /\ f.kdf = cache.kdf
          BY <1>2, <4>2, UnstagedIs, RefsOfAccesses
        <5> QED BY <5>1 DEF Agrees, SentBy
      <4>3. CASE f = P!NoRc(cache)
        BY <1>2, <4>3, NoRcIs
      <4> QED BY <1>1, <2>5, <4>1, <4>2, <4>3
    <3>2. ASSUME ~P!Orphans(f), NEW d \in DrawnDeks, Standing(d) PROVE Whole(f, d)
      <4>1. Whole(cache, d)
        BY <1>3, <3>2, AtRest DEF P!Orphans, RcPcs
      <4>2. CASE f = cache
        BY <4>1, <4>2
      <4>3. CASE op.pc = "rctxn" /\ f = P!Unstaged(cache, {"rc"})
        <5>1. /\ f.pin = cache.pin /\ f.old = cache.old /\ f.wrap = cache.wrap /\ f.slot = cache.slot
              /\ f.key = cache.key /\ OneDek(f, d)
              /\ \A q \in P!Refs : q # "rc" => f.txn[q] = cache.txn[q]
          BY <1>2, <4>1, <4>3, UnstagedIs, RefsOfAccesses DEF Whole
        <5>2. cache.pin["rc"] = None
          BY <1>6, <4>3
        <5>3. \A q \in P!Refs : Fitting(f, q)
          BY <4>1, <5>1, <5>2 DEF Whole, Fitting, Direct
        <5> QED BY <4>1, <5>1, <5>3 DEF Whole
      <4>4. CASE op.pc = "rcpin" /\ f = P!NoRc(cache)
        BY <1>2, <4>1, <4>4, NoRcIs DEF Whole
      <4> QED BY <1>1, <2>5, <4>2, <4>3, <4>4
    <3>3. ~hist'.torn /\ op.cmd = "kdf" => \A q \in P!Refs : ~P!Live(op.snap, q)
      BY <1>3, <1>4 DEF P!Orphans, P!Undoing, Undos
    <3> HIDE DEF r
    <3>4. r.has \subseteq ram.has /\ ~(op.pc = "migrate")
      BY <1>3, <2>2 DEF RcPcs
    <3>5. ~hist'.torn => \A d \in DrawnDeks : Standing(d) => Whole(cache', d)
      BY <1>4, <3>2
    <3>6. Agrees(cache) => Agrees(cache')
      BY <1>4, <3>1
    <3> QED BY <1>3, <1>4, <2>1, <2>2, <3>1, <3>3, <3>4, <3>5, <3>6, EndsKept
  <2> QED BY <2>4, <2>5
<1> QED BY <1>5, <1>6

\* The scan starts.
LEMMA ScanStarts ==
    ASSUME cache' \in PinFiles, flash' \in PinFiles, hist' \in HistTypes, ram.drawn \in 1 .. MaxDeks,
           NEW r \in RamTypes, P!Scan(cache', r),
           ~hist'.half => Agrees(cache') /\ (hist'.mid = "no" => Agrees(flash')),
           ~hist'.torn => Image(cache') /\ (hist'.mid # "torn" => Image(flash')),
           ~hist'.torn /\ r.has # {} =>
               /\ cache'.pin["pw1"] # None
               /\ \A a \in r.has : P!RefOf(a) \notin cache'.old /\ cache'.wrap[P!RefOf(a)] # None
               /\ hist'.faults = 0 => \A a \in r.has : LET q == P!RefOf(a) IN
                      r.sess[q] = cache'.pin[q] /\ By(cache'.wrap[q], cache'.pin[q])
    PROVE  PinInv'
<1>1. /\ ram' \in RamTypes /\ ram'.has = r.has /\ ram'.sess = r.sess
      /\ IF P!NeedsDek(cache')
         THEN /\ op' \in PinOps /\ op'.cmd = "scan" /\ op'.pc = "scandek1" /\ op'.dek \in DrawnDeks /\ op'.fresh
              /\ cache'.pin["pw1"] = None /\ cache'.pin["pw3"] = None
         ELSE Filled(cache')
  BY ScanIs
<1>2. Agrees(cache') <=> Agrees(cache)'
  BY DEF Agrees, SentBy
<1>3. Agrees(flash') <=> Agrees(flash)'
  BY DEF Agrees, SentBy
<1>4. Image(flash') <=> Image(flash)'
  BY DEF Image, Bare, Whole, OneDek, Fitting, Direct, By
<1>5. CASE P!NeedsDek(cache')
  <2>1. op'.pc \notin Clearings \cup Undos \cup Replacing \cup {"migrate", "idle"}
    BY <1>1, <1>5 DEF Clearings, Undos, Replacing
  <2>2. PinTypes'
    <3>1. op'.dek # None
      BY <1>1, <1>5, PinNumbers
    <3>2. PinShaped' /\ Reseeded'
      BY <1>1, <1>5, <2>1, <3>1 DEF PinShaped, Reseeded, Missing
    <3> QED BY <1>1, <1>5, <3>2 DEF PinTypes, HistTypes, RamTypes, Keys
  <2>3. FormInv'
    BY <1>1, <1>2, <1>3, <1>5, <2>1 DEF FormInv, Announced
  <2>4. ~hist'.torn => Making'
    <3> SUFFICES ASSUME ~hist'.torn PROVE Making'
      OBVIOUS
    <3>1. \A d \in DrawnDeks : ~Whole(cache', d)
      BY <1>1, <1>5 DEF Whole, Fitting, By, P!NeedsDek, P!Refs
    <3>2. Bare(cache')
      BY <3>1 DEF Image
    <3>3. Bare(cache)'
      BY <3>2 DEF Bare
    <3>4. r.has = {}
      BY <1>1, <1>5
    <3> QED BY <1>1, <1>5, <3>3, <3>4 DEF Making
  <2>5. DekInv'
    BY <1>1, <1>4, <1>5, <2>4 DEF DekInv
  <2> QED BY <2>2, <2>3, <2>5 DEF PinInv
<1>6. CASE ~P!NeedsDek(cache')
  <2>1. Calm' /\ PinsThere' /\ op'.pc # "rcwrap"
    BY <1>1, <1>6, FilledCalm
  <2>2. PinTypes'
    <3>1. PinShaped' /\ Reseeded'
      BY <2>1, CalmShape, PTL
    <3> QED BY <1>1, <2>1, <3>1 DEF PinTypes, HistTypes, RamTypes, Keys, Calm
  <2>3. FormInv'
    <3>1. Calm' /\ Agrees(cache)' => Announced'
      BY CalmForm, PTL
    <3> QED BY <1>2, <1>3, <2>1, <3>1 DEF FormInv
  <2>4. ~hist'.torn => op'.cmd # "terminate" /\ \E d \in DrawnDeks : Standing(d)'
    <3> SUFFICES ASSUME ~hist'.torn PROVE op'.cmd # "terminate" /\ \E d \in DrawnDeks : Standing(d)'
      OBVIOUS
    <3>1. ~Bare(cache')
      BY <1>6 DEF Bare, P!NeedsDek, P!Provisioning, P!Nothing, P!Refs
    <3>2. PICK d \in DrawnDeks : Whole(cache', d)
      BY <3>1 DEF Image
    <3>3. Whole(cache, d)'
      BY <3>2 DEF Whole, OneDek, Fitting, Direct, By
    <3>4. Admitted'
      BY <1>1 DEF Admitted, By
    <3>5. Calm' /\ Whole(cache, d)' /\ PinsThere' /\ Admitted' => Standing(d)'
      BY CalmStands, PTL
    <3> QED BY <2>1, <3>3, <3>4, <3>5 DEF Calm
  <2>5. DekInv'
    BY <1>4, <2>4 DEF DekInv
  <2> QED BY <2>2, <2>3, <2>5 DEF PinInv
<1> QED BY <1>5, <1>6

\* While a KDF update is being undone
LEMMA UndoFacts ==
    ASSUME PinInv, op.pc \in Undos
    PROVE  /\ cache \in PinFiles /\ flash \in PinFiles /\ op \in PinOps /\ op.snap \in PinFiles /\ hist \in HistTypes
           /\ ram \in RamTypes /\ PinShaped /\ FormInv /\ DekInv /\ op.cmd = "kdf" /\ op.ref # "rc" /\ op.pin # None
           /\ ram.has = {}
           /\ ~hist.half => Restoring
           /\ ~hist.torn => \E d \in DrawnDeks : Standing(d)
<1>1. /\ cache \in PinFiles /\ flash \in PinFiles /\ op \in PinOps /\ hist \in HistTypes
      /\ ram \in RamTypes /\ PinShaped /\ FormInv /\ DekInv
  BY TypesOf
<1>2. op.cmd = "kdf" /\ op.ref # "rc" /\ op.pin # None /\ ram.has = {}
  BY <1>1 DEF PinShaped
<1>3. op.snap \in PinFiles
  BY <1>1 DEF PinOps
<1>4. ~hist.half => Restoring
  BY <1>1, <1>2 DEF FormInv, Announced
<1>5. ~hist.torn => \E d \in DrawnDeks : Standing(d)
  <2>1. op.pc \notin {"scandek1", "scandek3"}
    BY DEF Undos
  <2> QED BY <1>1, <1>2, <2>1, DekStands
<1> QED BY <1>1, <1>2, <1>3, <1>4, <1>5

\* The snapshot, as the steps of the undoing read it
LEMMA SnapIs ==
    ASSUME PinInv, op.pc \in Undos, NEW d \in DrawnDeks, Standing(d)
    PROVE  /\ OneDek(cache, d) /\ OneDek(op.snap, d) /\ Snapped(d) /\ Whole(op.snap, d)
           /\ "rc" \notin cache.old /\ "rc" \notin op.snap.old
           /\ cache.pin["pw1"] # None /\ cache.pin["pw3"] # None
           /\ op.snap.pin["pw1"] # None /\ op.snap.pin["pw3"] # None
<1>1. op.cmd = "kdf"
  BY UndoFacts
<1>2. op.pc \notin {"scanpin1", "scanpin3"}
  BY DEF Undos
<1>3. OneDek(cache, d) /\ Snapped(d) /\ "rc" \notin cache.old /\ cache.pin["pw1"] # None /\ cache.pin["pw3"] # None
  BY <1>2 DEF Standing
<1>4. Whole(op.snap, d) /\ op.snap.pin["pw1"] # None /\ op.snap.pin["pw3"] # None
  BY <1>1, <1>3 DEF Snapped
<1> QED BY <1>3, <1>4 DEF Whole

\* What stays of the snapshot from one step to the next
LEMMA SnapKept ==
    ASSUME op'.snap = op.snap
    PROVE  /\ \A d : Whole(op.snap, d) => Whole(op.snap, d)'
           /\ Agrees(op.snap) => Agrees(op.snap)'
           /\ (\A r \in P!Refs : ~P!Live(op.snap, r)) => \A r \in P!Refs : ~P!Live(op.snap, r)'
<1>1. ASSUME NEW d, Whole(op.snap, d) PROVE Whole(op.snap, d)'
  BY <1>1 DEF Whole, OneDek, Fitting, Direct, By
<1>2. Agrees(op.snap) => Agrees(op.snap)'
  BY DEF Agrees, SentBy
<1>3. (\A r \in P!Refs : ~P!Live(op.snap, r)) => \A r \in P!Refs : ~P!Live(op.snap, r)'
  BY DEF P!Live, P!Recovered
<1> QED BY <1>1, <1>2, <1>3

\* The undoing goes on: what a step puts back it puts back from the snapshot.
LEMMA UndoKept ==
    ASSUME PinInv, op.pc \in Undos, NEW pc \in Undos, op' = [op EXCEPT !.pc = pc], UNCHANGED <<flash, ram>>,
           hist' \in HistTypes, hist'.mid = hist.mid, hist'.half = hist.half, hist.torn => hist'.torn,
           cache' \in PinFiles, cache'.slot = cache.slot, cache'.key = cache.key,
           pc \notin {"undo1", "undo2"} =>
               cache'.kdf = op.snap.kdf \/ (cache'.kdf = cache.kdf /\ op.pc \notin {"undo1", "undo2"}),
           \A r \in P!Refs :
               \/ cache'.pin[r] = op.snap.pin[r] /\ (r \in cache'.old <=> r \in op.snap.old)
               \/ /\ cache'.pin[r] = cache.pin[r] /\ (r \in cache'.old <=> r \in cache.old)
                  /\ pc \in PinBackPcs(r) => op.pc \in PinBackPcs(r),
           \A r \in P!Refs :
               \/ cache'.wrap[r] = op.snap.wrap[r]
               \/ cache'.wrap[r] = cache.wrap[r] /\ (pc \in WrapBackPcs(r) => op.pc \in WrapBackPcs(r)),
           \A r \in P!Refs : cache'.txn[r] \in {cache.txn[r], None}
    PROVE  PinInv'
<1>1. /\ cache \in PinFiles /\ flash \in PinFiles /\ op \in PinOps /\ hist \in HistTypes
      /\ ram \in RamTypes /\ PinShaped /\ FormInv /\ DekInv /\ op.cmd = "kdf" /\ op.ref # "rc" /\ op.pin # None
      /\ ram.has = {}
      /\ ~hist.half => Restoring
      /\ ~hist.torn => \E d \in DrawnDeks : Standing(d)
  BY UndoFacts
<1>2. /\ op' \in PinOps /\ op'.pc = pc /\ op'.cmd = "kdf" /\ op'.ref = op.ref /\ op'.pin = op.pin /\ op'.snap = op.snap
  BY <1>1 DEF PinOps, PinPcs
<1>3. pc \notin Clearings \cup Replacing \cup RcPcs \cup {"idle", "scandek1", "scandek3", "scanpin1", "scanpin3",
                 "limits", "migrate", "unslot", "load"}
  BY DEF Undos, Clearings, Replacing, RcPcs
<1>4. PinTypes'
  <2>1. PinShaped' /\ Reseeded'
    BY <1>1, <1>2, <1>3 DEF PinShaped, Reseeded, Missing, RcPcs
  <2> QED BY <1>1, <1>2, <2>1 DEF PinTypes, HistTypes, RamTypes, Keys
<1>5. FormInv'
  <2>1. ASSUME Restoring PROVE Restoring'
    <3>1. Agrees(op.snap)'
      BY <1>2, <2>1, SnapKept DEF Restoring
    <3>2. op'.pc \notin {"undo1", "undo2"} => cache'.kdf = op'.snap.kdf
      BY <1>2, <2>1 DEF Restoring
    <3>3. \A r \in P!Refs : op'.pc \in PinBackPcs(r) => cache'.pin[r] = op'.snap.pin[r]
      BY <1>2, <2>1 DEF Restoring
    <3> QED BY <3>1, <3>2, <3>3 DEF Restoring
  <2>2. ~hist.half => Announced'
    BY <1>1, <1>2, <2>1 DEF Announced
  <2> QED BY <1>1, <2>2, FormKept
<1>6. ~hist'.torn => \E d \in DrawnDeks : Standing(d)'
  <2> SUFFICES ASSUME ~hist.torn PROVE \E d \in DrawnDeks : Standing(d)'
    OBVIOUS
  <2>1. PICK d \in DrawnDeks : Standing(d)
    BY <1>1
  <2>2. /\ OneDek(cache, d) /\ OneDek(op.snap, d) /\ Snapped(d) /\ Whole(op.snap, d)
        /\ "rc" \notin cache.old /\ "rc" \notin op.snap.old
        /\ cache.pin["pw1"] # None /\ cache.pin["pw3"] # None
        /\ op.snap.pin["pw1"] # None /\ op.snap.pin["pw3"] # None
    BY <2>1, SnapIs
  <2>3. OneDek(cache', d)
    BY <2>2 DEF OneDek
  <2>4. OneDek(cache, d)'
    BY <2>3 DEF OneDek
  <2>5. "rc" \notin cache'.old /\ cache'.pin["pw1"] # None /\ cache'.pin["pw3"] # None
    BY <2>2 DEF P!Refs
  <2>6. Snapped(d)'
    <3>1. Whole(op.snap, d)' /\ \A r \in P!Refs : ~P!Live(op.snap, r)'
      BY <1>1, <1>2, <2>2, SnapKept DEF Snapped
    <3>2. \A r \in P!Refs :
            /\ pc \in PinBackPcs(r) => cache'.pin[r] = op.snap.pin[r] /\ (r \in cache'.old <=> r \in op.snap.old)
            /\ pc \in WrapBackPcs(r) => cache'.wrap[r] = op.snap.wrap[r]
      BY <1>1, <2>2 DEF Snapped
    <3> QED BY <1>1, <1>2, <2>2, <3>1, <3>2 DEF Snapped
  <2>7. \A r \in P!Refs : Holding(r)'
    BY <1>2, <1>3 DEF Holding
  <2>8. Exchanging' /\ Granted'
    BY <1>1, <1>2, <1>3 DEF Exchanging, Granted, Replacing, RcPcs
  <2> QED BY <1>2, <1>3, <2>4, <2>5, <2>6, <2>7, <2>8 DEF Standing
<1>7. DekInv'
  BY <1>1, <1>2, <1>6, DekKept
<1> QED BY <1>4, <1>5, <1>7 DEF PinInv

\* Transactions of PW1 and PW3 are deleted, or stay where they are.
LEMMA UndoUnstaged ==
    ASSUME PinInv, op.pc = "undo1", op' = [op EXCEPT !.pc = "undo2"], UNCHANGED <<flash, ram>>,
           hist' \in HistTypes, hist'.mid = hist.mid, hist'.half = hist.half, hist.torn => hist'.torn,
           NEW R \in SUBSET P!Refs, cache' = P!Unstaged(cache, R)
    PROVE  PinInv'
<1>1. op.pc \in Undos /\ "undo2" \in Undos
  BY DEF Undos
<1>2. cache \in PinFiles
  BY TypesOf
<1>3. /\ cache' \in PinFiles /\ cache'.pin = cache.pin /\ cache'.old = cache.old /\ cache'.wrap = cache.wrap
      /\ cache'.slot = cache.slot /\ cache'.kdf = cache.kdf /\ cache'.key = cache.key
      /\ \A r \in P!Refs : cache'.txn[r] \in {cache.txn[r], None}
  BY <1>2, UnstagedIs
<1>4. \A r \in P!Refs : "undo2" \notin PinBackPcs(r) /\ "undo2" \notin WrapBackPcs(r)
  BY DEF P!Refs, PinBackPcs, WrapBackPcs
<1> QED BY <1>1, <1>3, <1>4, UndoKept

\* One verifier is put back.
LEMMA UndoPinStep ==
    ASSUME PinInv, op.pc \in Undos, NEW r \in P!Refs, NEW pc \in Undos, op' = [op EXCEPT !.pc = pc],
           cache' = P!PinBack(cache, r), UNCHANGED <<flash, ram, hist>>,
           op.pc \notin {"undo1", "undo2"},
           \A q \in P!Refs : /\ q # r /\ pc \in PinBackPcs(q) => op.pc \in PinBackPcs(q)
                             /\ pc \in WrapBackPcs(q) => op.pc \in WrapBackPcs(q)
    PROVE  PinInv'
<1> DEFINE v == op.snap.pin[r]
           pin == [cache.pin EXCEPT ![r] = v]
           old == (cache.old \ {r}) \cup (op.snap.old \cap {r})
<1>1. cache \in PinFiles /\ op.snap \in PinFiles /\ hist \in HistTypes
  BY UndoFacts
<1>2. cache' = [cache EXCEPT !.pin = pin, !.old = old]
  BY <1>1 DEF P!PinBack, PinFiles
<1>3. /\ pin \in [P!Refs -> P!Pins \cup {None}] /\ pin[r] = v /\ \A q \in P!Refs : q # r => pin[q] = cache.pin[q]
      /\ old \in SUBSET P!Refs /\ (r \in old <=> r \in op.snap.old) /\ \A q : q # r => (q \in old <=> q \in cache.old)
  BY <1>1 DEF PinFiles
<1> HIDE DEF pin, old
<1>4. cache' \in PinFiles /\ cache'.old = old /\ cache'.pin = pin /\ cache'.wrap = cache.wrap
      /\ cache'.slot = cache.slot /\ cache'.txn = cache.txn /\ cache'.key = cache.key /\ cache'.kdf = cache.kdf
  BY <1>1, <1>2, <1>3 DEF PinFiles
<1>5. \A q \in P!Refs :
         \/ cache'.pin[q] = op.snap.pin[q] /\ (q \in cache'.old <=> q \in op.snap.old)
         \/ /\ cache'.pin[q] = cache.pin[q] /\ (q \in cache'.old <=> q \in cache.old)
            /\ pc \in PinBackPcs(q) => op.pc \in PinBackPcs(q)
  BY <1>3, <1>4
<1> HIDE DEF v
<1> QED BY <1>1, <1>4, <1>5, UndoKept

\* One wrap is put back.
LEMMA UndoWrapStep ==
    ASSUME PinInv, op.pc \in Undos, NEW r \in P!Refs, NEW pc \in Undos, op' = [op EXCEPT !.pc = pc],
           cache' = P!WrapBack(cache, r), UNCHANGED <<flash, ram, hist>>,
           op.pc \notin {"undo1", "undo2"},
           \A q \in P!Refs : /\ q # r /\ pc \in WrapBackPcs(q) => op.pc \in WrapBackPcs(q)
                             /\ pc \in PinBackPcs(q) => op.pc \in PinBackPcs(q)
    PROVE  PinInv'
<1> DEFINE v == op.snap.wrap[r]
           wrap == [cache.wrap EXCEPT ![r] = v]
<1>1. cache \in PinFiles /\ op.snap \in PinFiles /\ hist \in HistTypes
  BY UndoFacts
<1>2. cache' = [cache EXCEPT !.wrap = wrap]
  BY <1>1 DEF P!WrapBack, PinFiles
<1>3. wrap \in [P!Refs -> MayWrap] /\ wrap[r] = v /\ \A q \in P!Refs : q # r => wrap[q] = cache.wrap[q]
  BY <1>1 DEF PinFiles
<1> HIDE DEF wrap
<1>4. cache' \in PinFiles /\ cache'.old = cache.old /\ cache'.pin = cache.pin /\ cache'.wrap = wrap
      /\ cache'.slot = cache.slot /\ cache'.txn = cache.txn /\ cache'.key = cache.key /\ cache'.kdf = cache.kdf
  BY <1>1, <1>2, <1>3 DEF PinFiles
<1>5. \A q \in P!Refs :
         \/ cache'.wrap[q] = op.snap.wrap[q]
         \/ cache'.wrap[q] = cache.wrap[q] /\ (pc \in WrapBackPcs(q) => op.pc \in WrapBackPcs(q))
  BY <1>3, <1>4
<1> HIDE DEF v
<1> QED BY <1>1, <1>4, <1>5, UndoKept

\* The last step of the undoing, and the scan
LEMMA Undo9Step == ASSUME PinInv, P!Undo(9) PROVE PinInv'
<1>1. op.pc = "undo9" /\ P!Scan(cache', ram) /\ cache' = [cache EXCEPT !.tries = op.snap.tries]
      /\ UNCHANGED <<flash, hist>>
  BY DEF P!Undo, P!UndoPcs, P!At, P!Put
<1>2. op.pc \in Undos
  BY <1>1 DEF Undos
<1>3. /\ cache \in PinFiles /\ flash \in PinFiles /\ op \in PinOps /\ op.snap \in PinFiles /\ hist \in HistTypes
      /\ ram \in RamTypes /\ FormInv /\ DekInv /\ op.cmd = "kdf" /\ ram.has = {}
      /\ ~hist.half => Restoring
      /\ ~hist.torn => \E d \in DrawnDeks : Standing(d)
  BY <1>2, UndoFacts
<1>4. cache' \in PinFiles /\ cache'.old = cache.old /\ cache'.pin = cache.pin /\ cache'.wrap = cache.wrap
      /\ cache'.slot = cache.slot /\ cache'.txn = cache.txn /\ cache'.key = cache.key /\ cache'.kdf = cache.kdf
  BY <1>1, <1>3 DEF PinFiles
<1>5. \A r \in P!Refs : op.pc \in PinBackPcs(r) /\ op.pc \in WrapBackPcs(r)
  BY <1>1 DEF P!Refs, PinBackPcs, WrapBackPcs
<1>6. ~hist.half => Agrees(cache')
  <2> SUFFICES ASSUME ~hist.half PROVE Agrees(cache')
    OBVIOUS
  <2>1. Agrees(op.snap) /\ cache.kdf = op.snap.kdf /\ \A r \in P!Refs : cache.pin[r] = op.snap.pin[r]
    BY <1>1, <1>3, <1>5 DEF Restoring
  <2> QED BY <1>4, <2>1 DEF Agrees, SentBy, P!Refs
<1>7. ~hist.torn => Image(cache')
  <2> SUFFICES ASSUME ~hist.torn PROVE Image(cache')
    OBVIOUS
  <2>1. PICK d \in DrawnDeks : Standing(d)
    BY <1>3
  <2>2. OneDek(cache, d) /\ Snapped(d) /\ Whole(op.snap, d) /\ "rc" \notin cache.old
        /\ op.snap.pin["pw1"] # None /\ op.snap.pin["pw3"] # None
    BY <1>2, <2>1, SnapIs
  <2>3. /\ cache.slot = op.snap.slot
        /\ \A r \in P!Refs : /\ cache.pin[r] = op.snap.pin[r] /\ (r \in cache.old <=> r \in op.snap.old)
                             /\ cache.wrap[r] = op.snap.wrap[r] /\ ~P!Live(op.snap, r)
    BY <1>2, <1>3, <1>5, <2>2 DEF Snapped
  <2>4. ASSUME NEW r \in P!Refs PROVE Fitting(cache, r)
    <3>1. Fitting(op.snap, r)
      BY <2>2 DEF Whole
    <3>2. op.snap.pin[r] = None => r = "rc"
      BY <2>2 DEF P!Refs
    <3>3. op.snap.pin[r] # None => Direct(op.snap, r)
      BY <1>3, <2>3, <3>1, SettledDirect
    <3> QED BY <2>3, <3>1, <3>2, <3>3 DEF Fitting, Direct
  <2>5. Whole(cache, d)
    BY <2>2, <2>4 DEF Whole
  <2>6. Whole(cache', d)
    BY <1>4, <2>5, AlikeWhole DEF Alike
  <2> QED BY <2>6 DEF Image
<1>8. ~hist'.half => Agrees(cache') /\ (hist'.mid = "no" => Agrees(flash'))
  BY <1>1, <1>3, <1>6 DEF FormInv
<1>9. ~hist'.torn => Image(cache') /\ (hist'.mid # "torn" => Image(flash'))
  BY <1>1, <1>3, <1>7 DEF DekInv
<1>10. hist' \in HistTypes /\ flash' \in PinFiles /\ ram.drawn \in 1 .. MaxDeks
  BY <1>1, <1>3 DEF RamTypes
<1> QED BY <1>1, <1>3, <1>4, <1>8, <1>9, <1>10, ScanStarts

LEMMA UndoStep == ASSUME PinInv, NEW n \in 1 .. 9, P!Undo(n) PROVE PinInv'
<1>1. CASE n = 1
  <2>1. op.pc = "undo1" /\ op' = [op EXCEPT !.pc = "undo2"] /\ cache' = P!Unstaged(cache, {"pw1", "pw3"})
        /\ UNCHANGED <<flash, ram, hist>>
    BY <1>1 DEF P!Undo, P!UndoPcs, P!At, P!Put, P!Goto
  <2>2. {"pw1", "pw3"} \in SUBSET P!Refs
    BY DEF P!Refs
  <2> QED BY <2>1, <2>2, TypesOf, UndoUnstaged
<1>2. CASE n = 2
  <2>1. op.pc = "undo2" /\ op' = [op EXCEPT !.pc = "undo3"] /\ cache' = [cache EXCEPT !.kdf = op.snap.kdf]
        /\ UNCHANGED <<flash, ram, hist>>
    BY <1>2 DEF P!Undo, P!UndoPcs, P!At, P!Put, P!Goto
  <2>2. op.pc \in Undos /\ "undo3" \in Undos
    BY <2>1 DEF Undos
  <2>3. cache \in PinFiles /\ op.snap \in PinFiles /\ hist \in HistTypes
    BY <2>2, UndoFacts
  <2>4. cache' \in PinFiles /\ cache'.old = cache.old /\ cache'.pin = cache.pin /\ cache'.wrap = cache.wrap
        /\ cache'.slot = cache.slot /\ cache'.txn = cache.txn /\ cache'.key = cache.key /\ cache'.kdf = op.snap.kdf
    BY <2>1, <2>3 DEF PinFiles
  <2>5. \A r \in P!Refs : "undo3" \notin PinBackPcs(r) /\ "undo3" \notin WrapBackPcs(r)
    BY DEF P!Refs, PinBackPcs, WrapBackPcs
  <2> QED BY <2>1, <2>2, <2>3, <2>4, <2>5, UndoKept
<1>3. CASE n \in {3, 4, 7}
  <2> DEFINE r == IF n = 3 THEN "pw1" ELSE IF n = 4 THEN "pw3" ELSE "rc"
             pc == IF n = 3 THEN "undo4" ELSE IF n = 4 THEN "undo5" ELSE "undo8"
  <2>1. /\ op.pc = (IF n = 3 THEN "undo3" ELSE IF n = 4 THEN "undo4" ELSE "undo7")
        /\ op' = [op EXCEPT !.pc = pc] /\ cache' = P!PinBack(cache, r) /\ UNCHANGED <<flash, ram, hist>>
    <3>1. CASE n = 3
      BY <3>1 DEF P!Undo, P!UndoPcs, P!At, P!Put, P!Goto
    <3>2. CASE n = 4
      BY <3>2 DEF P!Undo, P!UndoPcs, P!At, P!Put, P!Goto
    <3>3. CASE n = 7
      BY <3>3 DEF P!Undo, P!UndoPcs, P!At, P!Put, P!Goto
    <3> QED BY <1>3, <3>1, <3>2, <3>3
  <2>2. r \in P!Refs /\ pc \in Undos /\ op.pc \in Undos /\ op.pc \notin {"undo1", "undo2"}
    BY <2>1 DEF Undos, P!Refs
  <2>3. \A q \in P!Refs : /\ q # r /\ pc \in PinBackPcs(q) => op.pc \in PinBackPcs(q)
                          /\ pc \in WrapBackPcs(q) => op.pc \in WrapBackPcs(q)
    BY <1>3, <2>1 DEF P!Refs, PinBackPcs, WrapBackPcs
  <2> HIDE DEF r, pc
  <2> QED BY <2>1, <2>2, <2>3, UndoPinStep
<1>4. CASE n \in {5, 6, 8}
  <2> DEFINE r == IF n = 5 THEN "pw1" ELSE IF n = 6 THEN "pw3" ELSE "rc"
             pc == IF n = 5 THEN "undo6" ELSE IF n = 6 THEN "undo7" ELSE "undo9"
  <2>1. /\ op.pc = (IF n = 5 THEN "undo5" ELSE IF n = 6 THEN "undo6" ELSE "undo8")
        /\ op' = [op EXCEPT !.pc = pc] /\ cache' = P!WrapBack(cache, r) /\ UNCHANGED <<flash, ram, hist>>
    <3>1. CASE n = 5
      BY <3>1 DEF P!Undo, P!UndoPcs, P!At, P!Put, P!Goto
    <3>2. CASE n = 6
      BY <3>2 DEF P!Undo, P!UndoPcs, P!At, P!Put, P!Goto
    <3>3. CASE n = 8
      BY <3>3 DEF P!Undo, P!UndoPcs, P!At, P!Put, P!Goto
    <3> QED BY <1>4, <3>1, <3>2, <3>3
  <2>2. r \in P!Refs /\ pc \in Undos /\ op.pc \in Undos /\ op.pc \notin {"undo1", "undo2"}
    BY <2>1 DEF Undos, P!Refs
  <2>3. \A q \in P!Refs : /\ q # r /\ pc \in WrapBackPcs(q) => op.pc \in WrapBackPcs(q)
                          /\ pc \in PinBackPcs(q) => op.pc \in PinBackPcs(q)
    BY <1>4, <2>1 DEF P!Refs, PinBackPcs, WrapBackPcs
  <2> HIDE DEF r, pc
  <2> QED BY <2>1, <2>2, <2>3, UndoWrapStep
<1>5. CASE n = 9
  BY <1>5, Undo9Step
<1> QED BY <1>1, <1>2, <1>3, <1>4, <1>5

\* The undoing ends where a file cannot be put back.
LEMMA LostStep ==
    ASSUME PinInv, UNCHANGED <<cache, flash, ram>>, hist' \in HistTypes, hist'.torn, hist'.half, op' = P!Idle
    PROVE  PinInv'
<1>1. cache \in PinFiles /\ flash \in PinFiles /\ ram \in RamTypes
  BY TypesOf
<1>2. Calm'
  BY IdleOp DEF Calm, CalmPcs, Missing
<1>3. PinShaped' /\ Reseeded'
  BY <1>2, CalmShape, PTL
<1>4. PinTypes'
  BY <1>1, <1>3, IdleOp DEF PinTypes, HistTypes, RamTypes, Keys
<1> QED BY <1>4 DEF PinInv, FormInv, DekInv

LEMMA UndoFailsStep == ASSUME PinInv, P!UndoFails PROVE PinInv'
<1>1. op.pc \in Undos /\ UNCHANGED ram
  BY DEF P!UndoFails, P!Undoing, Undos
<1>2. PICK f : P!Fails(f) /\ (f = cache \/ (op.pc = "undo1" /\ \E r \in {"pw1", "pw3"} : f = P!Unstaged(cache, {r})))
  BY DEF P!UndoFails, P!At
<1>3. hist \in HistTypes /\ cache \in PinFiles
  BY TypesOf
<1>4. ~P!Orphans(f) /\ (P!Abandoned <=> op.pc # "undo1") /\ op.pc # "migrate"
  BY <1>1 DEF P!Orphans, P!Abandoned, P!Undoing, P!At, Undos
<1>5. /\ cache' = f /\ UNCHANGED flash /\ hist' \in HistTypes /\ hist'.mid = hist.mid
      /\ hist'.torn = (hist.torn \/ op.pc # "undo1") /\ hist'.half = (hist.half \/ op.pc # "undo1")
  BY <1>2, <1>3, <1>4, FailsIs
<1>6. CASE op.pc = "undo1"
  <2>1. op' = [op EXCEPT !.pc = "undo2"]
    BY <1>6 DEF P!UndoFails, P!At, P!Goto
  <2>2. hist'.half = hist.half /\ hist'.torn = hist.torn
    BY <1>3, <1>5, <1>6 DEF HistTypes
  <2>3. CASE f = cache
    <3>1. op.pc \in Undos /\ "undo2" \in Undos
      BY <1>6 DEF Undos
    <3>2. \A r \in P!Refs : "undo2" \notin PinBackPcs(r) /\ "undo2" \notin WrapBackPcs(r)
      BY DEF P!Refs, PinBackPcs, WrapBackPcs
    <3> QED BY <1>1, <1>3, <1>5, <2>1, <2>2, <2>3, <3>1, <3>2, UndoKept
  <2>4. ASSUME NEW r \in {"pw1", "pw3"}, f = P!Unstaged(cache, {r}) PROVE PinInv'
    <3>1. {r} \in SUBSET P!Refs
      BY DEF P!Refs
    <3> QED BY <1>1, <1>5, <1>6, <2>1, <2>2, <2>4, <3>1, UndoUnstaged
  <2> QED BY <1>2, <2>3, <2>4
<1>7. CASE op.pc # "undo1"
  <2>1. op' = P!Idle /\ cache' = cache
    BY <1>2, <1>5, <1>7 DEF P!UndoFails, P!At, P!Return
  <2> QED BY <1>1, <1>5, <1>7, <2>1, LostStep
<1> QED BY <1>6, <1>7

-----------------------------------------------------------------------------
(* OpenPgpPin: TERMINATE DF *)

LEMMA TerminateStep == ASSUME PinInv, P!TerminateDf PROVE PinInv'
<1>1. /\ op' = [P!Idle EXCEPT !.cmd = "terminate", !.pc = "clear1"] /\ hist' = [hist EXCEPT !.commands = @ + 1]
      /\ UNCHANGED <<cache, flash, ram>>
  BY DEF P!TerminateDf, P!Counted
<1>2. /\ cache \in PinFiles /\ flash \in PinFiles /\ op \in PinOps /\ hist \in HistTypes /\ ram \in RamTypes
      /\ FormInv /\ DekInv
  BY TypesOf
<1>3. op' \in PinOps /\ op'.cmd = "terminate" /\ op'.pc = "clear1"
  BY <1>1, IdleOp DEF PinOps, PinPcs, PinCmds, Clearings
<1>4. hist' \in HistTypes /\ hist'.half = hist.half /\ hist'.mid = hist.mid /\ hist'.torn = hist.torn
  BY <1>1, <1>2 DEF HistTypes
<1>5. PinTypes'
  <2>1. PinShaped' /\ Reseeded'
    BY <1>3 DEF PinShaped, Reseeded, Missing, Clearings, Replacing, Undos
  <2> QED BY <1>1, <1>2, <1>3, <1>4, <2>1 DEF PinTypes, HistTypes, RamTypes, Keys
<1>6. /\ ~hist.half => Agrees(cache)
      /\ ~hist.torn => \E d \in DrawnDeks : Whole(cache, d)
  <2>1. op.pc = "idle"
    BY IdleOp DEF P!TerminateDf
  <2> QED BY <2>1, CalmFacts
<1>7. FormInv'
  <2>1. ~hist.half => Announced'
    BY <1>1, <1>3, <1>6 DEF Announced, Agrees, SentBy
  <2> QED BY <1>1, <1>2, <1>4, <2>1, FormKept
<1>8. DekInv'
  <2>1. Gone'
    BY <1>3 DEF Gone
  <2>2. Image(cache) => Image(cache)'
    BY <1>1 DEF Image, Bare, Whole, OneDek, Fitting, Direct
  <2>3. ~hist.torn => Image(cache)
    BY <1>6 DEF Image
  <2> QED BY <1>1, <1>2, <1>3, <1>4, <2>1, <2>2, <2>3, DekKept
<1> QED BY <1>5, <1>7, <1>8 DEF PinInv

LEMMA ClearKept ==
    ASSUME PinInv, op.pc \in Clearings, NEW pc \in Clearings \ {"clear1"}, op' = [op EXCEPT !.pc = pc], cache' \in PinFiles,
           UNCHANGED <<flash, ram, hist>>, pc = "clear7" => Agrees(cache'), Gone => Gone'
    PROVE  PinInv'
<1>1. /\ cache \in PinFiles /\ flash \in PinFiles /\ op \in PinOps /\ hist \in HistTypes /\ ram \in RamTypes
      /\ FormInv /\ DekInv /\ PinShaped
  BY TypesOf
<1>2. op' \in PinOps /\ op'.cmd = "terminate" /\ op'.pc = pc /\ op.cmd = "terminate"
  BY <1>1 DEF PinOps, PinPcs, PinShaped
<1>3. PinTypes'
  <2>1. pc \notin {"idle", "scandek1", "scandek3", "scanpin1", "scanpin3", "limits", "migrate", "rcwrap"} \cup Undos \cup Replacing
    BY DEF Clearings, Undos, Replacing
  <2>2. PinShaped' /\ Reseeded'
    BY <1>2, <2>1 DEF PinShaped, Reseeded, Missing
  <2> QED BY <1>1, <1>2, <2>2 DEF PinTypes, HistTypes, RamTypes, Keys
<1>4. FormInv'
  <2>1. Agrees(cache') => Agrees(cache)'
    BY DEF Agrees, SentBy
  <2>2. Announced'
    BY <1>2, <2>1 DEF Announced
  <2> QED BY <1>1, <2>2, FormKept
<1>5. DekInv'
  <2>1. ~hist.torn => Gone'
    BY <1>1, <1>2 DEF DekInv
  <2> QED BY <1>1, <1>2, <2>1, DekKept
<1> QED BY <1>3, <1>4, <1>5 DEF PinInv

\* The files that a step of TERMINATE leaves
LEMMA ClearedIs ==
    ASSUME NEW f \in PinFiles, NEW n \in 1 .. 7, NEW g, g = P!Cleared(f, n)
    PROVE  /\ g \in PinFiles
           /\ g.key = IF n = 1 THEN None ELSE f.key
           /\ g.slot = IF n = 2 THEN P!Nothing ELSE f.slot
           /\ n \notin {2, 3} => g.wrap = f.wrap
           /\ n = 2 => g.wrap["rc"] = f.wrap["rc"] /\ g.wrap["pw3"] = f.wrap["pw3"]
           /\ n = 3 => g.wrap["rc"] = None /\ g.wrap["pw3"] = None
           /\ g.txn = IF n = 4 THEN P!Nothing ELSE f.txn
           /\ n \notin {5, 6} => g.pin = f.pin /\ g.old = f.old /\ g.kdf = f.kdf
           /\ n = 6 => g.pin = P!Nothing /\ g.old = {} /\ g.kdf = "none"
<1>1. P!Nothing \in [P!Refs -> P!Pins \cup {None}] /\ P!Nothing \in [P!Refs -> MayWrap] /\ None \in MayWrap
  BY DEF P!Nothing, MayWrap
<1>2. CASE n = 1
  <2>1. g = [f EXCEPT !.key = None]
    BY <1>2 DEF P!Cleared
  <2> QED BY <1>2, <2>1 DEF PinFiles
<1>3. CASE n = 2
  <2> DEFINE wrap == [f.wrap EXCEPT !["pw1"] = None]
  <2>1. g = [f EXCEPT !.slot = P!Nothing, !.wrap["pw1"] = None]
    BY <1>3 DEF P!Cleared
  <2>2. g = [f EXCEPT !.slot = P!Nothing, !.wrap = wrap]
    BY <2>1 DEF PinFiles
  <2>3. wrap \in [P!Refs -> MayWrap] /\ wrap["rc"] = f.wrap["rc"] /\ wrap["pw3"] = f.wrap["pw3"]
    BY <1>1 DEF PinFiles, P!Refs
  <2> HIDE DEF wrap
  <2>4. /\ g \in PinFiles /\ g.key = f.key /\ g.slot = P!Nothing /\ g.wrap = wrap /\ g.txn = f.txn
        /\ g.pin = f.pin /\ g.old = f.old /\ g.kdf = f.kdf
    BY <1>1, <2>2, <2>3 DEF PinFiles
  <2> QED BY <1>3, <2>3, <2>4
<1>4. CASE n = 3
  <2> DEFINE wr == [f.wrap EXCEPT !["rc"] = None]
             wrap == [wr EXCEPT !["pw3"] = None]
  <2>1. g = [f EXCEPT !.wrap["rc"] = None, !.wrap["pw3"] = None]
    BY <1>4 DEF P!Cleared
  <2>2. g = [f EXCEPT !.wrap = wrap]
    BY <2>1 DEF PinFiles
  <2>3. wrap \in [P!Refs -> MayWrap] /\ wrap["rc"] = None /\ wrap["pw3"] = None
    <3>1. f.wrap \in [P!Refs -> MayWrap]
      BY DEF PinFiles
    <3>2. wr \in [P!Refs -> MayWrap] /\ wr["rc"] = None
      BY <1>1, <3>1 DEF P!Refs
    <3> HIDE DEF wr
    <3> QED BY <1>1, <3>2 DEF P!Refs
  <2> HIDE DEF wrap
  <2> QED BY <1>4, <2>2, <2>3 DEF PinFiles
<1>5. CASE n = 4
  <2>1. g = [f EXCEPT !.txn = P!Nothing]
    BY <1>5 DEF P!Cleared
  <2> QED BY <1>1, <1>5, <2>1 DEF PinFiles
<1>6. CASE n = 5
  <2> DEFINE pin == [f.pin EXCEPT !["pw1"] = None]
             old == f.old \ {"pw1"}
  <2>1. g = [f EXCEPT !.pin = pin, !.old = old]
    BY <1>6 DEF P!Cleared, PinFiles
  <2>2. pin \in [P!Refs -> P!Pins \cup {None}] /\ old \in SUBSET P!Refs
    BY DEF PinFiles
  <2> HIDE DEF pin, old
  <2>3. g \in PinFiles /\ g.key = f.key /\ g.slot = f.slot /\ g.wrap = f.wrap /\ g.txn = f.txn
    BY <2>1, <2>2 DEF PinFiles
  <2> QED BY <1>6, <2>3
<1>7. CASE n = 6
  <2>1. g = [f EXCEPT !.pin = P!Nothing, !.old = {}, !.kdf = "none"]
    BY <1>7 DEF P!Cleared
  <2>2. /\ g.key = f.key /\ g.slot = f.slot /\ g.wrap = f.wrap /\ g.txn = f.txn
        /\ g.pin = P!Nothing /\ g.old = {} /\ g.kdf = "none"
    BY <2>1 DEF PinFiles
  <2>3. g \in PinFiles
    BY <1>1, <2>1 DEF PinFiles
  <2> QED BY <1>7, <2>2, <2>3
<1>8. CASE n = 7
  <2>1. g = [f EXCEPT !.tries = P!Limits]
    BY <1>8 DEF P!Cleared
  <2>2. P!Limits \in [P!Refs -> Int \cup {None}]
    BY PinNumbers DEF P!Limits, P!Refs
  <2> HIDE DEF P!Limits
  <2> QED BY <1>8, <2>1, <2>2 DEF PinFiles
<1> QED BY <1>2, <1>3, <1>4, <1>5, <1>6, <1>7, <1>8

LEMMA ClearStep == ASSUME PinInv, NEW n \in 1 .. 6, P!Clear(n) PROVE PinInv'
<1> DEFINE pcs == <<"clear1", "clear2", "clear3", "clear4", "clear5", "clear6", "clear7">>
           pc == pcs[n + 1]
<1>1. op.pc = pcs[n] /\ cache' = P!Cleared(cache, n) /\ op' = [op EXCEPT !.pc = pc] /\ UNCHANGED <<flash, ram, hist>>
  BY DEF P!Clear, P!ClearPcs, P!At, P!Put, P!Goto
<1>2. cache \in PinFiles /\ op \in PinOps
  BY TypesOf
<1>3. n \in 1 .. 7
  OBVIOUS
<1>4. /\ cache' \in PinFiles
      /\ cache'.key = IF n = 1 THEN None ELSE cache.key
      /\ cache'.slot = IF n = 2 THEN P!Nothing ELSE cache.slot
      /\ n \notin {2, 3} => cache'.wrap = cache.wrap
      /\ n = 2 => cache'.wrap["rc"] = cache.wrap["rc"] /\ cache'.wrap["pw3"] = cache.wrap["pw3"]
      /\ n = 3 => cache'.wrap["rc"] = None /\ cache'.wrap["pw3"] = None
      /\ cache'.txn = IF n = 4 THEN P!Nothing ELSE cache.txn
      /\ n \notin {5, 6} => cache'.pin = cache.pin /\ cache'.old = cache.old /\ cache'.kdf = cache.kdf
      /\ n = 6 => cache'.pin = P!Nothing /\ cache'.old = {} /\ cache'.kdf = "none"
  BY <1>1, <1>2, <1>3, ClearedIs
<1>5. op.pc \in Clearings /\ pc \in Clearings \ {"clear1"}
  <2>1. n = 1 \/ n = 2 \/ n = 3 \/ n = 4 \/ n = 5 \/ n = 6
    OBVIOUS
  <2> QED BY <1>1, <2>1 DEF Clearings
<1>6. pc = "clear7" => Agrees(cache')
  <2> SUFFICES ASSUME n = 6 PROVE Agrees(cache')
    OBVIOUS
  <2> QED BY <1>4 DEF Agrees, P!Nothing
<1>7. Gone => Gone'
  <2>1. op'.pc = pc
    BY <1>1, <1>2 DEF PinOps
  <2>2. CASE n = 1
    BY <1>1, <1>4, <2>1, <2>2 DEF Gone
  <2>3. CASE n = 2
    BY <1>1, <1>4, <2>1, <2>3 DEF Gone
  <2>4. CASE n = 3
    BY <1>1, <1>4, <2>1, <2>4 DEF Gone
  <2>5. CASE n = 4
    BY <1>1, <1>4, <2>1, <2>5 DEF Gone
  <2>6. CASE n = 5
    BY <1>1, <1>4, <2>1, <2>6 DEF Gone
  <2>7. CASE n = 6
    BY <1>1, <1>4, <2>1, <2>7 DEF Gone
  <2> QED BY <2>2, <2>3, <2>4, <2>5, <2>6, <2>7
<1> HIDE DEF pc, pcs
<1> QED BY <1>1, <1>4, <1>5, <1>6, <1>7, ClearKept

\* The sessions that are forgotten
LEMMA Clear7Step == ASSUME PinInv, P!Clear(7) PROVE PinInv'
<1>1. op.pc = "clear7" /\ cache' = P!Cleared(cache, 7) /\ P!Scan(cache', P!NoSession) /\ UNCHANGED <<flash, hist>>
  BY DEF P!Clear, P!ClearPcs, P!At, P!Put
<1>2. /\ cache \in PinFiles /\ flash \in PinFiles /\ op \in PinOps /\ hist \in HistTypes /\ ram \in RamTypes
      /\ PinShaped /\ FormInv /\ DekInv
  BY TypesOf
<1>3. op.cmd = "terminate"
  BY <1>1, <1>2 DEF PinShaped, Clearings
<1>4. /\ cache' \in PinFiles /\ cache'.key = cache.key /\ cache'.slot = cache.slot /\ cache'.wrap = cache.wrap
      /\ cache'.txn = cache.txn /\ cache'.pin = cache.pin /\ cache'.old = cache.old /\ cache'.kdf = cache.kdf
  <2>1. 7 \in 1 .. 7 /\ 7 \notin {2, 3} /\ 7 \notin {5, 6} /\ 7 # 1 /\ 7 # 2 /\ 7 # 4
    OBVIOUS
  <2> QED BY <1>1, <1>2, <2>1, ClearedIs
<1>5. ~hist.half => Agrees(cache')
  <2>1. ~hist.half => Agrees(cache)
    BY <1>1, <1>2, <1>3 DEF FormInv, Announced
  <2> QED BY <1>4, <2>1 DEF Agrees, SentBy
<1>6. ~hist.torn => Image(cache')
  <2>1. ~hist.torn => Bare(cache)
    BY <1>1, <1>2, <1>3 DEF DekInv, Gone, Bare
  <2> QED BY <1>4, <2>1 DEF Image, Bare
<1>7. ~hist'.half => Agrees(cache') /\ (hist'.mid = "no" => Agrees(flash'))
  BY <1>1, <1>2, <1>5 DEF FormInv
<1>8. ~hist'.torn => Image(cache') /\ (hist'.mid # "torn" => Image(flash'))
  BY <1>1, <1>2, <1>6 DEF DekInv
<1>9. hist' \in HistTypes /\ flash' \in PinFiles /\ ram.drawn \in 1 .. MaxDeks
  BY <1>1, <1>2 DEF RamTypes
<1> DEFINE r == P!NoSession
<1>10. r \in RamTypes /\ r.has = {}
  BY <1>9, NoSessionIs
<1> HIDE DEF r
<1>11. P!Scan(cache', r)
  BY <1>1 DEF r
<1> QED BY <1>4, <1>7, <1>8, <1>9, <1>10, <1>11, ScanStarts

LEMMA ClearFailsStep == ASSUME PinInv, P!ClearFails PROVE PinInv'
<1>1. op.cmd = "terminate" /\ P!Scan(cache', P!NoSession)
  BY DEF P!ClearFails
<1>2. PICK f : P!Fails(f) /\ (f = cache \/ (op.pc = "clear1" /\ f = P!Cleared(cache, 1)))
  BY DEF P!ClearFails, P!At
<1>3. /\ cache \in PinFiles /\ flash \in PinFiles /\ op \in PinOps /\ hist \in HistTypes /\ ram \in RamTypes
      /\ PinShaped /\ FormInv /\ DekInv
  BY TypesOf
<1>4. op.pc \in Clearings /\ op.pc \notin Undos \cup {"stage", "pin", "rcpin", "migrate"}
  BY <1>1, <1>3 DEF PinShaped, Clearings, Undos
<1>5. ~P!Orphans(f) /\ (P!Abandoned <=> op.pc \notin {"clear1", "clear7"})
  BY <1>1, <1>4 DEF P!Orphans, P!Abandoned, P!Undoing, P!At, Undos, Clearings
<1>6. /\ cache' = f /\ UNCHANGED flash /\ hist' \in HistTypes /\ hist'.mid = hist.mid
      /\ hist'.torn = (hist.torn \/ op.pc \notin {"clear1", "clear7"})
      /\ hist'.half = (hist.half \/ op.pc \notin {"clear1", "clear7"})
  BY <1>2, <1>3, <1>4, <1>5, FailsIs
<1>7. /\ f \in PinFiles /\ f.slot = cache.slot /\ f.wrap = cache.wrap /\ f.txn = cache.txn /\ f.pin = cache.pin
      /\ f.old = cache.old /\ f.kdf = cache.kdf /\ f.key \in {cache.key, None}
  <2>1. CASE f = cache
    BY <1>3, <2>1
  <2>2. CASE f = P!Cleared(cache, 1)
    <3>1. 1 \in 1 .. 7 /\ 1 \notin {2, 3} /\ 1 \notin {5, 6} /\ 1 # 2 /\ 1 # 4
      OBVIOUS
    <3> QED BY <1>3, <2>2, <3>1, ClearedIs
  <2> QED BY <1>2, <2>1, <2>2
<1>8. ~hist'.half => Agrees(cache') /\ (hist'.mid = "no" => Agrees(flash'))
  <2> SUFFICES ASSUME ~hist.half, op.pc \in {"clear1", "clear7"}
               PROVE  Agrees(cache') /\ (hist'.mid = "no" => Agrees(flash'))
    BY <1>6
  <2>1. Agrees(cache) /\ (hist.mid = "no" => Agrees(flash))
    BY <1>1, <1>3 DEF FormInv, Announced
  <2> QED BY <1>6, <1>7, <2>1 DEF Agrees, SentBy
<1>9. ~hist'.torn => Image(cache') /\ (hist'.mid # "torn" => Image(flash'))
  <2> SUFFICES ASSUME ~hist.torn, op.pc \in {"clear1", "clear7"}
               PROVE  Image(cache') /\ (hist'.mid # "torn" => Image(flash'))
    BY <1>6
  <2>1. Image(cache)
    <3>1. CASE op.pc = "clear1"
      BY <1>1, <1>3, <3>1 DEF DekInv
    <3>2. CASE op.pc = "clear7"
      BY <1>1, <1>3, <3>2 DEF DekInv, Gone, Bare, Image
    <3> QED BY <3>1, <3>2
  <2>2. CASE Bare(cache)
    <3>1. Bare(cache')
      BY <1>6, <1>7, <2>2 DEF Bare
    <3> QED BY <1>3, <1>6, <3>1 DEF DekInv, Image
  <2>3. ASSUME NEW d \in DrawnDeks, Whole(cache, d) PROVE Image(cache') /\ (hist'.mid # "torn" => Image(flash'))
    <3>1. OneDek(f, d)
      BY <1>7, <2>3 DEF Whole, OneDek
    <3>2. \A r \in P!Refs : Fitting(f, r)
      BY <1>7, <2>3 DEF Whole, Fitting, Direct
    <3>3. Whole(f, d)
      BY <1>7, <2>3, <3>1, <3>2 DEF Whole
    <3> QED BY <1>3, <1>6, <3>3 DEF DekInv, Image
  <2> QED BY <2>1, <2>2, <2>3 DEF Image
<1>10. flash' \in PinFiles /\ ram.drawn \in 1 .. MaxDeks
  BY <1>3, <1>6 DEF RamTypes
<1> DEFINE r == P!NoSession
<1>11. r \in RamTypes /\ r.has = {}
  BY <1>10, NoSessionIs
<1> HIDE DEF r
<1>12. P!Scan(cache', r)
  BY <1>1 DEF r
<1> QED BY <1>6, <1>7, <1>8, <1>9, <1>10, <1>11, <1>12, ScanStarts

LEMMA FaultStep == ASSUME PinInv, P!Fault PROVE PinInv'
BY ReplaceFailsStep, RcFailsStep, UndoFailsStep, ClearFailsStep DEF P!Fault

-----------------------------------------------------------------------------
(* OpenPgpPin: the keys, the applet and the power *)

LEMMA ImportStep == ASSUME PinInv, P!Import PROVE PinInv'
<1> DEFINE k == P!LoadDek(cache, ram.has, ram.sess)
<1>1. /\ op = P!Idle /\ k # None /\ cache' = [cache EXCEPT !.key = k] /\ UNCHANGED <<flash, ram, op, hist>>
  BY DEF P!Import, P!Put
<1>2. op.pc = "idle"
  BY <1>1, IdleOp
<1>3. /\ cache \in PinFiles /\ hist \in HistTypes /\ ram \in RamTypes /\ (~hist.half => Agrees(cache))
      /\ ~hist.torn => \E d \in DrawnDeks : Whole(cache, d) /\ Admitted /\ PinsThere
  BY <1>2, CalmFacts
<1>4. k \in Deks \cup {None}
  <2>1. ram.has \in SUBSET P!Accesses /\ \A r \in P!Refs : ram.sess[r] \in P!Pins \cup {None} \cup {P!Multi(p) : p \in P!Pins}
    BY <1>3 DEF RamTypes, Keys
  <2> QED BY <1>3, <2>1, LoadTypes
<1>5. \A d \in DrawnDeks : Whole(cache, d) /\ Admitted => k = d
  <2> SUFFICES ASSUME NEW d \in DrawnDeks, Whole(cache, d), Admitted PROVE k = d
    OBVIOUS
  <2>1. OneDek(cache, d) /\ ram.has \in SUBSET P!Accesses /\ \A a \in ram.has : cache.wrap[P!RefOf(a)] # None
    BY <1>3 DEF Whole, Admitted, RamTypes
  <2>2. k \in {None, d}
    BY <1>3, <2>1, LoadsIt
  <2> QED BY <1>1, <2>2
<1> HIDE DEF k
<1>6. /\ cache' \in PinFiles /\ cache'.key = k /\ cache'.pin = cache.pin /\ cache'.old = cache.old
      /\ cache'.wrap = cache.wrap /\ cache'.slot = cache.slot /\ cache'.txn = cache.txn /\ cache'.kdf = cache.kdf
  BY <1>1, <1>3, <1>4 DEF PinFiles
<1>7. ~hist.half => Agrees(cache')
  BY <1>3, <1>6 DEF Agrees, SentBy
<1>8. Calm'
  BY <1>1, IdleFacts
<1>9. ~hist'.torn => \E d \in DrawnDeks : Whole(cache', d) /\ PinsThere' /\ Admitted'
  <2> SUFFICES ASSUME ~hist.torn PROVE \E d \in DrawnDeks : Whole(cache', d) /\ PinsThere' /\ Admitted'
    BY <1>1
  <2>1. PICK d \in DrawnDeks : Whole(cache, d) /\ Admitted /\ PinsThere
    BY <1>3
  <2>2. k = d
    BY <1>5, <2>1
  <2>3. OneDek(cache', d)
    BY <1>6, <2>1, <2>2 DEF Whole, OneDek
  <2>4. \A r \in P!Refs : Fitting(cache', r)
    <3> SUFFICES ASSUME NEW r \in P!Refs PROVE Fitting(cache', r)
      OBVIOUS
    <3>1. Fitting(cache, r)
      BY <2>1 DEF Whole
    <3>2. cache.pin[r] # None \/ r = "rc"
      BY <1>2, <2>1 DEF PinsThere, P!Refs
    <3> QED BY <1>6, <3>1, <3>2 DEF Fitting, Direct
  <2>5. Whole(cache', d)
    BY <1>6, <2>1, <2>3, <2>4 DEF Whole
  <2>6. PinsThere' /\ Admitted'
    BY <1>1, <1>2, <1>6, <2>1 DEF PinsThere, Admitted
  <2> QED BY <2>5, <2>6
<1> QED BY <1>1, <1>3, <1>6, <1>7, <1>8, <1>9, CalmStep

LEMMA SelectStep == ASSUME PinInv, P!Select PROVE PinInv'
<1> DEFINE has == ram.has \cap {"rc"}
           r == P!Session(has, ram.sess)
<1>1. op = P!Idle /\ P!Scan(cache, r) /\ hist' = [hist EXCEPT !.commands = @ + 1] /\ UNCHANGED <<cache, flash>>
  BY DEF P!Select, P!Counted
<1>2. op.pc = "idle"
  BY <1>1, IdleOp
<1>3. /\ cache \in PinFiles /\ hist \in HistTypes /\ ram \in RamTypes /\ (~hist.half => Agrees(cache))
      /\ ~hist.torn => \E d \in DrawnDeks : Whole(cache, d) /\ Admitted /\ PinsThere
  BY <1>2, CalmFacts
<1>4. flash \in PinFiles /\ FormInv /\ DekInv /\ ram.drawn \in 1 .. MaxDeks
  BY TypesOf DEF RamTypes
<1>5. r \in RamTypes /\ r.has = has /\ \A a \in has : r.sess[P!RefOf(a)] = ram.sess[P!RefOf(a)]
  <2>1. has \in SUBSET P!Accesses /\ ram.sess \in Keys
    BY <1>3 DEF RamTypes, P!Accesses
  <2> QED BY <1>4, <2>1, RefsOfAccesses DEF P!Session, Keys, RamTypes
<1>6. hist' \in HistTypes /\ hist'.half = hist.half /\ hist'.mid = hist.mid /\ hist'.torn = hist.torn /\ hist'.faults = hist.faults
  BY <1>1, <1>3 DEF HistTypes
<1> HIDE DEF r
<1>7. P!Scan(cache', r) /\ cache' \in PinFiles /\ flash' \in PinFiles
  BY <1>1, <1>3, <1>4
<1>8. ~hist'.half => Agrees(cache') /\ (hist'.mid = "no" => Agrees(flash'))
  <2>1. Agrees(cache') <=> Agrees(cache)
    BY <1>1 DEF Agrees, SentBy
  <2>2. Agrees(flash') <=> Agrees(flash)
    BY <1>1 DEF Agrees, SentBy
  <2> QED BY <1>3, <1>4, <1>6, <2>1, <2>2 DEF FormInv
<1>9. ~hist'.torn => Image(cache') /\ (hist'.mid # "torn" => Image(flash'))
  <2>1. ~hist.torn => Image(cache)
    BY <1>3 DEF Image
  <2>2. (Image(cache') <=> Image(cache)) /\ (Image(flash') <=> Image(flash))
    BY <1>1
  <2> QED BY <1>4, <1>6, <2>1, <2>2 DEF DekInv
<1>10. ~hist'.torn /\ r.has # {} =>
         /\ cache'.pin["pw1"] # None
         /\ \A a \in r.has : P!RefOf(a) \notin cache'.old /\ cache'.wrap[P!RefOf(a)] # None
         /\ hist'.faults = 0 => \A a \in r.has : LET q == P!RefOf(a) IN
                r.sess[q] = cache'.pin[q] /\ By(cache'.wrap[q], cache'.pin[q])
  <2> SUFFICES ASSUME ~hist.torn
               PROVE  /\ cache.pin["pw1"] # None
                      /\ \A a \in r.has : P!RefOf(a) \notin cache.old /\ cache.wrap[P!RefOf(a)] # None
                      /\ hist.faults = 0 => \A a \in r.has : LET q == P!RefOf(a) IN
                             r.sess[q] = cache.pin[q] /\ By(cache.wrap[q], cache.pin[q])
    BY <1>1, <1>6
  <2>1. Admitted /\ PinsThere
    BY <1>3
  <2> QED BY <1>2, <1>5, <2>1 DEF PinsThere, Admitted
<1> QED BY <1>4, <1>5, <1>6, <1>7, <1>8, <1>9, <1>10, ScanStarts

LEMMA DrainStep == ASSUME PinInv, P!Drain PROVE PinInv'
<1> DEFINE mid == IF P!Unprotected THEN "torn" ELSE IF op.cmd = "kdf" THEN "half" ELSE "no"
<1>1. flash' = cache /\ hist' = [hist EXCEPT !.mid = mid] /\ UNCHANGED <<cache, ram, op>>
  BY DEF P!Drain
<1>2. /\ cache \in PinFiles /\ op \in PinOps /\ hist \in HistTypes /\ ram \in RamTypes
      /\ PinShaped /\ Reseeded /\ Missing /\ FormInv /\ DekInv
  BY TypesOf
<1>3. hist' \in HistTypes /\ hist'.half = hist.half /\ hist'.mid = mid /\ hist'.torn = hist.torn /\ hist'.faults = hist.faults
  <2>1. mid \in {"no", "half", "torn"}
    OBVIOUS
  <2> HIDE DEF mid
  <2> QED BY <1>1, <1>2, <2>1 DEF HistTypes
<1>4. PinTypes'
  <2>1. PinShaped' /\ Reseeded'
    BY <1>1, <1>2 DEF PinShaped, Reseeded, Missing
  <2> QED BY <1>1, <1>2, <1>3, <2>1 DEF PinTypes, HistTypes, RamTypes, Keys
<1>5. ~P!Unprotected => /\ op.cmd # "terminate" /\ op.pc \notin Undos \cup {"migrate"}
                        /\ ~(op.live /\ op.pc \in {"pin", "rcpin"})
  BY DEF P!Unprotected, P!Undoing, P!At, Undos
<1>6. FormInv'
  <2> SUFFICES ASSUME ~hist.half PROVE (mid = "no" => Agrees(cache)) /\ Announced
    <3>1. Announced' <=> Announced
      BY <1>1 DEF Announced, Restoring, Agrees, SentBy
    <3>2. Agrees(flash)' <=> Agrees(cache)
      BY <1>1 DEF Agrees, SentBy
    <3> QED BY <1>3, <3>1, <3>2 DEF FormInv
  <2>1. Announced
    BY <1>2 DEF FormInv
  <2>2. mid = "no" => op.cmd \notin {"terminate", "kdf"} /\ op.pc \notin Undos
    BY <1>5
  <2> HIDE DEF mid
  <2> QED BY <2>1, <2>2 DEF Announced
<1>7. ~hist.torn /\ mid # "torn" => Image(cache)
  <2> SUFFICES ASSUME ~hist.torn, mid # "torn" PROVE Image(cache)
    OBVIOUS
  <2>1. op.cmd # "terminate" /\ op.pc \notin Undos \cup {"migrate"} /\ ~(op.live /\ op.pc \in {"pin", "rcpin"})
    BY <1>5
  <2>2. CASE Making
    BY <2>2 DEF Making, Image
  <2>3. CASE \E d \in DrawnDeks : Standing(d)
    <3>1. PICK d \in DrawnDeks : Standing(d)
      BY <2>3
    <3>2. \A r \in P!Refs : Holding(r)
      BY <3>1 DEF Standing
    <3>3. \A r \in P!Refs : Fitting(cache, r)
      BY <2>1, <3>2 DEF Holding
    <3> QED BY <3>1, <3>3 DEF Standing, Whole, Image
  <2> QED BY <1>2, <2>1, <2>2, <2>3 DEF DekInv
<1>8. DekInv'
  <2> SUFFICES ASSUME ~hist.torn
               PROVE  /\ mid # "torn" => Image(cache)
                      /\ op.cmd = "terminate" => Gone' /\ (op.pc = "clear1" => Image(cache)')
                      /\ op.cmd # "terminate" => Making' \/ \E d \in DrawnDeks : Standing(d)'
    <3>1. Image(flash)' <=> Image(cache)
      BY <1>1 DEF Image, Bare, Whole, OneDek, Fitting, Direct
    <3> HIDE DEF mid
    <3> QED BY <1>1, <1>3, <3>1 DEF DekInv
  <2>1. Gone => Gone'
    BY <1>1 DEF Gone
  <2>2. Making => Making'
    BY <1>1 DEF Making, Bare
  <2>3. ASSUME NEW d \in DrawnDeks, Standing(d) PROVE Standing(d)'
    <3>1. Granted => Granted'
      BY <1>1, <1>3 DEF Granted
    <3>2. Exchanging => Exchanging'
      BY <1>1 DEF Exchanging
    <3>3. Snapped(d) => Snapped(d)'
      BY <1>1 DEF Snapped, Whole, OneDek, Fitting, Direct
    <3>4. \A r \in P!Refs : Holding(r) => Holding(r)'
      BY <1>1 DEF Holding, Fitting, Direct
    <3>5. OneDek(cache, d) => OneDek(cache, d)'
      BY <1>1 DEF OneDek
    <3> QED BY <1>1, <2>3, <3>1, <3>2, <3>3, <3>4, <3>5 DEF Standing
  <2>4. /\ op.cmd = "terminate" => Gone /\ (op.pc = "clear1" => Image(cache))
        /\ op.cmd # "terminate" => Making \/ \E d \in DrawnDeks : Standing(d)
    BY <1>2 DEF DekInv
  <2>5. Image(cache)' <=> Image(cache)
    BY <1>1 DEF Image, Bare, Whole, OneDek, Fitting, Direct
  <2> HIDE DEF mid
  <2> QED BY <1>7, <2>1, <2>2, <2>3, <2>4, <2>5
<1> QED BY <1>4, <1>6, <1>8 DEF PinInv

LEMMA PowerLossStep == ASSUME PinInv, P!PowerLoss PROVE PinInv'
<1>1. /\ cache' = flash /\ P!Scan(flash, P!NoSession) /\ UNCHANGED flash
      /\ hist' = [hist EXCEPT !.cuts = @ + 1, !.mid = "no", !.torn = @ \/ hist.mid = "torn",
                              !.half = @ \/ hist.mid # "no"]
  BY DEF P!PowerLoss
<1>2. flash \in PinFiles /\ hist \in HistTypes /\ FormInv /\ DekInv /\ ram.drawn \in 1 .. MaxDeks
  BY TypesOf DEF RamTypes
<1> DEFINE torn == hist.torn \/ hist.mid = "torn"
           half == hist.half \/ hist.mid # "no"
<1>3. hist.torn \in BOOLEAN /\ hist.half \in BOOLEAN /\ torn \in BOOLEAN /\ half \in BOOLEAN
  BY <1>2 DEF HistTypes
<1>4. hist' = [hist EXCEPT !.cuts = @ + 1, !.mid = "no", !.torn = torn, !.half = half]
  BY <1>1
<1>5. hist' \in HistTypes /\ hist'.mid = "no" /\ hist'.torn = torn /\ hist'.half = half
  <2> DEFINE cuts == hist.cuts + 1
  <2>1. cuts \in Nat /\ hist' = [hist EXCEPT !.cuts = cuts, !.mid = "no", !.torn = torn, !.half = half]
    BY <1>2, <1>4 DEF HistTypes
  <2> HIDE DEF torn, half, cuts
  <2> QED BY <1>2, <1>3, <2>1 DEF HistTypes
<1>6. ~hist'.half => Agrees(cache') /\ (hist'.mid = "no" => Agrees(flash'))
  <2> SUFFICES ASSUME ~hist.half, hist.mid = "no" PROVE Agrees(cache') /\ Agrees(flash')
    BY <1>5
  <2>1. Agrees(flash)
    BY <1>2 DEF FormInv
  <2> QED BY <1>1, <2>1 DEF Agrees, SentBy
<1>7. ~hist'.torn => Image(cache') /\ (hist'.mid # "torn" => Image(flash'))
  <2> SUFFICES ASSUME ~hist.torn, hist.mid # "torn" PROVE Image(cache') /\ Image(flash')
    BY <1>5
  <2>1. Image(flash)
    BY <1>2 DEF DekInv
  <2> QED BY <1>1, <2>1
<1> DEFINE r == P!NoSession
<1>8. r \in RamTypes /\ r.has = {}
  BY <1>2, NoSessionIs
<1> HIDE DEF r
<1>9. P!Scan(cache', r) /\ cache' \in PinFiles /\ flash' \in PinFiles
  BY <1>1, <1>2 DEF r
<1> QED BY <1>2, <1>5, <1>6, <1>7, <1>8, <1>9, ScanStarts

-----------------------------------------------------------------------------
(* OpenPgpPin: the invariant *)

LEMMA CheckStep ==
    ASSUME PinInv, NEW cmd \in {"verify", "change", "unblock"}, NEW a \in P!Accesses, NEW p, P!Check(cmd, a, p)
    PROVE  PinInv'
BY CheckRightStep, CheckOldStep DEF P!Check

LEMMA CommandsStep == ASSUME PinInv, P!Commands PROVE PinInv'
<1>1. ASSUME NEW a \in {"pw1", "pw3"}, NEW p \in P!Sent, P!Check("change", a, p) PROVE PinInv'
  BY <1>1, CheckStep DEF P!Accesses
<1>2. ASSUME NEW p \in P!Sent, P!Check("unblock", "rc", p) PROVE PinInv'
  BY <1>2, CheckStep DEF P!Accesses
<1>3. ASSUME NEW p \in P!Sent, P!UnblockByPw3(p) \/ P!PutRc(p) PROVE PinInv'
  BY <1>3, UnblockByPw3Step, PutRcStep
<1>4. ASSUME P!ClearRc \/ P!Select PROVE PinInv'
  BY <1>4, ClearRcStep, SelectStep
<1>5. ASSUME NEW a \in P!Accesses, P!Logout(a) \/ \E p \in P!Sent : P!CheckWrong(a, p) PROVE PinInv'
  BY <1>5, LogoutStep, CheckWrongStep
<1>6. ASSUME NEW k \in {"off", "on"}, P!PutKdf(k) PROVE PinInv'
  BY <1>6, PutKdfStep
<1>7. ASSUME P!TerminateDf PROVE PinInv'
  BY <1>7, TerminateStep
<1> QED BY <1>1, <1>2, <1>3, <1>4, <1>5, <1>6, <1>7 DEF P!Commands

LEMMA HandlerStep == ASSUME PinInv, P!Handler PROVE PinInv'
<1>1. ASSUME P!Scanning PROVE PinInv'
  BY <1>1, ScanDek1Step, ScanDek3Step, ScanPin1Step, ScanPin3Step, ScanLimitsStep DEF P!Scanning
<1>2. ASSUME P!RcTxn \/ P!RcPin \/ P!RcWrap \/ P!Migrate \/ P!Unslot PROVE PinInv'
  BY <1>2, RcTxnStep, RcPinStep, RcWrapStep, MigrateStep, UnslotStep
<1>3. ASSUME NEW p \in P!Sent, P!Load(p) PROVE PinInv'
  BY <1>3, LoadStep
<1>4. ASSUME P!Stage \/ P!PutPin \/ P!PutWrap \/ P!Unstage \/ P!ResetTries \/ P!Fault PROVE PinInv'
  BY <1>4, StageStep, PutPinStep, PutWrapStep, UnstageStep, ResetTriesStep, FaultStep
<1>5. ASSUME NEW n \in 1 .. 9, P!Undo(n) PROVE PinInv'
  BY <1>5, UndoStep
<1>6. ASSUME NEW n \in 1 .. 7, P!Clear(n) PROVE PinInv'
  <2>1. n \in 1 .. 6 \/ n = 7
    OBVIOUS
  <2> QED BY <1>6, <2>1, ClearStep, Clear7Step
<1> QED BY <1>1, <1>2, <1>3, <1>4, <1>5, <1>6 DEF P!Handler

LEMMA PinNext == PinInv /\ P!Next => PinInv'
<1> SUFFICES ASSUME PinInv, P!Next PROVE PinInv'
  OBVIOUS
<1>1. ASSUME NEW a \in {"pw1", "pw2", "pw3"}, NEW p \in P!Sent, P!Check("verify", a, p) PROVE PinInv'
  BY <1>1, CheckStep DEF P!Accesses
<1> QED BY <1>1, CommandsStep, HandlerStep, ImportStep, DrainStep, PowerLossStep DEF P!Next

LEMMA NewCardInv == ASSUME P!Init, P!NewCard PROVE PinInv
<1>1. /\ cache = P!Blank /\ flash = cache /\ ram = [has |-> {}, sess |-> P!Nothing, drawn |-> 1]
      /\ op = [P!Idle EXCEPT !.cmd = "scan", !.pc = "scandek1", !.dek = P!Dek(1), !.fresh = TRUE]
      /\ hist = [cuts |-> 0, torn |-> FALSE, half |-> FALSE, mid |-> "no", commands |-> 0, faults |-> 0]
  BY DEF P!Init, P!NewCard
<1>2. P!Dek(1) \in DrawnDeks /\ P!Dek(1) \in Deks /\ P!Dek(1) # None
  <2>1. 1 \in 1 .. MaxDeks
    BY PinNumbers
  <2>2. P!Dek(1) \in DrawnDeks
    BY <2>1 DEF DrawnDeks
  <2> QED BY <2>2, PinNumbers
<1>3. P!Nothing \in [P!Refs -> P!Pins \cup {None}] /\ P!Nothing \in [P!Refs -> MayWrap] /\ P!Nothing \in [P!Refs -> Int \cup {None}]
  BY DEF P!Nothing, MayWrap
<1>4. P!Blank \in PinFiles
  BY <1>3 DEF P!Blank, PinFiles
<1>5. op \in PinOps /\ op.cmd = "scan" /\ op.pc = "scandek1" /\ op.dek = P!Dek(1) /\ op.fresh
  BY <1>1, <1>2, IdleOp DEF PinOps, PinPcs, PinCmds, Provisions
<1>6. \A r \in P!Refs : cache.pin[r] = None /\ cache.wrap[r] = None
  BY <1>1 DEF P!Blank, P!Nothing
<1>7. PinTypes
  <2>1. PinShaped /\ Reseeded
    BY <1>2, <1>5, <1>6 DEF PinShaped, Reseeded, Missing, Clearings, Replacing, Undos, P!Refs
  <2>2. ram \in RamTypes
    <3>1. 1 \in 1 .. MaxDeks
      BY PinNumbers
    <3> QED BY <1>1, <1>3, <3>1 DEF RamTypes, Keys
  <2> QED BY <1>1, <1>4, <1>5, <2>1, <2>2 DEF PinTypes, RamTypes, Keys
<1>8. Agrees(cache)
  BY <1>1, <1>6 DEF Agrees, P!Blank
<1>9. FormInv
  BY <1>1, <1>5, <1>8 DEF FormInv, Announced, Undos, Replacing
<1>10. Bare(cache)
  BY <1>1, <1>6 DEF Bare, P!Blank, P!Refs
<1>11. Making
  BY <1>1, <1>2, <1>5, <1>10 DEF Making
<1>12. DekInv
  BY <1>1, <1>5, <1>10, <1>11 DEF DekInv, Image
<1> QED BY <1>7, <1>9, <1>12 DEF PinInv

LEMMA OldCardInv == ASSUME OldCodes \subseteq {None}, P!Init, P!OldCard PROVE PinInv
<1>1. PICK p \in RawPins \ {Default} :
         LET pins == [pw1 |-> p, rc |-> None, pw3 |-> Default]
             used == {r \in P!Refs : pins[r] # None}
         IN cache = [P!Blank EXCEPT !.pin = pins, !.old = used, !.key = P!Dek(1), !.kdf = "off",
                         !.slot = [r \in P!Refs |-> IF r \in used THEN P!Wrap(pins[r], P!Dek(1)) ELSE None],
                         !.tries = [r \in P!Refs |-> IF r \in used THEN MaxTries ELSE 0]]
  <2>1. PICK p \in RawPins \ {Default}, c \in OldCodes :
             LET pins == [pw1 |-> p, rc |-> c, pw3 |-> Default]
                 used == {r \in P!Refs : pins[r] # None}
             IN cache = [P!Blank EXCEPT !.pin = pins, !.old = used, !.key = P!Dek(1), !.kdf = "off",
                             !.slot = [r \in P!Refs |-> IF r \in used THEN P!Wrap(pins[r], P!Dek(1)) ELSE None],
                             !.tries = [r \in P!Refs |-> IF r \in used THEN MaxTries ELSE 0]]
    BY DEF P!OldCard
  <2>2. c = None
    OBVIOUS
  <2> QED BY <2>1, <2>2
<1> DEFINE pins == [r \in P!Refs |-> IF r = "pw1" THEN p ELSE IF r = "pw3" THEN Default ELSE None]
           used == {"pw1", "pw3"}
           slot == [r \in P!Refs |-> IF r \in used THEN P!Wrap(pins[r], P!Dek(1)) ELSE None]
           tries == [r \in P!Refs |-> IF r \in used THEN MaxTries ELSE 0]
           d == P!Dek(1)
<1>2. p \in P!Pins /\ p # None /\ Default \in P!Pins /\ Default # None
  BY PinNumbers
<1>3. cache = [P!Blank EXCEPT !.pin = pins, !.old = used, !.key = d, !.kdf = "off", !.slot = slot, !.tries = tries]
  <2>1. [pw1 |-> p, rc |-> None, pw3 |-> Default] = pins
    BY DEF P!Refs
  <2>2. {r \in P!Refs : pins[r] # None} = used
    BY <1>2 DEF P!Refs
  <2> HIDE DEF pins, used, d
  <2> QED BY <1>1, <2>1, <2>2 DEF d
<1>4. d \in DrawnDeks /\ d \in Deks /\ d # None
  <2>1. 1 \in 1 .. MaxDeks
    BY PinNumbers
  <2>2. d \in DrawnDeks
    BY <2>1 DEF DrawnDeks
  <2> HIDE DEF d
  <2> QED BY <2>2, PinNumbers
<1>5. \A r \in used : pins[r] \in P!Pins /\ pins[r] # None /\ pins[r] \in RawPins
  BY <1>2, PinNumbers DEF P!Refs
<1>6. pins["rc"] = None /\ slot["rc"] = None /\ pins["pw1"] # None /\ pins["pw3"] # None
  BY <1>2 DEF P!Refs
<1>7. pins \in [P!Refs -> P!Pins \cup {None}] /\ tries \in [P!Refs -> Int \cup {None}]
  <2>1. MaxTries \in Int
    BY PinNumbers
  <2> QED BY <1>2, <2>1
<1>8. slot \in [P!Refs -> MayWrap] /\ \A r \in used : slot[r] # None /\ slot[r].dek = d /\ By(slot[r], pins[r])
  <2> HIDE DEF pins, used, d
  <2>1. \A r \in used : P!Wrap(pins[r], d) \in MayWrap /\ P!Wrap(pins[r], d) # None /\ P!Wrap(pins[r], d).dek = d
                        /\ P!Wrap(pins[r], d).by = pins[r]
    BY <1>4, <1>5, PinNumbers
  <2>2. None \in MayWrap
    BY DEF MayWrap
  <2>3. \A r \in P!Refs : slot[r] = IF r \in used THEN P!Wrap(pins[r], d) ELSE None
    BY DEF d
  <2>4. \A r \in used : r \in P!Refs
    BY DEF used, P!Refs
  <2>5. slot \in [P!Refs -> MayWrap]
    BY <2>1, <2>2 DEF d
  <2> HIDE DEF slot
  <2> QED BY <2>1, <2>3, <2>4, <2>5 DEF By
<1>9. used \in SUBSET P!Refs /\ "rc" \notin used /\ \A r \in P!Refs : r # "rc" => r \in used
  BY DEF P!Refs
<1> HIDE DEF pins, used, slot, tries, d
<1>10. P!Nothing \in [P!Refs -> MayWrap]
  BY DEF P!Nothing, MayWrap
<1>11. /\ cache \in PinFiles /\ cache.pin = pins /\ cache.old = used /\ cache.key = d /\ cache.kdf = "off"
       /\ cache.slot = slot /\ cache.tries = tries /\ cache.wrap = P!Nothing /\ cache.txn = P!Nothing
  BY <1>3, <1>4, <1>7, <1>8, <1>9, <1>10 DEF PinFiles, P!Blank
<1>12. /\ flash = cache /\ ram = [has |-> {}, sess |-> P!Nothing, drawn |-> 1]
       /\ hist = [cuts |-> 0, torn |-> FALSE, half |-> FALSE, mid |-> "no", commands |-> 0, faults |-> 0]
  BY DEF P!Init
<1>13. cache.pin["pw1"] # None /\ cache.pin["pw3"] # None /\ cache.pin["rc"] = None
  BY <1>6, <1>11
<1>14. op = P!ScanOn(P!Idle, cache)
  <2>1. cache # P!Blank
    BY <1>13 DEF P!Blank, P!Nothing, P!Refs
  <2> QED BY <2>1 DEF P!Init
<1>15. Calm
  <2>1. P!Idle \in PinOps /\ P!Idle.cmd = "none" /\ P!Idle.pc = "idle"
    BY IdleOp
  <2>2. \/ op = P!Idle
        \/ /\ op \in PinOps /\ op.cmd = "none" /\ op.pc \in {"scanpin1", "scanpin3", "limits", "rctxn"}
           /\ op.pc = "scanpin1" <=> cache.pin["pw1"] = None
           /\ op.pc # "scanpin1" => (op.pc = "scanpin3" <=> cache.pin["pw3"] = None)
    BY <1>11, <1>14, <2>1, ScanOnIs
  <2>3. op \in PinOps /\ op.cmd = "none" /\ op.pc \in {"idle", "limits", "rctxn"} /\ (op.pc = "idle" => op = P!Idle)
    BY <1>13, <2>1, <2>2
  <2> QED BY <1>13, <2>3 DEF Calm, CalmPcs, Missing
<1>16. PinTypes
  <2>1. ram \in RamTypes
    <3>1. 1 \in 1 .. MaxDeks
      BY PinNumbers
    <3>2. P!Nothing \in [P!Refs -> P!Pins \cup {None}]
      BY DEF P!Nothing
    <3> QED BY <1>12, <3>1, <3>2 DEF RamTypes, Keys
  <2> QED BY <1>11, <1>12, <1>15, <2>1, CalmShape DEF PinTypes, RamTypes, Keys, Calm
<1>17. Agrees(cache)
  <2>1. \A r \in P!Refs : cache.pin[r] \in RawPins \cup {None}
    BY <1>5, <1>6, <1>9, <1>11
  <2> QED BY <1>11, <1>13, <2>1 DEF Agrees, SentBy
<1>18. FormInv
  BY <1>12, <1>15, <1>17, CalmForm DEF FormInv, Agrees, SentBy
<1>19. Whole(cache, d)
  <2>1. OneDek(cache, d)
    <3> SUFFICES ASSUME NEW r \in P!Refs
                 PROVE  cache.wrap[r] = None /\ cache.txn[r] = None /\ (cache.slot[r] # None => cache.slot[r].dek = d)
      BY <1>11 DEF OneDek
    <3> QED BY <1>6, <1>8, <1>9, <1>11 DEF P!Nothing
  <2>2. \A r \in P!Refs : Fitting(cache, r)
    <3> SUFFICES ASSUME NEW r \in P!Refs PROVE Fitting(cache, r)
      OBVIOUS
    <3>1. cache.wrap[r] = None
      BY <1>11 DEF P!Nothing
    <3>2. CASE r = "rc"
      BY <1>9, <1>11, <1>13, <3>2 DEF Fitting
    <3>3. CASE r # "rc"
      <4>1. r \in used /\ By(slot[r], pins[r]) /\ pins[r] # None
        BY <1>5, <1>8, <1>9, <3>3
      <4> QED BY <1>11, <3>1, <4>1 DEF Fitting, Direct
    <3> QED BY <3>2, <3>3
  <2> QED BY <1>9, <1>11, <2>1, <2>2 DEF Whole
<1>20. PinsThere /\ Admitted
  <2>1. op.pc # "load"
    BY <1>11, <1>13, <1>14, ScanOnIs, IdleOp
  <2> QED BY <1>12, <1>13, <2>1 DEF PinsThere, Admitted
<1>21. Standing(d)
  BY <1>4, <1>15, <1>19, <1>20, CalmStands
<1>22. DekInv
  BY <1>4, <1>12, <1>15, <1>19, <1>21 DEF DekInv, Image, Calm
<1> QED BY <1>16, <1>18, <1>22 DEF PinInv

LEMMA PinInit == ASSUME OldCodes \subseteq {None} PROVE P!Init => PinInv
BY NewCardInv, OldCardInv DEF P!Init

LEMMA PinPart == ASSUME OldCodes \subseteq {None} PROVE Spec => [](part = "pin" => PinInv)
<1>1. Init => (part = "pin" => PinInv)
  BY PinInit DEF Init
<1>2. (part = "pin" => PinInv) /\ [Next]_vars => (part = "pin" => PinInv)'
  <2> SUFFICES ASSUME part = "pin" => PinInv, [Next]_vars, part' = "pin" PROVE PinInv'
    OBVIOUS
  <2>1. CASE Next
    BY <2>1, PinNext DEF Next
  <2>2. CASE UNCHANGED vars
    <3>1. PinInv
      BY <2>2 DEF vars
    <3>2. PinTypes'
      BY <2>2, <3>1 DEF vars, PinInv, PinTypes, PinShaped, Reseeded, Missing
    <3>3. FormInv'
      BY <2>2, <3>1 DEF vars, PinInv, FormInv, Announced, Restoring, Agrees, SentBy
    <3>4. Gone' <=> Gone
      BY <2>2 DEF vars, Gone
    <3>5. Making' <=> Making
      BY <2>2 DEF vars, Making, Bare
    <3>6. ASSUME NEW d PROVE Standing(d)' <=> Standing(d)
      <4>1. Granted' <=> Granted
        BY <2>2 DEF vars, Granted
      <4>2. Exchanging' <=> Exchanging
        BY <2>2 DEF vars, Exchanging
      <4>3. Snapped(d)' <=> Snapped(d)
        BY <2>2 DEF vars, Snapped, Whole, OneDek, Fitting, Direct
      <4>4. \A r \in P!Refs : Holding(r)' <=> Holding(r)
        BY <2>2 DEF vars, Holding, Fitting, Direct
      <4>5. OneDek(cache, d)' <=> OneDek(cache, d)
        BY <2>2 DEF vars, OneDek
      <4> QED BY <2>2, <4>1, <4>2, <4>3, <4>4, <4>5 DEF vars, Standing
    <3>7. (Image(flash)' <=> Image(flash)) /\ (Image(cache)' <=> Image(cache))
      BY <2>2 DEF vars, Image, Bare, Whole, OneDek, Fitting, Direct
    <3>8. DekInv'
      BY <2>2, <3>1, <3>4, <3>5, <3>6, <3>7 DEF vars, PinInv, DekInv
    <3> QED BY <3>2, <3>3, <3>8 DEF PinInv
  <2> QED BY <2>1, <2>2
<1> QED BY <1>1, <1>2, PTL DEF Spec

\* A reference that fits opens the DEK.
LEMMA FittingOpens ==
    ASSUME NEW f \in PinFiles, NEW d, OneDek(f, d), NEW r \in P!Refs, Fitting(f, r), f.pin[r] # None
    PROVE  P!Opens(f, r) = d
<1>1. CASE r \in f.old
  <2>1. By(f.slot[r], f.pin[r]) /\ f.slot[r].dek = d
    BY <1>1 DEF Fitting, Direct, OneDek, By
  <2> QED BY <1>1, <2>1 DEF P!Opens, P!OldDek, By
<1>2. CASE r \notin f.old
  <2>1. f.wrap[r] # None => f.wrap[r].dek = d
    BY DEF OneDek
  <2>2. CASE f.txn[r] # None /\ f.txn[r].by = f.pin[r]
    <3>1. P!Recovered(f, r).wrap[r] = f.txn[r] /\ f.txn[r].dek = d
      BY <2>2, RecoveredIs DEF OneDek, By
    <3> QED BY <1>2, <2>2, <3>1 DEF P!Opens
  <2>3. CASE ~(f.txn[r] # None /\ f.txn[r].by = f.pin[r])
    <3>1. By(f.wrap[r], f.pin[r])
      BY <1>2, <2>3 DEF Fitting, Direct, By
    <3>2. P!Recovered(f, r).wrap = f.wrap
      BY <2>3 DEF P!Recovered, PinFiles
    <3> QED BY <1>2, <2>1, <3>1, <3>2 DEF P!Opens, By
  <2> QED BY <2>2, <2>3
<1> QED BY <1>1, <1>2

LEMMA PinProperties == PinInv => P!KeysOpen /\ P!SessionsCurrent /\ P!KdfAgrees
<1> SUFFICES ASSUME PinInv PROVE P!KeysOpen /\ P!SessionsCurrent /\ P!KdfAgrees
  OBVIOUS
<1>1. cache \in PinFiles /\ DekInv /\ PinShaped
  BY TypesOf
<1>2. P!KeysOpen
  <2> SUFFICES ASSUME cache.key # None, ~hist.torn, ~P!Unprotected, NEW r \in P!Refs
               PROVE  IF cache.pin[r] = None THEN r = "rc" ELSE P!Opens(cache, r) = cache.key
    BY DEF P!KeysOpen
  <2>1. op.cmd # "terminate" /\ op.pc \notin Undos \cup {"migrate"} /\ ~(op.live /\ op.pc \in {"pin", "rcpin"})
    BY DEF P!Unprotected, P!Undoing, P!At, Undos
  <2>2. ~Making
    BY DEF Making, Bare
  <2>3. PICK d \in DrawnDeks : Standing(d)
    BY <1>1, <2>1, <2>2 DEF DekInv
  <2>4. OneDek(cache, d) /\ Fitting(cache, r) /\ cache.key = d
    BY <2>1, <2>3 DEF Standing, Holding, OneDek
  <2>5. CASE cache.pin[r] = None
    BY <2>4, <2>5 DEF Fitting
  <2>6. CASE cache.pin[r] # None
    BY <1>1, <2>4, <2>6, FittingOpens
  <2> QED BY <2>5, <2>6
<1>3. P!SessionsCurrent
  <2> SUFFICES ASSUME op = P!Idle, cache.key # None, ~hist.torn, hist.faults = 0, NEW a \in ram.has
               PROVE  P!LoadDek(cache, {a}, ram.sess) = cache.key
    BY DEF P!SessionsCurrent
  <2>1. op.pc = "idle"
    BY IdleOp
  <2>2. PICK d \in DrawnDeks : Whole(cache, d) /\ Admitted
    BY <2>1, CalmFacts
  <2>3. a \in P!Accesses
    BY TypesOf DEF RamTypes
  <2>4. OneDek(cache, d) /\ cache.key = d /\ cache.wrap[P!RefOf(a)] # None
        /\ By(cache.wrap[P!RefOf(a)], ram.sess[P!RefOf(a)])
    BY <2>1, <2>2 DEF Whole, OneDek, Admitted
  <2> QED BY <1>1, <2>3, <2>4, LoadsIt
<1>4. P!KdfAgrees
  <2> SUFFICES ASSUME op = P!Idle, ~hist.half PROVE \A r \in P!Refs : cache.pin[r] \in P!Sent \cup {None}
    BY DEF P!KdfAgrees
  <2>1. Agrees(cache)
    BY IdleOp, CalmFacts
  <2> QED BY <2>1 DEF Agrees, SentBy, P!Sent
<1> QED BY <1>2, <1>3, <1>4

\* Whatever write failed where a reference is replaced, cleared, migrated or put back, and wherever the
\* power went, each reference of OpenPGP that is accepted opens the private keys (check_pin, load_dek,
\* pin_txn_recover, openpgp_reset_code_deactivate), on new cards and on cards of an old firmware that
\* have no resetting code. This leaves out the windows in Unprotected, and what follows once a power
\* loss or a failed write hit one of them (torn).
THEOREM PinsOpenKeys == ASSUME OldCodes \subseteq {None} PROVE Spec => []KeysOpen
<1>1. (part = "pin" => PinInv) => KeysOpen
  BY PinProperties DEF KeysOpen
<1> QED BY <1>1, PinPart, PTL

\* Between commands a session key that is kept loads the DEK of the private keys (session_pw1..,
\* load_dek), wherever the power went but in the windows in Unprotected, and as long as no write failed.
\* The references have the form that the KDF object announces to the host, unless a KDF update was cut
\* or its undoing given up (openpgp_kdf_update).
THEOREM SessionsLoadKeys == ASSUME OldCodes \subseteq {None} PROVE Spec => []SessionsCurrent
<1>1. (part = "pin" => PinInv) => SessionsCurrent
  BY PinProperties DEF SessionsCurrent
<1> QED BY <1>1, PinPart, PTL

=============================================================================
